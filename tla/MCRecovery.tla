----------------------------- MODULE MCRecovery -----------------------------
(***************************************************************************)
(* An instance of EtcdRecovery for TLC: one or two members of three, one   *)
(* to four of five are broken, and replaced by as many new hosts.          *)
(***************************************************************************)
EXTENDS EtcdRecovery

CONSTANTS s1, s2, s3, s4, b1, b2, b3, b4, n1, n2, n3, n4

AllMachines == {s1, s2, s3, s4, b1, b2, b3, b4, n1, n2, n3, n4}

Case(s, b, n) == [survivors |-> s, broken |-> b, new |-> n]

Breakdowns ==
    {Case({s1, s2}, {b1}, {n1}), Case({s1}, {b1, b2}, {n1, n2}),
     Case({s1, s2, s3, s4}, {b1}, {n1}), Case({s1, s2, s3}, {b1, b2}, {n1, n2}),
     Case({s1, s2}, {b1, b2, b3}, {n1, n2, n3}), 
     Case({s1}, {b1, b2, b3, b4}, {n1, n2, n3, n4})}
=============================================================================

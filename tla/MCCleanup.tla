----------------------------- MODULE MCCleanup ------------------------------
(***************************************************************************)
(* An instance of OpenstackCleanup for TLC: two CI jobs, in projects       *)
(* of two kinds.                                                           *)
(***************************************************************************)
EXTENDS OpenstackCleanup, TLC

CONSTANTS j1, j2

TwoJobs == {j1, j2}

(* Neither security groups nor floating IPs, and both as in the CI jobs.   *)
Projects == {<<FALSE, FALSE>>, <<TRUE, TRUE>>}
=============================================================================

-------------------------- MODULE InventoryProofs --------------------------
(***************************************************************************)
(* Proofs about Inventory: all its properties, for any machines, requests, *)
(* documents and thresholds.                                               *)
(*                                                                         *)
(* The lists of the module are recursive functions.  For each of them, a   *)
(* lemma (...Recursion) gives its values step by step as a typed function: *)
(* Iteration makes one, and IndexInduction shows that it is the one that   *)
(* CHOOSE takes.                                                           *)
(***************************************************************************)
EXTENDS Inventory, Induction, FunctionTheorems, FiniteSetTheorems

-----------------------------------------------------------------------------
(* Only. *)

(* f: what Only has found after each host.                                 *)
OnlySteps(f, X, hs, names) ==
    /\ f \in [0 .. Len(hs) -> Seq(X)]
    /\ Only(hs, names) = f[Len(hs)]
    /\ f[0] = <<>>
    /\ \A i \in 1 .. Len(hs) :
          f[i] = IF hs[i].name \in names THEN Append(f[i - 1], hs[i]) ELSE f[i - 1]

LEMMA OnlyRecursion ==
    ASSUME NEW X, NEW hs \in Seq(X), NEW names
    PROVE  \E f : OnlySteps(f, X, hs, names)
<1> DEFINE n == Len(hs)
           Step(f, i) == IF i = 0 THEN <<>>
                         ELSE IF hs[i].name \in names THEN Append(f[i - 1], hs[i])
                         ELSE f[i - 1]
           upTo == CHOOSE f : f = [i \in 0 .. n |-> Step(f, i)]
           D == [i \in 1 .. n |->
                    [v \in Seq(X) |->
                        IF hs[i].name \in names THEN Append(v, hs[i]) ELSE v]]
           T == Seq(X)
           c == <<>>
<1>1. PICK f \in [0 .. n -> Seq(X)] :
         f[0] = <<>> /\ \A i \in 1 .. n : f[i] = D[i][f[i - 1]]
  <2>1. D \in [1 .. n -> [T -> T]] /\ n \in Nat /\ c \in T
    OBVIOUS
  <2>2. \E f : Iterates(f, n, T, c, D)
    <3> HIDE DEF D, n, T, c
    <3>1. QED
      BY <2>1, Iteration
  <2>3. QED
    BY <2>2 DEF Iterates
<1>2. ASSUME NEW i \in 1 .. n
      PROVE  f[i] = IF hs[i].name \in names THEN Append(f[i - 1], hs[i]) ELSE f[i - 1]
  <2>1. f[i - 1] \in Seq(X)
    <3>1. i - 1 \in 0 .. n
      OBVIOUS
    <3> HIDE DEF D, n
    <3>2. QED
      BY <1>1, <3>1
  <2>2. f[i] = D[i][f[i - 1]]
    <3> HIDE DEF D, n
    <3>1. QED
      BY <1>1
  <2> HIDE DEF n
  <2>3. QED
    BY <2>1, <2>2
<1>3. f = [i \in 0 .. n |-> Step(f, i)]
  <2>1. ASSUME NEW i \in 0 .. n PROVE f[i] = Step(f, i)
    <3>1. CASE i = 0
      BY <1>1, <3>1
    <3>2. CASE i # 0
      <4>1. i \in 1 .. n
        BY <3>2
      <4>2. f[i] = IF hs[i].name \in names THEN Append(f[i - 1], hs[i]) ELSE f[i - 1]
        BY <1>2, <4>1
      <4>3. QED
        BY <3>2, <4>2
    <3>3. QED
      BY <3>1, <3>2
  <2> HIDE DEF Step, n
  <2>2. QED
    BY <1>1, <2>1
<1>4. upTo = [i \in 0 .. n |-> Step(upTo, i)]
  <2> HIDE DEF Step, n
  <2>1. QED
    BY <1>3
<1>5. Only(hs, names) = upTo[n]
  BY DEF Only
<1> HIDE DEF upTo
<1>6. \A i \in 0 .. n : upTo[i] = Step(upTo, i)
  <2> HIDE DEF Step, n
  <2>1. QED
    BY <1>4
<1>7. upTo[0] = <<>> 
  BY <1>6
<1>8. ASSUME NEW i \in 1 .. n
      PROVE  upTo[i] = IF hs[i].name \in names THEN Append(upTo[i - 1], hs[i])
                       ELSE upTo[i - 1]
  <2>1. upTo[i] = Step(upTo, i)
    BY <1>6
  <2>2. QED
    BY <2>1
<1>9. \A i \in 0 .. n : upTo[i] = f[i]
  <2> DEFINE S == {i \in 0 .. n : upTo[i] = f[i]}
  <2>1. 0 \in S
    BY <1>1, <1>7
  <2>2. ASSUME NEW i \in 1 .. n, i - 1 \in S  PROVE i \in S
    BY <1>2, <1>8, <2>2
  <2>3. 0 .. n \subseteq S
    <3> HIDE DEF S
    <3>1. n \in Nat
      OBVIOUS
    <3> HIDE DEF n
    <3>2. QED
      BY <2>1, <2>2, <3>1, IndexInduction
  <2>4. QED
    BY <2>3
<1>10. QED
  <2>1. Only(hs, names) = f[n]
    BY <1>5, <1>9
  <2>2. OnlySteps(f, X, hs, names)
    BY <1>1, <1>2, <2>1 DEF OnlySteps
  <2>3. QED
    BY <2>2

(* p: where the entries of part are in whole, the first k of it, if it is  *)
(* those that are called one of names.                                     *)
Embeds(p, part, whole, k, names) ==
    /\ p \in [1 .. Len(part) -> 1 .. k]
    /\ \A i, j \in 1 .. Len(part) : i < j => p[i] < p[j]
    /\ \A i \in 1 .. Len(part) : part[i] = whole[p[i]] /\ whole[p[i]].name \in names
    /\ \A j \in 1 .. k : whole[j].name \in names => \E i \in 1 .. Len(part) : p[i] = j

LEMMA EmbedsMore ==
    ASSUME NEW X, NEW hs \in Seq(X), NEW names, NEW part \in Seq(X),
           NEW k \in 1 .. Len(hs), NEW p, Embeds(p, part, hs, k - 1, names),
           NEW more, more = IF hs[k].name \in names THEN Append(part, hs[k]) ELSE part
    PROVE  \E q : Embeds(q, more, hs, k, names)
<1> DEFINE n == Len(part)
<1>1. /\ n \in Nat
      /\ p \in [1 .. n -> 1 .. k - 1]
      /\ \A i, j \in 1 .. n : i < j => p[i] < p[j]
      /\ \A i \in 1 .. n : part[i] = hs[p[i]] /\ hs[p[i]].name \in names
      /\ \A j \in 1 .. k - 1 : hs[j].name \in names => \E i \in 1 .. n : p[i] = j
  BY DEF Embeds
<1>2. CASE hs[k].name \in names
  <2> DEFINE q == [i \in 1 .. n + 1 |-> IF i = n + 1 THEN k ELSE p[i]]
  <2>1. /\ Len(more) = n + 1 /\ more[n + 1] = hs[k]
        /\ \A i \in 1 .. n : more[i] = part[i]
    <3>1. more = Append(part, hs[k]) /\ hs[k] \in X
      BY <1>2
    <3>2. QED
      BY <3>1
  <2> HIDE DEF n
  <2>2. q[n + 1] = k /\ \A i \in 1 .. n : q[i] = p[i]
    BY <1>1
  <2>3. q \in [1 .. n + 1 -> 1 .. k]
    <3>1. ASSUME NEW i \in 1 .. n + 1 PROVE q[i] \in 1 .. k
      <4>1. i = n + 1 \/ i \in 1 .. n
        BY <1>1
      <4>2. k \in 1 .. k
        OBVIOUS
      <4>3. ASSUME i \in 1 .. n PROVE q[i] \in 1 .. k
        <5>1. p[i] \in 1 .. k - 1
          BY <1>1, <4>3
        <5>2. QED
          BY <5>1, <2>2, <4>3
      <4>4. QED
        BY <4>1, <4>2, <4>3, <2>2
    <3>2. QED
      BY <3>1
  <2> HIDE DEF q
  <2>4. ASSUME NEW i \in 1 .. n + 1, NEW j \in 1 .. n + 1, i < j PROVE q[i] < q[j]
    <3>1. i \in 1 .. n /\ q[i] = p[i] /\ p[i] \in 1 .. k - 1
      BY <1>1, <2>2, <2>4
    <3>2. CASE j = n + 1
      BY <2>2, <3>1, <3>2
    <3>3. CASE j \in 1 .. n
      BY <1>1, <2>2, <2>4, <3>1, <3>3
    <3>4. QED
      BY <1>1, <3>2, <3>3
  <2>5. ASSUME NEW i \in 1 .. n + 1 PROVE more[i] = hs[q[i]] /\ hs[q[i]].name \in names
    <3>1. CASE i = n + 1
      BY <1>2, <2>1, <2>2, <3>1
    <3>2. CASE i \in 1 .. n
      BY <1>1, <2>1, <2>2, <3>2
    <3>3. i = n + 1 \/ i \in 1 .. n
      BY <1>1
    <3>4. QED
      BY <3>1, <3>2, <3>3
  <2>6. ASSUME NEW j \in 1 .. k, hs[j].name \in names
        PROVE  \E i \in 1 .. n + 1 : q[i] = j
    <3>1. CASE j = k
      BY <1>1, <2>2, <3>1
    <3>2. CASE j \in 1 .. k - 1
      <4>1. PICK i \in 1 .. n : p[i] = j
        BY <1>1, <2>6, <3>2
      <4>2. i \in 1 .. n + 1 /\ q[i] = j
        BY <1>1, <2>2, <4>1
      <4>3. QED
        BY <4>2
    <3>3. QED
      BY <3>1, <3>2
  <2>7. Embeds(q, more, hs, k, names)
    BY <2>1, <2>3, <2>4, <2>5, <2>6 DEF Embeds
  <2>8. QED
    BY <2>7
<1>3. CASE hs[k].name \notin names
  <2>1. more = part
    BY <1>3
  <2>2. p \in [1 .. n -> 1 .. k]
    <3>1. 1 .. k - 1 \subseteq 1 .. k
      OBVIOUS
    <3> HIDE DEF n
    <3>2. QED
      BY <1>1, <3>1
  <2>3. \A j \in 1 .. k : hs[j].name \in names => j \in 1 .. k - 1
    BY <1>3
  <2>4. Embeds(p, more, hs, k, names)
    BY <1>1, <2>1, <2>2, <2>3 DEF Embeds
  <2>5. QED
    BY <2>4
<1>4. QED
  BY <1>2, <1>3

LEMMA OnlyEmbeds ==
    ASSUME NEW X, NEW hs \in Seq(X), NEW names
    PROVE  /\ Only(hs, names) \in Seq(X)
           /\ \E p : Embeds(p, Only(hs, names), hs, Len(hs), names)
<1> DEFINE n == Len(hs)
<1>0. PICK f : OnlySteps(f, X, hs, names)
  BY OnlyRecursion
<1>1. /\ f \in [0 .. n -> Seq(X)]
      /\ Only(hs, names) = f[n]
      /\ f[0] = <<>>
      /\ \A i \in 1 .. n :
            f[i] = IF hs[i].name \in names THEN Append(f[i - 1], hs[i]) ELSE f[i - 1]
  BY <1>0 DEF OnlySteps
<1>2. n \in Nat
  OBVIOUS
<1> HIDE DEF n
<1> DEFINE S == {i \in 0 .. n : \E p : Embeds(p, f[i], hs, i, names)}
<1>3. 0 \in S
  <2>1. Embeds(<<>>, f[0], hs, 0, names)
    BY <1>1 DEF Embeds
  <2>2. QED
    BY <1>2, <2>1
<1>4. ASSUME NEW i \in 1 .. n, i - 1 \in S PROVE i \in S
  <2>1. PICK p : Embeds(p, f[i - 1], hs, i - 1, names)
    BY <1>4
  <2>2. f[i - 1] \in Seq(X) /\ i \in 1 .. Len(hs)
    <3>1. i - 1 \in 0 .. n
      BY <1>2
    <3>2. i \in 1 .. Len(hs)
      BY DEF n
    <3>3. QED
      BY <1>1, <3>1, <3>2
  <2>3. f[i] = IF hs[i].name \in names THEN Append(f[i - 1], hs[i]) ELSE f[i - 1]
    BY <1>1
  <2>4. \E q : Embeds(q, f[i], hs, i, names)
    BY <2>1, <2>2, <2>3, EmbedsMore
  <2>5. QED
    BY <2>4
<1>5. 0 .. n \subseteq S
  <2> HIDE DEF S
  <2>1. QED
    BY <1>2, <1>3, <1>4, IndexInduction
<1>6. n \in S
  BY <1>2, <1>5
<1>7. QED
  BY <1>1, <1>2, <1>6 DEF n

-----------------------------------------------------------------------------
(* Lists of hosts. *)

Distinct(hs) == \A i, j \in DOMAIN hs : hs[i].name = hs[j].name => i = j

(* Every entry of a is one of b.                                           *)
Within(a, b) == \A i \in DOMAIN a : \E j \in DOMAIN b : a[i] = b[j]

LEMMA WithinNames ==
    ASSUME NEW a, NEW b, Within(a, b)
    PROVE  NamesOf(a) \subseteq NamesOf(b) /\ IPsOf(a) \subseteq IPsOf(b)
BY DEF Within, NamesOf, IPsOf

(* Some of the hosts of b, each once: they have addresses as in b.         *)
LEMMA WithinAddresses ==
    ASSUME NEW a, NEW b, Within(a, b), Distinct(a), OneAddressEach(b)
    PROVE  OneAddressEach(a)
<1>1. ASSUME NEW i \in DOMAIN a, NEW j \in DOMAIN a
      PROVE  a[i].ip # NoIP /\ (a[i].ip = a[j].ip => i = j)
  <2>1. PICK k \in DOMAIN b : a[i] = b[k]
    BY DEF Within
  <2>2. PICK l \in DOMAIN b : a[j] = b[l]
    BY DEF Within
  <2>3. a[i].ip # NoIP /\ (a[i].ip = a[j].ip => a[i] = a[j])
    BY <2>1, <2>2 DEF OneAddressEach
  <2>4. a[i] = a[j] => i = j
    BY DEF Distinct
  <2>5. QED
    BY <2>3, <2>4
<1>2. QED
  BY <1>1 DEF OneAddressEach

LEMMA OnlyFacts ==
    ASSUME NEW X, NEW hs \in Seq(X), NEW names
    PROVE  /\ Only(hs, names) \in Seq(X)
           /\ Within(Only(hs, names), hs)
           /\ NamesOf(Only(hs, names)) = NamesOf(hs) \cap names
           /\ \A j \in DOMAIN hs : hs[j].name \in names =>
                  \E i \in DOMAIN Only(hs, names) : Only(hs, names)[i] = hs[j]
           /\ Distinct(hs) => Distinct(Only(hs, names))
<1> DEFINE part == Only(hs, names)
           n == Len(part)
<1>1. part \in Seq(X) /\ \E p : Embeds(p, part, hs, Len(hs), names)
  BY OnlyEmbeds
<1> HIDE DEF part
<1>2. PICK p : Embeds(p, part, hs, Len(hs), names)
  BY <1>1
<1>3. DOMAIN part = 1 .. n /\ DOMAIN hs = 1 .. Len(hs) /\ n \in Nat
  BY <1>1
<1> HIDE DEF n
<1>4. /\ \A i \in DOMAIN part : p[i] \in DOMAIN hs
      /\ \A i \in DOMAIN part : part[i] = hs[p[i]] /\ hs[p[i]].name \in names
      /\ \A j \in DOMAIN hs : hs[j].name \in names => \E i \in DOMAIN part : p[i] = j
  BY <1>2, <1>3 DEF Embeds, n
<1>5. \A i, j \in DOMAIN part : p[i] = p[j] => i = j
  <2>1. \A i, j \in 1 .. n : i < j => p[i] < p[j]
    BY <1>2 DEF Embeds, n
  <2>2. \A i \in 1 .. n : p[i] \in Nat
    BY <1>3, <1>4
  <2>3. \A i, j \in 1 .. n : i = j \/ i < j \/ j < i
    BY <1>3
  <2>4. ASSUME NEW i \in 1 .. n, NEW j \in 1 .. n, p[i] = p[j] PROVE i = j
    <3>1. ~ (p[i] < p[j]) /\ ~ (p[j] < p[i])
      BY <2>2, <2>4
    <3>2. QED
      BY <2>1, <2>3, <3>1
  <2>5. QED
    BY <1>3, <2>4
<1>6. Within(part, hs)
  BY <1>4 DEF Within
<1>7. \A j \in DOMAIN hs : hs[j].name \in names => \E i \in DOMAIN part : part[i] = hs[j]
  BY <1>4
<1>8. NamesOf(part) = NamesOf(hs) \cap names
  <2>1. NamesOf(part) \subseteq NamesOf(hs) \cap names
    BY <1>4 DEF NamesOf
  <2>2. NamesOf(hs) \cap names \subseteq NamesOf(part)
    BY <1>7 DEF NamesOf
  <2>3. QED
    BY <2>1, <2>2
<1>9. Distinct(hs) => Distinct(part)
  BY <1>4, <1>5 DEF Distinct
<1>10. QED
  BY <1>1, <1>6, <1>7, <1>8, <1>9 DEF part

LEMMA FirstNamesCount ==
    ASSUME NEW X, NEW hs \in Seq(X), Distinct(hs), NEW k \in 0 .. Len(hs)
    PROVE  /\ IsFiniteSet(FirstNames(hs, k))
           /\ Cardinality(FirstNames(hs, k)) = k
<1> DEFINE T == FirstNames(hs, k)
           f == [i \in 1 .. k |-> hs[i].name]
<1>1. Len(hs) \in Nat /\ DOMAIN hs = 1 .. Len(hs) /\ k \in Nat
  OBVIOUS
<1>2. (1 .. k) \cap DOMAIN hs = 1 .. k
  BY <1>1
<1>3. T = {hs[i].name : i \in 1 .. k}
  BY <1>2 DEF FirstNames, Slice
<1>4. f \in Bijection(1 .. k, T)
  <2>1. f \in [1 .. k -> T]
    BY <1>3
  <2>2. \A i, j \in 1 .. k : f[i] = f[j] => i = j
    BY <1>2 DEF Distinct
  <2>3. \A t \in T : \E i \in 1 .. k : f[i] = t
    BY <1>3
  <2> HIDE DEF f, T
  <2>4. QED
    BY <2>1, <2>2, <2>3, Fun_IsBij
<1>5. IsFiniteSet(1 .. k) /\ Cardinality(1 .. k) = k
  BY <1>1, FS_Interval
<1>6. ExistsBijection(1 .. k, T)
  BY <1>4 DEF ExistsBijection
<1>7. QED
  <2> HIDE DEF T
  <2>1. IsFiniteSet(T) /\ Cardinality(T) = Cardinality(1 .. k)
    BY <1>5, <1>6, FS_Bijection
  <2>2. QED
    BY <1>5, <2>1 DEF T

LEMMA NamesCount ==
    ASSUME NEW X, NEW hs \in Seq(X), Distinct(hs)
    PROVE  IsFiniteSet(NamesOf(hs)) /\ Cardinality(NamesOf(hs)) = Len(hs)
<1>1. Len(hs) \in 0 .. Len(hs) /\ DOMAIN hs = 1 .. Len(hs)
  OBVIOUS
<1>2. NamesOf(hs) = FirstNames(hs, Len(hs))
  BY <1>1 DEF NamesOf, FirstNames, Slice
<1>3. QED
  BY <1>1, <1>2, FirstNamesCount

(* s is a, and then b.                                                     *)
Joins(s, a, b) ==
    /\ DOMAIN s = 1 .. Len(a) + Len(b)
    /\ \A i \in 1 .. Len(a) : s[i] = a[i]
    /\ \A i \in 1 .. Len(b) : s[Len(a) + i] = b[i]

LEMMA ConcatJoins ==
    ASSUME NEW X, NEW a \in Seq(X), NEW b \in Seq(X)
    PROVE  Joins(a \o b, a, b)
<1> DEFINE m == Len(a)
           n == Len(b)
           s == a \o b
<1>1. /\ DOMAIN s = 1 .. m + n
      /\ \A i \in 1 .. m : s[i] = a[i]
      /\ \A i \in 1 .. n : s[m + i] = b[i]
  OBVIOUS
<1>2. QED
  BY <1>1 DEF Joins

LEMMA Concat ==
    ASSUME NEW X, NEW a \in Seq(X), NEW b \in Seq(X)
    PROVE  /\ a \o b \in Seq(X)
           /\ Within(a, a \o b) /\ Within(b, a \o b)
           /\ NamesOf(a \o b) = NamesOf(a) \cup NamesOf(b)
           /\ \A c : Within(a, c) /\ Within(b, c) => Within(a \o b, c)
<1> DEFINE m == Len(a)
           n == Len(b)
           s == a \o b
<1>1. /\ s \in Seq(X) /\ m \in Nat /\ n \in Nat
      /\ DOMAIN a = 1 .. m /\ DOMAIN b = 1 .. n /\ DOMAIN s = 1 .. m + n
      /\ \A i \in 1 .. m : s[i] = a[i]
      /\ \A i \in 1 .. n : s[m + i] = b[i]
  OBVIOUS
<1> HIDE DEF m, n, s
<1>2. Within(a, s)
  <2>1. \A i \in 1 .. m : i \in 1 .. m + n
    BY <1>1
  <2>2. QED
    BY <1>1, <2>1 DEF Within
<1>3. Within(b, s)
  <2>1. \A i \in 1 .. n : m + i \in 1 .. m + n
    BY <1>1
  <2>2. QED
    BY <1>1, <2>1 DEF Within
<1>4. \A i \in DOMAIN s : (i \in DOMAIN a /\ s[i] = a[i]) \/ \E j \in DOMAIN b : s[i] = b[j]
  <2>1. SUFFICES ASSUME NEW i \in 1 .. m + n, i \notin 1 .. m
                 PROVE  \E j \in 1 .. n : s[i] = b[j]
    BY <1>1
  <2>2. i - m \in 1 .. n /\ m + (i - m) = i
    BY <1>1, <2>1
  <2>3. QED
    BY <1>1, <2>2
<1>5. \A c : Within(a, c) /\ Within(b, c) => Within(s, c)
  <2>1. SUFFICES ASSUME NEW c, Within(a, c), Within(b, c), NEW i \in DOMAIN s
                 PROVE  \E j \in DOMAIN c : s[i] = c[j]
    BY DEF Within
  <2>2. CASE i \in DOMAIN a /\ s[i] = a[i]
    BY <2>1, <2>2 DEF Within
  <2>3. CASE \E j \in DOMAIN b : s[i] = b[j]
    <3>1. PICK j \in DOMAIN b : s[i] = b[j]
      BY <2>3
    <3>2. QED
      BY <2>1, <3>1 DEF Within
  <2>4. QED
    BY <1>4, <2>2, <2>3
<1>6. NamesOf(s) = NamesOf(a) \cup NamesOf(b)
  <2>1. NamesOf(a) \cup NamesOf(b) \subseteq NamesOf(s)
    BY <1>2, <1>3, WithinNames
  <2>2. NamesOf(s) \subseteq NamesOf(a) \cup NamesOf(b)
    BY <1>4 DEF NamesOf
  <2>3. QED
    BY <2>1, <2>2
<1>7. QED
  BY <1>1, <1>2, <1>3, <1>5, <1>6 DEF s

LEMMA ConcatDistinct ==
    ASSUME NEW X, NEW a \in Seq(X), NEW b \in Seq(X),
           Distinct(a), Distinct(b), NamesOf(a) \cap NamesOf(b) = {}
    PROVE  Distinct(a \o b)
<1> DEFINE m == Len(a)
           n == Len(b)
           s == a \o b
<1>1. /\ m \in Nat /\ n \in Nat
      /\ DOMAIN a = 1 .. m /\ DOMAIN b = 1 .. n /\ DOMAIN s = 1 .. m + n
      /\ \A i \in 1 .. m : s[i] = a[i]
      /\ \A i \in 1 .. n : s[m + i] = b[i]
  OBVIOUS
<1> HIDE DEF m, n, s
<1>2. \A i \in DOMAIN a, j \in DOMAIN b : a[i].name # b[j].name
  BY DEF NamesOf
<1>3. ASSUME NEW i \in 1 .. m + n
      PROVE  \/ i \in 1 .. m /\ s[i] = a[i]
             \/ i - m \in 1 .. n /\ s[i] = b[i - m]
  <2>1. CASE i \in 1 .. m
    BY <1>1, <2>1
  <2>2. CASE i \notin 1 .. m
    <3>1. i - m \in 1 .. n /\ m + (i - m) = i
      BY <1>1, <2>2
    <3>2. s[m + (i - m)] = b[i - m]
      BY <1>1, <3>1
    <3>3. QED
      BY <3>1, <3>2
  <2>3. QED
    BY <2>1, <2>2
<1>4. ASSUME NEW i \in 1 .. m + n, NEW j \in 1 .. m + n, s[i].name = s[j].name
      PROVE  i = j
  <2>1. CASE i \in 1 .. m /\ s[i] = a[i]
    <3>1. CASE j \in 1 .. m /\ s[j] = a[j]
      BY <1>1, <1>4, <2>1, <3>1 DEF Distinct
    <3>2. CASE j - m \in 1 .. n /\ s[j] = b[j - m]
      BY <1>1, <1>2, <1>4, <2>1, <3>2
    <3>3. QED
      BY <1>3, <3>1, <3>2
  <2>2. CASE i - m \in 1 .. n /\ s[i] = b[i - m]
    <3>1. CASE j \in 1 .. m /\ s[j] = a[j]
      BY <1>1, <1>2, <1>4, <2>2, <3>1
    <3>2. CASE j - m \in 1 .. n /\ s[j] = b[j - m]
      <4>1. i - m = j - m
        BY <1>1, <1>4, <2>2, <3>2 DEF Distinct
      <4>2. i \in Nat /\ j \in Nat
        BY <1>1
      <4>3. QED
        BY <1>1, <4>1, <4>2
    <3>3. QED
      BY <1>3, <3>1, <3>2
  <2>3. QED
    BY <1>3, <2>1, <2>2
<1>5. Distinct(s)
  BY <1>1, <1>4 DEF Distinct
<1>6. QED
  BY <1>5 DEF s

(* The file gets the hosts of new, each of them once.                      *)
LEMMA InFileFacts ==
    ASSUME NEW X, NEW Y, NEW old \in Seq(Y), NEW new \in Seq(X),
           Distinct(old), Distinct(new)
    PROVE  /\ InFile(old, new) \in Seq(X)
           /\ Distinct(InFile(old, new))
           /\ Within(InFile(old, new), new) /\ Within(new, InFile(old, new))
<1> DEFINE PlaceOf(n) == CHOOSE i \in DOMAIN new : new[i].name = n
           kept == Only(old, NamesOf(new))
           a == [i \in DOMAIN kept |-> new[PlaceOf(kept[i].name)]]
           b == Only(new, NamesOf(new) \ NamesOf(old))
<1>1. InFile(old, new) = a \o b
  BY DEF InFile
<1>2. /\ kept \in Seq(Y) /\ Distinct(kept)
      /\ NamesOf(kept) = NamesOf(old) \cap NamesOf(new)
  BY OnlyFacts
<1>3. /\ b \in Seq(X) /\ Distinct(b) /\ Within(b, new)
      /\ NamesOf(b) = NamesOf(new) \cap (NamesOf(new) \ NamesOf(old))
      /\ \A j \in DOMAIN new : new[j].name \in NamesOf(new) \ NamesOf(old) =>
            \E i \in DOMAIN b : b[i] = new[j]
  <2> DEFINE added == NamesOf(new) \ NamesOf(old)
  <2>1. b = Only(new, added)
    OBVIOUS
  <2> HIDE DEF added, b
  <2>2. /\ b \in Seq(X) /\ Distinct(b) /\ Within(b, new)
        /\ NamesOf(b) = NamesOf(new) \cap added
        /\ \A j \in DOMAIN new : new[j].name \in added =>
              \E i \in DOMAIN b : b[i] = new[j]
    BY <2>1, OnlyFacts
  <2>3. QED
    BY <2>2 DEF added
<1> HIDE DEF kept, b
<1>4. ASSUME NEW n \in NamesOf(new)
      PROVE  PlaceOf(n) \in DOMAIN new /\ new[PlaceOf(n)].name = n
  <2>1. \E i \in DOMAIN new : new[i].name = n
    BY DEF NamesOf
  <2>2. QED
    BY <2>1
<1> HIDE DEF PlaceOf
<1>5. \A i \in DOMAIN kept : kept[i].name \in NamesOf(new)
  BY <1>2 DEF NamesOf
<1>6. /\ DOMAIN a = DOMAIN kept
      /\ \A i \in DOMAIN kept : /\ a[i] = new[PlaceOf(kept[i].name)]
                                /\ PlaceOf(kept[i].name) \in DOMAIN new
                                /\ a[i].name = kept[i].name
  BY <1>4, <1>5
<1>7. a \in Seq(X)
  <2>1. DOMAIN kept = 1 .. Len(kept) /\ Len(kept) \in Nat
    BY <1>2
  <2>2. \A j \in DOMAIN new : new[j] \in X
    OBVIOUS
  <2>3. a \in [1 .. Len(kept) -> X]
    BY <1>6, <2>1, <2>2
  <2> HIDE DEF a
  <2>4. QED
    BY <2>1, <2>3
<1> HIDE DEF a
<1>8. Within(a, new)
  BY <1>6 DEF Within
<1>9. Distinct(a)
  BY <1>2, <1>6 DEF Distinct
<1>10. NamesOf(a) = NamesOf(old) \cap NamesOf(new)
  <2>1. NamesOf(a) = NamesOf(kept)
    BY <1>6 DEF NamesOf
  <2>2. QED
    BY <1>2, <2>1
<1>11. NamesOf(a) \cap NamesOf(b) = {}
  BY <1>3, <1>10
<1>12. Distinct(a \o b)
  BY <1>3, <1>7, <1>9, <1>11, ConcatDistinct
<1>13. /\ a \o b \in Seq(X) /\ Within(a \o b, new)
       /\ Within(a, a \o b) /\ Within(b, a \o b)
  BY <1>3, <1>7, <1>8, Concat
<1>14. Within(new, a \o b)
  <2>1. SUFFICES ASSUME NEW j \in DOMAIN new
                 PROVE  \/ \E i \in DOMAIN a : a[i] = new[j]
                        \/ \E i \in DOMAIN b : b[i] = new[j]
    <3>1. SUFFICES ASSUME NEW j \in DOMAIN new
                   PROVE  \E k \in DOMAIN (a \o b) : new[j] = (a \o b)[k]
      BY DEF Within
    <3>2. \/ \E i \in DOMAIN a : a[i] = new[j]
          \/ \E i \in DOMAIN b : b[i] = new[j]
      BY <2>1
    <3>3. CASE \E i \in DOMAIN a : a[i] = new[j]
      <4>1. PICK i \in DOMAIN a : a[i] = new[j]
        BY <3>3
      <4>2. QED
        BY <1>13, <4>1 DEF Within
    <3>4. CASE \E i \in DOMAIN b : b[i] = new[j]
      <4>1. PICK i \in DOMAIN b : b[i] = new[j]
        BY <3>4
      <4>2. QED
        BY <1>13, <4>1 DEF Within
    <3>5. QED
      BY <3>2, <3>3, <3>4
  <2>2. new[j].name \in NamesOf(new)
    BY DEF NamesOf
  <2>3. CASE new[j].name \in NamesOf(old)
    <3>1. PICK i \in DOMAIN a : a[i].name = new[j].name
      BY <1>10, <2>2, <2>3 DEF NamesOf
    <3>2. PICK k \in DOMAIN new : a[i] = new[k]
      BY <1>8 DEF Within
    <3>3. k = j
      BY <3>1, <3>2 DEF Distinct
    <3>4. QED
      BY <3>2, <3>3
  <2>4. CASE new[j].name \notin NamesOf(old)
    BY <1>3, <2>2, <2>4
  <2>5. QED
    BY <2>3, <2>4
<1>15. QED
  BY <1>1, <1>12, <1>13, <1>14

-----------------------------------------------------------------------------
(* build_hostnames. *)

LEMMA NextIdFacts ==
    ASSUME NEW hs, NamesOf(hs) \subseteq Nat
    PROVE  /\ NextId(hs) \in Nat \ {0}
           /\ \A n \in NamesOf(hs) : n < NextId(hs) \/ n > MaxId
<1> DEFINE S == {0} \cup {n \in NamesOf(hs) : n <= MaxId}
           Above == {n \in Nat : \A x \in S : n >= x}
<1>1. MaxId \in Above /\ Above \subseteq Nat /\ S \subseteq Nat
  BY NamesAssumption
<1>2. \E m \in S : \A x \in S : m >= x
  <2>1. PICK m \in Above : \A n \in Above : <<n, m>> \notin Below
    <3>1. IsWellFoundedOn(Below, Nat)
      BY NatLessThanWellFounded DEF Below
    <3> HIDE DEF Above
    <3>2. QED
      BY <1>1, <3>1, WFMin
  <2>2. ASSUME NEW n \in Above PROVE n >= m
    <3>1. n \in Nat /\ m \in Nat
      OBVIOUS
    <3>2. <<n, m>> \notin Below
      BY <2>1
    <3>3. ~ (n < m)
      BY <3>1, <3>2, BelowIsLess
    <3>4. QED
      BY <3>1, <3>3
  <2>3. m \in S
    <3>1. SUFFICES ASSUME m \notin S PROVE FALSE
      OBVIOUS
    <3>2. m \in Nat /\ m # 0 /\ \A x \in S : m >= x /\ m # x
      BY <1>1, <3>1
    <3>3. m - 1 \in Nat /\ \A x \in S : m - 1 >= x
      BY <1>1, <3>2
    <3>4. m - 1 \in Above
      BY <3>3
    <3>5. m - 1 >= m
      BY <2>2, <3>4
    <3>6. QED
      BY <3>2, <3>5
  <2>4. \A x \in S : m >= x
    BY <2>1
  <2>5. QED
    BY <2>3, <2>4
<1>3. Max(S) \in S /\ \A x \in S : Max(S) >= x
  BY <1>2 DEF Max
<1>4. NextId(hs) = 1 + Max(S)
  BY DEF NextId
<1>5. \A n \in NamesOf(hs) : n <= MaxId => n \in S
  OBVIOUS
<1> HIDE DEF S
<1>6. Max(S) \in Nat
  BY <1>1, <1>3
<1>7. ASSUME NEW n \in NamesOf(hs) PROVE n < NextId(hs) \/ n > MaxId
  BY <1>3, <1>4, <1>5, <1>6, NamesAssumption
<1>8. QED
  BY <1>4, <1>6, <1>7

(* The places of the hosts of old, and their names, are those of hs.       *)
Extends(hs, old) ==
    \A i \in DOMAIN old : i \in DOMAIN hs /\ hs[i].name = old[i].name

LEMMA PutHostFacts ==
    ASSUME NEW X, NEW hs \in Seq(X), NEW n, NEW a, [name |-> n, ip |-> a] \in X
    PROVE  /\ PutHost(hs, n, a) \in Seq(X)
           /\ NamesOf(PutHost(hs, n, a)) = NamesOf(hs) \cup {n}
           /\ a \in IPsOf(PutHost(hs, n, a))
           /\ Extends(PutHost(hs, n, a), hs)
           /\ n \notin NamesOf(hs) => IPsOf(hs) \subseteq IPsOf(PutHost(hs, n, a))
           /\ Distinct(hs) => Distinct(PutHost(hs, n, a))
           /\ Distinct(hs) /\ OneAddressEach(hs) /\ a \notin IPsOf(hs) \cup {NoIP} =>
                 OneAddressEach(PutHost(hs, n, a))
<1> DEFINE h == [name |-> n, ip |-> a]
           s == PutHost(hs, n, a)
           m == Len(hs)
<1>1. h.name = n /\ h.ip = a /\ h \in X
  OBVIOUS
<1>2. DOMAIN hs = 1 .. m /\ m \in Nat /\ \A i \in 1 .. m : hs[i] \in X
  OBVIOUS
<1>3. CASE n \in NamesOf(hs)
  <2>1. s = [i \in DOMAIN hs |-> IF hs[i].name = n THEN h ELSE hs[i]]
    BY <1>3 DEF PutHost
  <2> HIDE DEF h, s
  <2>2. /\ DOMAIN s = DOMAIN hs
        /\ \A i \in DOMAIN hs : s[i] = IF hs[i].name = n THEN h ELSE hs[i]
    BY <2>1
  <2>3. s \in Seq(X)
    <3>1. s \in [1 .. m -> X]
      BY <1>1, <1>2, <2>1
    <3> HIDE DEF m
    <3>2. QED
      BY <1>2, <3>1
  <2>4. \A i \in DOMAIN hs : s[i].name = hs[i].name
    BY <1>1, <2>2
  <2>5. PICK k \in DOMAIN hs : hs[k].name = n
    BY <1>3 DEF NamesOf
  <2>6. a \in IPsOf(s)
    BY <1>1, <2>2, <2>5 DEF IPsOf
  <2>7. NamesOf(s) = NamesOf(hs) \cup {n}
    BY <1>3, <2>2, <2>4 DEF NamesOf
  <2>8. Extends(s, hs)
    BY <2>2, <2>4 DEF Extends
  <2>9. Distinct(hs) => Distinct(s)
    BY <2>2, <2>4 DEF Distinct
  <2>10. ASSUME Distinct(hs), OneAddressEach(hs), a \notin IPsOf(hs) \cup {NoIP}
         PROVE  OneAddressEach(s)
    <3>1. ASSUME NEW i \in DOMAIN hs, NEW j \in DOMAIN hs
          PROVE  s[i].ip # NoIP /\ (s[i].ip = s[j].ip => i = j)
      <4>1. /\ hs[i].ip # a /\ hs[j].ip # a /\ hs[i].ip # NoIP
            /\ hs[i].ip = hs[j].ip \/ hs[i].name = hs[j].name => i = j
        BY <2>10 DEF IPsOf, OneAddressEach, Distinct
      <4>2. QED
        BY <1>1, <2>2, <2>10, <4>1
    <3>2. QED
      BY <2>2, <3>1 DEF OneAddressEach
  <2>11. QED
    BY <1>3, <2>3, <2>6, <2>7, <2>8, <2>9, <2>10 DEF s
<1>4. CASE n \notin NamesOf(hs)
  <2>1. s = Append(hs, h)
    BY <1>4 DEF PutHost
  <2> HIDE DEF h, s
  <2>2. /\ s \in Seq(X) /\ DOMAIN s = 1 .. m + 1 /\ s[m + 1] = h
        /\ \A i \in 1 .. m : s[i] = hs[i]
    BY <1>1, <2>1
  <2> HIDE DEF m
  <2>3. m + 1 \in 1 .. m + 1 /\ \A i \in 1 .. m : i \in 1 .. m + 1
    BY <1>2
  <2>4. \A i \in 1 .. m + 1 : i = m + 1 \/ i \in 1 .. m
    BY <1>2
  <2>5. \A i \in DOMAIN hs : i \in DOMAIN s /\ s[i] = hs[i]
    BY <1>2, <2>2, <2>3
  <2>6. a \in IPsOf(s) /\ n \in NamesOf(s)
    BY <1>1, <2>2, <2>3 DEF IPsOf, NamesOf
  <2>7. NamesOf(hs) \subseteq NamesOf(s) /\ IPsOf(hs) \subseteq IPsOf(s)
    BY <2>5 DEF NamesOf, IPsOf
  <2>8. NamesOf(s) \subseteq NamesOf(hs) \cup {n}
    BY <1>1, <1>2, <2>2, <2>4 DEF NamesOf
  <2>9. Extends(s, hs)
    BY <2>5 DEF Extends
  <2>10. Distinct(hs) => Distinct(s)
    <3>1. SUFFICES ASSUME Distinct(hs), NEW i \in 1 .. m + 1, NEW j \in 1 .. m + 1,
                          s[i].name = s[j].name
                   PROVE  i = j
      BY <2>2 DEF Distinct
    <3>2. \A k \in 1 .. m : hs[k].name # n
      BY <1>2, <1>4 DEF NamesOf
    <3>3. QED
      BY <1>1, <1>2, <2>2, <2>4, <3>1, <3>2 DEF Distinct
  <2>11. OneAddressEach(hs) /\ a \notin IPsOf(hs) \cup {NoIP} => OneAddressEach(s)
    <3>1. SUFFICES ASSUME OneAddressEach(hs), a \notin IPsOf(hs) \cup {NoIP},
                          NEW i \in 1 .. m + 1, NEW j \in 1 .. m + 1
                   PROVE  s[i].ip # NoIP /\ (s[i].ip = s[j].ip => i = j)
      BY <2>2 DEF OneAddressEach
    <3>2. \A k \in 1 .. m : hs[k].ip # a
      BY <1>2, <3>1 DEF IPsOf
    <3>3. QED
      BY <1>1, <1>2, <2>2, <2>4, <3>1, <3>2 DEF OneAddressEach
  <2>12. QED
    BY <2>2, <2>6, <2>7, <2>8, <2>9, <2>10, <2>11 DEF s
<1>5. QED
  BY <1>3, <1>4

Address == IPs \cup {NoIP}
Host == [name : HostNames, ip : Address]
AnyHost == [name : Nat, ip : Address]
Acc == [hs : Seq(AnyHost), next : Nat, hostname : SUBSET HostNames,
        ip : SUBSET IPs, error : BOOLEAN]

(* Beyond the bound on the numbers of names, a name need not be in         *)
(* HostNames.                                                              *)
GoodAcc ==
    {acc \in Acc : /\ Distinct(acc.hs) /\ acc.next >= 1
                   /\ acc.next <= MaxId + 1 => acc.hs \in Seq(Host)}

(* What an address that is not found, without an error, is not.            *)
LEMMA SearchFacts ==
    ASSUME NEW X, NEW hs \in Seq(X), NEW a
    PROVE  /\ Found(hs, a) => a \in IPsOf(hs)
           /\ ~Found(hs, a) /\ ~Raises(hs, a) => a \notin IPsOf(hs) /\ NoIP \notin IPsOf(hs)
<1>1. Found(hs, a) => a \in IPsOf(hs)
  BY DEF Found, IPsOf
<1>2. ASSUME ~Found(hs, a), ~Raises(hs, a)
      PROVE  a \notin IPsOf(hs) /\ NoIP \notin IPsOf(hs)
  <2>1. \A i \in DOMAIN hs : hs[i].ip # NoIP
    BY <1>2 DEF Raises, IPsOf
  <2>2. \A i \in DOMAIN hs : \A j \in 1 .. (i - 1) : j \in DOMAIN hs
    OBVIOUS
  <2>3. \A i \in DOMAIN hs : hs[i].ip # a
    BY <1>2, <2>1, <2>2 DEF Found
  <2>4. QED
    BY <2>1, <2>3 DEF IPsOf
<1>3. QED
  BY <1>1, <1>2

(* What an addition makes of hs.                                           *)
Added(hs, n, a) == IF Found(hs, a) \/ Raises(hs, a) THEN hs ELSE PutHost(hs, n, a)

LEMMA AddedFacts ==
    ASSUME NEW X, NEW hs \in Seq(X), NEW n, NEW a, [name |-> n, ip |-> a] \in X
    PROVE  /\ Added(hs, n, a) \in Seq(X)
           /\ NamesOf(Added(hs, n, a)) \subseteq NamesOf(hs) \cup {n}
           /\ ~Raises(hs, a) => a \in IPsOf(Added(hs, n, a))
           /\ Extends(Added(hs, n, a), hs)
           /\ n \notin NamesOf(hs) => IPsOf(hs) \subseteq IPsOf(Added(hs, n, a))
           /\ Distinct(hs) => Distinct(Added(hs, n, a))
           /\ Distinct(hs) /\ OneAddressEach(hs) /\ a # NoIP =>
                 OneAddressEach(Added(hs, n, a))
<1>1. Extends(hs, hs)
  BY DEF Extends
<1>2. QED
  BY <1>1, PutHostFacts, SearchFacts DEF Added

LEMMA AddHostIs ==
    ASSUME NEW old, NEW acc \in Acc, NEW n, NEW a
    PROVE  LET new == AddHost(old, acc, n, a)
           IN  /\ new = [acc EXCEPT !.hs = Added(acc.hs, n, a), !.error = new.error]
               /\ new.error \in BOOLEAN
               /\ ~new.error => ~Raises(acc.hs, a)
<1> DEFINE new == AddHost(old, acc, n, a)
           added == Added(acc.hs, n, a)
<1>1. CASE Raises(acc.hs, a)
  <2>1. new = [acc EXCEPT !.error = TRUE] /\ added = acc.hs
    BY <1>1 DEF AddHost, Added, Failed
  <2> HIDE DEF new, added
  <2>2. new = [acc EXCEPT !.hs = added, !.error = TRUE] /\ new.error = TRUE
    BY <2>1 DEF Acc
  <2>3. QED
    BY <2>2 DEF new, added
<1>2. CASE ~Raises(acc.hs, a)
  <2>1. new = [acc EXCEPT !.hs = added]
    <3>1. CASE Found(acc.hs, a)
      BY <1>2, <3>1 DEF AddHost, Added, Acc
    <3>2. CASE ~Found(acc.hs, a)
      BY <1>2, <3>2 DEF AddHost, Added
    <3>3. QED
      BY <3>1, <3>2
  <2> HIDE DEF new, added
  <2>2. new = [acc EXCEPT !.hs = added, !.error = new.error] /\ new.error \in BOOLEAN
    BY <2>1 DEF Acc
  <2>3. QED
    BY <1>2, <2>2 DEF new, added
<1>3. QED
  BY <1>1, <1>2

LEMMA HostSets ==
    Host \subseteq AnyHost /\ \A hs \in Seq(Host) : hs \in Seq(AnyHost)
<1>1. Host \subseteq AnyHost
  BY NamesAssumption DEF Host, AnyHost
<1>2. ASSUME NEW hs \in Seq(Host) PROVE hs \in Seq(AnyHost)
  BY <1>1
<1>3. QED
  BY <1>1, <1>2

LEMMA AddHostGood ==
    ASSUME NEW old, NEW acc \in GoodAcc, NEW n \in Nat, NEW a \in IPs
    PROVE  LET new == AddHost(old, acc, n, a)
           IN  /\ new \in Acc /\ Distinct(new.hs)
               /\ new.hs = Added(acc.hs, n, a)
               /\ new.next = acc.next /\ new.hostname = acc.hostname
               /\ new.ip = acc.ip
               /\ ~new.error => ~Raises(acc.hs, a)
               /\ acc.next <= MaxId + 1 /\ n \in HostNames => new.hs \in Seq(Host)
<1> DEFINE new == AddHost(old, acc, n, a)
           added == Added(acc.hs, n, a)
<1>1. acc \in Acc /\ acc.hs \in Seq(AnyHost)
  BY DEF GoodAcc, Acc
<1>2. /\ new = [acc EXCEPT !.hs = added, !.error = new.error]
      /\ new.error \in BOOLEAN
      /\ ~new.error => ~Raises(acc.hs, a)
  BY <1>1, AddHostIs
<1>3. [name |-> n, ip |-> a] \in AnyHost
  BY DEF AnyHost, Address
<1>4. added \in Seq(AnyHost) /\ Distinct(added)
  BY <1>1, <1>3, AddedFacts DEF GoodAcc
<1>5. ASSUME acc.next <= MaxId + 1, n \in HostNames PROVE added \in Seq(Host)
  <2>1. [name |-> n, ip |-> a] \in Host /\ acc.hs \in Seq(Host)
    BY <1>5 DEF Host, Address, GoodAcc
  <2>2. QED
    BY <2>1, AddedFacts
<1> HIDE DEF added, new
<1>6. new.hs = added /\ new \in Acc
  BY <1>1, <1>2, <1>4 DEF Acc
<1>7. /\ new.next = acc.next /\ new.hostname = acc.hostname
      /\ new.ip = acc.ip
  BY <1>1, <1>2 DEF Acc
<1>8. QED
  BY <1>2, <1>4, <1>5, <1>6, <1>7 DEF new, added

LEMMA ArgumentFields ==
    ASSUME NEW arg \in Arguments
    PROVE  /\ arg.op \in {"ip", "del_ip"} => arg.ip \in IPs
           /\ arg.op \in {"bare", "del_name"} => arg.name \in HostNames
           /\ arg.op = "named" => arg.name \in HostNames /\ arg.ip \in IPs
           /\ arg.op \in {"ip", "del_ip", "bare", "del_name", "named"}
BY DEF Arguments

LEMMA OnlyGood ==
    ASSUME NEW acc \in GoodAcc, NEW names
    PROVE  [acc EXCEPT !.hs = Only(acc.hs, names)] \in GoodAcc
<1> DEFINE part == Only(acc.hs, names)
<1>1. acc \in Acc /\ acc.hs \in Seq(AnyHost) /\ Distinct(acc.hs) /\ acc.next >= 1
  BY DEF GoodAcc, Acc
<1>2. part \in Seq(AnyHost) /\ Distinct(part)
  BY <1>1, OnlyFacts
<1>3. acc.next <= MaxId + 1 => part \in Seq(Host)
  BY OnlyFacts DEF GoodAcc
<1> HIDE DEF part
<1>4. [acc EXCEPT !.hs = part] \in Acc
  BY <1>1, <1>2 DEF Acc
<1>5. [acc EXCEPT !.hs = part].hs = part /\ [acc EXCEPT !.hs = part].next = acc.next
  BY <1>1 DEF Acc
<1>6. [acc EXCEPT !.hs = part] \in GoodAcc
  BY <1>1, <1>2, <1>3, <1>4, <1>5 DEF GoodAcc
<1>7. QED
  BY <1>6 DEF part

LEMMA NameIsNat == HostNames \subseteq Nat /\ MaxId \in Nat /\ 1 .. MaxId \subseteq HostNames
BY NamesAssumption

(* A name alone: an error, nothing, or an addition under the variables.    *)
LEMMA AddBareCases ==
    ASSUME NEW old, NEW acc \in Acc
    PROVE  \/ AddBare(old, acc) = acc
           \/ AddBare(old, acc) = [acc EXCEPT !.error = TRUE]
           \/ \E n \in acc.hostname, a \in acc.ip :
                 AddBare(old, acc) = AddHost(old, acc, n, a)
<1>1. CASE acc.ip # {} /\ acc.hostname # {}
  <2>1. /\ (CHOOSE n \in acc.hostname : TRUE) \in acc.hostname
        /\ (CHOOSE a \in acc.ip : TRUE) \in acc.ip
    BY <1>1
  <2>2. QED
    BY <1>1, <2>1 DEF AddBare
<1>2. CASE acc.ip = {} \/ acc.hostname = {}
  BY <1>2 DEF AddBare, Failed
<1>3. QED
  BY <1>1, <1>2

(* What an argument to delete makes: the hosts but one, or an error.       *)
LEMMA DeleteCases ==
    ASSUME NEW old, NEW acc \in Acc, NEW arg, Deletes(arg)
    PROVE  \/ \E names : Process(old, acc, arg) = [acc EXCEPT !.hs = Only(acc.hs, names)]
           \/ \E b \in BOOLEAN : Process(old, acc, arg) = [acc EXCEPT !.error = b]
<1> DEFINE new == Process(old, acc, arg)
<1>0. (NoIP \in IPsOf(acc.hs)) \in BOOLEAN
  OBVIOUS
<1>1. CASE arg.op = "del_name" /\ arg.name \in NamesOf(acc.hs)
  <2>1. new = [acc EXCEPT !.hs = Only(acc.hs, NamesOf(acc.hs) \ {arg.name})]
    BY <1>1 DEF Process
  <2>2. QED
    BY <2>1
<1>2. CASE arg.op = "del_name" /\ arg.name \notin NamesOf(acc.hs)
  <2>1. new = [acc EXCEPT !.error = NoIP \in IPsOf(acc.hs)]
    BY <1>2 DEF Process
  <2>2. QED
    BY <1>0, <2>1
<1>3. CASE arg.op = "del_ip" /\ Found(acc.hs, arg.ip)
  <2>1. new = [acc EXCEPT !.hs = DeleteByIp(acc.hs, arg.ip)]
    BY <1>3 DEF Process
  <2>2. QED
    BY <2>1 DEF DeleteByIp
<1>4. CASE arg.op = "del_ip" /\ ~Found(acc.hs, arg.ip)
  <2>1. new = [acc EXCEPT !.error = NoIP \in IPsOf(acc.hs)]
    BY <1>4 DEF Process
  <2>2. QED
    BY <1>0, <2>1
<1>5. QED
  BY <1>1, <1>2, <1>3, <1>4 DEF Deletes

LEMMA ProcessGood ==
    ASSUME NEW old, NEW acc \in GoodAcc, NEW arg \in Arguments
    PROVE  Process(old, acc, arg) \in GoodAcc
<1> DEFINE new == Process(old, acc, arg)
<1>1. /\ acc \in Acc /\ Distinct(acc.hs) /\ acc.next >= 1 /\ acc.next \in Nat
      /\ acc.hostname \subseteq HostNames /\ acc.ip \subseteq IPs
      /\ acc.next <= MaxId + 1 => acc.hs \in Seq(Host)
  BY DEF GoodAcc, Acc
<1>2. CASE Deletes(arg)
  <2>1. ASSUME NEW names, new = [acc EXCEPT !.hs = Only(acc.hs, names)]
        PROVE  new \in GoodAcc
    BY <2>1, OnlyGood
  <2>2. ASSUME NEW b \in BOOLEAN, new = [acc EXCEPT !.error = b]
        PROVE  new \in GoodAcc
    <3> HIDE DEF new
    <3>1. new \in Acc /\ new.hs = acc.hs /\ new.next = acc.next
      BY <1>1, <2>2 DEF Acc
    <3>2. QED
      BY <1>1, <3>1 DEF GoodAcc
  <2>3. QED
    BY <1>1, <1>2, <2>1, <2>2, DeleteCases
<1>4. CASE arg.op = "ip"
  <2> DEFINE a == arg.ip
             w == AddHost(old, acc, acc.next, a)
             next == IF Found(acc.hs, a) THEN w.next ELSE w.next + 1
  <2>1. new = [w EXCEPT !.next = next, !.ip = {a}]
    BY <1>4 DEF Process
  <2>2. a \in IPs
    BY <1>4, ArgumentFields
  <2>3. /\ w \in Acc /\ Distinct(w.hs) /\ w.next = acc.next
        /\ w.hs = Added(acc.hs, acc.next, a)
        /\ acc.next <= MaxId + 1 /\ acc.next \in HostNames => w.hs \in Seq(Host)
    BY <1>1, <2>2, AddHostGood
  <2>4. next \in Nat /\ next >= 1 /\ next >= acc.next
    BY <1>1, <2>3
  <2>5. ASSUME next <= MaxId + 1 PROVE w.hs \in Seq(Host)
    <3>1. CASE Found(acc.hs, a)
      BY <1>1, <2>3, <2>5, <3>1 DEF Added
    <3>2. CASE ~Found(acc.hs, a)
      <4>1. acc.next + 1 <= MaxId + 1
        BY <2>3, <2>5, <3>2
      <4>2. acc.next \in 1 .. MaxId /\ acc.next <= MaxId + 1
        BY <1>1, <4>1, NameIsNat
      <4>3. QED
        BY <2>3, <4>2, NameIsNat
    <3>3. QED
      BY <3>1, <3>2
  <2> HIDE DEF w, next, new
  <2>6. new \in Acc /\ new.hs = w.hs /\ new.next = next
    BY <2>1, <2>2, <2>3, <2>4 DEF Acc
  <2>7. new \in GoodAcc
    BY <2>3, <2>4, <2>5, <2>6 DEF GoodAcc
  <2>8. QED
    BY <2>7 DEF new
<1>5. CASE arg.op = "named"
  <2> DEFINE w == AddHost(old, acc, arg.name, arg.ip)
  <2>1. new = [w EXCEPT !.hostname = {arg.name}, !.ip = {arg.ip}]
    BY <1>5 DEF Process
  <2>2. arg.ip \in IPs /\ arg.name \in HostNames /\ arg.name \in Nat
    BY <1>5, ArgumentFields, NameIsNat
  <2>3. /\ w \in Acc /\ Distinct(w.hs) /\ w.next = acc.next
        /\ acc.next <= MaxId + 1 => w.hs \in Seq(Host)
    BY <1>1, <2>2, AddHostGood
  <2> HIDE DEF w, new
  <2>4. new \in Acc /\ new.hs = w.hs /\ new.next = w.next
    BY <2>1, <2>2, <2>3 DEF Acc
  <2>5. new \in GoodAcc
    BY <1>1, <2>3, <2>4 DEF GoodAcc
  <2>6. QED
    BY <2>5 DEF new
<1>6. CASE arg.op = "bare" /\ arg.name \notin NamesOf(acc.hs)
  <2>1. new = AddBare(old, acc)
    BY <1>6 DEF Process
  <2>2. CASE new = acc
    BY <2>2
  <2>3. CASE new = [acc EXCEPT !.error = TRUE]
    <3> HIDE DEF new
    <3>1. new \in Acc /\ new.hs = acc.hs /\ new.next = acc.next
      BY <1>1, <2>3 DEF Acc
    <3>2. new \in GoodAcc
      BY <1>1, <3>1 DEF GoodAcc
    <3>3. QED
      BY <3>2 DEF new
  <2>4. ASSUME NEW n \in acc.hostname, NEW a \in acc.ip, new = AddHost(old, acc, n, a)
        PROVE  new \in GoodAcc
    <3>1. n \in HostNames /\ n \in Nat /\ a \in IPs
      BY <1>1, NameIsNat
    <3> HIDE DEF new
    <3>2. /\ new \in Acc /\ Distinct(new.hs) /\ new.next = acc.next
          /\ acc.next <= MaxId + 1 => new.hs \in Seq(Host)
      BY <2>4, <3>1, AddHostGood
    <3>3. QED
      BY <1>1, <3>2 DEF GoodAcc
  <2>5. QED
    BY <1>1, <2>1, <2>2, <2>3, <2>4, AddBareCases
<1>7. CASE arg.op \notin {"del_name", "del_ip", "ip", "named"}
           /\ ~(arg.op = "bare" /\ arg.name \notin NamesOf(acc.hs))
  BY <1>7 DEF Process
<1>8. QED
  BY <1>2, <1>4, <1>5, <1>6, <1>7 DEF Deletes

(* f: what build_hostnames has made of old after each argument.            *)
First(old) ==
    [hs |-> old, next |-> NextId(old), hostname |-> {}, ip |-> {}, error |-> FALSE]
BuildSteps(f, old, args) ==
    /\ f \in [0 .. Len(args) -> GoodAcc]
    /\ BuildHostnames(old, args) = f[Len(args)]
    /\ f[0] = First(old)
    /\ \A i \in 1 .. Len(args) :
          f[i] = IF f[i - 1].error THEN f[i - 1] ELSE Process(old, f[i - 1], args[i])

LEMMA FirstGood ==
    ASSUME NEW old \in Seq(Host), Distinct(old)
    PROVE  First(old) \in GoodAcc
<1>1. old \in Seq(AnyHost) /\ NamesOf(old) \subseteq Nat
  <2>1. \A i \in DOMAIN old : old[i] \in Host
    OBVIOUS
  <2>2. QED
    BY <2>1, HostSets, NameIsNat DEF NamesOf, Host
<1>2. NextId(old) \in Nat \ {0}
  BY <1>1, NextIdFacts
<1>3. First(old) \in Acc
  BY <1>1, <1>2 DEF First, Acc
<1>4. First(old).hs = old /\ First(old).next = NextId(old)
  BY DEF First
<1>5. QED
  BY <1>2, <1>3, <1>4 DEF GoodAcc

LEMMA BuildRecursion ==
    ASSUME NEW old \in Seq(Host), Distinct(old), NEW args \in Seq(Arguments)
    PROVE  \E f : BuildSteps(f, old, args)
<1> DEFINE n == Len(args)
           Step(f, i) ==
               IF i = 0
               THEN [hs |-> old, next |-> NextId(old), hostname |-> {}, ip |-> {},
                     error |-> FALSE]
               ELSE LET acc == f[i - 1]
                    IN  IF acc.error THEN acc ELSE Process(old, acc, args[i])
           built == CHOOSE f : f = [i \in 0 .. n |-> Step(f, i)]
           D == [i \in 1 .. n |->
                    [v \in GoodAcc |->
                        IF v.error THEN v ELSE Process(old, v, args[i])]]
           T == GoodAcc
           c == First(old)
<1>0. n \in Nat /\ \A i \in 1 .. n : args[i] \in Arguments
  OBVIOUS
<1>1. PICK f \in [0 .. n -> GoodAcc] :
         f[0] = c /\ \A i \in 1 .. n : f[i] = D[i][f[i - 1]]
  <2>1. D \in [1 .. n -> [T -> T]]
    <3>1. ASSUME NEW i \in 1 .. n, NEW v \in GoodAcc
          PROVE  (IF v.error THEN v ELSE Process(old, v, args[i])) \in GoodAcc
      BY <1>0, ProcessGood
    <3> HIDE DEF n
    <3>2. QED
      BY <3>1
  <2>2. c \in T
    BY FirstGood
  <2>3. \E f : Iterates(f, n, T, c, D)
    <3> HIDE DEF D, n, T, c
    <3>1. QED
      BY <1>0, <2>1, <2>2, Iteration
  <2>4. QED
    BY <2>3 DEF Iterates
<1>2. ASSUME NEW i \in 1 .. n
      PROVE  f[i] = IF f[i - 1].error THEN f[i - 1] ELSE Process(old, f[i - 1], args[i])
  <2>1. f[i - 1] \in GoodAcc
    BY <1>1
  <2>2. f[i] = D[i][f[i - 1]]
    BY <1>1
  <2> HIDE DEF n
  <2>3. QED
    BY <2>1, <2>2
<1>3. f = [i \in 0 .. n |-> Step(f, i)]
  <2>1. ASSUME NEW i \in 0 .. n PROVE f[i] = Step(f, i)
    <3>1. CASE i = 0
      BY <1>1, <3>1 DEF First
    <3>2. CASE i # 0
      <4>1. i \in 1 .. n
        BY <3>2
      <4>2. QED
        BY <1>2, <3>2, <4>1
    <3>3. QED
      BY <3>1, <3>2
  <2> HIDE DEF Step, n
  <2>2. QED
    BY <1>1, <2>1
<1>4. built = [i \in 0 .. n |-> Step(built, i)]
  <2> HIDE DEF Step, n
  <2>1. QED
    BY <1>3
<1>5. BuildHostnames(old, args) = built[n]
  BY DEF BuildHostnames
<1> HIDE DEF built
<1>6. \A i \in 0 .. n : built[i] = Step(built, i)
  <2> HIDE DEF Step, n
  <2>1. QED
    BY <1>4
<1>7. built[0] = First(old)
  <2>1. 0 \in 0 .. n
    BY <1>0
  <2> HIDE DEF n
  <2>2. built[0] = Step(built, 0)
    BY <1>6, <2>1
  <2>3. QED
    BY <2>2 DEF First
<1>8. ASSUME NEW i \in 1 .. n
      PROVE  built[i] = IF built[i - 1].error THEN built[i - 1]
                        ELSE Process(old, built[i - 1], args[i])
  <2>1. built[i] = Step(built, i)
    BY <1>6
  <2>2. QED
    BY <2>1
<1>9. \A i \in 0 .. n : built[i] = f[i]
  <2> DEFINE S == {i \in 0 .. n : built[i] = f[i]}
  <2>1. 0 \in S
    BY <1>1, <1>7
  <2>2. ASSUME NEW i \in 1 .. n, i - 1 \in S  PROVE i \in S
    BY <1>2, <1>8, <2>2
  <2>3. 0 .. n \subseteq S
    <3> HIDE DEF S, n
    <3>1. QED
      BY <1>0, <2>1, <2>2, IndexInduction
  <2>4. QED
    BY <2>3
<1>10. BuildSteps(f, old, args)
  <2>1. BuildHostnames(old, args) = f[n]
    BY <1>5, <1>9
  <2>2. QED
    BY <1>1, <1>2, <2>1 DEF BuildSteps
<1>11. QED
  BY <1>10

LEMMA BuildGood ==
    ASSUME NEW old \in Seq(Host), Distinct(old), NEW args \in Seq(Arguments)
    PROVE  BuildHostnames(old, args) \in GoodAcc
<1>1. PICK f : BuildSteps(f, old, args)
  BY BuildRecursion
<1>2. Len(args) \in 0 .. Len(args)
  OBVIOUS
<1>3. QED
  BY <1>1, <1>2 DEF BuildSteps

(* No argument loses an address or gives one to two hosts.                 *)
LEMMA ProcessAddresses ==
    ASSUME NEW old, NEW acc \in GoodAcc, NEW arg \in Arguments, OneAddressEach(acc.hs)
    PROVE  OneAddressEach(Process(old, acc, arg).hs)
<1> DEFINE new == Process(old, acc, arg)
<1>1. /\ acc \in Acc /\ acc.hs \in Seq(AnyHost) /\ Distinct(acc.hs)
      /\ acc.next \in Nat /\ acc.hostname \subseteq HostNames /\ acc.ip \subseteq IPs
  BY DEF GoodAcc, Acc
<1>2. \A n \in Nat, a \in IPs : OneAddressEach(AddHost(old, acc, n, a).hs)
  <2>1. SUFFICES ASSUME NEW n \in Nat, NEW a \in IPs
                 PROVE  OneAddressEach(Added(acc.hs, n, a))
    BY AddHostGood
  <2>2. [name |-> n, ip |-> a] \in AnyHost /\ a # NoIP
    BY NoIPAssumption DEF AnyHost, Address
  <2>3. QED
    BY <1>1, <2>2, AddedFacts
<1>3. CASE Deletes(arg)
  <2>1. ASSUME NEW names, new = [acc EXCEPT !.hs = Only(acc.hs, names)]
        PROVE  OneAddressEach(new.hs)
    <3>1. Within(Only(acc.hs, names), acc.hs) /\ Distinct(Only(acc.hs, names))
      BY <1>1, OnlyFacts
    <3>2. OneAddressEach(Only(acc.hs, names))
      BY <3>1, WithinAddresses
    <3>3. new.hs = Only(acc.hs, names)
      BY <1>1, <2>1 DEF Acc
    <3>4. QED
      BY <3>2, <3>3
  <2>2. ASSUME NEW b \in BOOLEAN, new = [acc EXCEPT !.error = b]
        PROVE  new.hs = acc.hs
    BY <1>1, <2>2 DEF Acc
  <2>3. QED
    BY <1>1, <1>3, <2>1, <2>2, DeleteCases
<1>4. CASE arg.op = "ip"
  <2> DEFINE w == AddHost(old, acc, acc.next, arg.ip)
  <2>1. arg.ip \in IPs
    BY <1>4, ArgumentFields
  <2>2. w \in Acc /\ OneAddressEach(w.hs)
    BY <1>1, <1>2, <2>1, AddHostGood
  <2>3. new = [w EXCEPT !.next = IF Found(acc.hs, arg.ip) THEN @ ELSE @ + 1,
                        !.ip = {arg.ip}]
    BY <1>4 DEF Process
  <2> HIDE DEF w, new
  <2>4. new.hs = w.hs
    BY <2>2, <2>3 DEF Acc
  <2>5. QED
    BY <2>2, <2>4 DEF new
<1>5. CASE arg.op = "named"
  <2> DEFINE w == AddHost(old, acc, arg.name, arg.ip)
  <2>1. arg.ip \in IPs /\ arg.name \in Nat
    BY <1>5, ArgumentFields, NameIsNat
  <2>2. w \in Acc /\ OneAddressEach(w.hs)
    BY <1>1, <1>2, <2>1, AddHostGood
  <2>3. new = [w EXCEPT !.hostname = {arg.name}, !.ip = {arg.ip}]
    BY <1>5 DEF Process
  <2> HIDE DEF w, new
  <2>4. new.hs = w.hs
    BY <2>2, <2>3 DEF Acc
  <2>5. QED
    BY <2>2, <2>4 DEF new
<1>6. CASE arg.op = "bare" /\ arg.name \notin NamesOf(acc.hs)
  <2>1. new = AddBare(old, acc)
    BY <1>6 DEF Process
  <2>2. [acc EXCEPT !.error = TRUE].hs = acc.hs
    BY <1>1 DEF Acc
  <2>3. QED
    BY <1>1, <1>2, <2>1, <2>2, NameIsNat, AddBareCases
<1>7. CASE arg.op \notin {"del_name", "del_ip", "ip", "named"}
           /\ ~(arg.op = "bare" /\ arg.name \notin NamesOf(acc.hs))
  BY <1>7 DEF Process
<1>8. QED
  BY <1>3, <1>4, <1>5, <1>6, <1>7 DEF Deletes

LEMMA BuildAddresses ==
    ASSUME NEW old \in Seq(Host), Distinct(old), NEW args \in Seq(Arguments),
           OneAddressEach(old)
    PROVE  OneAddressEach(BuildHostnames(old, args).hs)
<1> DEFINE n == Len(args)
<1>1. PICK f : BuildSteps(f, old, args)
  BY BuildRecursion
<1>2. /\ n \in Nat /\ f \in [0 .. n -> GoodAcc]
      /\ BuildHostnames(old, args) = f[n] /\ f[0].hs = old
      /\ \A i \in 1 .. n :
            f[i] = IF f[i - 1].error THEN f[i - 1] ELSE Process(old, f[i - 1], args[i])
  BY <1>1 DEF BuildSteps, First
<1>3. \A i \in 1 .. n : args[i] \in Arguments
  OBVIOUS
<1> HIDE DEF n
<1> DEFINE S == {i \in 0 .. n : OneAddressEach(f[i].hs)}
<1>4. 0 \in S
  BY <1>2
<1>5. ASSUME NEW i \in 1 .. n, i - 1 \in S PROVE i \in S
  <2>1. i - 1 \in 0 .. n /\ i \in 0 .. n
    BY <1>2
  <2>2. f[i - 1] \in GoodAcc /\ OneAddressEach(f[i - 1].hs)
    BY <1>2, <1>5, <2>1
  <2>3. CASE f[i - 1].error
    BY <1>2, <2>1, <2>2, <2>3
  <2>4. CASE ~f[i - 1].error
    <3>1. f[i] = Process(old, f[i - 1], args[i])
      BY <1>2, <2>4
    <3>2. OneAddressEach(f[i].hs)
      BY <1>3, <2>2, <3>1, ProcessAddresses
    <3>3. QED
      BY <2>1, <3>2
  <2>5. QED
    BY <2>3, <2>4
<1>6. 0 .. n \subseteq S
  <2> HIDE DEF S
  <2>1. QED
    BY <1>2, <1>4, <1>5, IndexInduction
<1>7. n \in S
  BY <1>2, <1>6
<1>8. QED
  BY <1>2, <1>7

-----------------------------------------------------------------------------
(* load. *)

(* Lists of hosts that a load may have made.                               *)
HostLists == {hs \in Seq(Host) : Distinct(hs)}

EntryType == [group : Groups, name : HostNames, ip : IPs]

LEMMA EntryHost ==
    ASSUME NEW e \in EntryType
    PROVE  e.name \in HostNames /\ [name |-> e.name, ip |-> AddressOf(e)] \in Host
BY DEF EntryType, AddressOf, Host, Address

LEMMA PutListed ==
    ASSUME NEW e \in EntryType, NEW hs \in HostLists
    PROVE  PutHost(hs, e.name, AddressOf(e)) \in HostLists
<1>1. hs \in Seq(Host) /\ Distinct(hs)
  BY DEF HostLists
<1>2. [name |-> e.name, ip |-> AddressOf(e)] \in Host
  BY EntryHost
<1>3. QED
  BY <1>1, <1>2, PutHostFacts DEF HostLists

(* f: the hosts after each entry.                                          *)
PutSteps(f, entries) ==
    /\ f \in [0 .. Len(entries) -> HostLists]
    /\ PutAll(entries) = f[Len(entries)]
    /\ f[0] = <<>>
    /\ \A i \in 1 .. Len(entries) :
          f[i] = PutHost(f[i - 1], entries[i].name, AddressOf(entries[i]))

LEMMA PutRecursion ==
    ASSUME NEW entries \in Seq(EntryType)
    PROVE  \E f : PutSteps(f, entries)
<1> DEFINE n == Len(entries)
           Step(f, i) ==
               IF i = 0 THEN <<>>
               ELSE PutHost(f[i - 1], entries[i].name, AddressOf(entries[i]))
           put == CHOOSE f : f = [i \in 0 .. n |-> Step(f, i)]
           T == HostLists
           D == [i \in 1 .. n |->
                    [v \in T |-> PutHost(v, entries[i].name, AddressOf(entries[i]))]]
           c == <<>>
<1>0. n \in Nat /\ \A i \in 1 .. n : entries[i] \in EntryType
  OBVIOUS
<1>1. PICK f \in [0 .. n -> T] :
         f[0] = c /\ \A i \in 1 .. n : f[i] = D[i][f[i - 1]]
  <2>1. D \in [1 .. n -> [T -> T]]
    <3>1. ASSUME NEW i \in 1 .. n, NEW v \in T
          PROVE  PutHost(v, entries[i].name, AddressOf(entries[i])) \in T
      <4>1. entries[i] \in EntryType
        BY <1>0
      <4> HIDE DEF n
      <4>2. QED
        BY <4>1, PutListed
    <3> HIDE DEF n, T
    <3>2. QED
      BY <3>1
  <2>2. c \in T
    BY DEF HostLists, Distinct
  <2>3. \E f : Iterates(f, n, T, c, D)
    <3> HIDE DEF D, n, T, c
    <3>1. QED
      BY <1>0, <2>1, <2>2, Iteration
  <2>4. QED
    BY <2>3 DEF Iterates
<1> HIDE DEF T
<1>2. ASSUME NEW i \in 1 .. n
      PROVE  f[i] = PutHost(f[i - 1], entries[i].name, AddressOf(entries[i]))
  <2>1. f[i - 1] \in T
    BY <1>1
  <2>2. f[i] = D[i][f[i - 1]]
    BY <1>1
  <2> HIDE DEF n
  <2>3. QED
    BY <2>1, <2>2
<1>3. f = [i \in 0 .. n |-> Step(f, i)]
  <2>1. ASSUME NEW i \in 0 .. n PROVE f[i] = Step(f, i)
    <3>1. CASE i = 0
      BY <1>1, <3>1
    <3>2. CASE i # 0
      <4>1. i \in 1 .. n
        BY <3>2
      <4>2. QED
        BY <1>2, <3>2, <4>1
    <3>3. QED
      BY <3>1, <3>2
  <2> HIDE DEF Step, n
  <2>2. QED
    BY <1>1, <2>1
<1>4. put = [i \in 0 .. n |-> Step(put, i)]
  <2> HIDE DEF Step, n
  <2>1. QED
    BY <1>3
<1>5. PutAll(entries) = put[n]
  BY DEF PutAll
<1> HIDE DEF put
<1>6. \A i \in 0 .. n : put[i] = Step(put, i)
  <2> HIDE DEF Step, n
  <2>1. QED
    BY <1>4
<1>7. put[0] = <<>>
  BY <1>6
<1>8. ASSUME NEW i \in 1 .. n
      PROVE  put[i] = PutHost(put[i - 1], entries[i].name, AddressOf(entries[i]))
  <2>1. put[i] = Step(put, i)
    BY <1>6
  <2>2. QED
    BY <2>1
<1>9. \A i \in 0 .. n : put[i] = f[i]
  <2> DEFINE S == {i \in 0 .. n : put[i] = f[i]}
  <2>1. 0 \in S
    BY <1>1, <1>7
  <2>2. ASSUME NEW i \in 1 .. n, i - 1 \in S  PROVE i \in S
    BY <1>2, <1>8, <2>2
  <2>3. 0 .. n \subseteq S
    <3> HIDE DEF S, n
    <3>1. QED
      BY <1>0, <2>1, <2>2, IndexInduction
  <2>4. QED
    BY <2>3
<1>10. PutSteps(f, entries)
  <2>1. PutAll(entries) = f[n]
    BY <1>5, <1>9
  <2>2. QED
    BY <1>1, <1>2, <2>1 DEF PutSteps, T
<1>11. QED
  BY <1>10

(* Every entry's name is given, and the hosts are well-formed.             *)
LEMMA PutFacts ==
    ASSUME NEW entries \in Seq(EntryType)
    PROVE  /\ PutAll(entries) \in Seq(Host) /\ Distinct(PutAll(entries))
           /\ \A i \in DOMAIN entries : entries[i].name \in NamesOf(PutAll(entries))
<1> DEFINE n == Len(entries)
<1>1. PICK f : PutSteps(f, entries)
  BY PutRecursion
<1>2. /\ f \in [0 .. n -> HostLists]
      /\ PutAll(entries) = f[n] /\ n \in Nat /\ DOMAIN entries = 1 .. n
      /\ \A i \in 1 .. n : entries[i] \in EntryType
      /\ \A i \in 1 .. n : f[i] = PutHost(f[i - 1], entries[i].name, AddressOf(entries[i]))
  BY <1>1 DEF PutSteps
<1> HIDE DEF n
<1> DEFINE S == {i \in 0 .. n : \A j \in 1 .. i : entries[j].name \in NamesOf(f[i])}
<1>3. 0 \in S
  BY <1>2
<1>4. ASSUME NEW i \in 1 .. n, i - 1 \in S PROVE i \in S
  <2>1. i - 1 \in 0 .. n /\ i \in 0 .. n
    BY <1>2
  <2>2. f[i - 1] \in HostLists /\ f[i - 1] \in Seq(Host)
    BY <1>2, <2>1 DEF HostLists
  <2>3. [name |-> entries[i].name, ip |-> AddressOf(entries[i])] \in Host
    BY <1>2, EntryHost
  <2>4. NamesOf(f[i]) = NamesOf(f[i - 1]) \cup {entries[i].name}
    BY <1>2, <2>2, <2>3, PutHostFacts
  <2>5. \A j \in 1 .. i : j = i \/ j \in 1 .. i - 1
    BY <1>2
  <2>6. QED
    BY <1>4, <2>1, <2>4, <2>5
<1>5. 0 .. n \subseteq S
  <2> HIDE DEF S
  <2>1. QED
    BY <1>2, <1>3, <1>4, IndexInduction
<1>6. n \in 0 .. n
  BY <1>2
<1>7. n \in S
  BY <1>5, <1>6
<1>8. QED
  BY <1>2, <1>6, <1>7 DEF HostLists

LEMMA FlattenTyped ==
    ASSUME NEW X, NEW seqs \in Seq(Seq(X)), seqs # <<>>
    PROVE  FlattenSeq(seqs) \in Seq(X)
<1> DEFINE n == Len(seqs)
           Step(f, i) == IF i = 1 THEN seqs[i] ELSE f[i - 1] \o seqs[i]
           flatten == CHOOSE f : f = [i \in 1 .. n |-> Step(f, i)]
           T == Seq(X)
           D == [i \in 1 .. n |-> [v \in T |-> v \o seqs[i]]]
           c == <<>>
<1>0. n \in Nat /\ n # 0 /\ \A i \in 1 .. n : seqs[i] \in Seq(X)
  OBVIOUS
<1>1. PICK g \in [0 .. n -> T] :
         g[0] = c /\ \A i \in 1 .. n : g[i] = D[i][g[i - 1]]
  <2>1. D \in [1 .. n -> [T -> T]]
    <3>1. ASSUME NEW i \in 1 .. n, NEW v \in Seq(X) PROVE v \o seqs[i] \in Seq(X)
      BY <1>0
    <3> HIDE DEF n
    <3>2. QED
      BY <3>1
  <2>2. c \in T
    OBVIOUS
  <2>3. \E f : Iterates(f, n, T, c, D)
    <3> HIDE DEF D, n, T, c
    <3>1. QED
      BY <1>0, <2>1, <2>2, Iteration
  <2>4. QED
    BY <2>3 DEF Iterates
<1> DEFINE f == [i \in 1 .. n |-> g[i]]
<1>2. \A i \in 1 .. n : g[i] = g[i - 1] \o seqs[i] /\ g[i] \in Seq(X) /\ g[i - 1] \in Seq(X)
  <2>1. SUFFICES ASSUME NEW i \in 1 .. n
                 PROVE  g[i] = g[i - 1] \o seqs[i] /\ g[i] \in T /\ g[i - 1] \in T
    OBVIOUS
  <2>2. g[i - 1] \in T /\ g[i] \in T
    <3>1. i - 1 \in 0 .. n /\ i \in 0 .. n
      BY <1>0
    <3> HIDE DEF n, T
    <3>2. QED
      BY <1>1, <3>1
  <2>3. g[i] = D[i][g[i - 1]]
    BY <1>1
  <2> HIDE DEF n, T
  <2>4. QED
    BY <2>2, <2>3
<1> HIDE DEF n
<1>3. ASSUME NEW i \in 1 .. n PROVE f[i] = Step(f, i)
  <2>1. CASE i = 1
    <3>1. 1 \in 1 .. n /\ g[0] = <<>>
      BY <1>0, <1>1
    <3>2. g[1] = <<>> \o seqs[1] /\ seqs[1] \in Seq(X)
      <4>1. \A j : j = 1 => j \in 1 .. n /\ j - 1 = 0
        BY <3>1
      <4>2. \A j \in 1 .. n : j = 1 => g[j] = g[j - 1] \o seqs[j]
        BY <1>2
      <4>3. \A j \in 1 .. n : j = 1 => g[j] = g[0] \o seqs[j]
        BY <4>1, <4>2
      <4>4. QED
        BY <1>0, <3>1, <4>3
    <3>3. g[1] = seqs[1]
      BY <3>2
    <3>4. QED
      BY <2>1, <3>1, <3>3
  <2>2. CASE i # 1
    <3>1. i - 1 \in 1 .. n
      BY <1>0, <2>2
    <3>2. f[i - 1] = g[i - 1] /\ f[i] = g[i]
      BY <3>1
    <3>3. QED
      BY <1>2, <2>2, <3>2
  <2>3. QED
    BY <2>1, <2>2
<1>4. f = [i \in 1 .. n |-> Step(f, i)]
  <2> HIDE DEF Step
  <2>1. \A i \in 1 .. n : f[i] = Step(f, i)
    BY <1>3
  <2>2. DOMAIN f = 1 .. n /\ f = [i \in 1 .. n |-> f[i]]
    OBVIOUS
  <2> HIDE DEF f
  <2>3. QED
    BY <2>1, <2>2
<1>5. flatten = [i \in 1 .. n |-> Step(flatten, i)]
  <2> HIDE DEF Step, f
  <2>1. QED
    BY <1>4
<1>6. FlattenSeq(seqs) = flatten[n]
  <2>1. Len(seqs) # 0
    BY <1>0 DEF n
  <2>2. QED
    BY <2>1 DEF FlattenSeq, n
<1> HIDE DEF flatten
<1>7. \A i \in 1 .. n : flatten[i] = Step(flatten, i)
  <2> HIDE DEF Step
  <2>1. QED
    BY <1>5
<1> DEFINE S == {i \in 0 .. n : i = 0 \/ flatten[i] \in Seq(X)}
<1>8. 0 \in S
  BY <1>0
<1>9. ASSUME NEW i \in 1 .. n, i - 1 \in S PROVE i \in S
  <2>1. flatten[i] = IF i = 1 THEN seqs[i] ELSE flatten[i - 1] \o seqs[i]
    BY <1>7
  <2>2. seqs[i] \in Seq(X) /\ i \in 0 .. n
    BY <1>0
  <2>3. i # 1 => flatten[i - 1] \in Seq(X)
    BY <1>9
  <2>4. CASE i = 1
    BY <2>1, <2>2, <2>4
  <2>5. CASE i # 1
    <3>1. flatten[i - 1] \in Seq(X) /\ flatten[i] = flatten[i - 1] \o seqs[i]
      BY <2>1, <2>3, <2>5
    <3>2. flatten[i] \in Seq(X)
      BY <2>2, <3>1
    <3>3. QED
      BY <2>2, <3>2
  <2>6. QED
    BY <2>4, <2>5
<1>10. 0 .. n \subseteq S
  <2> HIDE DEF S
  <2>1. QED
    BY <1>0, <1>8, <1>9, IndexInduction
<1>11. n \in S
  BY <1>0, <1>10
<1>12. QED
  BY <1>0, <1>6, <1>11

-----------------------------------------------------------------------------
(* Types, and well-formed inventories. *)

LEMMA NamesTyped ==
    ASSUME NEW hs \in Seq(Host)
    PROVE  NamesOf(hs) \subseteq HostNames
<1>1. \A i \in DOMAIN hs : hs[i] \in Host
  OBVIOUS
<1>2. QED
  BY <1>1 DEF NamesOf, Host

(* What an invocation makes of the hosts old.                              *)
LEMMA InvokedHosts ==
    ASSUME NEW old \in Seq(Host), Distinct(old), NEW args \in Seq(Arguments),
           NEW new, NEW file, new = BuildHostnames(old, args).hs,
           file = InFile(old, new), BuildHostnames(old, args).next <= MaxId + 1
    PROVE  /\ new \in Seq(Host) /\ Distinct(new)
           /\ file \in Seq(Host) /\ Distinct(file)
           /\ NamesOf(file) = NamesOf(new) /\ IPsOf(file) = IPsOf(new)
           /\ Len(file) = Len(new)
           /\ OneAddressEach(old) => OneAddressEach(file)
<1>1. BuildHostnames(old, args) \in GoodAcc
  BY BuildGood
<1>2. new \in Seq(Host) /\ Distinct(new)
  BY <1>1 DEF GoodAcc
<1>3. /\ file \in Seq(Host) /\ Distinct(file)
      /\ Within(file, new) /\ Within(new, file)
  BY <1>2, InFileFacts
<1>4. NamesOf(file) = NamesOf(new) /\ IPsOf(file) = IPsOf(new)
  <2>1. NamesOf(file) \subseteq NamesOf(new) /\ IPsOf(file) \subseteq IPsOf(new)
    BY <1>3, WithinNames
  <2>2. NamesOf(new) \subseteq NamesOf(file) /\ IPsOf(new) \subseteq IPsOf(file)
    BY <1>3, WithinNames
  <2>3. QED
    BY <2>1, <2>2
<1>5. Len(file) = Len(new)
  BY <1>2, <1>3, <1>4, NamesCount
<1>6. OneAddressEach(old) => OneAddressEach(file)
  BY <1>3, BuildAddresses, WithinAddresses
<1>7. QED
  BY <1>2, <1>3, <1>4, <1>5, <1>6

LEMMA GroupBounds ==
    ASSUME NEW hs, NEW g, NEW e, NEW m
    PROVE  /\ Purged(g, hs) \subseteq NamesOf(hs)
           /\ SetEtcd(g, hs) \subseteq g \cup NamesOf(hs)
           /\ SetKubeControlPlane(g, hs) \subseteq g \cup NamesOf(hs)
           /\ SetKubeNode(g, hs, e, m) \subseteq g \cup NamesOf(hs)
           /\ SetCalicoRR(g, hs) \subseteq g \cup NamesOf(hs)
<1>1. \A a, b : Slice(hs, a, b) \subseteq NamesOf(hs)
  BY DEF Slice, NamesOf
<1>2. QED
  BY <1>1 DEF Purged, SetEtcd, SetKubeControlPlane, SetKubeNode, SetCalicoRR, FirstNames

InventoryInv == TypeOK /\ WellFormed

LEMMA HostsDistinct ==
    ASSUME InventoryInv
    PROVE  hosts \in Seq(Host) /\ Distinct(hosts)
BY DEF InventoryInv, TypeOK, WellFormed, Host, Address, Distinct

LEMMA RequestArgs ==
    ASSUME NEW args \in Requests
    PROVE  /\ args \in Seq(Arguments) /\ args # <<>>
           /\ {args[i].op : i \in DOMAIN args}
                 \subseteq {"ip", "named", "bare", "del_name", "del_ip", "load"}
           /\ {args[i].ip : i \in {j \in DOMAIN args : args[j].op \in {"ip", "named"}}}
                 \subseteq IPs
<1>1. args \in Seq(Arguments) /\ args # <<>>
  BY RequestsAssumption
<1>2. \A i \in DOMAIN args : args[i] \in Arguments
  BY <1>1
<1>3. QED
  BY <1>1, <1>2, ArgumentFields

LEMMA InvokeInv ==
    ASSUME InventoryInv, NEW add \in BOOLEAN, NEW args \in Requests, Invoke(add, args)
    PROVE  InventoryInv'
<1> DEFINE load == add \/ Deletes(args[1])
           old == IF load THEN hosts ELSE <<>>
           new == BuildHostnames(old, args).hs
           Loaded(group) == IF load THEN Purged(group, new) ELSE {}
<1>1. /\ BuildHostnames(old, args).next <= MaxId + 1
      /\ hosts' = InFile(old, new)
      /\ etcd' = SetEtcd(Loaded(etcd), new)
      /\ kube_control_plane' = SetKubeControlPlane(Loaded(kube_control_plane), new)
      /\ kube_node' = SetKubeNode(Loaded(kube_node), new, etcd', kube_control_plane')
      /\ calico_rr' = SetCalicoRR(Loaded(calico_rr), new)
      /\ written' = TRUE
      /\ command' = [load  |-> load,
                     ops   |-> {args[i].op : i \in DOMAIN args},
                     asked |-> {args[i].ip : i \in
                                   {j \in DOMAIN args : args[j].op \in {"ip", "named"}}}]
      /\ past' = (IF load THEN past ELSE {})
                    \cup (IF \E i \in DOMAIN args : Deletes(args[i]) THEN {"deleted"} ELSE {})
  BY DEF Invoke
<1>2. old \in Seq(Host) /\ Distinct(old)
  <2>1. <<>> \in Seq(Host) /\ Distinct(<<>>)
    BY DEF Distinct
  <2>2. QED
    BY <2>1, HostsDistinct
<1>3. args \in Seq(Arguments)
  BY RequestArgs
<1> HIDE DEF load, old, new
<1>4. /\ new \in Seq(Host) /\ Distinct(new)
      /\ hosts' \in Seq(Host) /\ Distinct(hosts')
      /\ NamesOf(hosts') = NamesOf(new)
      /\ OneAddressEach(old) => OneAddressEach(hosts')
  BY <1>1, <1>2, <1>3, InvokedHosts DEF new
<1>5. NamesOf(new) \subseteq HostNames
  BY <1>4, NamesTyped
<1>6. \A g : Loaded(g) \subseteq NamesOf(new)
  BY GroupBounds
<1> HIDE DEF Loaded
<1>7. /\ etcd' \subseteq NamesOf(new) /\ kube_control_plane' \subseteq NamesOf(new)
      /\ kube_node' \subseteq NamesOf(new) /\ calico_rr' \subseteq NamesOf(new)
  <2>1. etcd' \subseteq Loaded(etcd) \cup NamesOf(new)
    BY <1>1, GroupBounds
  <2>2. kube_control_plane' \subseteq Loaded(kube_control_plane) \cup NamesOf(new)
    BY <1>1, GroupBounds
  <2>3. kube_node' \subseteq Loaded(kube_node) \cup NamesOf(new)
    BY <1>1, GroupBounds
  <2>4. calico_rr' \subseteq Loaded(calico_rr) \cup NamesOf(new)
    BY <1>1, GroupBounds
  <2>5. QED
    BY <1>6, <2>1, <2>2, <2>3, <2>4
<1>8. load \in BOOLEAN
  BY DEF load, Deletes
<1>9. TypeOK'
  <2>1. written' \in BOOLEAN
    BY <1>1
  <2>2. hosts' \in Seq([name : HostNames, ip : IPs \cup {NoIP}])
    BY <1>4 DEF Host, Address
  <2>3. \A group \in {etcd', kube_control_plane', kube_node', calico_rr'} :
            group \subseteq HostNames
    BY <1>5, <1>7
  <2>4. command' \in [load : BOOLEAN, asked : SUBSET IPs,
                    ops : SUBSET {"ip", "named", "bare", "del_name", "del_ip", "load"}]
    BY <1>1, <1>8, RequestArgs
  <2>5. past' \subseteq {"loaded", "deleted"}
    BY <1>1 DEF InventoryInv, TypeOK
  <2>6. QED
    BY <2>1, <2>2, <2>3, <2>4, <2>5 DEF TypeOK
<1>10. WellFormed'
  <2>1. \A i, j \in DOMAIN hosts' : hosts'[i].name = hosts'[j].name => i = j
    BY <1>4 DEF Distinct
  <2>2. etcd' \cup kube_control_plane' \cup kube_node' \cup calico_rr' \subseteq NamesOf(hosts')
    BY <1>4, <1>7
  <2>3. ASSUME "loaded" \notin past' PROVE OneAddressEach(hosts')
    <3>1. CASE load
      BY <1>1, <1>4, <2>3, <3>1 DEF old, InventoryInv, WellFormed
    <3>2. CASE ~load
      BY <1>4, <3>2 DEF old, OneAddressEach
    <3>3. QED
      BY <3>1, <3>2
  <2>4. QED
    BY <2>1, <2>2, <2>3 DEF WellFormed, NamesOf, OneAddressEach
<1>11. QED
  BY <1>9, <1>10 DEF InventoryInv

LEMMA DocumentTypes ==
    ASSUME NEW docs \in Documents
    PROVE  /\ DOMAIN docs = 1 .. Len(docs) /\ Len(docs) \in Nat
           /\ \A i \in DOMAIN docs : docs[i].entries \in Seq(EntryType)
<1> DEFINE Doc == [json : BOOLEAN, entries : Seq(EntryType)]
<1>1. docs \in Seq(Doc)
  BY DocumentsAssumption DEF EntryType
<1>2. \A d \in Doc : d.entries \in Seq(EntryType)
  OBVIOUS
<1> HIDE DEF Doc
<1>3. DOMAIN docs = 1 .. Len(docs) /\ \A i \in DOMAIN docs : docs[i] \in Doc
  BY <1>1
<1>4. QED
  BY <1>1, <1>2, <1>3

LEMMA LoadInv ==
    ASSUME InventoryInv, NEW docs \in Documents, Load(docs)
    PROVE  InventoryInv'
<1> DEFINE good == {i \in DOMAIN docs : \A j \in 1 .. i : docs[j].json}
           k == Cardinality(good)
           seqs == [i \in 1 .. k |-> docs[i].entries]
           entries == FlattenSeq(seqs)
           NamesIn(group) == {e.name : e \in {entries[i] : i \in
                                {j \in DOMAIN entries : entries[j].group = group}}}
<1>1. /\ good # {}
      /\ hosts' = PutAll(entries)
      /\ etcd' = NamesIn("etcd")
      /\ kube_control_plane' = NamesIn("kube_control_plane")
      /\ kube_node' = NamesIn("kube_node")
      /\ calico_rr' = NamesIn("calico_rr")
      /\ written' = TRUE
      /\ command' = [load |-> FALSE, ops |-> {"load"}, asked |-> {}]
      /\ past' = {"loaded"}
  BY DEF Load
<1>2. /\ DOMAIN docs = 1 .. Len(docs) /\ Len(docs) \in Nat
      /\ \A i \in DOMAIN docs : docs[i].entries \in Seq(EntryType)
  BY DocumentTypes
<1>3. k \in 1 .. Len(docs)
  <2>1. IsFiniteSet(DOMAIN docs) /\ Cardinality(DOMAIN docs) = Len(docs) /\ Len(docs) \in Nat
    <3>1. \A m \in Nat : IsFiniteSet(1 .. m) /\ Cardinality(1 .. m) = m
      <4>1. \A m \in Nat : m \in Int /\ 1 \in Int /\ (1 > m => m = 0) /\ m - 1 + 1 = m
        OBVIOUS
      <4>2. QED
        BY <4>1, FS_Interval
    <3>2. QED
      BY <1>2, <3>1
  <2>2. good \in SUBSET DOMAIN docs
    OBVIOUS
  <2> HIDE DEF good
  <2>3. IsFiniteSet(good) /\ k <= Len(docs) /\ k \in Nat /\ k # 0
    BY <1>1, <2>1, <2>2, FS_Subset, FS_CardinalityType, FS_EmptySet
  <2>4. QED
    BY <2>1, <2>3
<1> HIDE DEF good, k
<1>4. entries \in Seq(EntryType)
  <2>1. \A i \in 1 .. k : docs[i].entries \in Seq(EntryType)
    BY <1>2, <1>3
  <2>2. seqs \in Seq(Seq(EntryType)) /\ seqs # <<>>
    <3>1. k \in Nat /\ k # 0
      BY <1>3
    <3>2. seqs \in [1 .. k -> Seq(EntryType)] /\ Len(seqs) = k
      BY <2>1, <3>1
    <3>3. QED
      BY <3>1, <3>2
  <2> HIDE DEF seqs
  <2>3. QED
    BY <2>2, FlattenTyped
<1> HIDE DEF entries
<1>5. /\ hosts' \in Seq(Host) /\ Distinct(hosts')
      /\ \A i \in DOMAIN entries : entries[i].name \in NamesOf(hosts')
  BY <1>1, <1>4, PutFacts
<1>6. \A group : NamesIn(group) \subseteq NamesOf(hosts')
  BY <1>5
<1> HIDE DEF NamesIn
<1>7. NamesOf(hosts') \subseteq HostNames
  BY <1>5, NamesTyped
<1>8. TypeOK'
  <2>1. hosts' \in Seq([name : HostNames, ip : IPs \cup {NoIP}])
    BY <1>5 DEF Host, Address
  <2>2. \A group \in {etcd', kube_control_plane', kube_node', calico_rr'} :
            group \subseteq HostNames
    BY <1>1, <1>6, <1>7
  <2>3. command' \in [load : BOOLEAN, asked : SUBSET IPs,
                    ops : SUBSET {"ip", "named", "bare", "del_name", "del_ip", "load"}]
    BY <1>1
  <2>4. written' \in BOOLEAN /\ past' \subseteq {"loaded", "deleted"}
    BY <1>1
  <2>5. QED
    BY <2>1, <2>2, <2>3, <2>4 DEF TypeOK
<1>9. WellFormed'
  <2>1. \A i, j \in DOMAIN hosts' : hosts'[i].name = hosts'[j].name => i = j
    BY <1>5 DEF Distinct
  <2>2. etcd' \cup kube_control_plane' \cup kube_node' \cup calico_rr' \subseteq NamesOf(hosts')
    BY <1>1, <1>6
  <2>3. "loaded" \in past'
    BY <1>1
  <2>4. QED
    BY <2>1, <2>2, <2>3 DEF WellFormed, NamesOf
<1>10. QED
  BY <1>8, <1>9 DEF InventoryInv

LEMMA InventoryInductive == Spec => []InventoryInv
<1>1. Init => InventoryInv
  <2> SUFFICES ASSUME Init PROVE InventoryInv
    OBVIOUS
  <2>1. hosts = <<>> /\ <<>> \in Seq([name : HostNames, ip : IPs \cup {NoIP}]) /\ DOMAIN hosts = {}
    BY DEF Init
  <2>2. TypeOK
    BY <2>1 DEF Init, TypeOK
  <2>3. WellFormed
    BY <2>1 DEF Init, WellFormed, OneAddressEach
  <2>4. QED
    BY <2>2, <2>3 DEF InventoryInv
<1>2. InventoryInv /\ [Next]_vars => InventoryInv'
  <2>1. SUFFICES ASSUME InventoryInv, [Next]_vars PROVE InventoryInv'
    OBVIOUS
  <2>2. CASE UNCHANGED vars
    BY <2>1, <2>2 DEF vars, groups, InventoryInv, TypeOK, WellFormed, OneAddressEach, NamesOf
  <2>3. CASE Next
    BY <2>1, <2>3, InvokeInv, LoadInv DEF Next
  <2>4. QED
    BY <2>1, <2>2, <2>3
<1>3. QED
  BY <1>1, <1>2, PTL DEF Spec

(* Every variable keeps its type, whatever is asked and loaded: only names *)
(* that can be generated or were given are ever written, and each host has *)
(* a known address or, as load leaves those of group "all", none.          *)
THEOREM InventoryTypes == Spec => []TypeOK
<1>1. InventoryInv => TypeOK
  BY DEF InventoryInv
<1>2. QED
  BY <1>1, InventoryInductive, PTL

(* No name is given to two hosts and no group names a host that is not     *)
(* there.  As long as the file does not come from a load, every host has   *)
(* an address, and no two have the same.                                   *)
THEOREM InventoryWellFormed == Spec => []WellFormed
<1>1. InventoryInv => WellFormed
  BY DEF InventoryInv
<1>2. QED
  BY <1>1, InventoryInductive, PTL

-----------------------------------------------------------------------------
(* The roles that stay, and the size of etcd. *)

Old(add, args) == IF add \/ Deletes(args[1]) THEN hosts ELSE <<>>
New(add, args) == BuildHostnames(Old(add, args), args).hs

(* What a step is.                                                         *)
LEMMA InvokeStep ==
    ASSUME InventoryInv, NEW add \in BOOLEAN, NEW args \in Requests, Invoke(add, args)
    PROVE  LET load == add \/ Deletes(args[1])
               new == New(add, args)
           IN  /\ new \in Seq(Host) /\ Distinct(new)
               /\ hosts' \in Seq(Host) /\ Distinct(hosts')
               /\ NamesOf(hosts') = NamesOf(new) /\ IPsOf(hosts') = IPsOf(new)
               /\ Len(hosts') = Len(new)
               /\ hosts' = InFile(Old(add, args), new)
               /\ command'.load = load
               /\ etcd' = SetEtcd(IF load THEN Purged(etcd, new) ELSE {}, new)
               /\ load => /\ Purged(etcd, new) \subseteq etcd'
                          /\ Purged(kube_control_plane, new) \subseteq kube_control_plane'
               /\ etcd' \subseteq NamesOf(new)
<1> DEFINE load == add \/ Deletes(args[1])
           old == Old(add, args)
           new == New(add, args)
<1>1. /\ BuildHostnames(old, args).next <= MaxId + 1
      /\ hosts' = InFile(old, new)
      /\ etcd' = SetEtcd(IF load THEN Purged(etcd, new) ELSE {}, new)
      /\ kube_control_plane' =
            SetKubeControlPlane(IF load THEN Purged(kube_control_plane, new) ELSE {}, new)
      /\ command'.load = load
  BY DEF Invoke, Old, New
<1>2. old \in Seq(Host) /\ Distinct(old)
  <2>1. <<>> \in Seq(Host) /\ Distinct(<<>>)
    BY DEF Distinct
  <2>2. QED
    BY <2>1, HostsDistinct DEF Old
<1>3. args \in Seq(Arguments) /\ new = BuildHostnames(old, args).hs
  BY RequestArgs DEF New
<1> HIDE DEF load, old, new
<1>4. /\ new \in Seq(Host) /\ Distinct(new)
      /\ hosts' \in Seq(Host) /\ Distinct(hosts')
      /\ NamesOf(hosts') = NamesOf(new) /\ IPsOf(hosts') = IPsOf(new)
      /\ Len(hosts') = Len(new)
  BY <1>1, <1>2, <1>3, InvokedHosts
<1>5. load => /\ Purged(etcd, new) \subseteq etcd'
              /\ Purged(kube_control_plane, new) \subseteq kube_control_plane'
  BY <1>1 DEF SetEtcd, SetKubeControlPlane
<1>6. etcd' \subseteq NamesOf(new)
  <2> DEFINE before == IF load THEN Purged(etcd, new) ELSE {}
  <2>1. before \subseteq NamesOf(new)
    BY GroupBounds
  <2>2. etcd' = SetEtcd(before, new)
    BY <1>1
  <2> HIDE DEF before
  <2>3. QED
    BY <2>1, <2>2, GroupBounds
<1>7. QED
  BY <1>1, <1>4, <1>5, <1>6 DEF load, old, new

(* A host that stays in a loaded inventory keeps its place in etcd and the *)
(* control plane, whatever the size of the new inventory.                  *)
THEOREM RolesAreKept == Spec => RolesKept
<1>1. InventoryInv /\ Next =>
         (command'.load =>
             /\ etcd \cap NamesOf(hosts') \subseteq etcd'
             /\ kube_control_plane \cap NamesOf(hosts') \subseteq kube_control_plane')
  <2>1. SUFFICES ASSUME InventoryInv, Next, command'.load
                 PROVE  /\ etcd \cap NamesOf(hosts') \subseteq etcd'
                        /\ kube_control_plane \cap NamesOf(hosts') \subseteq kube_control_plane'
    OBVIOUS
  <2>2. ASSUME NEW add \in BOOLEAN, NEW args \in Requests, Invoke(add, args)
        PROVE  /\ etcd \cap NamesOf(hosts') \subseteq etcd'
               /\ kube_control_plane \cap NamesOf(hosts') \subseteq kube_control_plane'
    <3> DEFINE new == New(add, args)
    <3>1. /\ NamesOf(hosts') = NamesOf(new)
          /\ Purged(etcd, new) \subseteq etcd'
          /\ Purged(kube_control_plane, new) \subseteq kube_control_plane'
      BY <2>1, <2>2, InvokeStep
    <3>2. QED
      BY <3>1 DEF Purged
  <2>3. ASSUME NEW docs \in Documents, Load(docs) PROVE FALSE
    BY <2>1, <2>3 DEF Load
  <2>4. QED
    BY <2>1, <2>2, <2>3 DEF Next
<1>2. InventoryInv /\ [Next]_vars =>
         [command'.load =>
             /\ etcd \cap NamesOf(hosts') \subseteq etcd'
             /\ kube_control_plane \cap NamesOf(hosts') \subseteq kube_control_plane']_vars
  BY <1>1
<1>3. QED
  BY <1>2, InventoryInductive, PTL DEF Spec, RolesKept

LEMMA EtcdCount ==
    ASSUME NEW hs \in Seq(Host), Distinct(hs)
    PROVE  LET first == FirstNames(hs, EtcdHostsCount(hs))
           IN  /\ IsFiniteSet(first)
               /\ Cardinality(first) = IF Len(hs) >= 3 THEN 3 ELSE IF hs = <<>> THEN 0 ELSE 1
<1> DEFINE k == EtcdHostsCount(hs)
<1>1. Len(hs) \in Nat /\ (hs = <<>> <=> Len(hs) = 0) /\ DOMAIN hs = 1 .. Len(hs)
  OBVIOUS
<1>2. CASE hs = <<>>
  <2>1. FirstNames(hs, k) = {}
    BY <1>1, <1>2 DEF FirstNames, Slice
  <2>2. QED
    BY <1>1, <1>2, <2>1, FS_EmptySet
<1>3. CASE hs # <<>>
  <2>1. k \in 0 .. Len(hs) /\ k = IF Len(hs) >= 3 THEN 3 ELSE 1
    BY <1>1, <1>3 DEF EtcdHostsCount
  <2>2. IsFiniteSet(FirstNames(hs, k)) /\ Cardinality(FirstNames(hs, k)) = k
    BY <2>1, FirstNamesCount
  <2>3. QED
    BY <1>3, <2>1, <2>2
<1>4. QED
  BY <1>2, <1>3

LEMMA InvokeRedundant ==
    ASSUME InventoryInv, NEW add \in BOOLEAN, NEW args \in Requests, Invoke(add, args)
    PROVE  EtcdRedundant'
<1> DEFINE new == New(add, args)
           first == FirstNames(new, EtcdHostsCount(new))
<1>1. /\ new \in Seq(Host) /\ Distinct(new) /\ Len(hosts') = Len(new)
      /\ hosts' \in Seq(Host)
      /\ first \subseteq etcd' /\ etcd' \subseteq NamesOf(new)
  BY InvokeStep DEF SetEtcd
<1> HIDE DEF new
<1>2. /\ IsFiniteSet(first)
      /\ Cardinality(first) = IF Len(new) >= 3 THEN 3 ELSE IF new = <<>> THEN 0 ELSE 1
  BY <1>1, EtcdCount
<1>3. IsFiniteSet(NamesOf(new))
  BY <1>1, NamesCount
<1> HIDE DEF first
<1>4. IsFiniteSet(etcd') /\ Cardinality(first) <= Cardinality(etcd')
  BY <1>1, <1>3, FS_Subset
<1>5. Cardinality(etcd') \in Nat /\ Cardinality(first) \in Nat
  BY <1>2, <1>4, FS_CardinalityType
<1>6. Len(hosts') >= 3 => Cardinality(etcd') >= 3
  BY <1>1, <1>2, <1>4, <1>5
<1>7. hosts' # <<>> => etcd' # {}
  <2>1. ASSUME hosts' # <<>> PROVE Len(new) \in Nat /\ Len(new) # 0 /\ new # <<>>
    <3>1. Len(hosts') # 0 /\ Len(new) \in Nat
      BY <1>1, <2>1
    <3>2. Len(new) # 0
      BY <1>1, <3>1
    <3>3. QED
      BY <3>1, <3>2
  <2>2. ASSUME hosts' # <<>> PROVE Cardinality(first) # 0
    BY <1>2, <2>1, <2>2
  <2>3. QED
    BY <1>1, <2>2, FS_EmptySet
<1>8. QED
  BY <1>6, <1>7 DEF EtcdRedundant

(* Three hosts or more give three members of etcd or more and one gives    *)
(* one, whatever is added or deleted.                                      *)
THEOREM EtcdIsRedundant == Spec => []EtcdRedundant
<1>1. Init => EtcdRedundant
  <2>1. SUFFICES ASSUME Init PROVE hosts = <<>> /\ ~ (Len(hosts) >= 3)
    BY DEF EtcdRedundant
  <2>2. QED
    BY <2>1 DEF Init
<1>2. InventoryInv /\ EtcdRedundant /\ [Next]_vars => EtcdRedundant'
  <2>1. SUFFICES ASSUME InventoryInv, EtcdRedundant, [Next]_vars PROVE EtcdRedundant'
    OBVIOUS
  <2>2. CASE UNCHANGED vars
    BY <2>1, <2>2 DEF vars, groups, EtcdRedundant
  <2>3. ASSUME NEW docs \in Documents, Load(docs) PROVE EtcdRedundant'
    BY <2>3 DEF Load, EtcdRedundant
  <2>4. QED
    BY <2>1, <2>2, <2>3, InvokeRedundant DEF Next
<1>3. QED
  BY <1>1, <1>2, InventoryInductive, PTL DEF Spec

-----------------------------------------------------------------------------
(* The order of the hosts, and the parity of etcd. *)

(* Only leaves out the first k hosts, if these are the ones to leave out.  *)
LEMMA OnlySuffix ==
    ASSUME NEW X, NEW hs \in Seq(X), NEW names, NEW k \in 0 .. Len(hs),
           \A i \in 1 .. k : hs[i].name \notin names,
           \A i \in k + 1 .. Len(hs) : hs[i].name \in names
    PROVE  /\ Len(Only(hs, names)) = Len(hs) - k
           /\ \A j \in 1 .. Len(hs) - k : Only(hs, names)[j] = hs[k + j]
<1> DEFINE n == Len(hs)
<1>1. PICK f : OnlySteps(f, X, hs, names)
  BY OnlyRecursion
<1>2. /\ f \in [0 .. n -> Seq(X)] /\ Only(hs, names) = f[n] /\ f[0] = <<>>
      /\ \A i \in 1 .. n :
            f[i] = IF hs[i].name \in names THEN Append(f[i - 1], hs[i]) ELSE f[i - 1]
  BY <1>1 DEF OnlySteps
<1>3. n \in Nat /\ k \in 0 .. n /\ \A i \in 1 .. n : hs[i] \in X
  OBVIOUS
<1>4. /\ \A i \in 1 .. k : hs[i].name \notin names
      /\ \A i \in k + 1 .. n : hs[i].name \in names
  OBVIOUS
<1> HIDE DEF n
<1> DEFINE S == {i \in 0 .. n :
                    IF i <= k THEN f[i] = <<>>
                    ELSE /\ Len(f[i]) = i - k
                         /\ \A j \in 1 .. i - k : f[i][j] = hs[k + j]}
<1>5. 0 \in S
  BY <1>2, <1>3
<1>6. ASSUME NEW i \in 1 .. n, i - 1 \in S PROVE i \in S
  <2>1. i - 1 \in 0 .. n /\ i \in 0 .. n /\ f[i - 1] \in Seq(X) /\ hs[i] \in X
    BY <1>2, <1>3
  <2>2. CASE i <= k
    <3>1. i \in 1 .. k /\ i - 1 <= k
      BY <1>3, <2>2
    <3>2. f[i - 1] = <<>> /\ f[i] = f[i - 1]
      BY <1>2, <1>4, <1>6, <3>1
    <3>3. QED
      BY <2>1, <2>2, <3>2
  <2>3. CASE ~(i <= k)
    <3> DEFINE part == f[i - 1]
               m == (i - 1) - k
    <3>1. i \in k + 1 .. n
      BY <1>3, <2>3
    <3>2. f[i] = Append(part, hs[i])
      BY <1>2, <1>4, <3>1
    <3>3. part \in Seq(X) /\ m \in Nat /\ i = k + (m + 1) /\ m + 1 = i - k
      BY <1>3, <2>1, <2>3
    <3>4. Len(part) = m /\ \A j \in 1 .. m : part[j] = hs[k + j]
      <4>1. CASE i - 1 <= k
        <5>1. part = <<>> /\ m = 0
          BY <1>3, <1>6, <2>3, <4>1
        <5> HIDE DEF m, part
        <5>2. QED
          BY <5>1
      <4>2. CASE ~(i - 1 <= k)
        BY <1>6, <4>2
      <4>3. QED
        BY <4>1, <4>2
    <3> HIDE DEF part, m
    <3>5. Len(f[i]) = m + 1 /\ f[i][m + 1] = hs[i] /\ \A j \in 1 .. m : f[i][j] = part[j]
      BY <2>1, <3>2, <3>3, <3>4
    <3>6. ASSUME NEW j \in 1 .. m + 1 PROVE f[i][j] = hs[k + j]
      <4>1. j = m + 1 \/ j \in 1 .. m
        BY <3>3
      <4>2. QED
        BY <3>3, <3>4, <3>5, <4>1
    <3>7. QED
      BY <2>1, <2>3, <3>3, <3>5, <3>6
  <2>4. QED
    BY <2>2, <2>3
<1>7. 0 .. n \subseteq S
  <2> HIDE DEF S
  <2>1. QED
    BY <1>3, <1>5, <1>6, IndexInduction
<1>8. n \in S
  BY <1>3, <1>7
<1>9. Len(f[n]) = n - k /\ \A j \in 1 .. n - k : f[n][j] = hs[k + j]
  <2>1. CASE n <= k
    <3>1. f[n] = <<>> /\ n - k = 0
      BY <1>3, <1>8, <2>1
    <3>2. QED
      BY <3>1
  <2>2. CASE ~(n <= k)
    BY <1>8, <2>2
  <2>3. QED
    BY <2>1, <2>2
<1>10. QED
  BY <1>2, <1>9 DEF n

(* Hosts that are only added are in the file in the order they were added. *)
LEMMA InFileOrder ==
    ASSUME NEW X, NEW Y, NEW old \in Seq(Y), NEW new \in Seq(X), Distinct(new),
           Distinct(old), Extends(new, old)
    PROVE  Extends(InFile(old, new), new)
<1> DEFINE PlaceOf(n) == CHOOSE i \in DOMAIN new : new[i].name = n
           kept == Only(old, NamesOf(new))
           a == [i \in DOMAIN kept |-> new[PlaceOf(kept[i].name)]]
           fresh == NamesOf(new) \ NamesOf(old)
           b == Only(new, fresh)
           k == Len(old)
           n == Len(new)
<1>1. InFile(old, new) = a \o b
  BY DEF InFile
<1>2. /\ k \in Nat /\ n \in Nat /\ DOMAIN old = 1 .. k /\ DOMAIN new = 1 .. n
  OBVIOUS
<1>3. k <= n /\ \A i \in 1 .. k : i \in 1 .. n /\ new[i].name = old[i].name
  <2>1. \A i \in 1 .. k : i \in 1 .. n /\ new[i].name = old[i].name
    BY <1>2 DEF Extends
  <2>2. k # 0 => k \in 1 .. k
    BY <1>2
  <2> HIDE DEF k, n
  <2>3. k <= n
    BY <1>2, <2>1, <2>2
  <2>4. QED
    BY <2>1, <2>3
<1>4. Len(kept) = k /\ \A j \in 1 .. k : kept[j] = old[j]
  <2>1. \A i \in 1 .. k : old[i].name \in NamesOf(new)
    BY <1>2, <1>3 DEF NamesOf
  <2>2. 0 \in 0 .. k /\ \A i \in 1 .. 0 : old[i].name \notin NamesOf(new)
    BY <1>2
  <2>3. \A i \in 0 + 1 .. k : old[i].name \in NamesOf(new)
    BY <2>1
  <2>4. /\ Len(kept) = k - 0
        /\ \A j \in 1 .. k - 0 : kept[j] = old[0 + j]
    BY <2>2, <2>3, OnlySuffix
  <2> HIDE DEF kept, k
  <2>5. \A j \in 1 .. k : 0 + j = j
    OBVIOUS
  <2>6. QED
    BY <1>2, <2>4, <2>5
<1>5. /\ Len(b) = n - k /\ \A j \in 1 .. n - k : b[j] = new[k + j]
  <2>1. \A i \in 1 .. k : new[i].name \notin fresh
    BY <1>2, <1>3 DEF NamesOf
  <2>2. ASSUME NEW i \in k + 1 .. n PROVE new[i].name \in fresh
    <3>1. i \in 1 .. n /\ i \notin 1 .. k
      BY <1>2
    <3>2. new[i].name \in NamesOf(new)
      BY <1>2, <3>1 DEF NamesOf
    <3>3. ASSUME new[i].name \in NamesOf(old) PROVE FALSE
      <4>1. PICK j \in 1 .. k : new[i].name = old[j].name
        BY <1>2, <3>3 DEF NamesOf
      <4>2. j \in DOMAIN new /\ i \in DOMAIN new /\ new[i].name = new[j].name
        BY <1>2, <1>3, <3>1, <4>1
      <4>3. i = j
        BY <4>2 DEF Distinct
      <4>4. QED
        BY <3>1, <4>1, <4>3
    <3>4. QED
      BY <3>2, <3>3
  <2>3. k \in 0 .. n
    BY <1>2, <1>3
  <2> HIDE DEF fresh, k, n, a, b, kept, PlaceOf
  <2>4. /\ k \in 0 .. Len(new) /\ \A i \in 1 .. k : new[i].name \notin fresh
        /\ \A i \in k + 1 .. Len(new) : new[i].name \in fresh
    BY <2>1, <2>2, <2>3 DEF n
  <2>5. /\ Len(Only(new, fresh)) = Len(new) - k
        /\ \A j \in 1 .. Len(new) - k : Only(new, fresh)[j] = new[k + j]
    <3>1. new \in Seq(X)
      OBVIOUS
    <3>2. QED
      BY ONLY <2>4, <3>1, OnlySuffix
  <2>6. QED
    BY <2>5 DEF n, b
<1>6. kept \in Seq(Y) /\ b \in Seq(X)
  BY OnlyFacts
<1> HIDE DEF b, kept
<1>7. a \in Seq(X) /\ Len(a) = k /\ \A i \in 1 .. k : a[i].name = new[i].name
  <2>1. DOMAIN kept = 1 .. k
    BY <1>4, <1>6
  <2>2. ASSUME NEW i \in 1 .. k
        PROVE  /\ PlaceOf(kept[i].name) \in 1 .. n
               /\ new[PlaceOf(kept[i].name)].name = new[i].name
    <3>1. kept[i].name = new[i].name /\ i \in DOMAIN new
      BY <1>2, <1>3, <1>4
    <3>2. QED
      BY <1>2, <3>1
  <2>3. \A i \in 1 .. n : new[i] \in X
    OBVIOUS
  <2> HIDE DEF PlaceOf, k, n
  <2>4. a = [i \in 1 .. k |-> new[PlaceOf(kept[i].name)]]
    BY <2>1
  <2> HIDE DEF a
  <2>5. a \in [1 .. k -> X]
    BY <2>2, <2>3, <2>4
  <2>6. a \in Seq(X) /\ Len(a) = k
    BY <1>2, <2>4, <2>5
  <2>7. QED
    BY <2>2, <2>4, <2>6
<1> HIDE DEF a, k, n
<1> DEFINE s == a \o b
<1>8. /\ DOMAIN s = 1 .. k + (n - k)
      /\ \A i \in 1 .. k : s[i] = a[i]
      /\ \A j \in 1 .. n - k : s[k + j] = b[j]
  <2>1. /\ DOMAIN s = 1 .. Len(a) + Len(b)
        /\ \A i \in 1 .. Len(a) : s[i] = a[i]
        /\ \A j \in 1 .. Len(b) : s[Len(a) + j] = b[j]
    <3>1. Joins(a \o b, a, b)
      BY <1>6, <1>7, ConcatJoins
    <3> HIDE DEF s
    <3>2. Joins(s, a, b)
      BY <3>1 DEF s
    <3>3. QED
      BY <3>2 DEF Joins
  <2> HIDE DEF s
  <2>2. Len(a) = k /\ Len(b) = n - k
    BY <1>5, <1>7
  <2>3. QED
    BY <2>1, <2>2
<1> HIDE DEF s
<1>9. ASSUME NEW i \in 1 .. n PROVE i \in DOMAIN s /\ s[i].name = new[i].name
  <2>1. i \in DOMAIN s
    BY <1>2, <1>3, <1>8
  <2>2. CASE i \in 1 .. k
    BY <1>7, <1>8, <2>1, <2>2
  <2>3. CASE i \notin 1 .. k
    <3>1. i - k \in 1 .. n - k /\ k + (i - k) = i
      BY <1>2, <1>3, <2>3
    <3>2. s[k + (i - k)] = b[i - k] /\ b[i - k] = new[k + (i - k)]
      BY <1>5, <1>8, <3>1
    <3>3. QED
      BY <2>1, <3>1, <3>2
  <2>4. QED
    BY <2>2, <2>3
<1>10. Extends(s, new)
  BY <1>2, <1>9 DEF Extends
<1>11. QED
  BY <1>1, <1>10 DEF s

LEMMA ProcessExtends ==
    ASSUME NEW old, NEW acc \in GoodAcc, NEW arg \in Arguments, ~Deletes(arg)
    PROVE  Extends(Process(old, acc, arg).hs, acc.hs)
<1> DEFINE new == Process(old, acc, arg)
<1>1. acc \in Acc /\ acc.hs \in Seq(AnyHost) /\ acc.next \in Nat
  BY DEF GoodAcc, Acc
<1>2. Extends(acc.hs, acc.hs)
  BY DEF Extends
<1>3. \A n \in Nat, a \in IPs : Extends(AddHost(old, acc, n, a).hs, acc.hs)
  <2>1. SUFFICES ASSUME NEW n \in Nat, NEW a \in IPs
                 PROVE  Extends(Added(acc.hs, n, a), acc.hs)
    BY AddHostGood
  <2>2. [name |-> n, ip |-> a] \in AnyHost
    BY DEF AnyHost, Address
  <2>3. QED
    BY <1>1, <2>2, AddedFacts
<1>4. CASE arg.op = "ip"
  <2> DEFINE w == AddHost(old, acc, acc.next, arg.ip)
  <2>1. arg.ip \in IPs
    BY <1>4, ArgumentFields
  <2>2. w \in Acc /\ Extends(w.hs, acc.hs)
    BY <1>1, <1>3, <2>1, AddHostGood
  <2>3. new = [w EXCEPT !.next = IF Found(acc.hs, arg.ip) THEN @ ELSE @ + 1,
                        !.ip = {arg.ip}]
    BY <1>4 DEF Process
  <2> HIDE DEF w, new
  <2>4. new.hs = w.hs
    BY <2>2, <2>3 DEF Acc
  <2>5. QED
    BY <2>2, <2>4 DEF new
<1>5. CASE arg.op = "named"
  <2> DEFINE w == AddHost(old, acc, arg.name, arg.ip)
  <2>1. arg.ip \in IPs /\ arg.name \in Nat
    BY <1>5, ArgumentFields, NameIsNat
  <2>2. w \in Acc /\ Extends(w.hs, acc.hs)
    BY <1>1, <1>3, <2>1, AddHostGood
  <2>3. new = [w EXCEPT !.hostname = {arg.name}, !.ip = {arg.ip}]
    BY <1>5 DEF Process
  <2> HIDE DEF w, new
  <2>4. new.hs = w.hs
    BY <2>2, <2>3 DEF Acc
  <2>5. QED
    BY <2>2, <2>4 DEF new
<1>6. CASE arg.op = "bare" /\ arg.name \notin NamesOf(acc.hs)
  <2>1. new = AddBare(old, acc)
    BY <1>6 DEF Process
  <2>2. \A n \in acc.hostname : n \in Nat
    BY <1>1, NameIsNat DEF Acc
  <2>3. \A a \in acc.ip : a \in IPs
    BY <1>1 DEF Acc
  <2>4. [acc EXCEPT !.error = TRUE].hs = acc.hs
    BY <1>1 DEF Acc
  <2>5. QED
    BY <1>1, <1>2, <1>3, <2>1, <2>2, <2>3, <2>4, AddBareCases
<1>7. CASE arg.op \notin {"ip", "named"} /\ ~(arg.op = "bare" /\ arg.name \notin NamesOf(acc.hs))
  <2>1. new = acc
    BY <1>7 DEF Process, Deletes
  <2>2. QED
    BY <1>2, <2>1
<1>8. QED
  BY <1>4, <1>5, <1>6, <1>7

LEMMA BuildExtends ==
    ASSUME NEW old \in Seq(Host), Distinct(old), NEW args \in Seq(Arguments),
           \A i \in DOMAIN args : ~Deletes(args[i])
    PROVE  Extends(BuildHostnames(old, args).hs, old)
<1> DEFINE n == Len(args)
<1>1. PICK f : BuildSteps(f, old, args)
  BY BuildRecursion
<1>2. /\ n \in Nat /\ f \in [0 .. n -> GoodAcc]
      /\ BuildHostnames(old, args) = f[n] /\ f[0].hs = old
      /\ \A i \in 1 .. n :
            f[i] = IF f[i - 1].error THEN f[i - 1] ELSE Process(old, f[i - 1], args[i])
  BY <1>1 DEF BuildSteps, First
<1>3. \A i \in 1 .. n : args[i] \in Arguments /\ ~Deletes(args[i])
  OBVIOUS
<1> HIDE DEF n
<1> DEFINE S == {i \in 0 .. n : Extends(f[i].hs, old)}
<1>4. 0 \in S
  <2>1. Extends(old, old)
    BY DEF Extends
  <2>2. QED
    BY <1>2, <2>1
<1>5. ASSUME NEW i \in 1 .. n, i - 1 \in S PROVE i \in S
  <2>1. i - 1 \in 0 .. n /\ i \in 0 .. n
    BY <1>2
  <2>2. f[i - 1] \in GoodAcc /\ Extends(f[i - 1].hs, old)
    BY <1>2, <1>5, <2>1
  <2>3. CASE f[i - 1].error
    BY <1>2, <2>1, <2>2, <2>3
  <2>4. CASE ~f[i - 1].error
    <3>1. f[i] = Process(old, f[i - 1], args[i])
      BY <1>2, <2>4
    <3>2. Extends(f[i].hs, f[i - 1].hs)
      BY <1>3, <2>2, <3>1, ProcessExtends
    <3>3. Extends(f[i].hs, old)
      BY <2>2, <3>2 DEF Extends
    <3>4. QED
      BY <2>1, <3>3
  <2>5. QED
    BY <2>3, <2>4
<1>6. 0 .. n \subseteq S
  <2> HIDE DEF S
  <2>1. QED
    BY <1>2, <1>4, <1>5, IndexInduction
<1>7. n \in S
  BY <1>2, <1>6
<1>8. QED
  BY <1>2, <1>7

(* The first hosts of a list are among the first of one that extends it.   *)
LEMMA FirstNamesExtend ==
    ASSUME NEW X, NEW hs \in Seq(X), NEW Y, NEW old \in Seq(Y), Extends(hs, old)
    PROVE  FirstNames(old, EtcdHostsCount(old)) \subseteq FirstNames(hs, EtcdHostsCount(hs))
<1>1. /\ DOMAIN old = 1 .. Len(old) /\ Len(old) \in Nat
      /\ DOMAIN hs = 1 .. Len(hs) /\ Len(hs) \in Nat
  OBVIOUS
<1>2. Len(old) <= Len(hs)
  BY <1>1 DEF Extends
<1>3. EtcdHostsCount(old) <= EtcdHostsCount(hs) /\ EtcdHostsCount(old) \in Nat /\ EtcdHostsCount(hs) \in Nat
  BY <1>1, <1>2 DEF EtcdHostsCount
<1>4. ASSUME NEW i \in (1 .. EtcdHostsCount(old)) \cap DOMAIN old
      PROVE  i \in (1 .. EtcdHostsCount(hs)) \cap DOMAIN hs /\ hs[i].name = old[i].name
  BY <1>1, <1>3 DEF Extends
<1>5. QED
  BY <1>4 DEF FirstNames, Slice

(* As long as no host has been deleted, etcd is where a new inventory of   *)
(* these hosts would have it.                                              *)
EtcdFirst == past = {} => etcd = FirstNames(hosts, EtcdHostsCount(hosts))

LEMMA InvokeFirst ==
    ASSUME InventoryInv, EtcdFirst, NEW add \in BOOLEAN, NEW args \in Requests,
           Invoke(add, args), past' = {}
    PROVE  etcd' = FirstNames(hosts', EtcdHostsCount(hosts'))
<1> DEFINE load == add \/ Deletes(args[1])
           old == Old(add, args)
           new == New(add, args)
           first == FirstNames(new, EtcdHostsCount(new))
<1>1. /\ new \in Seq(Host) /\ Distinct(new) /\ Len(hosts') = Len(new)
      /\ hosts' \in Seq(Host) /\ hosts' = InFile(old, new)
      /\ etcd' = SetEtcd(IF load THEN Purged(etcd, new) ELSE {}, new)
  BY InvokeStep
<1>2. /\ \A i \in DOMAIN args : ~Deletes(args[i])
      /\ load => past = {}
  BY DEF Invoke
<1>3. old \in Seq(Host) /\ Distinct(old)
  <2>1. <<>> \in Seq(Host) /\ Distinct(<<>>)
    BY DEF Distinct
  <2>2. QED
    BY <2>1, HostsDistinct DEF Old
<1>4. Extends(new, old)
  BY <1>2, <1>3, RequestArgs, BuildExtends DEF New
<1>5. load => old = hosts
  BY DEF Old
<1> HIDE DEF load, old, new
<1>6. etcd' = first
  <2>1. CASE load
    <3>1. Purged(etcd, new) \subseteq first
      <4>1. etcd = FirstNames(old, EtcdHostsCount(old))
        BY <1>2, <1>5, <2>1 DEF EtcdFirst
      <4>2. etcd \subseteq first
        BY <1>1, <1>3, <1>4, <4>1, FirstNamesExtend
      <4>3. QED
        BY <4>2 DEF Purged
    <3>2. QED
      BY <1>1, <2>1, <3>1 DEF SetEtcd
  <2>2. CASE ~load
    BY <1>1, <2>2 DEF SetEtcd
  <2>3. QED
    BY <2>1, <2>2
<1>7. Extends(hosts', new)
  BY <1>1, <1>3, <1>4, InFileOrder
<1>8. Extends(new, hosts')
  <2>1. DOMAIN new = DOMAIN hosts'
    BY <1>1
  <2>2. QED
    BY <1>7, <2>1 DEF Extends
<1>9. first = FirstNames(hosts', EtcdHostsCount(hosts'))
  <2>1. first \subseteq FirstNames(hosts', EtcdHostsCount(hosts'))
    BY <1>1, <1>7, FirstNamesExtend
  <2>2. FirstNames(hosts', EtcdHostsCount(hosts')) \subseteq first
    BY <1>1, <1>8, FirstNamesExtend
  <2>3. QED
    BY <2>1, <2>2
<1>10. QED
  BY <1>6, <1>9

(* The number of etcd hosts is odd as long as no host has been deleted and *)
(* nothing loaded.                                                         *)
THEOREM EtcdIsOdd == Spec => []OddEtcd
<1>1. Init => EtcdFirst
  BY DEF Init, EtcdFirst, FirstNames, Slice
<1>2. InventoryInv /\ EtcdFirst /\ [Next]_vars => EtcdFirst'
  <2>1. SUFFICES ASSUME InventoryInv, EtcdFirst, [Next]_vars PROVE EtcdFirst'
    OBVIOUS
  <2>2. CASE UNCHANGED vars
    <3>1. past' = past /\ etcd' = etcd /\ hosts' = hosts
      BY <2>2 DEF vars, groups
    <3>2. QED
      BY <2>1, <3>1 DEF EtcdFirst, FirstNames, Slice, EtcdHostsCount
  <2>3. ASSUME NEW docs \in Documents, Load(docs) PROVE past' # {}
    BY <2>3 DEF Load
  <2>4. ASSUME NEW add \in BOOLEAN, NEW args \in Requests, Invoke(add, args)
        PROVE  EtcdFirst'
    <3>1. past' = {} => etcd' = FirstNames(hosts', EtcdHostsCount(hosts'))
      BY <2>1, <2>4, InvokeFirst
    <3>2. QED
      BY <3>1 DEF EtcdFirst, FirstNames, Slice, EtcdHostsCount
  <2>5. EtcdFirst' <=> (past' = {} => etcd' = FirstNames(hosts', EtcdHostsCount(hosts')))
    BY DEF EtcdFirst, FirstNames, Slice, EtcdHostsCount
  <2>6. QED
    BY <2>1, <2>2, <2>3, <2>4, <2>5 DEF Next
<1>3. InventoryInv /\ EtcdFirst => OddEtcd
  <2>1. SUFFICES ASSUME InventoryInv, EtcdFirst, hosts # <<>>, past = {}
                 PROVE  Cardinality(etcd) % 2 = 1
    BY DEF OddEtcd
  <2>2. Cardinality(etcd) = 3 \/ Cardinality(etcd) = 1
    BY <2>1, HostsDistinct, EtcdCount DEF EtcdFirst
  <2>3. QED
    BY <2>2
<1>4. QED
  BY <1>1, <1>2, <1>3, InventoryInductive, PTL DEF Spec

(* Both together: at least three members for three hosts, whatever is done *)
(* to the file, and an odd number in one that was only added to.           *)
THEOREM EtcdIsSized == Spec => []EtcdSize
<1>1. EtcdRedundant /\ OddEtcd => EtcdSize
  BY DEF EtcdSize
<1>2. QED
  BY <1>1, EtcdIsRedundant, EtcdIsOdd, PTL

-----------------------------------------------------------------------------
(* The hosts that an addition by addresses keeps and adds. *)

(* The next number is free, as are those after it.                         *)
Fresh(acc) ==
    /\ acc.hostname = {}
    /\ \A n \in NamesOf(acc.hs) : n < acc.next \/ n > MaxId

LEMMA ProcessKeeps ==
    ASSUME NEW old, NEW acc \in GoodAcc, NEW arg \in Arguments,
           arg.op \in {"ip", "bare"}, ~acc.error,
           NEW new, new = Process(old, acc, arg)
    PROVE  /\ new.next >= acc.next
           /\ Fresh(acc) /\ ~new.error /\ new.next <= MaxId + 1 =>
                 /\ Fresh(new) /\ IPsOf(acc.hs) \subseteq IPsOf(new.hs)
                 /\ arg.op = "ip" => arg.ip \in IPsOf(new.hs)
<1>1. acc \in Acc /\ acc.hs \in Seq(AnyHost) /\ acc.next \in Nat
  BY DEF GoodAcc, Acc
<1>2. CASE arg.op = "ip"
  <2> DEFINE a == arg.ip
             n == acc.next
             w == AddHost(old, acc, n, a)
             next == IF Found(acc.hs, a) THEN w.next ELSE w.next + 1
  <2>1. a \in IPs /\ [name |-> n, ip |-> a] \in AnyHost
    BY <1>1, <1>2, ArgumentFields DEF AnyHost, Address
  <2>2. /\ w \in Acc /\ w.hs = Added(acc.hs, n, a) /\ w.next = n
        /\ w.hostname = acc.hostname
        /\ ~w.error => ~Raises(acc.hs, a)
    BY <1>1, <2>1, AddHostGood
  <2>3. new = [w EXCEPT !.next = next, !.ip = {a}]
    BY <1>2 DEF Process
  <2> HIDE DEF w, next
  <2>4. /\ new.hs = Added(acc.hs, n, a) /\ new.next = next
        /\ new.hostname = acc.hostname /\ new.error = w.error
    BY <2>2, <2>3 DEF Acc
  <2>5. next \in Nat /\ next >= n
    BY <1>1, <2>2 DEF next
  <2>6. /\ ~new.error => a \in IPsOf(new.hs)
        /\ NamesOf(new.hs) \subseteq NamesOf(acc.hs) \cup {n}
        /\ n \notin NamesOf(acc.hs) => IPsOf(acc.hs) \subseteq IPsOf(new.hs)
    BY <1>1, <2>1, <2>2, <2>4, AddedFacts
  <2>7. CASE Found(acc.hs, a)
    <3>1. new.hs = acc.hs /\ new.next = acc.next
      BY <2>2, <2>4, <2>7 DEF Added, next
    <3>2. QED
      BY <1>1, <2>4, <2>6, <3>1 DEF Fresh
  <2>8. CASE ~Found(acc.hs, a)
    <3>1. next = n + 1
      BY <2>2, <2>8 DEF next
    <3>2. ASSUME Fresh(acc), new.next <= MaxId + 1
          PROVE  Fresh(new) /\ IPsOf(acc.hs) \subseteq IPsOf(new.hs)
      <4>1. n <= MaxId
        BY <1>1, <2>4, <3>1, <3>2, NameIsNat
      <4>2. n \notin NamesOf(acc.hs)
        BY <1>1, <3>2, <4>1, NameIsNat DEF Fresh
      <4>3. ASSUME NEW m \in NamesOf(new.hs) PROVE m < new.next \/ m > MaxId
        <5>1. CASE m = n
          BY <1>1, <2>4, <3>1, <5>1
        <5>2. CASE m \in NamesOf(acc.hs)
          <6>1. m \in Nat
            <7>1. \A i \in DOMAIN acc.hs : acc.hs[i] \in AnyHost
              BY <1>1
            <7>2. QED
              BY <5>2, <7>1 DEF NamesOf, AnyHost
          <6>2. m < n \/ m > MaxId
            BY <3>2, <5>2 DEF Fresh
          <6>3. QED
            BY <1>1, <2>4, <3>1, <6>1, <6>2
        <5>3. QED
          BY <2>6, <4>3, <5>1, <5>2
      <4>4. QED
        BY <2>4, <2>6, <3>2, <4>2, <4>3 DEF Fresh
    <3>3. QED
      BY <2>4, <2>5, <2>6, <3>2
  <2>9. QED
    BY <2>7, <2>8
<1>3. CASE arg.op = "bare" /\ arg.name \notin NamesOf(acc.hs)
  <2>1. new = AddBare(old, acc)
    BY <1>3 DEF Process
  <2>2. /\ [acc EXCEPT !.error = TRUE].error = TRUE
        /\ [acc EXCEPT !.error = TRUE].next = acc.next
    BY <1>1 DEF Acc
  <2>3. new.next = acc.next
    <3>1. \A n \in acc.hostname, a \in acc.ip : AddHost(old, acc, n, a).next = acc.next
      <4>1. ASSUME NEW n \in acc.hostname, NEW a \in acc.ip
            PROVE  AddHost(old, acc, n, a).next = acc.next
        <5>1. n \in Nat /\ a \in IPs
          BY <1>1, NameIsNat DEF Acc
        <5>2. QED
          BY <5>1, AddHostGood
      <4>2. QED
        BY <4>1
    <3>2. \/ new = acc
          \/ new = [acc EXCEPT !.error = TRUE]
          \/ \E n \in acc.hostname, a \in acc.ip : new = AddHost(old, acc, n, a)
      BY <1>1, <2>1, AddBareCases
    <3>3. QED
      BY <2>2, <3>1, <3>2
  <2>4. ASSUME acc.hostname = {}, ~new.error PROVE new = acc
    BY <1>1, <2>1, <2>2, <2>4, AddBareCases
  <2>5. QED
    BY <1>1, <1>3, <2>3, <2>4 DEF Fresh
<1>4. CASE arg.op = "bare" /\ arg.name \in NamesOf(acc.hs)
  <2>1. new = acc
    BY <1>4 DEF Process
  <2>2. QED
    BY <1>1, <1>4, <2>1
<1>5. QED
  BY <1>2, <1>3, <1>4

LEMMA BuildKeeps ==
    ASSUME NEW old \in Seq(Host), Distinct(old), NEW args \in Seq(Arguments),
           \A i \in DOMAIN args : args[i].op \in {"ip", "bare"},
           NEW built, built = BuildHostnames(old, args),
           ~built.error, built.next <= MaxId + 1
    PROVE  /\ IPsOf(old) \subseteq IPsOf(built.hs)
           /\ \A i \in DOMAIN args : args[i].op = "ip" => args[i].ip \in IPsOf(built.hs)
<1> DEFINE n == Len(args)
           Kept(acc, i) ==
               /\ Fresh(acc) /\ IPsOf(old) \subseteq IPsOf(acc.hs)
               /\ \A j \in 1 .. i : args[j].op = "ip" => args[j].ip \in IPsOf(acc.hs)
<1>1. PICK f : BuildSteps(f, old, args)
  BY BuildRecursion
<1>2. /\ n \in Nat /\ f \in [0 .. n -> GoodAcc] /\ built = f[n] /\ f[0] = First(old)
      /\ \A i \in 1 .. n :
            f[i] = IF f[i - 1].error THEN f[i - 1] ELSE Process(old, f[i - 1], args[i])
  <2>1. n \in Nat /\ built = BuildHostnames(old, args)
    OBVIOUS
  <2>2. QED
    BY ONLY <1>1, <2>1 DEF BuildSteps
<1>3. /\ \A i \in 1 .. n : args[i] \in Arguments /\ args[i].op \in {"ip", "bare"}
      /\ DOMAIN args = 1 .. n
  OBVIOUS
<1> HIDE DEF n
<1> DEFINE S == {i \in 0 .. n :
                    ~f[i].error /\ f[i].next <= MaxId + 1 => Kept(f[i], i)}
<1>4. 0 \in S
  <2>1. NamesOf(old) \subseteq Nat
    BY NamesTyped, NameIsNat
  <2>2. Fresh(First(old))
    BY <2>1, NextIdFacts DEF Fresh, First
  <2>3. First(old).hs = old
    BY DEF First
  <2> HIDE DEF First
  <2>4. QED
    BY <1>2, <2>2, <2>3
<1>5. ASSUME NEW i \in 1 .. n, i - 1 \in S PROVE i \in S
  <2>1. i - 1 \in 0 .. n /\ i \in 0 .. n
    BY <1>2
  <2>2. f[i - 1] \in GoodAcc /\ f[i] \in GoodAcc
    BY <1>2, <2>1
  <2> DEFINE acc == f[i - 1]
             new == f[i]
  <2>3. SUFFICES ASSUME ~new.error, new.next <= MaxId + 1 PROVE Kept(new, i)
    BY <2>1
  <2>4. ~acc.error
    BY <1>2, <2>3
  <2>5. new = Process(old, acc, args[i])
    BY <1>2, <2>4
  <2>6. ~acc.error /\ acc.next <= MaxId + 1 => Kept(acc, i - 1)
    BY <1>5
  <2>7. args[i] \in Arguments /\ args[i].op \in {"ip", "bare"}
    BY <1>3
  <2> HIDE DEF acc, new, Kept
  <2>8. /\ new.next >= acc.next
        /\ Fresh(acc) /\ ~new.error /\ new.next <= MaxId + 1 =>
              /\ Fresh(new) /\ IPsOf(acc.hs) \subseteq IPsOf(new.hs)
              /\ args[i].op = "ip" => args[i].ip \in IPsOf(new.hs)
    <3>1. acc \in GoodAcc
      BY <2>2 DEF acc
    <3> DEFINE arg == args[i]
    <3>2. arg \in Arguments /\ arg.op \in {"ip", "bare"} /\ new = Process(old, acc, arg)
      BY <2>5, <2>7
    <3> HIDE DEF arg
    <3>3. /\ new.next >= acc.next
          /\ Fresh(acc) /\ ~new.error /\ new.next <= MaxId + 1 =>
                /\ Fresh(new) /\ IPsOf(acc.hs) \subseteq IPsOf(new.hs)
                /\ arg.op = "ip" => arg.ip \in IPsOf(new.hs)
      BY ONLY <2>4, <3>1, <3>2, ProcessKeeps
    <3>4. QED
      BY <3>3 DEF arg
  <2>9. Kept(acc, i - 1)
    <3>1. acc.next \in Nat /\ new.next \in Nat
      BY <2>2 DEF acc, new, GoodAcc, Acc
    <3>2. acc.next <= MaxId + 1
      BY <2>3, <2>8, <3>1, NameIsNat
    <3>3. QED
      BY <2>4, <2>6, <3>2
  <2>10. \A j \in 1 .. i : j = i \/ j \in 1 .. i - 1
    BY <1>2
  <2>11. Fresh(new) /\ IPsOf(acc.hs) \subseteq IPsOf(new.hs)
         /\ (args[i].op = "ip" => args[i].ip \in IPsOf(new.hs))
    BY <2>3, <2>8, <2>9 DEF Kept
  <2>12. QED
    BY <2>9, <2>10, <2>11 DEF Kept
<1>6. 0 .. n \subseteq S
  <2> HIDE DEF S
  <2>1. QED
    BY <1>2, <1>4, <1>5, IndexInduction
<1>7. n \in S
  <2>1. n \in 0 .. n
    BY <1>2
  <2> HIDE DEF S
  <2>2. QED
    BY <1>6, <2>1
<1>8. QED
  BY <1>2, <1>3, <1>7

(* An addition by addresses keeps every machine of the inventory and has   *)
(* every machine that it asks for, whatever names the others have.         *)
THEOREM HostsAreKept == Spec => KeepsHosts
<1>1. ASSUME InventoryInv, Next, command'.load, command'.ops \subseteq {"ip", "bare"}
      PROVE  IPsOf(hosts) \cup command'.asked \subseteq IPsOf(hosts')
  <2>1. ASSUME NEW docs \in Documents, Load(docs) PROVE FALSE
    BY <1>1, <2>1 DEF Load
  <2>2. ASSUME NEW add \in BOOLEAN, NEW args \in Requests, Invoke(add, args)
        PROVE  IPsOf(hosts) \cup command'.asked \subseteq IPsOf(hosts')
    <3> DEFINE load == add \/ Deletes(args[1])
               old == Old(add, args)
               built == BuildHostnames(old, args)
    <3>1. load /\ IPsOf(hosts') = IPsOf(built.hs)
      BY <1>1, <2>2, InvokeStep DEF New
    <3>2. /\ ~built.error /\ built.next <= MaxId + 1
          /\ command' = [load  |-> load,
                         ops   |-> {args[i].op : i \in DOMAIN args},
                         asked |-> {args[i].ip : i \in
                                      {j \in DOMAIN args : args[j].op \in {"ip", "named"}}}]
      BY <2>2 DEF Invoke, Old
    <3>3. old = hosts
      BY <3>1 DEF Old
    <3>4. old \in Seq(Host) /\ Distinct(old)
      BY <1>1, <3>3, HostsDistinct
    <3> HIDE DEF old, built, load
    <3>5. \A i \in DOMAIN args : args[i].op \in {"ip", "bare"}
      BY <1>1, <3>2
    <3>6. args \in Seq(Arguments)
      BY RequestArgs
    <3>7. /\ IPsOf(old) \subseteq IPsOf(built.hs)
          /\ \A i \in DOMAIN args : args[i].op = "ip" => args[i].ip \in IPsOf(built.hs)
      BY <3>2, <3>4, <3>5, <3>6, BuildKeeps DEF built
    <3>8. command'.asked \subseteq IPsOf(built.hs)
      BY <3>2, <3>5, <3>7
    <3>9. QED
      BY <3>1, <3>3, <3>7, <3>8
  <2>3. QED
    BY <1>1, <2>1, <2>2 DEF Next
<1>2. InventoryInv /\ [Next]_vars =>
         [command'.load /\ command'.ops \subseteq {"ip", "bare"} =>
             IPsOf(hosts) \cup command'.asked \subseteq IPsOf(hosts')]_vars
  BY <1>1
<1>3. QED
  BY <1>2, InventoryInductive, PTL DEF Spec, KeepsHosts
=============================================================================

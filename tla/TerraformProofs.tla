-------------------------- MODULE TerraformProofs --------------------------
(***************************************************************************)
(* Proofs about TerraformInventory: all its properties, for any files, any *)
(* states that terraform may write to them and any number of writes.       *)
(*                                                                         *)
(* The first half shows what reading a state gives: ConvertToV3, by        *)
(* induction over the depth of the lists, has a string at each path where  *)
(* the state of version 4 has it, so that a host and a floating IP are     *)
(* read from both versions as At says.  The second half is the invariant   *)
(* of the two passes.                                                      *)
(***************************************************************************)
EXTENDS TerraformInventory, Induction, SequenceTheorems

-----------------------------------------------------------------------------
(* ConvertToV3 exists. *)

Shallow(n) == {v \in DOMAIN Depth : Depth[v] < n}

LEMMA DepthIsNat == \A v \in DOMAIN Depth : Depth[v] \in Nat
BY NestingAssumption

(* g and h need only agree on the elements of lists.                       *)
LEMMA FlattenLocal ==
    ASSUME NEW v \in DOMAIN Depth, NEW p \in Seq(STRING), NEW g, NEW h,
           \A w \in Shallow(Depth[v]) : \A q \in Seq(STRING) : g[w][q] = h[w][q]
    PROVE  Flatten(g, v, p) = Flatten(h, v, p)
<1>1. CASE DOMAIN v = {"s"}
  BY <1>1 DEF Flatten
<1>2. CASE DOMAIN v = {"d"} /\ DOMAIN v # {"s"}
  <2> DEFINE E(f, k) == Entries(f, Append(p, k), v.d[k])
  <2>1. ASSUME NEW k \in DOMAIN v.d  PROVE E(g, k) = E(h, k)
    <3> DEFINE value == v.d[k]
               at == Append(p, k)
    <3>1. /\ k \in STRING /\ DOMAIN value \in {{"s"}, {"d"}, {"l"}}
          /\ DOMAIN value = {"l"} =>
                /\ value.l \in Seq(DOMAIN Depth)
                /\ Len(value.l) <= Len(Numerals)
                /\ \A i \in DOMAIN value.l : Depth[value.l[i]] < Depth[v]
      BY <1>2, <2>1, NestingAssumption
    <3>2. at \in Seq(STRING)
      BY <3>1
    <3> HIDE DEF value, at
    <3>3. CASE DOMAIN value = {"s"}
      <4>1. QED
        BY <3>3 DEF Entries, value, at
    <3>4. CASE DOMAIN value = {"d"} /\ DOMAIN value # {"s"}
      BY <3>4 DEF Entries, value, at
    <3>5. CASE DOMAIN value = {"l"} /\ DOMAIN value \notin {{"s"}, {"d"}}
      <4>1. ASSUME NEW i \in DOMAIN value.l
            PROVE  g[value.l[i]][Append(at, Numerals[i])] = h[value.l[i]][Append(at, Numerals[i])]
        <5>1. value.l[i] \in Shallow(Depth[v])
          BY <3>1, <3>5, <4>1 DEF Shallow
        <5>2. i \in DOMAIN Numerals /\ Numerals[i] \in STRING
          BY <3>1, <3>5, <4>1, NumeralsAssumption
        <5>3. Append(at, Numerals[i]) \in Seq(STRING)
          BY <3>2, <5>2
        <5>4. QED
          BY <5>1, <5>3
      <4>2. {g[value.l[i]][Append(at, Numerals[i])] : i \in DOMAIN value.l}
              = {h[value.l[i]][Append(at, Numerals[i])] : i \in DOMAIN value.l}
        BY <4>1
      <4>3. QED
        BY <3>5, <4>2 DEF Entries, value, at
    <3>6. "s" # "d" /\ "s" # "l" /\ "d" # "l"
      OBVIOUS
    <3>7. QED
      BY <3>1, <3>3, <3>4, <3>5
  <2>2. {E(g, k) : k \in DOMAIN v.d} = {E(h, k) : k \in DOMAIN v.d}
    <3> HIDE DEF E
    <3>1. QED
      BY <2>1
  <2>3. QED
    BY <1>2, <2>2 DEF Flatten
<1>3. QED
  BY <1>1, <1>2, NestingAssumption

(* g is ConvertToV3 as far as lists nest less than n.                      *)
Converts(g, n) ==
    \A v \in Shallow(n) : \A p \in Seq(STRING) : g[v][p] = Flatten(g, v, p)

LEMMA ConvertsUnique ==
    ASSUME NEW m \in Nat, NEW n \in Nat, NEW g, NEW h, Converts(g, m), Converts(h, n)
    PROVE  \A v \in Shallow(m) \cap Shallow(n) : \A p \in Seq(STRING) : g[v][p] = h[v][p]
<1> DEFINE S == {i \in Nat : \A v \in Shallow(m) \cap Shallow(n) \cap Shallow(i) :
                                \A p \in Seq(STRING) : g[v][p] = h[v][p]}
<1>1. 0 \in S
  BY DepthIsNat DEF Shallow
<1>2. ASSUME NEW i \in S  PROVE i + 1 \in S
  <2>1. ASSUME NEW v \in Shallow(m) \cap Shallow(n) \cap Shallow(i + 1), NEW p \in Seq(STRING)
        PROVE  g[v][p] = h[v][p]
    <3>1. \A w \in Shallow(Depth[v]) : w \in Shallow(m) \cap Shallow(n) \cap Shallow(i)
      BY <2>1, DepthIsNat DEF Shallow
    <3>2. v \in DOMAIN Depth
      BY <2>1 DEF Shallow
    <3>3. Flatten(g, v, p) = Flatten(h, v, p)
      BY <1>2, <3>1, <3>2, FlattenLocal
    <3>4. QED
      BY <2>1, <3>3 DEF Converts
  <2>2. QED
    BY <2>1
<1>3. S = Nat
  <2>1. S \subseteq Nat
    OBVIOUS
  <2> HIDE DEF S
  <2>2. QED
    BY <1>1, <1>2, <2>1, SetInduction
<1>4. ASSUME NEW v \in Shallow(m) \cap Shallow(n), NEW p \in Seq(STRING)
      PROVE  g[v][p] = h[v][p]
  <2>1. m \in S /\ v \in Shallow(m) \cap Shallow(n) \cap Shallow(m)
    BY <1>3
  <2>2. QED
    BY <2>1
<1>5. QED
  BY <1>4

LEMMA ConvertsExists == \A n \in Nat : \E g : Converts(g, n)
<1> DEFINE S == {n \in Nat : \E g : Converts(g, n)}
<1>1. 0 \in S
  BY DepthIsNat DEF Shallow, Converts
<1>2. ASSUME NEW n \in S  PROVE n + 1 \in S
  <2>1. PICK g : Converts(g, n)
    OBVIOUS
  <2> DEFINE G == [v \in Shallow(n + 1) |-> [p \in Seq(STRING) |-> Flatten(g, v, p)]]
  <2>2. ASSUME NEW v \in Shallow(n + 1), NEW p \in Seq(STRING)
        PROVE  G[v][p] = Flatten(g, v, p)
    OBVIOUS
  <2> HIDE DEF G
  <2>3. ASSUME NEW v \in Shallow(n + 1), NEW p \in Seq(STRING)
        PROVE  Flatten(G, v, p) = Flatten(g, v, p)
    <3>1. v \in DOMAIN Depth
      BY DEF Shallow
    <3>2. \A w \in Shallow(Depth[v]) : w \in Shallow(n) /\ w \in Shallow(n + 1)
      BY DepthIsNat DEF Shallow
    <3>3. \A w \in Shallow(Depth[v]) : \A q \in Seq(STRING) : G[w][q] = g[w][q]
      BY <2>1, <2>2, <3>2 DEF Converts
    <3>4. QED
      BY <3>1, <3>3, FlattenLocal
  <2>4. Converts(G, n + 1)
    BY <2>2, <2>3 DEF Converts
  <2>5. QED
    BY <2>4
<1>3. S = Nat
  <2>1. S \subseteq Nat
    OBVIOUS
  <2> HIDE DEF S
  <2>2. QED
    BY <1>1, <1>2, <2>1, SetInduction
<1>4. QED
  BY <1>3

LEMMA ConvertEquation ==
    \A v \in DOMAIN Depth : \A p \in Seq(STRING) :
        ConvertToV3[v][p] = Flatten(ConvertToV3, v, p)
<1> DEFINE Choice(n) == CHOOSE g : Converts(g, n)
           f == [v \in DOMAIN Depth |->
                   [p \in Seq(STRING) |-> Choice(Depth[v] + 1)[v][p]]]
<1>1. \A n \in Nat : Converts(Choice(n), n)
  BY ConvertsExists
<1> HIDE DEF Choice
<1>2. ASSUME NEW v \in DOMAIN Depth, NEW p \in Seq(STRING)
      PROVE  f[v][p] = Choice(Depth[v] + 1)[v][p]
  OBVIOUS
<1>3. f = [v \in DOMAIN Depth |-> [p \in Seq(STRING) |-> f[v][p]]]
  BY <1>2
<1> HIDE DEF f
<1>4. ASSUME NEW v \in DOMAIN Depth, NEW p \in Seq(STRING)
      PROVE  f[v][p] = Flatten(f, v, p)
  <2> DEFINE m == Depth[v] + 1
             g == Choice(m)
  <2>1. m \in Nat /\ Converts(g, m) /\ v \in Shallow(m)
    BY <1>1, DepthIsNat DEF Shallow
  <2>2. ASSUME NEW w \in Shallow(Depth[v]), NEW q \in Seq(STRING)
        PROVE  f[w][q] = g[w][q]
    <3> DEFINE n == Depth[w] + 1
               h == Choice(n)
    <3>1. w \in DOMAIN Depth /\ n \in Nat /\ w \in Shallow(n) /\ w \in Shallow(m)
      BY DepthIsNat DEF Shallow
    <3>2. Converts(h, n)
      BY <1>1, <3>1
    <3>3. h[w][q] = g[w][q]
      <4> HIDE DEF m, n, g, h
      <4>1. QED
        BY <2>1, <3>1, <3>2, ConvertsUnique
    <3>4. QED
      BY <1>2, <3>1, <3>3
  <2>3. Flatten(f, v, p) = Flatten(g, v, p)
    <3> HIDE DEF g
    <3>1. QED
      BY <2>2, FlattenLocal
  <2>4. g[v][p] = Flatten(g, v, p)
    BY <2>1 DEF Converts
  <2>5. QED
    BY <1>2, <2>3, <2>4
<1>5. f = [v \in DOMAIN Depth |-> [p \in Seq(STRING) |-> Flatten(f, v, p)]]
  BY <1>3, <1>4
<1>6. ConvertToV3 = [v \in DOMAIN Depth |-> [p \in Seq(STRING) |-> Flatten(ConvertToV3, v, p)]]
  BY <1>5 DEF ConvertToV3
<1>7. QED
  BY <1>6

-----------------------------------------------------------------------------
(* The keys of ConvertToV3. *)

(* Whether a key is at, or longer.                                         *)
Within(at, key) ==
    key \in Seq(STRING) /\ Len(key) >= Len(at) /\ \A i \in 1 .. Len(at) : key[i] = at[i]

Begins(at, key) == Within(at, key) /\ Len(key) > Len(at)

Pieces(v, p, k) == Entries(ConvertToV3, Append(p, k), v.d[k])

LEMMA ConvertDict ==
    ASSUME NEW v \in DOMAIN Depth, NEW p \in Seq(STRING), DOMAIN v = {"d"}
    PROVE  ConvertToV3[v][p] = Merge(UNION {Pieces(v, p, k) : k \in DOMAIN v.d})
<1>1. ConvertToV3[v][p] = Flatten(ConvertToV3, v, p)
  BY ConvertEquation
<1>2. DOMAIN v # {"s"}
  OBVIOUS
<1>3. QED
  BY <1>1, <1>2 DEF Flatten, Pieces

LEMMA EntryFacts ==
    \A key, value : DOMAIN Entry(key, value) = {key} /\ Entry(key, value)[key] = value
BY DEF Entry

LEMMA MergeKeys == \A fs : DOMAIN Merge(fs) = UNION {DOMAIN f : f \in fs}
BY DEF Merge

LEMMA MergeValue ==
    ASSUME NEW fs, NEW f \in fs, NEW key \in DOMAIN f,
           \A g \in fs : key \in DOMAIN g => g[key] = f[key]
    PROVE  key \in DOMAIN Merge(fs) /\ Merge(fs)[key] = f[key]
<1>1. key \in UNION {DOMAIN g : g \in fs}
  OBVIOUS
<1>2. Merge(fs)[key] = (CHOOSE g \in fs : key \in DOMAIN g)[key]
  BY <1>1 DEF Merge
<1>3. (CHOOSE g \in fs : key \in DOMAIN g) \in {g \in fs : key \in DOMAIN g}
  OBVIOUS
<1>4. QED
  BY <1>1, <1>2, <1>3, MergeKeys

(* What an attribute may be, and what its pieces are.                      *)
StringPiece(v, p, k) ==
    DOMAIN v.d[k] = {"s"} /\ Pieces(v, p, k) = {Entry(Append(p, k), v.d[k].s)}

DictPieces(v, p, k) ==
    /\ DOMAIN v.d[k] = {"d"}
    /\ \A j \in DOMAIN v.d[k].d : j \in STRING
    /\ \E length :
          Pieces(v, p, k) =
             {Entry(Append(Append(p, k), "%"), length)}
               \cup {Entry(Append(Append(p, k), j), v.d[k].d[j].s) : j \in DOMAIN v.d[k].d}

ListPieces(v, p, k) ==
    LET list == v.d[k].l
        Key(i) == Append(Append(p, k), Numerals[i])
    IN  /\ DOMAIN v.d[k] = {"l"}
        /\ list \in Seq(DOMAIN Depth)
        /\ \A i \in DOMAIN list :
              /\ Depth[list[i]] < Depth[v]
              /\ i \in DOMAIN Numerals /\ Numerals[i] \in STRING
              /\ Key(i) \in Seq(STRING)
        /\ \E length :
              Pieces(v, p, k) =
                 {Entry(Append(Append(p, k), "#"), length) : i \in DOMAIN list}
                   \cup {ConvertToV3[list[i]][Key(i)] : i \in DOMAIN list}

LEMMA PieceKinds ==
    ASSUME NEW v \in DOMAIN Depth, DOMAIN v = {"d"}, NEW p \in Seq(STRING),
           NEW k \in DOMAIN v.d
    PROVE  /\ k \in STRING /\ Append(p, k) \in Seq(STRING)
           /\ StringPiece(v, p, k) \/ DictPieces(v, p, k) \/ ListPieces(v, p, k)
<1> DEFINE value == v.d[k]
           at == Append(p, k)
<1>1. /\ k \in STRING /\ DOMAIN value \in {{"s"}, {"d"}, {"l"}}
      /\ DOMAIN value = {"d"} => \A j \in DOMAIN value.d : j \in STRING
      /\ DOMAIN value = {"l"} =>
            /\ value.l \in Seq(DOMAIN Depth)
            /\ Len(value.l) <= Len(Numerals)
            /\ \A i \in DOMAIN value.l : Depth[value.l[i]] < Depth[v]
  BY NestingAssumption
<1>2. at \in Seq(STRING)
  BY <1>1
<1>3. Pieces(v, p, k) = Entries(ConvertToV3, at, value)
  BY DEF Pieces
<1>4. k \in STRING
  BY <1>1
<1> HIDE DEF value, at
<1>5. CASE DOMAIN value = {"s"}
  <2>1. Pieces(v, p, k) = {Entry(at, value.s)}
    BY <1>3, <1>5 DEF Entries
  <2>2. QED
    BY <1>2, <1>4, <1>5, <2>1 DEF value, at, StringPiece
<1>6. CASE DOMAIN value = {"d"}
  <2>1. DOMAIN value # {"s"}
    BY <1>6
  <2>2. \E length : Pieces(v, p, k) =
           {Entry(Append(at, "%"), length)}
              \cup {Entry(Append(at, j), value.d[j].s) : j \in DOMAIN value.d}
    BY <1>3, <1>6, <2>1 DEF Entries
  <2>3. QED
    BY <1>1, <1>2, <1>4, <1>6, <2>2 DEF value, at, DictPieces
<1>7. CASE DOMAIN value = {"l"}
  <2>1. DOMAIN value # {"s"} /\ DOMAIN value # {"d"}
    BY <1>7
  <2>2. \E length : Pieces(v, p, k) =
           {Entry(Append(at, "#"), length) : i \in DOMAIN value.l}
              \cup {ConvertToV3[value.l[i]][Append(at, Numerals[i])] : i \in DOMAIN value.l}
    BY <1>3, <1>7, <2>1 DEF Entries
  <2>3. \A i \in DOMAIN value.l :
           i \in DOMAIN Numerals /\ Numerals[i] \in STRING
             /\ Append(at, Numerals[i]) \in Seq(STRING)
    BY <1>1, <1>2, <1>7, NumeralsAssumption
  <2>4. QED
    BY <1>1, <1>2, <1>4, <1>7, <2>2, <2>3 DEF value, at, ListPieces
<1>8. QED
  BY <1>1, <1>5, <1>6, <1>7

LEMMA AppendWithin ==
    ASSUME NEW at \in Seq(STRING), NEW k \in STRING, NEW key, Within(Append(at, k), key)
    PROVE  /\ Begins(at, key) /\ key[Len(at) + 1] = k
<1> DEFINE longer == Append(at, k)
<1>1. Len(longer) = Len(at) + 1 /\ \A i \in 1 .. Len(at) : longer[i] = at[i]
  BY AppendProperties
<1>0. longer[Len(at) + 1] = k
  BY AppendProperties
<1>2. /\ key \in Seq(STRING) /\ Len(key) >= Len(at) + 1
      /\ \A i \in 1 .. Len(at) + 1 : key[i] = longer[i]
  BY <1>1 DEF Within
<1>3. \A i \in 1 .. Len(at) : i \in 1 .. Len(at) + 1
  OBVIOUS
<1>4. Len(at) + 1 \in 1 .. Len(at) + 1
  OBVIOUS
<1>5. key[Len(at) + 1] = k /\ Len(key) >= Len(at) /\ Len(key) > Len(at)
  <2>1. Len(at) \in Nat /\ Len(key) \in Nat
    BY <1>2
  <2> HIDE DEF longer
  <2>2. key[Len(at) + 1] = k
    BY <1>0, <1>2, <1>4
  <2>3. QED
    BY <1>2, <2>1, <2>2
<1>6. \A i \in 1 .. Len(at) : key[i] = at[i]
  BY <1>1, <1>2, <1>3
<1>7. QED
  BY <1>2, <1>5, <1>6 DEF Within, Begins

LEMMA WithinItself ==
    ASSUME NEW at \in Seq(STRING), NEW k \in STRING
    PROVE  Within(at, at) /\ Within(at, Append(at, k))
<1> DEFINE longer == Append(at, k)
<1>1. Len(at) \in Nat
  OBVIOUS
<1>2. /\ longer \in Seq(STRING) /\ Len(longer) = Len(at) + 1
      /\ \A i \in 1 .. Len(at) : longer[i] = at[i]
  <2>1. \A S : \A seq \in Seq(S) : \A x \in S : Append(seq, x) \in Seq(S)
    OBVIOUS
  <2>2. Len(longer) = Len(at) + 1 /\ \A i \in 1 .. Len(at) : longer[i] = at[i]
    BY AppendProperties
  <2>3. QED
    BY <2>1, <2>2
<1> HIDE DEF longer
<1>3. Within(at, at)
  BY <1>1 DEF Within
<1>4. Within(at, longer)
  BY <1>1, <1>2 DEF Within
<1>5. QED
  BY <1>3, <1>4 DEF longer

LEMMA ListPiece ==
    ASSUME NEW v, NEW p, NEW k, ListPieces(v, p, k), NEW f \in Pieces(v, p, k)
    PROVE  \/ \E length : f = Entry(Append(Append(p, k), "#"), length)
           \/ \E i \in DOMAIN v.d[k].l :
                 f = ConvertToV3[v.d[k].l[i]][Append(Append(p, k), Numerals[i])]
<1> DEFINE list == v.d[k].l
           Key(i) == Append(Append(p, k), Numerals[i])
           Count(length) == Entry(Append(Append(p, k), "#"), length)
<1>1. PICK length :
         Pieces(v, p, k) =
            {Count(length) : i \in DOMAIN list} \cup {ConvertToV3[list[i]][Key(i)] : i \in DOMAIN list}
  BY DEF ListPieces
<1> HIDE DEF Count, Key, list
<1>2. f = Count(length) \/ \E i \in DOMAIN list : f = ConvertToV3[list[i]][Key(i)]
  BY <1>1
<1>3. QED
  BY <1>2 DEF Count, Key, list

LEMMA ListElement ==
    ASSUME NEW v, NEW p, NEW k, ListPieces(v, p, k), NEW i \in DOMAIN v.d[k].l
    PROVE  /\ v.d[k].l[i] \in DOMAIN Depth /\ Depth[v.d[k].l[i]] < Depth[v]
           /\ Numerals[i] \in STRING
           /\ Append(Append(p, k), Numerals[i]) \in Seq(STRING)
<1> DEFINE list == v.d[k].l
           key == Append(Append(p, k), Numerals[i])
<1>1. /\ list \in Seq(DOMAIN Depth) /\ Depth[list[i]] < Depth[v]
      /\ Numerals[i] \in STRING /\ key \in Seq(STRING)
  BY DEF ListPieces
<1> HIDE DEF list, key
<1>2. i \in DOMAIN list
  BY DEF list
<1>3. list[i] \in DOMAIN Depth
  BY <1>1, <1>2
<1>4. QED
  BY <1>1, <1>3 DEF list, key

(* A piece has the keys of its attribute, if the elements of lists do.     *)
LEMMA PieceWithin ==
    ASSUME NEW v \in DOMAIN Depth, DOMAIN v = {"d"}, NEW p \in Seq(STRING),
           \A w \in Shallow(Depth[v]) : \A q \in Seq(STRING) :
               \A x \in DOMAIN ConvertToV3[w][q] : Begins(q, x),
           NEW k \in DOMAIN v.d, NEW f \in Pieces(v, p, k), NEW key \in DOMAIN f
    PROVE  Within(Append(p, k), key)
<1> DEFINE at == Append(p, k)
<1>1. k \in STRING /\ at \in Seq(STRING)
  BY PieceKinds
<1>2. ASSUME NEW x \in STRING, NEW y, f = Entry(Append(at, x), y)  PROVE Within(at, key)
  <2>1. key = Append(at, x)
    BY <1>2 DEF Entry
  <2>2. QED
    BY <1>1, <2>1, WithinItself
<1>3. CASE StringPiece(v, p, k)
  <2>1. key = at
    BY <1>3 DEF Entry, StringPiece
  <2>2. "%" \in STRING
    BY LiteralsAssumption
  <2>3. QED
    BY <1>1, <2>1, <2>2, WithinItself
<1>4. CASE DictPieces(v, p, k)
  <2>1. "%" \in STRING
    BY LiteralsAssumption
  <2>2. \E x \in STRING : \E y : f = Entry(Append(at, x), y)
    BY <1>4, <2>1 DEF DictPieces
  <2>3. QED
    BY <1>2, <2>2
<1>5. CASE ListPieces(v, p, k)
  <2> DEFINE list == v.d[k].l
  <2>1. CASE \E length : f = Entry(Append(at, "#"), length)
    <3>1. "#" \in STRING
      BY LiteralsAssumption
    <3>2. QED
      BY <1>2, <2>1, <3>1
  <2>2. CASE \E i \in DOMAIN list : f = ConvertToV3[list[i]][Append(at, Numerals[i])]
    <3>1. PICK i \in DOMAIN list : f = ConvertToV3[list[i]][Append(at, Numerals[i])]
      BY <2>2
    <3>2. list[i] \in Shallow(Depth[v]) /\ Numerals[i] \in STRING
            /\ Append(at, Numerals[i]) \in Seq(STRING)
      BY <1>5, ListElement DEF Shallow
    <3> HIDE DEF at, list
    <3>3. Begins(Append(at, Numerals[i]), key)
      BY <3>1, <3>2
    <3>4. Begins(at, key)
      BY <1>1, <3>2, <3>3, AppendWithin DEF Begins, at
    <3>5. QED
      BY <3>4 DEF Begins, at
  <2>3. QED
    BY <1>5, <2>1, <2>2, ListPiece
<1>6. QED
  BY <1>3, <1>4, <1>5, PieceKinds

LEMMA ConvertBegins ==
    \A v \in DOMAIN Depth : \A p \in Seq(STRING) :
        \A key \in DOMAIN ConvertToV3[v][p] : Begins(p, key)
<1> DEFINE S == {n \in Nat : \A v \in Shallow(n) : \A p \in Seq(STRING) :
                    \A key \in DOMAIN ConvertToV3[v][p] : Begins(p, key)}
<1>1. 0 \in S
  BY DepthIsNat DEF Shallow
<1>2. ASSUME NEW n \in S  PROVE n + 1 \in S
  <2>1. ASSUME NEW v \in Shallow(n + 1), NEW p \in Seq(STRING),
               NEW key \in DOMAIN ConvertToV3[v][p]
        PROVE  Begins(p, key)
    <3>1. v \in DOMAIN Depth /\ \A w \in Shallow(Depth[v]) : w \in Shallow(n)
      BY DepthIsNat DEF Shallow
    <3>2. \A w \in Shallow(Depth[v]) : \A q \in Seq(STRING) :
             \A x \in DOMAIN ConvertToV3[w][q] : Begins(q, x)
      BY <1>2, <3>1
    <3>3. CASE DOMAIN v = {"s"}
      <4>1. ConvertToV3[v][p] = Entry(Append(p, "random"), v.s)
        BY <3>1, <3>3, ConvertEquation DEF Flatten
      <4>2. key = Append(p, "random") /\ "random" \in STRING
        BY <4>1, LiteralsAssumption DEF Entry
      <4>3. QED
        BY <4>2 DEF Begins, Within
    <3>4. CASE DOMAIN v = {"d"}
      <4>0. ConvertToV3[v][p] = Merge(UNION {Pieces(v, p, k) : k \in DOMAIN v.d})
        BY <3>1, <3>4, ConvertDict
      <4>1. PICK k \in DOMAIN v.d : \E f \in Pieces(v, p, k) : key \in DOMAIN f
        BY <4>0 DEF Merge
      <4>2. Within(Append(p, k), key)
        BY <3>1, <3>2, <3>4, <4>1, PieceWithin
      <4>3. k \in STRING
        BY <3>1, <3>4, PieceKinds
      <4>4. QED
        BY <4>2, <4>3, AppendWithin
    <3>5. QED
      BY <3>1, <3>3, <3>4, NestingAssumption
  <2>2. QED
    BY <2>1
<1>3. S = Nat
  <2>1. S \subseteq Nat
    OBVIOUS
  <2> HIDE DEF S
  <2>2. QED
    BY <1>1, <1>2, <2>1, SetInduction
<1>4. ASSUME NEW v \in DOMAIN Depth  PROVE Depth[v] + 1 \in S /\ v \in Shallow(Depth[v] + 1)
  <2>1. Depth[v] \in Nat /\ Depth[v] + 1 \in Nat
    BY DepthIsNat
  <2>2. Depth[v] + 1 \in S
    <3> HIDE DEF S
    <3>1. QED
      BY <1>3, <2>1
  <2>3. QED
    BY <2>1, <2>2 DEF Shallow
<1>5. QED
  BY <1>4

-----------------------------------------------------------------------------
(* What ConvertToV3 has at a key. *)

LEMMA PieceOfKey ==
    ASSUME NEW v \in DOMAIN Depth, DOMAIN v = {"d"}, NEW p \in Seq(STRING),
           NEW k \in DOMAIN v.d, NEW f \in Pieces(v, p, k), NEW key \in DOMAIN f
    PROVE  key[Len(p) + 1] = k
<1>1. \A w \in Shallow(Depth[v]) : \A q \in Seq(STRING) :
         \A x \in DOMAIN ConvertToV3[w][q] : Begins(q, x)
  BY ConvertBegins DEF Shallow
<1>2. Within(Append(p, k), key)
  BY <1>1, PieceWithin
<1>3. k \in STRING
  BY PieceKinds
<1>4. QED
  BY <1>2, <1>3, AppendWithin

LEMMA LookUp ==
    ASSUME NEW v \in DOMAIN Depth, DOMAIN v = {"d"}, NEW p \in Seq(STRING),
           NEW k \in DOMAIN v.d, NEW f \in Pieces(v, p, k), NEW key \in DOMAIN f,
           \A g \in Pieces(v, p, k) : key \in DOMAIN g => g[key] = f[key]
    PROVE  key \in DOMAIN ConvertToV3[v][p] /\ ConvertToV3[v][p][key] = f[key]
<1> DEFINE fs == UNION {Pieces(v, p, j) : j \in DOMAIN v.d}
<1>1. f \in fs
  OBVIOUS
<1>2. ASSUME NEW g \in fs, key \in DOMAIN g  PROVE g[key] = f[key]
  <2>1. PICK j \in DOMAIN v.d : g \in Pieces(v, p, j)
    OBVIOUS
  <2>2. key[Len(p) + 1] = j /\ key[Len(p) + 1] = k
    BY <1>2, <2>1, PieceOfKey
  <2>3. QED
    BY <1>2, <2>1, <2>2
<1>3. ConvertToV3[v][p] = Merge(fs)
  BY ConvertDict
<1> HIDE DEF fs
<1>4. QED
  BY <1>1, <1>2, <1>3, MergeValue

LEMMA StringLookUp ==
    ASSUME NEW v \in DOMAIN Depth, DOMAIN v = {"d"}, NEW p \in Seq(STRING),
           NEW k \in DOMAIN v.d, DOMAIN v.d[k] = {"s"}
    PROVE  /\ Append(p, k) \in DOMAIN ConvertToV3[v][p]
           /\ ConvertToV3[v][p][Append(p, k)] = v.d[k].s
<1> DEFINE at == Append(p, k)
           f == Entry(at, v.d[k].s)
<1>1. Pieces(v, p, k) = {f}
  BY PieceKinds DEF StringPiece, DictPieces, ListPieces
<1>2. at \in DOMAIN f /\ f[at] = v.d[k].s
  BY DEF Entry
<1> HIDE DEF at, f
<1>3. at \in DOMAIN ConvertToV3[v][p] /\ ConvertToV3[v][p][at] = f[at]
  BY <1>1, <1>2, LookUp
<1>4. QED
  BY <1>2, <1>3 DEF at

LEMMA AppendSame ==
    ASSUME NEW at \in Seq(STRING), NEW x \in STRING, NEW y \in STRING,
           Append(at, x) = Append(at, y)
    PROVE  x = y
<1>1. \A z \in STRING : Append(at, z)[Len(at) + 1] = z
  BY AppendProperties
<1> DEFINE m == Len(at) + 1
           one == Append(at, x)
<1>2. one[m] = x
  BY <1>1
<1>3. one[m] = y
  BY <1>1
<1> HIDE DEF one, m
<1>4. QED
  BY <1>2, <1>3

LEMMA DictLookUp ==
    ASSUME NEW v \in DOMAIN Depth, DOMAIN v = {"d"}, NEW p \in Seq(STRING),
           NEW k \in DOMAIN v.d, DOMAIN v.d[k] = {"d"},
           NEW j \in DOMAIN v.d[k].d, j # "%"
    PROVE  /\ Append(Append(p, k), j) \in DOMAIN ConvertToV3[v][p]
           /\ ConvertToV3[v][p][Append(Append(p, k), j)] = v.d[k].d[j].s
<1> DEFINE at == Append(p, k)
           key == Append(at, j)
           F(x) == Entry(Append(at, x), v.d[k].d[x].s)
           f == F(j)
<1>1. DictPieces(v, p, k) /\ at \in Seq(STRING)
  BY PieceKinds DEF StringPiece, ListPieces
<1>2. PICK length : Pieces(v, p, k) =
         {Entry(Append(at, "%"), length)} \cup {F(x) : x \in DOMAIN v.d[k].d}
  BY <1>1 DEF DictPieces
<1>3. f \in Pieces(v, p, k) /\ key \in DOMAIN f /\ f[key] = v.d[k].d[j].s
  BY <1>2 DEF Entry
<1>4. "%" \in STRING /\ \A x \in DOMAIN v.d[k].d : x \in STRING
  BY <1>1, LiteralsAssumption DEF DictPieces
<1>5. ASSUME NEW g \in Pieces(v, p, k), key \in DOMAIN g  PROVE g = f
  <2>1. CASE g = Entry(Append(at, "%"), length)
    <3>1. key = Append(at, "%")
      BY <1>5, <2>1 DEF Entry
    <3> HIDE DEF at
    <3>2. j = "%"
      BY <1>1, <1>4, <3>1, AppendSame
    <3>3. QED
      BY <3>2
  <2>2. CASE \E x \in DOMAIN v.d[k].d : g = F(x)
    <3>1. PICK x \in DOMAIN v.d[k].d : g = F(x)
      BY <2>2
    <3>2. key = Append(at, x)
      BY <1>5, <3>1 DEF Entry
    <3>3. x = j
      <4> HIDE DEF at
      <4>1. QED
        BY <1>1, <1>4, <3>2, AppendSame
    <3>4. QED
      BY <3>1, <3>3
  <2>3. QED
    BY <1>2, <2>1, <2>2
<1>6. key \in DOMAIN ConvertToV3[v][p] /\ ConvertToV3[v][p][key] = f[key]
  <2> HIDE DEF f, key
  <2>1. QED
    BY <1>3, <1>5, LookUp
<1>7. QED
  BY <1>3, <1>6

LEMMA ListLookUp ==
    ASSUME NEW v \in DOMAIN Depth, DOMAIN v = {"d"}, NEW p \in Seq(STRING),
           NEW k \in DOMAIN v.d, DOMAIN v.d[k] = {"l"}, NEW i \in DOMAIN v.d[k].l,
           NEW key \in DOMAIN ConvertToV3[v.d[k].l[i]][Append(Append(p, k), Numerals[i])]
    PROVE  /\ key \in DOMAIN ConvertToV3[v][p]
           /\ ConvertToV3[v][p][key] =
                 ConvertToV3[v.d[k].l[i]][Append(Append(p, k), Numerals[i])][key]
<1> DEFINE at == Append(p, k)
           list == v.d[k].l
           F(x) == ConvertToV3[list[x]][Append(at, Numerals[x])]
           f == F(i)
<1>1. ListPieces(v, p, k) /\ at \in Seq(STRING)
  BY PieceKinds DEF StringPiece, DictPieces
<1>2. PICK length : Pieces(v, p, k) =
         {Entry(Append(at, "#"), length) : x \in DOMAIN list} \cup {F(x) : x \in DOMAIN list}
  BY <1>1 DEF ListPieces
<1>3. f \in Pieces(v, p, k)
  BY <1>2
<1>4. \A x \in DOMAIN list :
         /\ list[x] \in DOMAIN Depth /\ Append(at, Numerals[x]) \in Seq(STRING)
         /\ x \in DOMAIN Numerals /\ Numerals[x] \in STRING
  BY <1>1 DEF ListPieces
<1>5. \A x \in DOMAIN list : key \in DOMAIN F(x) => Begins(Append(at, Numerals[x]), key)
  BY <1>4, ConvertBegins
<1> HIDE DEF at, list
<1>6. i \in DOMAIN list /\ key \in DOMAIN f
  BY DEF at, list
<1>7. \A x \in DOMAIN list : key \in DOMAIN F(x) => key[Len(at) + 1] = Numerals[x]
  BY <1>1, <1>4, <1>5, AppendWithin DEF Begins
<1>8. Len(key) > Len(at) + 1
  <2>1. Len(Append(at, Numerals[i])) = Len(at) + 1
    BY <1>1, <1>4, <1>6, AppendProperties
  <2>2. QED
    BY <1>5, <1>6, <2>1 DEF Begins
<1>9. ASSUME NEW g \in Pieces(v, p, k), key \in DOMAIN g  PROVE g = f
  <2>1. CASE g = Entry(Append(at, "#"), length)
    <3>1. key = Append(at, "#") /\ "#" \in STRING
      BY <1>9, <2>1, LiteralsAssumption DEF Entry
    <3>2. Len(key) = Len(at) + 1
      BY <1>1, <3>1, AppendProperties
    <3>3. Len(at) \in Nat
      BY <1>1
    <3>4. QED
      BY <1>8, <3>2, <3>3
  <2>2. CASE \E x \in DOMAIN list : g = F(x)
    <3>1. PICK x \in DOMAIN list : g = F(x)
      BY <2>2
    <3>2. Numerals[x] = Numerals[i]
      BY <1>6, <1>7, <1>9, <3>1
    <3>3. x = i
      BY <1>4, <1>6, <3>2, NumeralsAssumption
    <3>4. QED
      BY <3>1, <3>3
  <2>3. QED
    BY <1>2, <2>1, <2>2
<1>10. key \in DOMAIN ConvertToV3[v][p] /\ ConvertToV3[v][p][key] = f[key]
  <2> HIDE DEF f
  <2>1. QED
    BY <1>3, <1>6, <1>9, LookUp
<1>11. QED
  BY <1>10 DEF at, list

(* Every key comes from the attribute that it begins with.                 *)
LEMMA KeyPiece ==
    ASSUME NEW v \in DOMAIN Depth, DOMAIN v = {"d"}, NEW p \in Seq(STRING),
           NEW key \in DOMAIN ConvertToV3[v][p]
    PROVE  /\ key[Len(p) + 1] \in DOMAIN v.d
           /\ \E f \in Pieces(v, p, key[Len(p) + 1]) : key \in DOMAIN f
<1>1. ConvertToV3[v][p] = Merge(UNION {Pieces(v, p, k) : k \in DOMAIN v.d})
  BY ConvertDict
<1>2. PICK k \in DOMAIN v.d : \E f \in Pieces(v, p, k) : key \in DOMAIN f
  BY <1>1 DEF Merge
<1>3. key[Len(p) + 1] = k
  BY <1>2, PieceOfKey
<1>4. QED
  BY <1>2, <1>3

-----------------------------------------------------------------------------
(* The attributes of a resource are those that At says. *)

LEMMA EmptyIsPath == <<>> \in Seq(STRING)
OBVIOUS

LEMMA ShortPaths ==
    \A x, y, z : /\ Append(<<>>, x) = <<x>>
                 /\ Append(<<x>>, y) = <<x, y>>
                 /\ Append(<<x, y>>, z) = <<x, y, z>>
<1> SUFFICES ASSUME NEW x, NEW y, NEW z
             PROVE  /\ Append(<<>>, x) = <<x>>
                    /\ Append(<<x>>, y) = <<x, y>>
                    /\ Append(<<x, y>>, z) = <<x, y, z>>
  OBVIOUS
<1> DEFINE S == {x, y, z}
           two == Append(<<x>>, y)
           three == Append(<<x, y>>, z)
<1>1. Append(<<>>, x) = <<x>>
  OBVIOUS
<1>2. <<x>> \in Seq(S) /\ <<x, y>> \in Seq(S) /\ <<x, y, z>> \in Seq(S)
        /\ y \in S /\ z \in S
  OBVIOUS
<1>3. two = <<x, y>>
  <2>1. two \in Seq(S) /\ Len(two) = 2 /\ two[1] = x /\ two[2] = y
    BY <1>2
  <2> HIDE DEF S, two
  <2>2. Len(<<x, y>>) = 2 /\ \A i \in 1 .. Len(two) : two[i] = <<x, y>>[i]
    BY <2>1
  <2>3. QED
    BY <1>2, <2>1, <2>2, SeqEqual
<1>4. three = <<x, y, z>>
  <2>1. three \in Seq(S) /\ Len(three) = 3 /\ three[1] = x /\ three[2] = y /\ three[3] = z
    BY <1>2
  <2> HIDE DEF S, three
  <2>2. Len(<<x, y, z>>) = 3 /\ \A i \in 1 .. Len(three) : three[i] = <<x, y, z>>[i]
    BY <2>1
  <2>3. QED
    BY <1>2, <2>1, <2>2, SeqEqual
<1>5. QED
  BY <1>1, <1>3, <1>4

LEMMA Version4Facts ==
    ASSUME NEW s \in States, NEW r \in Range(s.resources), s.version # 3
    PROVE  /\ r.attributes \in DOMAIN Depth /\ DOMAIN r.attributes = {"d"}
           /\ Attributes(s, r) = ConvertToV3[r.attributes][<<>>]
BY ContentsAssumption DEF Attributes

LEMMA AtString ==
    ASSUME NEW s \in States, NEW r \in Range(s.resources), NEW k, Has(s, r, <<k>>)
    PROVE  <<k>> \in DOMAIN Attributes(s, r) /\ Attributes(s, r)[<<k>>] = At(s, r, <<k>>)
<1>1. CASE s.version = 3
  BY <1>1 DEF Has, At, Attributes
<1>2. CASE s.version # 3
  <2> DEFINE a == r.attributes
  <2>0. <<k>>[1] = k /\ Len(<<k>>) = 1
    OBVIOUS
  <2>1. k \in DOMAIN a.d /\ DOMAIN a.d[k] = {"s"}
    BY <1>2, <2>0 DEF Has
  <2>2. At(s, r, <<k>>) = a.d[k].s
    BY <1>2, <2>0 DEF At
  <2>3. a \in DOMAIN Depth /\ DOMAIN a = {"d"} /\ Attributes(s, r) = ConvertToV3[a][<<>>]
    BY <1>2, Version4Facts
  <2> HIDE DEF a
  <2>4. Append(<<>>, k) = <<k>>
    BY ShortPaths
  <2>5. /\ Append(<<>>, k) \in DOMAIN ConvertToV3[a][<<>>]
        /\ ConvertToV3[a][<<>>][Append(<<>>, k)] = a.d[k].s
    BY <2>1, <2>3, EmptyIsPath, StringLookUp
  <2>6. QED
    BY <2>2, <2>3, <2>4, <2>5
<1>3. QED
  BY <1>1, <1>2

LEMMA AtElement ==
    ASSUME NEW s \in States, NEW r \in Range(s.resources), NEW x, NEW y,
           Has(s, r, <<x, "0", y>>)
    PROVE  /\ <<x, "0", y>> \in DOMAIN Attributes(s, r)
           /\ Attributes(s, r)[<<x, "0", y>>] = At(s, r, <<x, "0", y>>)
<1> DEFINE path == <<x, "0", y>>
<1>1. CASE s.version = 3
  BY <1>1 DEF Has, At, Attributes
<1>2. CASE s.version # 3
  <2> DEFINE a == r.attributes
             list == a.d[x].l
             e == list[1]
  <2>0. path[1] = x /\ path[2] = "0" /\ path[3] = y /\ Len(path) = 3
    OBVIOUS
  <2>1. /\ x \in DOMAIN a.d /\ DOMAIN a.d[x] = {"l"} /\ Len(list) > 0
        /\ DOMAIN e = {"d"} /\ y \in DOMAIN e.d /\ DOMAIN e.d[y] = {"s"}
    <3> HIDE DEF path
    <3>1. QED
      BY <1>2, <2>0, SMTT(30) DEF Has, path
  <2>2. At(s, r, path) = e.d[y].s
    <3> HIDE DEF path
    <3>1. QED
      BY <1>2, <2>0 DEF At
  <2>3. a \in DOMAIN Depth /\ DOMAIN a = {"d"} /\ Attributes(s, r) = ConvertToV3[a][<<>>]
    BY <1>2, Version4Facts
  <2> HIDE DEF a
  <2>4. ListPieces(a, <<>>, x) /\ x \in STRING /\ Append(<<>>, x) = <<x>>
    BY <2>1, <2>3, EmptyIsPath, ShortPaths, PieceKinds DEF StringPiece, DictPieces
  <2>5. list \in Seq(DOMAIN Depth) /\ 1 \in DOMAIN list /\ e \in DOMAIN Depth
    <3>1. list \in Seq(DOMAIN Depth)
      BY <2>4 DEF ListPieces
    <3>2. QED
      BY <2>1, <3>1
  <2>6. /\ Numerals[1] = "0" /\ "0" \in STRING
        /\ Append(<<x>>, "0") = <<x, "0">> /\ Append(<<x>>, "0") \in Seq(STRING)
    <3>1. Numerals[1] = "0" /\ "0" \in STRING
      BY NumeralsAssumption
    <3>2. <<x>> \in Seq(STRING)
      BY <2>4
    <3>3. QED
      BY <3>1, <3>2, ShortPaths
  <2> HIDE DEF list, e
  <2>7. Append(<<x, "0">>, y) = path
    BY ShortPaths
  <2> HIDE DEF path
  <2>8. /\ Append(<<x, "0">>, y) \in DOMAIN ConvertToV3[e][<<x, "0">>]
        /\ ConvertToV3[e][<<x, "0">>][Append(<<x, "0">>, y)] = e.d[y].s
    <3>1. <<x, "0">> \in Seq(STRING)
      BY <2>6
    <3> HIDE DEF list, e
    <3>2. QED
      BY <2>1, <2>5, <3>1, StringLookUp
  <2>9. path \in DOMAIN ConvertToV3[a.d[x].l[1]][Append(Append(<<>>, x), Numerals[1])]
    BY <2>4, <2>6, <2>7, <2>8 DEF e, list
  <2>10. /\ path \in DOMAIN ConvertToV3[a][<<>>]
         /\ ConvertToV3[a][<<>>][path] =
               ConvertToV3[a.d[x].l[1]][Append(Append(<<>>, x), Numerals[1])][path]
    <3>1. x \in DOMAIN a.d /\ DOMAIN a.d[x] = {"l"} /\ 1 \in DOMAIN a.d[x].l
      BY <2>1, <2>5 DEF list
    <3> DEFINE p == <<>>
    <3>2. p \in Seq(STRING)
      BY EmptyIsPath
    <3>3. path \in DOMAIN ConvertToV3[a.d[x].l[1]][Append(Append(p, x), Numerals[1])]
      BY <2>9
    <3> HIDE DEF p
    <3>4. /\ path \in DOMAIN ConvertToV3[a][p]
          /\ ConvertToV3[a][p][path] =
                ConvertToV3[a.d[x].l[1]][Append(Append(p, x), Numerals[1])][path]
      BY <2>3, <3>1, <3>2, <3>3, ListLookUp, SMTT(30)
    <3>5. QED
      BY <3>4 DEF p
  <2>11. QED
    BY <2>2, <2>3, <2>4, <2>6, <2>7, <2>8, <2>10 DEF e, list, path
<1>3. QED
  BY <1>1, <1>2

LEMMA AtPaths ==
    ASSUME NEW s \in States, NEW r \in Range(s.resources), NEW path \in Paths(r.type)
    PROVE  /\ path \in DOMAIN Attributes(s, r)
           /\ Attributes(s, r)[path] = At(s, r, path)
<1>1. Has(s, r, path)
  BY ContentsAssumption
<1>2. (\E k : path = <<k>>) \/ \E x, y : path = <<x, "0", y>>
  <2>1. CASE r.type = InstanceType
    BY <2>1 DEF Paths
  <2>2. CASE r.type = DeviceType /\ r.type # InstanceType
    BY <2>2 DEF Paths
  <2>3. CASE r.type = AssociationType /\ r.type \notin {InstanceType, DeviceType}
    BY <2>3 DEF Paths
  <2>4. CASE r.type \notin {InstanceType, DeviceType, AssociationType}
    BY <2>4 DEF Paths
  <2>5. QED
    BY <2>1, <2>2, <2>3, <2>4
<1>3. QED
  BY <1>1, <1>2, AtString, AtElement

-----------------------------------------------------------------------------
(* Dictionaries and lists. *)

LEMMA RawKeys ==
    ASSUME NEW s \in States, NEW r \in Range(s.resources), NEW key \in DOMAIN Attributes(s, r)
    PROVE  key \in Seq(STRING)
<1>1. CASE s.version = 3
  BY <1>1, ContentsAssumption DEF Attributes
<1>2. CASE s.version # 3
  <2>1. r.attributes \in DOMAIN Depth /\ key \in DOMAIN ConvertToV3[r.attributes][<<>>]
    BY <1>2, Version4Facts
  <2>2. QED
    BY <2>1, EmptyIsPath, ConvertBegins DEF Begins, Within
<1>3. QED
  BY <1>1, <1>2

LEMMA JoinKey ==
    ASSUME NEW S, NEW key \in Seq(S), NEW first \in Seq(S), NEW rest \in Seq(S),
           Len(key) > 1, Len(first) = 1, first[1] = key[1], Len(rest) = Len(key) - 1,
           \A i \in 1 .. Len(rest) : rest[i] = key[i + 1]
    PROVE  first \o rest = key
<1> DEFINE whole == first \o rest
<1>0. /\ whole \in Seq(S) /\ Len(whole) = Len(first) + Len(rest)
      /\ \A i \in 1 .. Len(first) + Len(rest) :
            whole[i] = IF i <= Len(first) THEN first[i] ELSE rest[i - Len(first)]
  BY ONLY first \in Seq(S), rest \in Seq(S), ConcatProperties
<1>1. whole \in Seq(S) /\ Len(whole) = Len(key)
  BY <1>0
<1>2. \A i \in 1 .. Len(first) + Len(rest) :
         whole[i] = IF i <= Len(first) THEN first[i] ELSE rest[i - Len(first)]
  BY <1>0
<1> HIDE DEF whole
<1>3. ASSUME NEW i \in 1 .. Len(whole)  PROVE whole[i] = key[i]
  <2>1. Len(key) \in Nat
    OBVIOUS
  <2>2. CASE i = 1
    BY <1>1, <1>2, <2>1, <2>2
  <2>3. CASE i # 1
    <3>1. i - 1 \in 1 .. Len(rest) /\ (i - 1) + 1 = i /\ ~(i <= Len(first))
      BY <1>1, <2>1, <2>3
    <3>2. whole[i] = rest[i - 1]
      BY <1>1, <1>2, <2>1, <3>1
    <3>3. QED
      BY <3>1, <3>2
  <2>4. QED
    BY <2>2, <2>3
<1>4. QED
  BY <1>1, <1>3, SeqEqual DEF whole

LEMMA SplitKey ==
    ASSUME NEW S, NEW key \in Seq(S), Len(key) > 1
    PROVE  <<key[1]>> \o Tail(key) = key
<1>1. Len(key) \in Nat /\ key[1] \in S /\ key # <<>>
  OBVIOUS
<1>2. <<key[1]>> \in Seq(S) /\ Len(<<key[1]>>) = 1 /\ <<key[1]>>[1] = key[1]
  BY <1>1
<1>3. /\ Tail(key) \in Seq(S) /\ Len(Tail(key)) = Len(key) - 1
      /\ \A i \in 1 .. Len(Tail(key)) : Tail(key)[i] = key[i + 1]
  BY <1>1, HeadTailProperties
<1>4. QED
  BY <1>2, <1>3, JoinKey

LEMMA ParsePrefixValues ==
    ASSUME NEW s \in States, NEW r \in Range(s.resources), NEW prefix
    PROVE  LET raw == Attributes(s, r)
               rests == ParsePrefix(raw, prefix)
           IN  /\ \A rest \in DOMAIN rests : \E key \in DOMAIN raw :
                     /\ Len(key) > 1 /\ key[1] = prefix /\ Tail(key) = rest
                     /\ rest # <<"#">> /\ rests[rest] = raw[key]
               /\ \A key \in DOMAIN raw :
                     Len(key) > 1 /\ key[1] = prefix /\ Tail(key) # <<"#">> =>
                        Tail(key) \in DOMAIN rests /\ rests[Tail(key)] = raw[key]
<1> DEFINE raw == Attributes(s, r)
           rests == ParsePrefix(raw, prefix)
           keys == {k \in DOMAIN raw : Len(k) > 1 /\ k[1] = prefix}
<1>1. \A key \in keys : <<prefix>> \o Tail(key) = key
  <2>1. ASSUME NEW key \in keys  PROVE <<prefix>> \o Tail(key) = key
    <3>1. key \in Seq(STRING) /\ Len(key) > 1 /\ key[1] = prefix
      BY RawKeys
    <3>2. <<key[1]>> \o Tail(key) = key
      BY <3>1, SplitKey
    <3>3. QED
      BY <3>1, <3>2
  <2>2. QED
    BY <2>1
<1>2. DOMAIN rests = {Tail(key) : key \in keys} \ {<<"#">>}
  BY DEF ParsePrefix
<1>3. \A rest \in DOMAIN rests : rests[rest] = raw[<<prefix>> \o rest]
  BY DEF ParsePrefix
<1> HIDE DEF raw, rests
<1>4. ASSUME NEW rest \in DOMAIN rests
      PROVE  \E key \in DOMAIN raw :
                /\ Len(key) > 1 /\ key[1] = prefix /\ Tail(key) = rest
                /\ rest # <<"#">> /\ rests[rest] = raw[key]
  <2>1. PICK key \in keys : rest = Tail(key)
    BY <1>2
  <2>2. rest # <<"#">> /\ rests[rest] = raw[key]
    BY <1>1, <1>2, <1>3, <2>1
  <2>3. QED
    BY <2>1, <2>2
<1>5. ASSUME NEW key \in keys, Tail(key) # <<"#">>
      PROVE  Tail(key) \in DOMAIN rests /\ rests[Tail(key)] = raw[key]
  <2>1. Tail(key) \in DOMAIN rests
    BY <1>2, <1>5
  <2>2. QED
    BY <1>1, <1>3, <2>1
<1>6. QED
  BY <1>4, <1>5 DEF raw, rests

LEMMA InstanceFacts ==
    ASSUME NEW s \in States, NEW r \in OfType(s, InstanceType), s.version # 3
    PROVE  LET d == r.attributes.d
           IN  /\ {"metadata", "security_groups"} \subseteq DOMAIN d
               /\ DOMAIN d["metadata"] = {"d"} /\ "%" \notin DOMAIN d["metadata"].d
               /\ DOMAIN d["security_groups"] = {"l"}
               /\ \A v \in Range(d["security_groups"].l) : DOMAIN v = {"s"}
<1>1. r \in Range(s.resources) /\ r.type = InstanceType /\ s.version = 4
  BY ContentsAssumption DEF OfType
<1>2. s.version = 4 =>
         /\ r.attributes \in DOMAIN Depth /\ DOMAIN r.attributes = {"d"}
         /\ r.type = InstanceType =>
               LET d == r.attributes.d
               IN  /\ {"metadata", "security_groups"} \subseteq DOMAIN d
                   /\ DOMAIN d["metadata"] = {"d"}
                   /\ "%" \notin DOMAIN d["metadata"].d
                   /\ DOMAIN d["security_groups"] = {"l"}
                   /\ \A v \in Range(d["security_groups"].l) : DOMAIN v = {"s"}
  BY <1>1, ContentsAssumption
<1>3. QED
  BY <1>1, <1>2

LEMMA PairFacts == \A x, y : Len(<<x, y>>) = 2 /\ <<x, y>>[1] = x /\ <<x, y>>[2] = y
OBVIOUS

LEMMA PairTail == \A x, y : Tail(<<x, y>>) = <<y>>
OBVIOUS

LEMMA PairIs ==
    ASSUME NEW S, NEW key \in Seq(S), Len(key) = 2
    PROVE  key = <<key[1], key[2]>>
<1> DEFINE pair == <<key[1], key[2]>>
<1>1. pair \in Seq(S) /\ Len(pair) = 2 /\ pair[1] = key[1] /\ pair[2] = key[2]
  OBVIOUS
<1> HIDE DEF pair
<1>2. \A i \in 1 .. Len(key) : key[i] = pair[i]
  BY <1>1
<1>3. QED
  BY <1>1, <1>2, SeqEqual DEF pair

LEMMA DictKeys ==
    ASSUME NEW v \in DOMAIN Depth, DOMAIN v = {"d"}, NEW p \in Seq(STRING),
           NEW k \in DOMAIN v.d, DOMAIN v.d[k] = {"d"},
           NEW key \in DOMAIN ConvertToV3[v][p], key[Len(p) + 1] = k
    PROVE  \/ key = Append(Append(p, k), "%")
           \/ \E j \in DOMAIN v.d[k].d : key = Append(Append(p, k), j)
<1>1. PICK f \in Pieces(v, p, k) : key \in DOMAIN f
  BY KeyPiece
<1>2. DictPieces(v, p, k)
  BY PieceKinds DEF StringPiece, ListPieces
<1>3. QED
  BY <1>1, <1>2 DEF DictPieces, Entry

(* The keys of the metadata have two parts.                                *)
LEMMA MetadataKeys ==
    ASSUME NEW s \in States, NEW r \in OfType(s, InstanceType),
           NEW key \in DOMAIN Attributes(s, r), Len(key) > 1, key[1] = "metadata"
    PROVE  \E k : /\ key = <<"metadata", k>>
                  /\ k # "%" => Has(s, r, <<"metadata", k>>)
<1>0. r \in Range(s.resources) /\ key \in Seq(STRING)
  BY RawKeys DEF OfType
<1>1. CASE s.version = 3
  <2>1. key \in DOMAIN r.primary /\ Len(key) = 2
    <3> DEFINE Short(k) == /\ k \in Seq(STRING) /\ k # <<>>
                           /\ k[1] = "metadata" => Len(k) = 2
    <3>1. \A x \in States : \A q \in Range(x.resources) :
             x.version = 3 => \A k \in DOMAIN q.primary : Short(k)
      BY ContentsAssumption, ZenonT(60)
    <3> HIDE DEF Short
    <3>2. \A k \in DOMAIN r.primary : Short(k)
      BY <1>0, <1>1, <3>1
    <3>3. \A k \in DOMAIN r.primary : k[1] = "metadata" => Len(k) = 2
      BY <3>2 DEF Short
    <3>4. QED
      BY <1>1, <3>3 DEF Attributes
  <2>2. key = <<"metadata", key[2]>>
    <3>2. key = <<key[1], key[2]>>
      BY <1>0, <2>1, PairIs
    <3>3. QED
      BY <3>2
  <2>3. QED
    BY <1>1, <2>1, <2>2 DEF Has
<1>2. CASE s.version # 3
  <2> DEFINE a == r.attributes
             k == "metadata"
             p == <<>>
  <2>1. /\ a \in DOMAIN Depth /\ DOMAIN a = {"d"} /\ key \in DOMAIN ConvertToV3[a][p]
        /\ k \in DOMAIN a.d /\ DOMAIN a.d[k] = {"d"} /\ p \in Seq(STRING) /\ Len(p) = 0
    BY <1>0, <1>2, Version4Facts, InstanceFacts, EmptyIsPath
  <2>2. Append(p, k) = <<"metadata">>
    BY ShortPaths
  <2> HIDE DEF a, p
  <2>3. key[Len(p) + 1] = k
    BY <2>1
  <2> HIDE DEF k
  <2>6. \/ key = Append(Append(p, k), "%")
        \/ \E j \in DOMAIN a.d[k].d : key = Append(Append(p, k), j)
    BY ONLY <2>1, <2>3, DictKeys
  <2>7. CASE key = Append(Append(p, k), "%")
    BY <2>2, <2>7, ShortPaths
  <2>8. CASE \E j \in DOMAIN a.d[k].d : key = Append(Append(p, k), j)
    <3>1. PICK j \in DOMAIN a.d[k].d : key = Append(Append(p, k), j)
      BY <2>8
    <3>2. key = <<"metadata", j>>
      BY <2>2, <3>1, ShortPaths
    <3>3. Has(s, r, <<"metadata", j>>)
      <4> DEFINE path == <<"metadata", j>>
      <4>1. path[1] = k /\ path[2] = j /\ Len(path) = 2
        BY PairFacts DEF k
      <4> HIDE DEF path
      <4>2. Has(s, r, path)
        BY <1>2, <2>1, <3>1, <4>1 DEF Has, a
      <4>3. QED
        BY <4>2 DEF path
    <3>4. QED
      BY <3>2, <3>3
  <2>9. QED
    BY <2>6, <2>7, <2>8
<1>3. QED
  BY <1>1, <1>2

LEMMA AtMetadata ==
    ASSUME NEW s \in States, NEW r \in OfType(s, InstanceType), NEW k, k # "%",
           Has(s, r, <<"metadata", k>>)
    PROVE  /\ <<"metadata", k>> \in DOMAIN Attributes(s, r)
           /\ Attributes(s, r)[<<"metadata", k>>] = At(s, r, <<"metadata", k>>)
<1> DEFINE path == <<"metadata", k>>
<1>0. r \in Range(s.resources)
  BY DEF OfType
<1>1. CASE s.version = 3
  BY <1>1 DEF Has, At, Attributes
<1>2. CASE s.version # 3
  <2> DEFINE a == r.attributes
             m == "metadata"
             p == <<>>
  <2>1. /\ a \in DOMAIN Depth /\ DOMAIN a = {"d"} /\ Attributes(s, r) = ConvertToV3[a][p]
        /\ m \in DOMAIN a.d /\ DOMAIN a.d[m] = {"d"} /\ p \in Seq(STRING)
    BY <1>0, <1>2, Version4Facts, InstanceFacts, EmptyIsPath
  <2>2. Append(Append(p, m), k) = path
    BY ShortPaths
  <2>3. path[1] = m /\ path[2] = k /\ Len(path) = 2
    BY PairFacts
  <2>4. Has(s, r, path)
    OBVIOUS
  <2> HIDE DEF path, a, m, p
  <2>5. k \in DOMAIN a.d[m].d /\ At(s, r, path) = a.d[m].d[k].s
    BY <1>2, <2>3, <2>4 DEF Has, At, a
  <2>6. /\ Append(Append(p, m), k) \in DOMAIN ConvertToV3[a][p]
        /\ ConvertToV3[a][p][Append(Append(p, m), k)] = a.d[m].d[k].s
    BY <2>1, <2>5, DictLookUp
  <2>7. QED
    BY <2>1, <2>2, <2>5, <2>6 DEF path
<1>3. QED
  BY <1>1, <1>2

(* The metadata of an instance, but for the keys that stand for lengths.   *)
LEMMA MetadataRead ==
    ASSUME NEW s \in States, NEW r \in OfType(s, InstanceType), NEW k, k \notin {"%", "#"},
           NEW default
    PROVE  Get(ParseDict(Attributes(s, r), "metadata"), k, default)
              = Metadata(s, r, k, default)
<1> DEFINE raw == Attributes(s, r)
           rests == ParsePrefix(raw, "metadata")
           metadata == ParseDict(raw, "metadata")
           path == <<"metadata", k>>
<1>0. r \in Range(s.resources)
  BY DEF OfType
<1>1. /\ \A rest \in DOMAIN rests : \E key \in DOMAIN raw :
            Len(key) > 1 /\ key[1] = "metadata" /\ Tail(key) = rest
      /\ \A key \in DOMAIN raw :
            Len(key) > 1 /\ key[1] = "metadata" /\ Tail(key) # <<"#">> =>
               Tail(key) \in DOMAIN rests /\ rests[Tail(key)] = raw[key]
  BY <1>0, ParsePrefixValues
<1>2. /\ DOMAIN metadata = {rest[1] : rest \in DOMAIN rests}
      /\ \A key \in DOMAIN metadata : metadata[key] = rests[<<key>>]
  BY DEF ParseDict
<1>3. path \in DOMAIN raw <=> Has(s, r, path)
  <2>1. ASSUME path \in DOMAIN raw  PROVE Has(s, r, path)
    <3>1. Len(path) > 1 /\ path[1] = "metadata" /\ path[2] = k
      BY PairFacts
    <3>2. PICK j : path = <<"metadata", j>> /\ (j # "%" => Has(s, r, <<"metadata", j>>))
      <4> HIDE DEF path, raw
      <4>1. QED
        BY <2>1, <3>1, MetadataKeys DEF raw
    <3>3. j = k
      BY <3>1, <3>2, PairFacts
    <3>4. QED
      BY <3>2, <3>3
  <2>2. ASSUME Has(s, r, path)  PROVE path \in DOMAIN raw
    BY <2>2, AtMetadata
  <2>3. QED
    BY <2>1, <2>2
<1>4. ASSUME k \in DOMAIN metadata  PROVE path \in DOMAIN raw
  <2>1. PICK rest \in DOMAIN rests : rest[1] = k
    BY <1>2, <1>4
  <2>2. PICK key \in DOMAIN raw : Len(key) > 1 /\ key[1] = "metadata" /\ Tail(key) = rest
    BY <1>1
  <2>3. PICK j : key = <<"metadata", j>>
    <3>1. \E j : key = <<"metadata", j>> /\ (j # "%" => Has(s, r, <<"metadata", j>>))
      BY <2>2, MetadataKeys
    <3>2. QED
      BY <3>1
  <2>4. rest = <<j>> /\ j = k
    BY <2>1, <2>2, <2>3, PairTail
  <2>5. QED
    BY <2>2, <2>3, <2>4
<1>5. ASSUME path \in DOMAIN raw
      PROVE  k \in DOMAIN metadata /\ metadata[k] = raw[path]
  <2>1. Len(path) > 1 /\ path[1] = "metadata" /\ Tail(path) = <<k>> /\ <<k>> # <<"#">>
    BY PairFacts, PairTail
  <2>2. <<k>> \in DOMAIN rests /\ rests[<<k>>] = raw[path]
    <3> HIDE DEF path, rests, raw
    <3>1. QED
      BY <1>1, <1>5, <2>1
  <2>3. <<k>>[1] = k
    OBVIOUS
  <2> HIDE DEF path, rests, raw, metadata
  <2>4. k \in DOMAIN metadata
    BY <1>2, <2>2, <2>3
  <2>5. QED
    BY <1>2, <2>2, <2>4
<1>6. CASE Has(s, r, path)
  <2>1. raw[path] = At(s, r, path)
    BY <1>6, AtMetadata
  <2> HIDE DEF path, raw, metadata
  <2>2. k \in DOMAIN metadata /\ metadata[k] = At(s, r, path)
    BY <1>3, <1>5, <1>6, <2>1
  <2>3. QED
    BY <1>6, <2>2 DEF Get, Metadata, path, metadata, raw
<1>7. CASE ~Has(s, r, path)
  <2> HIDE DEF raw, metadata
  <2>1. k \notin DOMAIN metadata
    BY <1>3, <1>4, <1>7
  <2>2. QED
    BY <1>7, <2>1 DEF Get, Metadata, metadata, raw
<1>8. QED
  BY <1>6, <1>7

LEMMA ListKeys ==
    ASSUME NEW v \in DOMAIN Depth, DOMAIN v = {"d"}, NEW p \in Seq(STRING),
           NEW k \in DOMAIN v.d, DOMAIN v.d[k] = {"l"},
           NEW key \in DOMAIN ConvertToV3[v][p], key[Len(p) + 1] = k
    PROVE  \/ key = Append(Append(p, k), "#")
           \/ \E i \in DOMAIN v.d[k].l, at \in Seq(STRING) :
                 /\ v.d[k].l[i] \in DOMAIN Depth
                 /\ key \in DOMAIN ConvertToV3[v.d[k].l[i]][at]
                 /\ ConvertToV3[v][p][key] = ConvertToV3[v.d[k].l[i]][at][key]
<1>1. PICK f \in Pieces(v, p, k) : key \in DOMAIN f
  BY KeyPiece
<1>2. ListPieces(v, p, k)
  BY PieceKinds DEF StringPiece, DictPieces
<1>3. \/ key = Append(Append(p, k), "#")
      \/ \E i \in DOMAIN v.d[k].l :
            key \in DOMAIN ConvertToV3[v.d[k].l[i]][Append(Append(p, k), Numerals[i])]
  <2>1. CASE \E length : f = Entry(Append(Append(p, k), "#"), length)
    BY <1>1, <2>1 DEF Entry
  <2>2. CASE \E i \in DOMAIN v.d[k].l :
                f = ConvertToV3[v.d[k].l[i]][Append(Append(p, k), Numerals[i])]
    BY <1>1, <2>2
  <2>3. QED
    BY <1>2, <2>1, <2>2, ListPiece, SMTT(30)
<1>4. ASSUME NEW i \in DOMAIN v.d[k].l,
             key \in DOMAIN ConvertToV3[v.d[k].l[i]][Append(Append(p, k), Numerals[i])]
      PROVE  \E at \in Seq(STRING) :
                /\ v.d[k].l[i] \in DOMAIN Depth
                /\ key \in DOMAIN ConvertToV3[v.d[k].l[i]][at]
                /\ ConvertToV3[v][p][key] = ConvertToV3[v.d[k].l[i]][at][key]
  <2>1. ConvertToV3[v][p][key] =
           ConvertToV3[v.d[k].l[i]][Append(Append(p, k), Numerals[i])][key]
    BY <1>4, ListLookUp, SMTT(30)
  <2>2. v.d[k].l[i] \in DOMAIN Depth /\ Append(Append(p, k), Numerals[i]) \in Seq(STRING)
    BY <1>2, ListElement
  <2>3. QED
    BY <1>4, <2>1, <2>2
<1>5. QED
  BY <1>3, <1>4

LEMMA ConvertString ==
    ASSUME NEW v \in DOMAIN Depth, NEW p \in Seq(STRING), DOMAIN v = {"s"}
    PROVE  \A key \in DOMAIN ConvertToV3[v][p] : ConvertToV3[v][p][key] = v.s
<1>1. ConvertToV3[v][p] = Flatten(ConvertToV3, v, p)
  BY ConvertEquation
<1>2. ConvertToV3[v][p] = Entry(Append(p, "random"), v.s)
  BY <1>1 DEF Flatten
<1>3. QED
  BY <1>2 DEF Entry

LEMMA SecurityGroupsRead ==
    ASSUME NEW s \in States, NEW r \in OfType(s, InstanceType)
    PROVE  ParseList(Attributes(s, r), "security_groups") \subseteq SecurityGroups(s, r)
<1> DEFINE raw == Attributes(s, r)
           name == "security_groups"
           rests == ParsePrefix(raw, name)
<1>0. r \in Range(s.resources)
  BY DEF OfType
<1>1. \A rest \in DOMAIN rests : \E key \in DOMAIN raw :
         /\ Len(key) > 1 /\ key[1] = name /\ Tail(key) = rest
         /\ rest # <<"#">> /\ rests[rest] = raw[key]
  BY <1>0, ParsePrefixValues
<1>2. SUFFICES ASSUME NEW rest \in DOMAIN rests PROVE rests[rest] \in SecurityGroups(s, r)
  BY DEF ParseList, Range
<1>3. PICK key \in DOMAIN raw :
         Len(key) > 1 /\ key[1] = name /\ Tail(key) # <<"#">> /\ rests[rest] = raw[key]
  BY <1>1
<1>4. CASE s.version = 3
  <2>1. raw = r.primary
    BY <1>4 DEF Attributes
  <2> HIDE DEF raw, rests
  <2>2. QED
    BY <1>3, <1>4, <2>1 DEF SecurityGroups
<1>5. CASE s.version # 3
  <2> DEFINE a == r.attributes
             p == <<>>
             list == a.d[name].l
  <2>1. /\ a \in DOMAIN Depth /\ DOMAIN a = {"d"} /\ raw = ConvertToV3[a][p]
        /\ name \in DOMAIN a.d /\ DOMAIN a.d[name] = {"l"} /\ p \in Seq(STRING)
        /\ Len(p) = 0 /\ \A v \in Range(list) : DOMAIN v = {"s"}
    BY <1>0, <1>5, Version4Facts, InstanceFacts, EmptyIsPath
  <2>2. key \in DOMAIN ConvertToV3[a][p] /\ key[Len(p) + 1] = name
    BY <1>3, <2>1
  <2>3. Append(Append(p, name), "#") = <<name, "#">>
    BY ShortPaths
  <2> HIDE DEF a, p, list, raw, rests
  <2>4. key # Append(Append(p, name), "#")
    BY <1>3, <2>3, PairTail
  <2>5. PICK i \in DOMAIN a.d[name].l, at \in Seq(STRING) :
           /\ a.d[name].l[i] \in DOMAIN Depth
           /\ key \in DOMAIN ConvertToV3[a.d[name].l[i]][at]
           /\ ConvertToV3[a][p][key] = ConvertToV3[a.d[name].l[i]][at][key]
    <3> HIDE DEF name
    <3>1. \/ key = Append(Append(p, name), "#")
          \/ \E i \in DOMAIN a.d[name].l, at \in Seq(STRING) :
                 /\ a.d[name].l[i] \in DOMAIN Depth
                 /\ key \in DOMAIN ConvertToV3[a.d[name].l[i]][at]
                 /\ ConvertToV3[a][p][key] = ConvertToV3[a.d[name].l[i]][at][key]
      <4>1. /\ a \in DOMAIN Depth /\ DOMAIN a = {"d"} /\ p \in Seq(STRING)
            /\ name \in DOMAIN a.d /\ DOMAIN a.d[name] = {"l"}
        BY <2>1
      <4>2. QED
        BY ONLY <2>2, <4>1, ListKeys, SMTT(30)
    <3>2. QED
      BY <2>4, <3>1
  <2>7. DOMAIN a.d[name].l[i] = {"s"} /\ a.d[name].l[i] \in Range(list)
    BY <2>1, <2>5 DEF Range, list
  <2>8. ConvertToV3[a][p][key] = a.d[name].l[i].s
    BY <2>5, <2>7, ConvertString
  <2>9. QED
    BY <1>3, <1>5, <2>1, <2>7, <2>8 DEF SecurityGroups, list, a
<1>6. QED
  BY <1>4, <1>5

-----------------------------------------------------------------------------
(* What a resource becomes as a host. *)

HostFrom(s, r) == HostOf([type |-> r.type, raw |-> Attributes(s, r)])

HostFields == {"name", "attrs", "metadata", "security_groups", "groups"}

InstanceAttrs ==
    {"access_ip_v4", "access_ip", "public_ipv4", "private_ipv4", "ip", "port_id",
     "ansible_host"}

LEMMA TypeFacts ==
    /\ InstanceType # DeviceType /\ InstanceType # AssociationType
    /\ DeviceType # AssociationType
BY DEF InstanceType, DeviceType, AssociationType

LEMMA InstanceHost ==
    ASSUME NEW s \in States, NEW r \in OfType(s, InstanceType)
    PROVE  LET h == HostFrom(s, r)
           IN  /\ DOMAIN h = HostFields /\ DOMAIN h.attrs = InstanceAttrs
               /\ h.name = NameOf(s, r) /\ h.attrs.port_id = PortOf(s, r)
               /\ h.attrs.ansible_host = OwnAddress(s, r)
               /\ h.security_groups \subseteq SecurityGroups(s, r)
               /\ \A g \in SplitGroups[Metadata(s, r, "kubespray_groups", "")] :
                     <<SanitizeGroup(g)>> \in h.groups
<1> DEFINE raw == Attributes(s, r)
           h == HostFrom(s, r)
<1>1. h = OpenstackHost(raw) /\ r \in Range(s.resources) /\ r.type = InstanceType
  BY TypeFacts DEF HostFrom, HostOf, OfType
<1>2. \A path \in Paths(r.type) : raw[path] = At(s, r, path)
  BY <1>1, AtPaths
<1>3. /\ <<"name">> \in Paths(r.type)
      /\ <<"access_ip_v4">> \in Paths(r.type) /\ <<"access_ip_v6">> \in Paths(r.type)
      /\ <<"network", "0", "port">> \in Paths(r.type)
  BY <1>1, TypeFacts DEF Paths
<1>4. /\ raw[<<"name">>] = At(s, r, <<"name">>)
      /\ raw[<<"access_ip_v4">>] = At(s, r, <<"access_ip_v4">>)
      /\ raw[<<"access_ip_v6">>] = At(s, r, <<"access_ip_v6">>)
      /\ raw[<<"network", "0", "port">>] = At(s, r, <<"network", "0", "port">>)
  <2> HIDE DEF raw
  <2>1. QED
    BY <1>2, <1>3
<1>5. \A k, default : k \notin {"%", "#"} =>
         Get(ParseDict(raw, "metadata"), k, default) = Metadata(s, r, k, default)
  BY MetadataRead
<1>6. /\ Get(ParseDict(raw, "metadata"), "prefer_ipv6", "0") = Metadata(s, r, "prefer_ipv6", "0")
      /\ Get(ParseDict(raw, "metadata"), "kubespray_groups", "")
            = Metadata(s, r, "kubespray_groups", "")
  <2> HIDE DEF raw
  <2>1. QED
    BY <1>5
<1>7. ParseList(raw, "security_groups") \subseteq SecurityGroups(s, r)
  BY SecurityGroupsRead
<1> HIDE DEF raw, h
<1>8. DOMAIN h = HostFields /\ DOMAIN h.attrs = InstanceAttrs
  BY <1>1 DEF OpenstackHost, HostFields, InstanceAttrs
<1>9. h.name = NameOf(s, r) /\ h.attrs.port_id = PortOf(s, r)
  BY <1>1, <1>4 DEF OpenstackHost, NameOf, PortOf
<1>10. h.attrs.ansible_host = OwnAddress(s, r)
  BY <1>1, <1>4, <1>6 DEF OpenstackHost, OwnAddress
<1>11. h.security_groups \subseteq SecurityGroups(s, r)
  BY <1>1, <1>7 DEF OpenstackHost
<1>12. \A g \in SplitGroups[Metadata(s, r, "kubespray_groups", "")] :
          <<SanitizeGroup(g)>> \in h.groups
  <2>1. Named(SplitGroups[Get(ParseDict(raw, "metadata"), "kubespray_groups", "")])
           \subseteq h.groups
    BY <1>1 DEF OpenstackHost
  <2>2. QED
    BY <1>6, <2>1 DEF Named
<1>13. QED
  BY <1>8, <1>9, <1>10, <1>11, <1>12 DEF h

LEMMA DeviceHost ==
    ASSUME NEW s \in States, NEW r \in OfType(s, DeviceType)
    PROVE  LET h == HostFrom(s, r)
           IN  /\ DOMAIN h = HostFields
               /\ DOMAIN h.attrs = {"ansible_host", "public_ipv4", "private_ipv4"}
               /\ h.name = NameOf(s, r) /\ h.attrs.ansible_host = OwnAddress(s, r)
               /\ h.security_groups = {}
<1> DEFINE raw == Attributes(s, r)
           h == HostFrom(s, r)
<1>1. h = EquinixMetalDevice(raw) /\ r \in Range(s.resources) /\ r.type = DeviceType
  BY DEF HostFrom, HostOf, OfType
<1>2. \A path \in Paths(r.type) : raw[path] = At(s, r, path)
  BY <1>1, AtPaths
<1>3. {<<"hostname">>, <<"network", "0", "address">>} \subseteq Paths(r.type)
  BY <1>1, TypeFacts DEF Paths
<1>4. /\ raw[<<"hostname">>] = At(s, r, <<"hostname">>)
      /\ raw[<<"network", "0", "address">>] = At(s, r, <<"network", "0", "address">>)
  <2> HIDE DEF raw
  <2>1. QED
    BY <1>2, <1>3
<1> HIDE DEF raw, h
<1>5. /\ DOMAIN h = HostFields /\ h.security_groups = {}
      /\ DOMAIN h.attrs = {"ansible_host", "public_ipv4", "private_ipv4"}
  BY <1>1 DEF EquinixMetalDevice, HostFields
<1>6. h.name = NameOf(s, r) /\ h.attrs.ansible_host = OwnAddress(s, r)
  BY <1>1, <1>4, TypeFacts DEF EquinixMetalDevice, NameOf, OwnAddress
<1>7. QED
  BY <1>5, <1>6 DEF h

-----------------------------------------------------------------------------
(* The hosts of a state. *)

LEMMA ResourceFacts ==
    ASSUME NEW s \in States
    PROVE  /\ Len(s.resources) \in Nat /\ DOMAIN s.resources = 1 .. Len(s.resources)
           /\ \A i \in 1 .. Len(s.resources) : s.resources[i] \in Range(s.resources)
           /\ IterResources(s) =
                 [i \in 1 .. Len(s.resources) |->
                    [type |-> s.resources[i].type, raw |-> Attributes(s, s.resources[i])]]
           /\ Len(IterResources(s)) = Len(s.resources)
<1>1. s.resources \in Seq(Range(s.resources))
  BY ContentsAssumption
<1>2. Len(s.resources) \in Nat /\ DOMAIN s.resources = 1 .. Len(s.resources)
  BY <1>1
<1>3. \A i \in 1 .. Len(s.resources) : s.resources[i] \in Range(s.resources)
  BY <1>2 DEF Range
<1>4. IterResources(s) =
         [i \in 1 .. Len(s.resources) |->
            [type |-> s.resources[i].type, raw |-> Attributes(s, s.resources[i])]]
  BY <1>2 DEF IterResources
<1>5. Len(IterResources(s)) = Len(s.resources)
  BY <1>2, <1>4
<1>6. QED
  BY <1>2, <1>3, <1>4, <1>5

Hosts(s) == {HostFrom(s, r) : r \in HostsOf(s)}

(* f: the hosts after each resource.                                       *)
HostSteps(f, s) ==
    /\ f \in [0 .. Len(s.resources) -> Seq(Hosts(s))]
    /\ IterHosts(s) = f[Len(s.resources)]
    /\ f[0] = <<>>
    /\ \A i \in 1 .. Len(s.resources) :
          f[i] = IF s.resources[i].type \in HostTypes
                 THEN Append(f[i - 1], HostFrom(s, s.resources[i]))
                 ELSE f[i - 1]

LEMMA HostsRecursion == \A s \in States : \E f : HostSteps(f, s)
<1> SUFFICES ASSUME NEW s \in States PROVE \E f : HostSteps(f, s)
  OBVIOUS
<1> DEFINE resources == IterResources(s)
           n == Len(resources)
           T == Seq(Hosts(s))
           c == <<>>
           IsHost(i) == s.resources[i].type \in HostTypes
           Step(f, i) == IF i = 0 THEN <<>>
                         ELSE IF resources[i].type \in HostTypes
                              THEN Append(f[i - 1], HostOf(resources[i]))
                              ELSE f[i - 1]
           upTo == CHOOSE f : f = [i \in 0 .. n |-> Step(f, i)]
           D == [i \in 1 .. n |->
                    [v \in T |-> IF IsHost(i) THEN Append(v, HostFrom(s, s.resources[i]))
                                 ELSE v]]
<1>0. /\ n = Len(s.resources) /\ n \in Nat
      /\ \A i \in 1 .. n : /\ resources[i].type = s.resources[i].type
                           /\ HostOf(resources[i]) = HostFrom(s, s.resources[i])
                           /\ s.resources[i] \in Range(s.resources)
  BY ResourceFacts DEF HostFrom
<1>1. \A i \in 1 .. n : IsHost(i) => HostFrom(s, s.resources[i]) \in Hosts(s)
  BY <1>0 DEF Hosts, HostsOf
<1>2. D \in [1 .. n -> [T -> T]] /\ c \in T
  <2>1. ASSUME NEW i \in 1 .. n, NEW v \in T
        PROVE  (IF IsHost(i) THEN Append(v, HostFrom(s, s.resources[i])) ELSE v) \in T
    BY <1>1
  <2> HIDE DEF n
  <2>2. QED
    BY <2>1
<1>3. PICK f \in [0 .. n -> T] : f[0] = c /\ \A i \in 1 .. n : f[i] = D[i][f[i - 1]]
  <2>1. \E f : Iterates(f, n, T, c, D)
    <3> HIDE DEF D, n, T, c
    <3>1. QED
      BY <1>0, <1>2, Iteration
  <2>2. QED
    BY <2>1 DEF Iterates
<1> HIDE DEF n, resources
<1>4. ASSUME NEW i \in 1 .. n
      PROVE  f[i] = IF IsHost(i) THEN Append(f[i - 1], HostFrom(s, s.resources[i]))
                    ELSE f[i - 1]
  <2>1. f[i - 1] \in T
    <3>1. i - 1 \in 0 .. n
      BY <1>0
    <3> HIDE DEF D
    <3>2. QED
      BY <1>3, <3>1
  <2>2. f[i] = D[i][f[i - 1]]
    <3> HIDE DEF D
    <3>1. QED
      BY <1>3
  <2>3. QED
    BY <2>1, <2>2
<1>5. \A i \in 0 .. n : f[i] = Step(f, i)
  <2>1. ASSUME NEW i \in 0 .. n, i # 0 PROVE f[i] = Step(f, i)
    <3>1. i \in 1 .. n
      BY <1>0, <2>1
    <3>2. QED
      BY <1>0, <1>4, <2>1, <3>1
  <2>2. QED
    BY <1>3, <2>1
<1>6. f = [i \in 0 .. n |-> Step(f, i)]
  <2> HIDE DEF Step
  <2>1. QED
    BY <1>3, <1>5
<1>7. upTo = [i \in 0 .. n |-> Step(upTo, i)]
  <2> HIDE DEF Step
  <2>1. QED
    BY <1>6
<1>8. IterHosts(s) = upTo[n]
  BY DEF IterHosts, n, resources
<1> HIDE DEF upTo
<1>9. \A i \in 0 .. n : upTo[i] = Step(upTo, i)
  <2> HIDE DEF Step
  <2>1. QED
    BY <1>7
<1>10. \A i \in 0 .. n : upTo[i] = f[i]
  <2> DEFINE S == {i \in 0 .. n : upTo[i] = f[i]}
  <2>1. 0 \in S
    BY <1>0, <1>3, <1>9
  <2>2. ASSUME NEW i \in 1 .. n, i - 1 \in S  PROVE i \in S
    <3>1. i \in 0 .. n /\ i # 0
      BY <1>0
    <3>2. upTo[i] = Step(upTo, i) /\ f[i] = Step(f, i)
      <4> HIDE DEF Step
      <4>1. QED
        BY <1>5, <1>9, <3>1
    <3>3. upTo[i - 1] = f[i - 1]
      BY <2>2
    <3>4. Step(upTo, i) = Step(f, i)
      BY <3>1, <3>3
    <3>5. upTo[i] = f[i]
      <4> HIDE DEF Step
      <4>1. QED
        BY <3>2, <3>4
    <3>6. QED
      BY <3>1, <3>5
  <2>3. 0 .. n \subseteq S
    <3> HIDE DEF S
    <3>1. QED
      BY <1>0, <2>1, <2>2, IndexInduction
  <2>4. QED
    BY <2>3
<1>11. upTo[n] = f[n]
  BY <1>0, <1>10
<1>12. QED
  BY <1>0, <1>3, <1>4, <1>8, <1>11 DEF HostSteps

(* The hosts that are read are those of the resources that are hosts.      *)
LEMMA HostsRead ==
    ASSUME NEW s \in States
    PROVE  /\ IterHosts(s) \in Seq(Hosts(s))
           /\ \A r \in HostsOf(s) : \E i \in DOMAIN IterHosts(s) : IterHosts(s)[i] = HostFrom(s, r)
<1>1. PICK f : HostSteps(f, s)
  BY HostsRecursion
<1> DEFINE n == Len(s.resources)
           Has1(hs, i) == s.resources[i].type \in HostTypes =>
                             \E k \in 1 .. Len(hs) : hs[k] = HostFrom(s, s.resources[i])
           S == {i \in 0 .. n : \A j \in 1 .. i : Has1(f[i], j)}
<1>2. n \in Nat /\ \A i \in 0 .. n : f[i] \in Seq(Hosts(s))
  BY <1>1, ResourceFacts DEF HostSteps
<1>3. 0 \in S
  BY <1>2
<1>4. ASSUME NEW i \in 1 .. n, i - 1 \in S  PROVE i \in S
  <2> DEFINE before == f[i - 1]
             after == f[i]
             host == HostFrom(s, s.resources[i])
  <2>1. i \in 0 .. n /\ i - 1 \in 0 .. n /\ before \in Seq(Hosts(s))
    BY <1>2
  <2>2. \A j \in 1 .. i - 1 : Has1(before, j)
    BY <1>4
  <2>3. CASE s.resources[i].type \in HostTypes
    <3>1. after = Append(before, host) /\ host \in Hosts(s)
      BY <1>1, <2>1, <2>3, ResourceFacts DEF HostSteps, Hosts, HostsOf
    <3> HIDE DEF before, after, host
    <3>2. /\ Len(after) = Len(before) + 1 /\ Len(before) \in Nat
          /\ \A k \in 1 .. Len(before) : after[k] = before[k]
      BY <2>1, <3>1, AppendProperties
    <3>3. after[Len(before) + 1] = host
      BY <2>1, <3>1, AppendProperties
    <3>4. ASSUME NEW j \in 1 .. i  PROVE Has1(after, j)
      <4>1. CASE j = i
        <5>1. Len(before) + 1 \in 1 .. Len(after)
          BY <3>2
        <5>2. QED
          BY <3>3, <4>1, <5>1 DEF host
      <4>2. CASE j # i
        <5>1. j \in 1 .. i - 1
          BY <1>2, <4>2
        <5>2. Has1(before, j)
          BY <2>2, <5>1
        <5>3. \A k \in 1 .. Len(before) : k \in 1 .. Len(after)
          BY <3>2
        <5>4. QED
          BY <3>2, <5>2, <5>3
      <4>3. QED
        BY <4>1, <4>2
    <3>5. QED
      BY <2>1, <3>4 DEF after
  <2>4. CASE s.resources[i].type \notin HostTypes
    <3>1. after = before
      BY <1>1, <2>4 DEF HostSteps
    <3>2. \A j \in 1 .. i : j = i \/ j \in 1 .. i - 1
      BY <1>2
    <3>3. QED
      BY <2>1, <2>2, <2>4, <3>1, <3>2
  <2>5. QED
    BY <2>3, <2>4
<1>5. 0 .. n \subseteq S
  <2> HIDE DEF S, n
  <2>1. QED
    BY <1>2, <1>3, <1>4, IndexInduction
<1>6. n \in S /\ IterHosts(s) = f[n] /\ n \in 0 .. n
  <2>1. n \in 0 .. n
    BY <1>2
  <2>2. IterHosts(s) = f[n]
    BY <1>1 DEF HostSteps
  <2> HIDE DEF n, S
  <2>3. QED
    BY <1>5, <2>1, <2>2
<1>7. IterHosts(s) \in Seq(Hosts(s))
  BY <1>2, <1>6
<1>8. ASSUME NEW r \in HostsOf(s)
      PROVE  \E i \in DOMAIN IterHosts(s) : IterHosts(s)[i] = HostFrom(s, r)
  <2>1. PICK j \in 1 .. n : s.resources[j] = r
    BY ResourceFacts DEF HostsOf, Range
  <2>2. Has1(IterHosts(s), j) /\ r.type \in HostTypes
    BY <1>6 DEF HostsOf
  <2>3. DOMAIN IterHosts(s) = 1 .. Len(IterHosts(s))
    BY <1>7
  <2>4. QED
    BY <2>1, <2>2, <2>3
<1>9. QED
  BY <1>7, <1>8

-----------------------------------------------------------------------------
(* The floating IPs of a state. *)

LEMMA LeastExists ==
    ASSUME NEW S, S \subseteq Nat, S # {}
    PROVE  \E x \in S : \A y \in S : x <= y
<1>1. IsWellFoundedOn(Below, Nat)
  BY NatLessThanWellFounded DEF Below
<1>2. PICK x \in S : \A y \in S : <<y, x>> \notin Below
  BY <1>1, WFMin
<1>3. \A y \in S : ~(y < x)
  BY <1>2, BelowIsLess
<1>4. \A y \in S : x \in Nat /\ y \in Nat
  OBVIOUS
<1>5. \A y \in S : x <= y
  BY <1>3, <1>4
<1>6. QED
  BY <1>5

LEMMA LastInFacts ==
    ASSUME NEW n \in Nat, NEW S, S \subseteq 1 .. n, S # {}
    PROVE  LastIn(S) \in S /\ \A j \in S : j <= LastIn(S)
<1> DEFINE R == {n - i : i \in S}
<1>1. R \subseteq Nat /\ R # {}
  OBVIOUS
<1>2. PICK x \in R : \A y \in R : x <= y
  <2> HIDE DEF R
  <2>1. QED
    BY <1>1, LeastExists
<1>3. PICK i \in S : x = n - i
  OBVIOUS
<1>4. \A j \in S : j <= i
  <2>1. ASSUME NEW j \in S PROVE j <= i
    <3>1. n - i <= n - j
      BY <1>2, <1>3
    <3>2. i \in Int /\ j \in Int
      OBVIOUS
    <3>3. QED
      BY <3>1, <3>2
  <2>2. QED
    BY <2>1
<1>5. \E k \in S : \A j \in S : j <= k
  BY <1>4
<1>6. QED
  BY <1>5 DEF LastIn

LEMMA IpsRead ==
    ASSUME NEW s \in States, NEW port
    PROVE  /\ port \in DOMAIN IterIps(s) <=> FloatingOf(s, port) # {}
           /\ port \in DOMAIN IterIps(s) => IterIps(s)[port] \in FloatingOf(s, port)
<1> DEFINE n == Len(s.resources)
           res == s.resources
           resources == IterResources(s)
           Associations == {i \in DOMAIN resources : resources[i].type = AssociationType}
           PortAt(i) == resources[i].raw[<<"port_id">>]
           I == {i \in Associations : PortAt(i) = port}
           P(r) == At(s, r, <<"port_id">>)
           F(r) == At(s, r, <<"floating_ip">>)
<1>1. /\ n \in Nat /\ DOMAIN resources = 1 .. n
      /\ \A i \in 1 .. n : /\ resources[i].type = res[i].type
                           /\ resources[i].raw = Attributes(s, res[i])
                           /\ res[i] \in Range(res)
      /\ \A r \in Range(res) : \E i \in 1 .. n : r = res[i]
  BY ResourceFacts DEF Range
<1>2. ASSUME NEW r \in Range(res), r.type = AssociationType
      PROVE  /\ Attributes(s, r)[<<"port_id">>] = P(r)
             /\ Attributes(s, r)[<<"floating_ip">>] = F(r)
  <2>1. <<"port_id">> \in Paths(r.type) /\ <<"floating_ip">> \in Paths(r.type)
    BY <1>2, TypeFacts DEF Paths
  <2>2. QED
    BY <2>1, AtPaths
<1>3. FloatingOf(s, port) =
         {F(r) : r \in {q \in Range(res) : q.type = AssociationType /\ P(q) = port}}
  BY DEF FloatingOf, OfType
<1>4. /\ DOMAIN IterIps(s) = {PortAt(i) : i \in Associations}
      /\ port \in DOMAIN IterIps(s) =>
            IterIps(s)[port] = resources[LastIn(I)].raw[<<"floating_ip">>]
  BY DEF IterIps
<1> HIDE DEF resources, n, res
<1>5. \A i \in Associations : /\ i \in 1 .. n /\ res[i] \in Range(res)
                              /\ res[i].type = AssociationType
                              /\ PortAt(i) = P(res[i])
                              /\ resources[i].raw[<<"floating_ip">>] = F(res[i])
  <2> HIDE DEF P, F
  <2>1. QED
    BY <1>1, <1>2
<1> HIDE DEF P, F
<1>6. \A i \in I : F(res[i]) \in FloatingOf(s, port)
  BY <1>3, <1>5
<1>7. ASSUME FloatingOf(s, port) # {}  PROVE I # {}
  <2>1. PICK r \in Range(res) : r.type = AssociationType /\ P(r) = port
    BY <1>3, <1>7
  <2>2. PICK i \in 1 .. n : r = res[i]
    BY <1>1
  <2>3. i \in Associations
    BY <1>1, <2>1, <2>2
  <2>4. i \in I
    BY <1>5, <2>1, <2>2, <2>3
  <2>5. QED
    BY <2>4
<1>8. port \in DOMAIN IterIps(s) <=> I # {}
  BY <1>4
<1>9. ASSUME I # {}  PROVE LastIn(I) \in I
  <2>1. I \subseteq 1 .. n
    BY <1>5
  <2> HIDE DEF I
  <2>2. QED
    BY <1>1, <1>9, <2>1, LastInFacts
<1>10. ASSUME port \in DOMAIN IterIps(s)  PROVE IterIps(s)[port] \in FloatingOf(s, port)
  <2>1. LastIn(I) \in I
    BY <1>8, <1>9, <1>10
  <2>2. resources[LastIn(I)].raw[<<"floating_ip">>] = F(res[LastIn(I)])
    BY <1>5, <2>1
  <2>3. QED
    BY <1>4, <1>6, <1>10, <2>1, <2>2
<1>11. QED
  <2> HIDE DEF I
  <2>1. QED
    BY <1>6, <1>7, <1>8, <1>10

-----------------------------------------------------------------------------
(* What a host becomes with the floating IPs. *)

Made(s, r) ==
    LET h == HostFrom(s, r) IN IF Unknown(h) THEN h ELSE IterHostIps(h)

LEMMA HostKinds ==
    \A s \in States : \A r \in HostsOf(s) :
        \/ r.type = InstanceType /\ r \in OfType(s, InstanceType)
        \/ r.type = DeviceType /\ r \in OfType(s, DeviceType)
BY DEF HostsOf, HostTypes, OfType

LEMMA MadeInstance ==
    ASSUME NEW s \in States, NEW r \in OfType(s, InstanceType)
    PROVE  LET h == HostFrom(s, r)
               m == Made(s, r)
               port == PortOf(s, r)
           IN  /\ ~Unknown(h)
               /\ m.name = h.name /\ m.groups = h.groups
               /\ m.security_groups = h.security_groups
               /\ m.attrs.ansible_host = IF port \in DOMAIN ips THEN ips[port]
                                         ELSE OwnAddress(s, r)
<1> DEFINE h == HostFrom(s, r)
           m == Made(s, r)
           port == PortOf(s, r)
           attrs == h.attrs
           ip == ips[port]
           updated == IF port \in DOMAIN ips
                      THEN [attrs EXCEPT !.access_ip_v4 = ip, !.access_ip = ip,
                                         !.public_ipv4 = ip, !.ansible_host = ip]
                      ELSE attrs
           given == IF Get(h.metadata, "use_access_ip", "1") = "0"
                    THEN Without(updated, "access_ip") ELSE updated
<1>1. /\ DOMAIN h = HostFields /\ DOMAIN attrs = InstanceAttrs
      /\ attrs.port_id = port /\ attrs.ansible_host = OwnAddress(s, r)
  BY InstanceHost
<1>2. ~Unknown(h)
  BY <1>1 DEF Unknown, InstanceAttrs
<1>3. m = IF DOMAIN ips = {} THEN h ELSE [h EXCEPT !.attrs = given]
  BY <1>1, <1>2 DEF Made, IterHostIps
<1> HIDE DEF h, m, port
<1>4. given.ansible_host = IF port \in DOMAIN ips THEN ips[port] ELSE OwnAddress(s, r)
  <2>1. updated.ansible_host = IF port \in DOMAIN ips THEN ips[port] ELSE OwnAddress(s, r)
    BY <1>1 DEF InstanceAttrs
  <2>2. "ansible_host" \in DOMAIN updated /\ "ansible_host" # "access_ip"
    BY <1>1 DEF InstanceAttrs
  <2> HIDE DEF updated
  <2>3. Without(updated, "access_ip").ansible_host = updated.ansible_host
    BY <2>2 DEF Without
  <2>4. QED
    BY <2>1, <2>3
<1> HIDE DEF given
<1>5. CASE DOMAIN ips = {}
  BY <1>1, <1>2, <1>3, <1>5 DEF h, m, port
<1>6. CASE DOMAIN ips # {}
  <2>1. m = [h EXCEPT !.attrs = given]
    BY <1>3, <1>6
  <2>2. /\ m.name = h.name /\ m.groups = h.groups
        /\ m.security_groups = h.security_groups /\ m.attrs = given
    BY <1>1, <2>1 DEF HostFields
  <2>3. QED
    BY <1>2, <1>4, <2>2 DEF h, m, port
<1>7. QED
  BY <1>5, <1>6

LEMMA MadeDevice ==
    ASSUME NEW s \in States, NEW r \in OfType(s, DeviceType)
    PROVE  Made(s, r) = HostFrom(s, r)
<1> DEFINE h == HostFrom(s, r)
<1>1. "port_id" \notin DOMAIN h.attrs
  BY DeviceHost
<1> HIDE DEF h
<1>2. Unknown(h) \/ IterHostIps(h) = h
  BY <1>1 DEF Unknown, IterHostIps
<1>3. QED
  BY <1>2 DEF Made, h

LEMMA MadeFacts ==
    ASSUME NEW s \in States, NEW r \in HostsOf(s)
    PROVE  LET m == Made(s, r)
           IN  /\ m.name = NameOf(s, r)
               /\ m.security_groups \subseteq UNION {SecurityGroups(p[1], p[2]) : p \in Instances}
               /\ \/ m.attrs.ansible_host = OwnAddress(s, r)
                  \/ /\ r.type = InstanceType /\ PortOf(s, r) \in DOMAIN ips
                     /\ m.attrs.ansible_host = ips[PortOf(s, r)]
<1>1. CASE r.type = InstanceType /\ r \in OfType(s, InstanceType)
  <2>1. SecurityGroups(s, r) \subseteq UNION {SecurityGroups(p[1], p[2]) : p \in Instances}
    <3>1. <<s, r>> \in Instances
      BY <1>1 DEF Instances
    <3>2. <<s, r>>[1] = s /\ <<s, r>>[2] = r
      OBVIOUS
    <3>3. QED
      BY <3>1, <3>2
  <2>2. /\ HostFrom(s, r).name = NameOf(s, r)
        /\ HostFrom(s, r).security_groups \subseteq SecurityGroups(s, r)
    BY <1>1, InstanceHost
  <2>3. /\ Made(s, r).name = HostFrom(s, r).name
        /\ Made(s, r).security_groups = HostFrom(s, r).security_groups
        /\ Made(s, r).attrs.ansible_host =
              IF PortOf(s, r) \in DOMAIN ips THEN ips[PortOf(s, r)] ELSE OwnAddress(s, r)
    BY <1>1, MadeInstance
  <2>4. QED
    BY <1>1, <2>1, <2>2, <2>3
<1>2. CASE r.type = DeviceType /\ r \in OfType(s, DeviceType)
  BY <1>2, DeviceHost, MadeDevice
<1>3. QED
  BY <1>1, <1>2, HostKinds

LEMMA NamesKnown ==
    ASSUME NEW s \in States, NEW r \in HostsOf(s)
    PROVE  NameOf(s, r) \in HostNames
<1>1. HostFrom(s, r).name = NameOf(s, r)
  BY HostKinds, InstanceHost, DeviceHost
<1>2. HostFrom(s, r) \in Range(IterHosts(s))
  BY HostsRead DEF Range
<1>3. QED
  BY <1>1, <1>2 DEF HostNames, States

-----------------------------------------------------------------------------
(* The invariant of the two passes. *)

Typed ==
    /\ tfstate \in [Files -> States] /\ seen \in [Files -> SUBSET States]
    /\ \A f \in Files : tfstate[f] \in Contents[f] /\ seen[f] \subseteq Contents[f]
    /\ torn \subseteq Files /\ writes \in 0 .. MaxWrites
    /\ mode \in Modes /\ target \in HostNames \cup {""}
    /\ pass \in {"idle", "ips", "hosts", "done", "failed"} /\ todo \subseteq Files

Current == Running => \A f \in Files : tfstate[f] \in seen[f]

Seen == UNION Range(seen)

KnownIps == \A p \in DOMAIN ips : \E s \in Seen : ips[p] \in FloatingOf(s, p)

(* The ports of a state that each file has had are all known, once the     *)
(* file has been read.                                                     *)
PortsKept(f) == \E s \in seen[f] : DOMAIN IterIps(s) \subseteq DOMAIN ips

IpsKept ==
    /\ pass = "ips" => \A f \in Files \ todo : PortsKept(f)
    /\ pass \in {"hosts", "done"} => \A f \in Files : PortsKept(f)

AllMade == UNION {{Made(s, r) : r \in HostsOf(s)} : s \in Seen}

HostsMade ==
    /\ hosts \in Seq(AllMade)
    /\ pass \in {"idle", "ips"} => hosts = <<>>

HostsKeptOf(f) == \E s \in seen[f] : \A r \in HostsOf(s) : Made(s, r) \in Range(hosts)

HostsKept ==
    /\ pass = "hosts" => \A f \in Files \ todo : HostsKeptOf(f)
    /\ pass = "done" => Found(hosts) \/ \A f \in Files : HostsKeptOf(f)

IInv == Typed /\ Current /\ KnownIps /\ IpsKept /\ HostsMade /\ HostsKept

LEMMA FileStates == \A f \in Files : Contents[f] \subseteq States
BY ContentsAssumption DEF States, Range

LEMMA SeenFacts ==
    ASSUME Typed
    PROVE  /\ \A f \in Files : seen[f] \subseteq Seen
           /\ Seen \subseteq States
           /\ \A s \in Seen : \E f \in Files : s \in seen[f]
BY DEF Typed, Seen, Range

LEMMA MadeSame ==
    ASSUME ips' = ips
    PROVE  \A s, r : Made(s, r)' = Made(s, r)
BY DEF Made, Unknown, IterHostIps

LEMMA NoWrites == 0 \in 0 .. MaxWrites
<1>1. MaxWrites \in Nat
  BY BoundAssumption
<1>2. QED
  BY <1>1

LEMMA TypedInit == Init => Typed
<1> SUFFICES ASSUME Init PROVE Typed
  OBVIOUS
<1>1. tfstate \in [Files -> States]
  BY FileStates DEF Init
<1>2. seen \in [Files -> SUBSET States]
  BY DEF Init
<1>3. QED
  BY <1>1, <1>2, NoWrites DEF Init, Typed, Modes

LEMMA TypedNext == Typed /\ [Next]_vars => Typed'
<1> SUFFICES ASSUME Typed, [Next]_vars PROVE Typed'
  OBVIOUS
<1> USE DEF Typed
<1>1. ASSUME NEW f \in Files, Write(f)  PROVE Typed'
  <2>1. PICK new \in Contents[f] :
           /\ tfstate' = [tfstate EXCEPT ![f] = new]
           /\ seen' = IF Running THEN [seen EXCEPT ![f] = @ \cup {new}] ELSE seen
    BY <1>1 DEF Write
  <2>2. new \in States
    BY <2>1, FileStates
  <2>3. tfstate' \in [Files -> States] /\ \A g \in Files : tfstate'[g] \in Contents[g]
    BY <2>1, <2>2
  <2>4. seen' \in [Files -> SUBSET States] /\ \A g \in Files : seen'[g] \subseteq Contents[g]
    BY <2>1, <2>2
  <2>5. writes' \in 0 .. MaxWrites /\ torn' \subseteq Files
    <3>1. MaxWrites \in Nat
      BY BoundAssumption
    <3>2. writes < MaxWrites /\ writes' = writes + 1 /\ torn' = torn \cup {f}
      BY <1>1 DEF Write
    <3>3. torn' \subseteq Files
      BY <3>2
    <3>4. writes \in 0 .. MaxWrites
      OBVIOUS
    <3>5. writes' \in 0 .. MaxWrites
      BY ONLY <3>1, <3>2, <3>4
    <3>6. QED
      BY <3>3, <3>5
  <2>6. mode' = mode /\ target' = target /\ pass' = pass /\ todo' = todo
    BY <1>1 DEF Write
  <2>7. QED
    BY <2>3, <2>4, <2>5, <2>6
<1>2. ASSUME NEW f \in Files, Written(f)  PROVE Typed'
  BY <1>2 DEF Written
<1>3. ASSUME NEW f \in Files, ReadFails(f)  PROVE Typed'
  BY <1>3 DEF ReadFails, Open, tfVars
<1>4. ASSUME NEW f \in Files, ReadIps(f)  PROVE Typed'
  BY <1>4 DEF ReadIps, Open, tfVars
<1>5. ASSUME NEW f \in Files, ReadHosts(f)  PROVE Typed'
  <2>1. pass' \in {pass, "failed"}
    BY <1>5 DEF ReadHosts
  <2>2. /\ todo' = todo \ {f} /\ tfstate' = tfstate /\ torn' = torn /\ writes' = writes
        /\ mode' = mode /\ target' = target /\ seen' = seen
    BY <1>5 DEF ReadHosts, Open, tfVars
  <2>3. QED
    BY <2>1, <2>2
<1>6. ASSUME NEW m \in Modes, NEW t \in HostNames \cup {""}, Start(m, t)  PROVE Typed'
  <2>1. seen' = [f \in Files |-> {tfstate[f]}]
    BY <1>6 DEF Start
  <2>2. seen' \in [Files -> SUBSET States] /\ \A f \in Files : seen'[f] \subseteq Contents[f]
    BY <2>1
  <2>3. writes' \in 0 .. MaxWrites
    BY <1>6, NoWrites DEF Start
  <2>4. QED
    BY <1>6, <2>2, <2>3 DEF Start
<1>7. CASE SecondPass
  BY <1>7 DEF SecondPass, tfVars
<1>8. CASE Answer
  BY <1>8 DEF Answer, tfVars
<1>9. CASE UNCHANGED vars
  BY <1>9 DEF vars, tfVars
<1>10. QED
  BY <1>1, <1>2, <1>3, <1>4, <1>5, <1>6, <1>7, <1>8, <1>9 DEF Next, Modes

LEMMA CurrentNext == Typed /\ Current /\ [Next]_vars => Current'
<1> SUFFICES ASSUME Typed, Current, [Next]_vars PROVE Current'
  OBVIOUS
<1>1. ASSUME NEW f \in Files, Write(f)  PROVE Current'
  <2>1. PICK new \in Contents[f] :
           /\ tfstate' = [tfstate EXCEPT ![f] = new]
           /\ seen' = IF Running THEN [seen EXCEPT ![f] = @ \cup {new}] ELSE seen
    BY <1>1 DEF Write
  <2>2. SUFFICES ASSUME Running PROVE \A g \in Files : tfstate'[g] \in seen'[g]
    BY <1>1 DEF Write, Running, Current
  <2>3. \A g \in Files : tfstate[g] \in seen[g]
    BY <2>2 DEF Current
  <2>4. QED
    BY <2>1, <2>2, <2>3 DEF Typed
<1>2. ASSUME NEW f \in Files, Written(f)  PROVE Current'
  BY <1>2 DEF Written, Current, Running
<1>3. ASSUME NEW f \in Files, ReadFails(f) \/ ReadIps(f) \/ ReadHosts(f)  PROVE Current'
  <2>1. tfstate' = tfstate /\ seen' = seen /\ Running /\ pass' \in {pass, "failed"}
    BY <1>3 DEF ReadFails, ReadIps, ReadHosts, Open, tfVars, Running
  <2>2. QED
    BY <2>1 DEF Current, Running
<1>4. ASSUME NEW m, NEW t, Start(m, t)  PROVE Current'
  BY <1>4 DEF Start, Current, Running, Typed
<1>5. CASE SecondPass
  BY <1>5 DEF SecondPass, tfVars, Current, Running
<1>6. CASE Answer
  BY <1>6 DEF Answer, Current, Running
<1>7. CASE UNCHANGED vars
  BY <1>7 DEF vars, tfVars, Current, Running
<1>8. QED
  BY <1>1, <1>2, <1>3, <1>4, <1>5, <1>6, <1>7 DEF Next

LEMMA SeenGrows ==
    ASSUME Typed, NEW f \in Files, Write(f)
    PROVE  Seen \subseteq Seen' /\ \A g \in Files : seen[g] \subseteq seen'[g]
<1>1. PICK new \in Contents[f] :
         seen' = IF Running THEN [seen EXCEPT ![f] = @ \cup {new}] ELSE seen
  BY DEF Write
<1>2. seen \in [Files -> SUBSET States] /\ DOMAIN seen' = Files
  BY <1>1 DEF Typed
<1>3. \A g \in Files : seen[g] \subseteq seen'[g]
  BY <1>1, <1>2
<1>4. QED
  BY <1>2, <1>3 DEF Seen, Range

LEMMA ReadSeen ==
    ASSUME Typed, Current, Running, NEW f \in Files
    PROVE  tfstate[f] \in seen[f] /\ tfstate[f] \in Seen /\ tfstate[f] \in States
BY SeenFacts DEF Current, Typed

LEMMA UpdateFacts ==
    \A f, g : /\ DOMAIN Update(f, g) = DOMAIN f \cup DOMAIN g
              /\ \A k \in DOMAIN Update(f, g) :
                    \/ k \in DOMAIN g /\ Update(f, g)[k] = g[k]
                    \/ k \in DOMAIN f /\ Update(f, g)[k] = f[k]
BY DEF Update

LEMMA KnownIpsNext == Typed /\ Current /\ KnownIps /\ [Next]_vars => KnownIps'
<1> SUFFICES ASSUME Typed, Current, KnownIps, [Next]_vars PROVE KnownIps'
  OBVIOUS
<1>1. ASSUME NEW f \in Files, Write(f)  PROVE KnownIps'
  BY <1>1, SeenGrows DEF Write, KnownIps
<1>2. ASSUME NEW f \in Files, ReadIps(f)  PROVE KnownIps'
  <2> DEFINE s == tfstate[f]
             new == Update(ips, IterIps(s))
  <2>1. ips' = new /\ seen' = seen /\ Running
    BY <1>2 DEF ReadIps, Open, Running
  <2>2. s \in Seen /\ s \in States /\ Seen' = Seen
    BY <2>1, ReadSeen DEF Seen
  <2> HIDE DEF s
  <2>3. ASSUME NEW p \in DOMAIN new  PROVE \E t \in Seen : new[p] \in FloatingOf(t, p)
    <3>1. CASE p \in DOMAIN IterIps(s) /\ new[p] = IterIps(s)[p]
      BY <2>2, <3>1, IpsRead
    <3>2. CASE p \in DOMAIN ips /\ new[p] = ips[p]
      BY <3>2 DEF KnownIps
    <3>3. QED
      BY <3>1, <3>2, UpdateFacts
  <2> HIDE DEF new
  <2>4. QED
    BY <2>1, <2>2, <2>3 DEF KnownIps
<1>3. ASSUME NEW m, NEW t, Start(m, t)  PROVE KnownIps'
  BY <1>3 DEF Start, KnownIps
<1>4. ASSUME UNCHANGED <<ips, seen>>  PROVE KnownIps'
  BY <1>4 DEF KnownIps, Seen
<1>5. QED
  BY <1>1, <1>2, <1>3, <1>4
     DEF Next, vars, Written, ReadFails, ReadHosts, SecondPass, Answer, Open

LEMMA IpsKeptNext == Typed /\ Current /\ IpsKept /\ [Next]_vars => IpsKept'
<1> SUFFICES ASSUME Typed, Current, IpsKept, [Next]_vars PROVE IpsKept'
  OBVIOUS
<1>1. ASSUME NEW f \in Files, Write(f)  PROVE IpsKept'
  <2>1. pass' = pass /\ todo' = todo /\ ips' = ips
    BY <1>1 DEF Write
  <2>2. \A g \in Files : PortsKept(g) => PortsKept(g)'
    BY <1>1, <2>1, SeenGrows DEF PortsKept
  <2>3. QED
    BY <2>1, <2>2 DEF IpsKept
<1>2. ASSUME NEW f \in Files, ReadIps(f)  PROVE IpsKept'
  <2> DEFINE s == tfstate[f]
  <2>1. /\ ips' = Update(ips, IterIps(s)) /\ seen' = seen /\ Running
        /\ pass = "ips" /\ pass' = "ips" /\ todo' = todo \ {f}
    BY <1>2 DEF ReadIps, Open, Running
  <2>2. s \in seen[f] /\ DOMAIN ips' = DOMAIN ips \cup DOMAIN IterIps(s)
    BY <2>1, ReadSeen, UpdateFacts
  <2> HIDE DEF s
  <2>3. PortsKept(f)' /\ \A g \in Files : PortsKept(g) => PortsKept(g)'
    BY <2>1, <2>2 DEF PortsKept
  <2>4. QED
    BY <2>1, <2>3 DEF IpsKept
<1>3. ASSUME NEW m, NEW t, Start(m, t)  PROVE IpsKept'
  BY <1>3 DEF Start, IpsKept
<1>4. CASE SecondPass
  <2>1. /\ pass = "ips" /\ todo = {} /\ pass' = "hosts" /\ ips' = ips /\ seen' = seen
    BY <1>4 DEF SecondPass
  <2>2. \A g \in Files : PortsKept(g) /\ PortsKept(g)'
    BY <2>1 DEF IpsKept, PortsKept
  <2>3. QED
    BY <2>1, <2>2 DEF IpsKept
<1>5. ASSUME ips' = ips, seen' = seen,
             \/ pass' = pass /\ todo' = todo
             \/ pass' = "failed"
             \/ pass = "hosts" /\ pass' \in {"hosts", "done"}
      PROVE  IpsKept'
  BY <1>5 DEF IpsKept, PortsKept
<1>6. ASSUME NEW f \in Files, Written(f)  PROVE IpsKept'
  BY <1>5, <1>6 DEF Written
<1>7. ASSUME NEW f \in Files, ReadFails(f)  PROVE IpsKept'
  BY <1>5, <1>7 DEF ReadFails, Open
<1>8. ASSUME NEW f \in Files, ReadHosts(f)  PROVE IpsKept'
  <2>1. ips' = ips /\ seen' = seen /\ pass = "hosts" /\ pass' \in {"hosts", "failed"}
    BY <1>8 DEF ReadHosts, Open
  <2>2. QED
    BY <1>5, <2>1
<1>9. CASE Answer
  BY <1>5, <1>9 DEF Answer
<1>10. CASE UNCHANGED vars
  BY <1>5, <1>10 DEF vars
<1>11. QED
  BY <1>1, <1>2, <1>3, <1>4, <1>6, <1>7, <1>8, <1>9, <1>10 DEF Next

(* What ReadHosts adds to the hosts.                                       *)
Added(s) ==
    [i \in DOMAIN IterHosts(s) |->
        IF Unknown(IterHosts(s)[i]) THEN IterHosts(s)[i] ELSE IterHostIps(IterHosts(s)[i])]

LEMMA AddedFacts ==
    ASSUME NEW s \in States
    PROVE  /\ Added(s) \in Seq({Made(s, r) : r \in HostsOf(s)})
           /\ \A r \in HostsOf(s) : \E i \in 1 .. Len(Added(s)) : Added(s)[i] = Made(s, r)
<1> DEFINE hs == IterHosts(s)
           n == Len(hs)
           M == {Made(s, r) : r \in HostsOf(s)}
           G(h) == IF Unknown(h) THEN h ELSE IterHostIps(h)
           new == [i \in 1 .. n |-> G(hs[i])]
<1>1. /\ hs \in Seq(Hosts(s)) /\ n \in Nat /\ DOMAIN hs = 1 .. n
      /\ \A r \in HostsOf(s) : \E i \in 1 .. n : hs[i] = HostFrom(s, r)
  <2> hs \in Seq(Hosts(s)) /\ \A r \in HostsOf(s) : \E i \in DOMAIN hs : hs[i] = HostFrom(s, r)
    BY HostsRead
  <2> HIDE DEF hs
  <2> QED
    OBVIOUS
<1>2. \A r \in HostsOf(s) : Made(s, r) = G(HostFrom(s, r))
  BY DEF Made
<1>3. Added(s) = new
  BY <1>1 DEF Added
<1> HIDE DEF hs
<1>4. \A i \in 1 .. n : G(hs[i]) \in M
  <2>1. \A i \in 1 .. n : \E r \in HostsOf(s) : hs[i] = HostFrom(s, r)
    BY <1>1 DEF Hosts
  <2> HIDE DEF G
  <2>2. QED
    BY <1>2, <2>1
<1> HIDE DEF G, M
<1>5. new \in Seq(M) /\ Len(new) = n
  BY <1>1, <1>4
<1>6. ASSUME NEW r \in HostsOf(s)  PROVE \E i \in 1 .. n : new[i] = Made(s, r)
  <2>1. PICK i \in 1 .. n : hs[i] = HostFrom(s, r)
    BY <1>1
  <2>2. QED
    BY <1>2, <2>1
<1>7. QED
  BY <1>3, <1>5, <1>6 DEF M

LEMMA ConcatRange ==
    ASSUME NEW S, NEW a \in Seq(S), NEW b \in Seq(S)
    PROVE  /\ a \o b \in Seq(S)
           /\ \A i \in 1 .. Len(a) : a[i] \in Range(a \o b)
           /\ \A i \in 1 .. Len(b) : b[i] \in Range(a \o b)
<1> DEFINE whole == a \o b
<1>1. /\ whole \in Seq(S) /\ Len(whole) = Len(a) + Len(b)
      /\ \A i \in 1 .. Len(a) + Len(b) :
            whole[i] = IF i <= Len(a) THEN a[i] ELSE b[i - Len(a)]
  BY ConcatProperties
<1>2. Len(a) \in Nat /\ Len(b) \in Nat
  OBVIOUS
<1> HIDE DEF whole
<1>3. DOMAIN whole = 1 .. Len(a) + Len(b)
  BY <1>1
<1>4. ASSUME NEW i \in 1 .. Len(a)  PROVE a[i] \in Range(whole)
  <2>1. i \in DOMAIN whole /\ whole[i] = a[i]
    BY <1>1, <1>2, <1>3
  <2>2. QED
    BY <2>1 DEF Range
<1>5. ASSUME NEW i \in 1 .. Len(b)  PROVE b[i] \in Range(whole)
  <2> DEFINE k == Len(a) + i
  <2>1. k \in DOMAIN whole /\ ~(k <= Len(a)) /\ k - Len(a) = i
    BY <1>2, <1>3
  <2>2. whole[k] = b[i]
    BY <1>1, <1>3, <2>1
  <2>3. QED
    BY <2>1, <2>2 DEF Range
<1>6. QED
  BY <1>1, <1>4, <1>5 DEF whole

LEMMA AddedToHosts ==
    ASSUME Typed, Current, HostsMade, NEW f \in Files, ReadHosts(f)
    PROVE  /\ ips' = ips /\ seen' = seen /\ tfstate[f] \in seen[f]
           /\ pass = "hosts" /\ todo' = todo \ {f} /\ ~Found(hosts)
           /\ \/ pass' = "failed" /\ hosts' = hosts
              \/ pass' = "hosts" /\ hosts' = hosts \o Added(tfstate[f])
           /\ tfstate[f] \in States
           /\ Added(tfstate[f]) \in Seq(AllMade) /\ hosts \in Seq(AllMade)
<1> DEFINE s == tfstate[f]
<1>1. /\ ips' = ips /\ seen' = seen /\ pass = "hosts" /\ Running
      /\ todo' = todo \ {f} /\ ~Found(hosts)
      /\ \/ pass' = "failed" /\ hosts' = hosts
         \/ pass' = "hosts" /\ hosts' = hosts \o Added(s)
  BY DEF ReadHosts, Open, Running, Added
<1>2. s \in seen[f] /\ s \in Seen /\ s \in States
  BY <1>1, ReadSeen
<1> HIDE DEF s
<1>3. {Made(s, r) : r \in HostsOf(s)} \subseteq AllMade
  BY <1>2 DEF AllMade
<1>4. Added(s) \in Seq(AllMade)
  BY <1>2, <1>3, AddedFacts, SeqMonotonic
<1>5. QED
  BY <1>1, <1>2, <1>4 DEF HostsMade, s

LEMMA HostsMadeNext == Typed /\ Current /\ HostsMade /\ [Next]_vars => HostsMade'
<1> SUFFICES ASSUME Typed, Current, HostsMade, [Next]_vars PROVE HostsMade'
  OBVIOUS
<1>0. \A S : <<>> \in Seq(S)
  OBVIOUS
<1>1. ASSUME NEW f \in Files, Write(f)  PROVE HostsMade'
  <2>1. pass' = pass /\ hosts' = hosts /\ ips' = ips
    BY <1>1 DEF Write
  <2>2. AllMade \subseteq AllMade'
    BY <1>1, <2>1, MadeSame, SeenGrows DEF AllMade
  <2>3. hosts \in Seq(AllMade')
    BY <2>2, SeqMonotonic DEF HostsMade
  <2>4. QED
    BY <2>1, <2>3 DEF HostsMade
<1>2. ASSUME NEW f \in Files, ReadIps(f)  PROVE HostsMade'
  <2>1. hosts' = <<>>
    BY <1>2 DEF ReadIps, HostsMade
  <2>2. QED
    BY <1>0, <2>1 DEF HostsMade
<1>3. ASSUME NEW f \in Files, ReadHosts(f)  PROVE HostsMade'
  <2>1. /\ ips' = ips /\ seen' = seen /\ pass = "hosts" /\ pass' \in {"hosts", "failed"}
        /\ Added(tfstate[f]) \in Seq(AllMade) /\ hosts \in Seq(AllMade)
        /\ hosts' = hosts \/ hosts' = hosts \o Added(tfstate[f])
    BY <1>3, AddedToHosts
  <2>2. AllMade' = AllMade
    BY <2>1, MadeSame DEF AllMade, Seen
  <2>3. hosts \o Added(tfstate[f]) \in Seq(AllMade)
    BY <2>1, ConcatRange
  <2>4. QED
    BY <2>1, <2>2, <2>3 DEF HostsMade
<1>4. ASSUME NEW m, NEW t, Start(m, t)  PROVE HostsMade'
  <2>1. hosts' = <<>>
    BY <1>4 DEF Start
  <2>2. QED
    BY <1>0, <2>1 DEF HostsMade
<1>5. ASSUME ips' = ips, seen' = seen, hosts' = hosts,
             pass' \in {"idle", "ips"} => pass' = pass
      PROVE  HostsMade'
  <2>1. AllMade' = AllMade
    BY <1>5, MadeSame DEF AllMade, Seen
  <2>2. QED
    BY <1>5, <2>1 DEF HostsMade
<1>6. ASSUME NEW f \in Files, Written(f)  PROVE HostsMade'
  BY <1>5, <1>6 DEF Written
<1>7. ASSUME NEW f \in Files, ReadFails(f)  PROVE HostsMade'
  BY <1>5, <1>7 DEF ReadFails, Open
<1>8. CASE SecondPass
  BY <1>5, <1>8 DEF SecondPass
<1>9. CASE Answer
  BY <1>5, <1>9 DEF Answer
<1>10. CASE UNCHANGED vars
  BY <1>5, <1>10 DEF vars
<1>11. QED
  BY <1>1, <1>2, <1>3, <1>4, <1>6, <1>7, <1>8, <1>9, <1>10 DEF Next

LEMMA HostsKeptNext == Typed /\ Current /\ HostsMade /\ HostsKept /\ [Next]_vars => HostsKept'
<1> SUFFICES ASSUME Typed, Current, HostsMade, HostsKept, [Next]_vars PROVE HostsKept'
  OBVIOUS
<1>1. ASSUME NEW f \in Files, Write(f)  PROVE HostsKept'
  <2>1. /\ pass' = pass /\ todo' = todo /\ hosts' = hosts /\ ips' = ips
        /\ mode' = mode /\ target' = target
    BY <1>1 DEF Write
  <2>2. \A g \in Files : HostsKeptOf(g) => HostsKeptOf(g)'
    BY <1>1, <2>1, SeenGrows, MadeSame DEF HostsKeptOf
  <2>3. Found(hosts)' <=> Found(hosts)
    BY <2>1 DEF Found
  <2>4. QED
    BY <2>1, <2>2, <2>3 DEF HostsKept
<1>2. ASSUME NEW f \in Files, ReadHosts(f)  PROVE HostsKept'
  <2>1. CASE pass' = "failed"
    BY <2>1 DEF HostsKept
  <2>2. CASE pass' = "hosts"
    <3> DEFINE s == tfstate[f]
    <3>1. /\ hosts' = hosts \o Added(s) /\ Added(s) \in Seq(AllMade) /\ hosts \in Seq(AllMade)
          /\ ips' = ips /\ seen' = seen /\ s \in seen[f] /\ s \in States
          /\ pass = "hosts" /\ todo' = todo \ {f}
      BY <1>2, <2>2, AddedToHosts
    <3> HIDE DEF s
    <3>2. /\ \A i \in 1 .. Len(hosts) : hosts[i] \in Range(hosts')
          /\ \A i \in 1 .. Len(Added(s)) : Added(s)[i] \in Range(hosts')
      BY <3>1, ConcatRange
    <3>3. Range(hosts) \subseteq Range(hosts')
      BY <3>1, <3>2 DEF Range
    <3>4. \A r \in HostsOf(s) : Made(s, r) \in Range(hosts')
      BY <3>1, <3>2, AddedFacts
    <3>5. HostsKeptOf(f)'
      BY <3>1, <3>4, MadeSame DEF HostsKeptOf
    <3>6. \A g \in Files : HostsKeptOf(g) => HostsKeptOf(g)'
      BY <3>1, <3>3, MadeSame DEF HostsKeptOf
    <3>7. QED
      BY <2>2, <3>1, <3>5, <3>6 DEF HostsKept
  <2>3. QED
    BY <1>2, <2>1, <2>2, AddedToHosts
<1>3. ASSUME pass' \in {"idle", "ips", "failed"}  PROVE HostsKept'
  BY <1>3 DEF HostsKept
<1>4. ASSUME NEW f \in Files, ReadIps(f)  PROVE HostsKept'
  BY <1>3, <1>4 DEF ReadIps
<1>5. ASSUME NEW m, NEW t, Start(m, t)  PROVE HostsKept'
  BY <1>3, <1>5 DEF Start
<1>6. ASSUME NEW f \in Files, ReadFails(f)  PROVE HostsKept'
  BY <1>3, <1>6 DEF ReadFails
<1>7. CASE SecondPass
  BY <1>7 DEF SecondPass, HostsKept, Typed
<1>8. CASE Answer
  <2>1. /\ pass = "hosts" /\ (todo = {} \/ Found(hosts)) /\ pass' = "done"
        /\ ips' = ips /\ seen' = seen /\ hosts' = hosts /\ mode' = mode /\ target' = target
    BY <1>8 DEF Answer
  <2>2. Found(hosts)' <=> Found(hosts)
    BY <2>1 DEF Found
  <2>3. \A g \in Files : HostsKeptOf(g) => HostsKeptOf(g)'
    BY <2>1, MadeSame DEF HostsKeptOf
  <2>4. QED
    BY <2>1, <2>2, <2>3 DEF HostsKept
<1>9. ASSUME UNCHANGED <<mode, target, pass, todo, ips, hosts, seen>>  PROVE HostsKept'
  <2>1. Found(hosts)' <=> Found(hosts)
    BY <1>9 DEF Found
  <2>2. \A g \in Files : HostsKeptOf(g) => HostsKeptOf(g)'
    BY <1>9, MadeSame DEF HostsKeptOf
  <2>3. QED
    BY <1>9, <2>1, <2>2 DEF HostsKept
<1>10. ASSUME NEW f \in Files, Written(f)  PROVE HostsKept'
  BY <1>9, <1>10 DEF Written
<1>11. CASE UNCHANGED vars
  BY <1>9, <1>11 DEF vars
<1>12. QED
  BY <1>1, <1>2, <1>4, <1>5, <1>6, <1>7, <1>8, <1>10, <1>11 DEF Next

(* All the time, all that the script knows is from states that it has seen *)
(* and all of at least one state of each file that it has read.            *)
THEOREM Invariant == Spec => []IInv
<1>0. \A S : <<>> \in Seq(S)
  OBVIOUS
<1>1. ASSUME Init  PROVE IInv
  <2>1. pass = "idle" /\ ips = <<>> /\ hosts = <<>>
    BY <1>1 DEF Init
  <2>2. DOMAIN ips = {}
    BY <2>1
  <2>3. hosts \in Seq(AllMade)
    BY <1>0, <2>1
  <2>4. Typed
    BY <1>1, TypedInit
  <2>5. Current
    BY <2>1 DEF Current, Running
  <2>6. KnownIps
    BY <2>2 DEF KnownIps
  <2>7. IpsKept
    BY <2>1 DEF IpsKept
  <2>8. HostsMade
    BY <2>1, <2>3 DEF HostsMade
  <2>9. HostsKept
    BY <2>1 DEF HostsKept
  <2>10. QED
    BY <2>4, <2>5, <2>6, <2>7, <2>8, <2>9 DEF IInv
<1>2. IInv /\ [Next]_vars => IInv'
  BY TypedNext, CurrentNext, KnownIpsNext, IpsKeptNext, HostsMadeNext, HostsKeptNext DEF IInv
<1>3. QED
  BY <1>1, <1>2, PTL DEF Spec

(* The types of the variables: in particular the hosts have names of hosts *)
(* and only security groups that an instance has.                          *)
THEOREM TypeCorrect == Spec => []TypeOK
<1>1. ASSUME IInv  PROVE TypeOK
  <2>1. Typed /\ HostsMade
    BY <1>1 DEF IInv
  <2>2. ASSUME NEW m \in AllMade
        PROVE  /\ m.name \in HostNames
               /\ m.security_groups \subseteq
                     UNION {SecurityGroups(p[1], p[2]) : p \in Instances}
    <3>1. PICK s \in Seen : m \in {Made(s, r) : r \in HostsOf(s)}
      BY <2>2 DEF AllMade
    <3>2. s \in States
      BY <2>1, SeenFacts
    <3>3. QED
      BY <3>1, <3>2, MadeFacts, NamesKnown
  <2>3. \A i \in DOMAIN hosts : hosts[i] \in AllMade
    BY <2>1 DEF HostsMade
  <2>4. \A i \in DOMAIN hosts :
           /\ hosts[i].name \in HostNames
           /\ hosts[i].security_groups \subseteq
                 UNION {SecurityGroups(p[1], p[2]) : p \in Instances}
    BY <2>2, <2>3
  <2>5. QED
    BY <2>1, <2>4 DEF TypeOK, Typed
<1>2. QED
  BY <1>1, Invariant, PTL

(* What ReadHosts finds no port of is a device.                            *)
LEMMA UnknownHost ==
    ASSUME NEW s \in States, NEW i \in DOMAIN IterHosts(s), Unknown(IterHosts(s)[i])
    PROVE  OfType(s, DeviceType) # {} /\ DOMAIN ips # {}
<1> DEFINE h == IterHosts(s)[i]
<1>1. h \in Hosts(s)
  BY HostsRead
<1>2. PICK r \in HostsOf(s) : h = HostFrom(s, r)
  BY <1>1 DEF Hosts
<1>3. r \notin OfType(s, InstanceType)
  BY <1>2, MadeInstance
<1>4. QED
  BY <1>2, <1>3, HostKinds DEF Unknown

(* The script fails on a file that is being written, or on a device of     *)
(* Equinix while there are floating IPs, and on nothing else.              *)
THEOREM OnlyForCause == Spec => FailsForCause
<1> DEFINE Cause ==
      pass # "failed" /\ pass' = "failed" =>
          \/ torn # {}
          \/ \E s, t \in UNION Range(seen) :
                /\ OfType(s, DeviceType) # {}
                /\ OfType(t, AssociationType) # {}
<1>1. ASSUME IInv, Next  PROVE Cause
  <2> SUFFICES ASSUME pass # "failed", pass' = "failed"
               PROVE  \/ torn # {}
                      \/ \E s, t \in Seen :
                            /\ OfType(s, DeviceType) # {}
                            /\ OfType(t, AssociationType) # {}
    BY DEF Seen
  <2>1. \E f \in Files : ReadFails(f) \/ ReadHosts(f)
    BY <1>1 DEF Next, Write, Written, ReadIps, Start, SecondPass, Answer
  <2>2. ASSUME NEW f \in Files, ReadFails(f)  PROVE torn # {}
    BY <2>2 DEF ReadFails
  <2>3. ASSUME NEW f \in Files, ReadHosts(f)
        PROVE  \E s, t \in Seen :
                  OfType(s, DeviceType) # {} /\ OfType(t, AssociationType) # {}
    <3> DEFINE s == tfstate[f]
    <3>1. s \in Seen /\ s \in States
      BY <1>1, <2>3, ReadSeen DEF IInv, ReadHosts, Running
    <3>2. \E i \in DOMAIN IterHosts(s) : Unknown(IterHosts(s)[i])
      BY <2>3 DEF ReadHosts
    <3> HIDE DEF s
    <3>3. OfType(s, DeviceType) # {} /\ DOMAIN ips # {}
      BY <3>1, <3>2, UnknownHost
    <3>4. PICK p, t : t \in Seen /\ ips[p] \in FloatingOf(t, p)
      BY <1>1, <3>3 DEF IInv, KnownIps
    <3>5. OfType(t, AssociationType) # {}
      BY <3>4 DEF FloatingOf
    <3>6. QED
      BY <3>1, <3>3, <3>4, <3>5
  <2>4. QED
    BY <2>1, <2>2, <2>3
<1>2. IInv /\ [Next]_vars => Cause \/ UNCHANGED vars
  BY <1>1
<1>3. QED
  BY <1>2, Invariant, PTL DEF Spec, FailsForCause

-----------------------------------------------------------------------------
(* The answers. *)

(* The addresses that a query gives for a name are those of hosts of that  *)
(* name, and there is one if there is such a host and it is asked for.     *)
LEMMA GivenList ==
    ASSUME NEW S, hosts \in Seq(S), mode = "list", NEW name
    PROVE  /\ \A address \in Given(name) : \E i \in DOMAIN hosts :
                 hosts[i].name = name /\ address = hosts[i].attrs.ansible_host
           /\ (\E i \in DOMAIN hosts : hosts[i].name = name) => Given(name) # {}
<1> DEFINE named == {i \in DOMAIN hosts : hosts[i].name = name}
           answer == QueryList(hosts).hostvars
<1>1. Given(name) = {answer[n].attrs.ansible_host : n \in {name} \cap DOMAIN answer}
  BY DEF Given
<1>2. answer = [n \in {hosts[i].name : i \in DOMAIN hosts} |->
                  hosts[LastIn({i \in DOMAIN hosts : hosts[i].name = n})]]
  BY DEF QueryList
<1> HIDE DEF answer
<1>3. /\ name \in DOMAIN answer <=> named # {}
      /\ named # {} => answer[name] = hosts[LastIn(named)]
  BY <1>2
<1>4. ASSUME named # {}  PROVE LastIn(named) \in named
  <2>1. Len(hosts) \in Nat /\ named \subseteq 1 .. Len(hosts)
    OBVIOUS
  <2> HIDE DEF named
  <2>2. QED
    BY <1>4, <2>1, LastInFacts
<1>5. named # {} => /\ Given(name) = {hosts[LastIn(named)].attrs.ansible_host}
                    /\ LastIn(named) \in DOMAIN hosts
                    /\ hosts[LastIn(named)].name = name
  <2> SUFFICES ASSUME named # {}
               PROVE  /\ Given(name) = {hosts[LastIn(named)].attrs.ansible_host}
                      /\ LastIn(named) \in DOMAIN hosts
                      /\ hosts[LastIn(named)].name = name
    OBVIOUS
  <2>1. LastIn(named) \in DOMAIN hosts /\ hosts[LastIn(named)].name = name
    BY <1>4
  <2> HIDE DEF named
  <2>2. {name} \cap DOMAIN answer = {name} /\ answer[name] = hosts[LastIn(named)]
    BY <1>3
  <2>3. QED
    BY <1>1, <2>1, <2>2
<1>6. named = {} => Given(name) = {}
  BY <1>1, <1>3
<1>7. (\E i \in DOMAIN hosts : hosts[i].name = name) <=> named # {}
  OBVIOUS
<1> HIDE DEF named
<1>8. QED
  BY <1>5, <1>6, <1>7

LEMMA GivenHost ==
    ASSUME NEW S, hosts \in Seq(S), mode = "host", NEW name
    PROVE  /\ \A address \in Given(name) : \E i \in DOMAIN hosts :
                 hosts[i].name = name /\ address = hosts[i].attrs.ansible_host
           /\ (\E i \in DOMAIN hosts : hosts[i].name = name) /\ name = target
                 => Given(name) # {}
<1> DEFINE named == {i \in DOMAIN hosts : hosts[i].name = target}
           First(i) == \A k \in 1 .. i - 1 : hosts[k].name # target
<1>1. Given(name) = {h.attrs.ansible_host : h \in {q \in QueryHost(hosts) : q.name = name}}
  BY DEF Given
<1>2. QueryHost(hosts) = {hosts[i] : i \in {j \in DOMAIN hosts : hosts[j].name = target /\ First(j)}}
  BY DEF QueryHost
<1>3. \A h \in QueryHost(hosts) : \E i \in DOMAIN hosts : h = hosts[i]
  BY <1>2
<1>4. ASSUME named # {}  PROVE \E i \in named : First(i)
  <2>1. DOMAIN hosts = 1 .. Len(hosts) /\ Len(hosts) \in Nat
    OBVIOUS
  <2>2. named \subseteq Nat
    BY <2>1
  <2>3. PICK i \in named : \A k \in named : i <= k
    <3> HIDE DEF named
    <3>1. QED
      BY <1>4, <2>2, LeastExists
  <2>4. ASSUME NEW k \in 1 .. i - 1  PROVE hosts[k].name # target
    <3>1. k \in DOMAIN hosts /\ ~(i <= k)
      BY <2>1
    <3>2. QED
      BY <2>3, <3>1
  <2>5. QED
    BY <2>4
<1>5. ASSUME \E i \in DOMAIN hosts : hosts[i].name = name, name = target
      PROVE  Given(name) # {}
  <2>1. PICK i \in DOMAIN hosts : hosts[i].name = target /\ First(i)
    BY <1>4, <1>5
  <2>2. hosts[i] \in {q \in QueryHost(hosts) : q.name = name}
    BY <1>2, <1>5, <2>1
  <2>3. QED
    BY <1>1, <2>2
<1>6. QED
  BY <1>1, <1>3, <1>5

LEMMA GivenHostfile ==
    ASSUME NEW S, hosts \in Seq(S), mode = "hostfile", NEW name
    PROVE  /\ \A address \in Given(name) : \E i \in DOMAIN hosts :
                 hosts[i].name = name /\ address = hosts[i].attrs.ansible_host
           /\ (\E i \in DOMAIN hosts : hosts[i].name = name) => Given(name) # {}
<1> DEFINE lines == QueryHostfile(hosts)
           Line(i) == <<hosts[i].attrs.ansible_host, hosts[i].name>>
<1>1. Given(name) = {line[1] : line \in {l \in Range(lines) : l[2] = name}}
  BY DEF Given
<1>2. \A i : Line(i)[1] = hosts[i].attrs.ansible_host /\ Line(i)[2] = hosts[i].name
  OBVIOUS
<1>3. Range(lines) = {Line(i) : i \in DOMAIN hosts}
  BY DEF Range, QueryHostfile
<1> HIDE DEF lines, Line
<1>4. \A address \in Given(name) : \E i \in DOMAIN hosts :
         hosts[i].name = name /\ address = hosts[i].attrs.ansible_host
  BY <1>1, <1>2, <1>3
<1>5. ASSUME NEW i \in DOMAIN hosts, hosts[i].name = name  PROVE Given(name) # {}
  <2>1. Line(i) \in {l \in Range(lines) : l[2] = name}
    BY <1>2, <1>3, <1>5
  <2>2. QED
    BY <1>1, <2>1
<1>6. QED
  BY <1>4, <1>5

LEMMA GivenFacts ==
    ASSUME Typed, HostsMade, NEW name
    PROVE  /\ \A address \in Given(name) : \E i \in DOMAIN hosts :
                 hosts[i].name = name /\ address = hosts[i].attrs.ansible_host
           /\ (\E i \in DOMAIN hosts : hosts[i].name = name) /\ (mode = "host" => name = target)
                 => Given(name) # {}
<1> DEFINE Listed == \E i \in DOMAIN hosts : hosts[i].name = name
           Answered == \A address \in Given(name) : \E i \in DOMAIN hosts :
                          hosts[i].name = name /\ address = hosts[i].attrs.ansible_host
<1>1. hosts \in Seq(AllMade)
  BY DEF HostsMade
<1>2. mode = "list" => Answered /\ (Listed => Given(name) # {})
  BY <1>1, GivenList
<1>3. mode = "host" => Answered /\ (Listed /\ name = target => Given(name) # {})
  BY <1>1, GivenHost
<1>4. mode = "hostfile" => Answered /\ (Listed => Given(name) # {})
  BY <1>1, GivenHostfile
<1>5. mode \in {"list", "host", "hostfile"}
  BY DEF Typed, Modes
<1> HIDE DEF Listed, Answered
<1>6. Answered /\ (Listed /\ (mode = "host" => name = target) => Given(name) # {})
  BY <1>2, <1>3, <1>4, <1>5
<1>7. QED
  BY <1>6 DEF Listed, Answered

LEMMA HostIsMade ==
    ASSUME Typed, HostsMade, NEW i \in DOMAIN hosts
    PROVE  \E f \in Files : \E s \in seen[f] :
              s \in Seen /\ s \in States /\ \E r \in HostsOf(s) : hosts[i] = Made(s, r)
<1>1. hosts[i] \in AllMade
  BY DEF HostsMade
<1>2. PICK s \in Seen : hosts[i] \in {Made(s, r) : r \in HostsOf(s)}
  BY <1>1 DEF AllMade
<1>3. QED
  BY <1>2, SeenFacts

(* An address in the answer is one that a host of that name has in a state *)
(* seen while the script ran, or a floating IP that such a state has for   *)
(* its port.                                                               *)
THEOREM OnlySeen == Spec => []NothingInvented
<1>1. ASSUME IInv  PROVE NothingInvented
  <2>1. Typed /\ HostsMade /\ KnownIps
    BY <1>1 DEF IInv
  <2>2. ASSUME NEW name, NEW address \in Given(name)
        PROVE  \E s \in Seen : \E r \in HostsOf(s) :
                  /\ name = NameOf(s, r)
                  /\ \/ address = OwnAddress(s, r)
                     \/ r.type = InstanceType /\ address \in Floating(PortOf(s, r))
    <3>1. PICK i \in DOMAIN hosts :
             hosts[i].name = name /\ address = hosts[i].attrs.ansible_host
      BY <2>1, <2>2, GivenFacts
    <3>2. PICK s : s \in Seen /\ s \in States /\ \E r \in HostsOf(s) : hosts[i] = Made(s, r)
      BY <2>1, HostIsMade
    <3>3. PICK r \in HostsOf(s) : hosts[i] = Made(s, r)
      BY <3>2
    <3>4. /\ name = NameOf(s, r)
          /\ \/ address = OwnAddress(s, r)
             \/ /\ r.type = InstanceType /\ PortOf(s, r) \in DOMAIN ips
                /\ address = ips[PortOf(s, r)]
      BY <3>1, <3>2, <3>3, MadeFacts
    <3>5. PortOf(s, r) \in DOMAIN ips => ips[PortOf(s, r)] \in Floating(PortOf(s, r))
      BY <2>1 DEF KnownIps, Floating, Seen
    <3>6. QED
      BY <3>2, <3>4, <3>5
  <2>3. QED
    BY <2>2 DEF NothingInvented, Seen
<1>2. QED
  BY <1>1, Invariant, PTL

-----------------------------------------------------------------------------
(* What has not changed. *)

(* A resource is read in the same way from each state that it is in.       *)
LEMMA SameReading ==
    ASSUME NEW s \in States, NEW t \in States, NEW r,
           r \in Range(s.resources), r \in Range(t.resources)
    PROVE  /\ NameOf(s, r) = NameOf(t, r) /\ Made(s, r) = Made(t, r)
           /\ HostFrom(s, r) = HostFrom(t, r)
           /\ \A key, default : Metadata(s, r, key, default) = Metadata(t, r, key, default)
<1>1. s.version = 3 <=> t.version = 3
  <2>1. \A x \in States : \A q \in Range(x.resources) :
           DOMAIN q = {"type", IF x.version = 3 THEN "primary" ELSE "attributes"}
    BY ContentsAssumption
  <2>2. /\ DOMAIN r = {"type", IF s.version = 3 THEN "primary" ELSE "attributes"}
        /\ DOMAIN r = {"type", IF t.version = 3 THEN "primary" ELSE "attributes"}
    BY <2>1
  <2>3. QED
    BY <2>2
<1>2. ASSUME NEW path, Len(path) \in 1 .. 3  PROVE At(s, r, path) = At(t, r, path)
  <2>1. CASE s.version = 3
    BY <1>1, <2>1 DEF At
  <2>2. CASE s.version # 3
    <3>1. CASE Len(path) = 1
      BY <1>1, <2>2, <3>1 DEF At
    <3>2. CASE Len(path) = 2
      BY <1>1, <2>2, <3>2 DEF At
    <3>3. CASE Len(path) = 3 /\ Len(path) # 1 /\ Len(path) # 2
      <4> DEFINE element == r.attributes.d[path[1]].l[1].d[path[3]].s
      <4>1. At(s, r, path) = element
        BY <2>2, <3>3 DEF At
      <4>2. At(t, r, path) = element
        BY <1>1, <2>2, <3>3 DEF At
      <4>3. QED
        BY <4>1, <4>2
    <3>4. QED
      BY <1>2, <3>1, <3>2, <3>3
  <2>3. QED
    BY <2>1, <2>2
<1>3. \A path : Has(s, r, path) = Has(t, r, path)
  BY <1>1 DEF Has
<1>4. Attributes(s, r) = Attributes(t, r)
  BY <1>1 DEF Attributes
<1>5. HostFrom(s, r) = HostFrom(t, r)
  BY <1>4 DEF HostFrom
<1>6. Made(s, r) = Made(t, r)
  BY <1>5 DEF Made
<1>7. NameOf(s, r) = NameOf(t, r)
  BY <1>2 DEF NameOf
<1>8. \A key, default : Metadata(s, r, key, default) = Metadata(t, r, key, default)
  BY <1>2, <1>3 DEF Metadata
<1>9. QED
  BY <1>5, <1>6, <1>7, <1>8

(* All hosts of its name are it.                                           *)
LEMMA SteadyAlone ==
    ASSUME Typed, HostsMade, NEW f \in Files, NEW s \in seen[f],
           NEW r \in OfType(s, InstanceType), Steady(f, s, r),
           NEW i \in DOMAIN hosts, hosts[i].name = NameOf(s, r)
    PROVE  hosts[i] = Made(s, r)
<1>1. s \in States
  BY SeenFacts
<1>2. PICK g, t : /\ g \in Files /\ t \in seen[g] /\ t \in States
                  /\ \E q \in HostsOf(t) : hosts[i] = Made(t, q)
  BY HostIsMade
<1>3. PICK q \in HostsOf(t) : hosts[i] = Made(t, q)
  BY <1>2
<1>4. NameOf(t, q) = NameOf(s, r)
  BY <1>2, <1>3, MadeFacts
<1>5. q = r
  BY <1>2, <1>4 DEF Steady
<1>6. r \in Range(s.resources) /\ r \in Range(t.resources)
  BY <1>5 DEF OfType, HostsOf
<1>7. QED
  BY <1>1, <1>2, <1>3, <1>5, <1>6, SameReading

(* It is among the hosts in the end, unless the query has stopped before.  *)
LEMMA SteadyIsHost ==
    ASSUME IInv, pass = "done", NEW f \in Files, NEW s \in seen[f],
           NEW r \in OfType(s, InstanceType), Steady(f, s, r), ~Found(hosts)
    PROVE  \E i \in DOMAIN hosts : hosts[i] = Made(s, r)
<1>1. PICK t \in seen[f] : \A q \in HostsOf(t) : Made(t, q) \in Range(hosts)
  BY DEF IInv, HostsKept, HostsKeptOf
<1>2. s \in States /\ t \in States
  BY SeenFacts DEF IInv
<1>3. r \in Range(s.resources) /\ r.type = InstanceType
  BY DEF OfType
<1>4. r \in Range(t.resources)
  BY DEF Steady
<1>5. r \in HostsOf(t)
  BY <1>3, <1>4 DEF HostsOf, HostTypes
<1>6. Made(t, r) = Made(s, r)
  BY <1>2, <1>3, <1>4, SameReading
<1>7. QED
  BY <1>1, <1>5, <1>6 DEF Range

(* A port whose floating IP no file has changed is known with one of its   *)
(* floating IPs, if it has one.                                            *)
LEMMA SteadyIp ==
    ASSUME IInv, pass = "done", NEW port, SteadyPort(port)
    PROVE  IF port \in DOMAIN ips THEN ips[port] \in Floating(port) ELSE Floating(port) = {}
<1>1. CASE port \in DOMAIN ips
  BY <1>1 DEF IInv, KnownIps, Floating, Seen
<1>2. CASE port \notin DOMAIN ips
  <2>1. ASSUME NEW g \in Files, NEW t \in seen[g]  PROVE FloatingOf(t, port) = {}
    <3>2. PICK u \in seen[g] : DOMAIN IterIps(u) \subseteq DOMAIN ips
      BY DEF IInv, IpsKept, PortsKept
    <3>3. u \in States
      BY SeenFacts DEF IInv
    <3>4. FloatingOf(u, port) = {}
      BY <1>2, <3>2, <3>3, IpsRead
    <3>5. QED
      BY <3>2, <3>4 DEF SteadyPort
  <2>2. \A t \in Seen : FloatingOf(t, port) = {}
    BY <2>1, SeenFacts DEF IInv
  <2>3. Floating(port) = {}
    BY <2>2 DEF Floating, Seen
  <2>4. QED
    BY <1>2, <2>3
<1>3. QED
  BY <1>1, <1>2

(* A group that a host is in and that has a name is one of the answer's.   *)
LEMMA GroupListed ==
    ASSUME NEW i \in DOMAIN hosts, NEW g, g # "", <<SanitizeGroup(g)>> \in hosts[i].groups
    PROVE  <<<<SanitizeGroup(g)>>, hosts[i].name>> \in QueryList(hosts).groups
<1> DEFINE group == <<SanitizeGroup(g)>>
           GroupName(x) == IF x = <<"">> THEN <<"all">> ELSE x
<1>1. SanitizeGroup(g) # ""
  BY SanitizedAssumption DEF SanitizeGroup, Get
<1>2. GroupName(group) = group
  BY <1>1
<1>3. QueryList(hosts).groups =
         UNION {{<<GroupName(x), hosts[j].name>> : x \in hosts[j].groups} : j \in DOMAIN hosts}
  BY DEF QueryList
<1> DEFINE Of(j) == {<<GroupName(x), hosts[j].name>> : x \in hosts[j].groups}
<1> HIDE DEF GroupName
<1>4. <<GroupName(group), hosts[i].name>> \in QueryList(hosts).groups
  <2>1. group \in hosts[i].groups
    OBVIOUS
  <2> HIDE DEF group
  <2>2. <<GroupName(group), hosts[i].name>> \in Of(i)
    BY <2>1
  <2>3. QueryList(hosts).groups = UNION {Of(j) : j \in DOMAIN hosts}
    BY <1>3
  <2> HIDE DEF Of
  <2>4. QED
    BY <2>2, <2>3
<1>5. QED
  BY <1>2, <1>4 DEF group

(* An instance that was in its file all the while, and the only host of    *)
(* its name, is listed with the address and in the groups that it has,     *)
(* whatever terraform has written while the script read the files twice.   *)
THEOREM AllThatIsSteady == Spec => []SteadyListed
<1>1. ASSUME IInv, pass = "done", NEW f \in Files, NEW s \in seen[f],
             NEW r \in OfType(s, InstanceType), Steady(f, s, r),
             mode = "host" => NameOf(s, r) = target
      PROVE  LET name == NameOf(s, r)
                 port == PortOf(s, r)
                 addresses == IF Floating(port) = {} THEN {OwnAddress(s, r)} ELSE Floating(port)
             IN  /\ SteadyPort(port) => \E a \in addresses : Given(name) = {a}
                 /\ mode = "list" =>
                      \A g \in SplitGroups[Metadata(s, r, "kubespray_groups", "")] \ {""} :
                          <<<<SanitizeGroup(g)>>, name>> \in QueryList(hosts).groups
  <2> DEFINE name == NameOf(s, r)
             port == PortOf(s, r)
             addresses == IF Floating(port) = {} THEN {OwnAddress(s, r)} ELSE Floating(port)
             address == IF port \in DOMAIN ips THEN ips[port] ELSE OwnAddress(s, r)
  <2>1. Typed /\ HostsMade /\ s \in States
    BY <1>1, SeenFacts DEF IInv
  <2>2. /\ Made(s, r).name = name /\ Made(s, r).attrs.ansible_host = address
        /\ Made(s, r).groups = HostFrom(s, r).groups
        /\ \A g \in SplitGroups[Metadata(s, r, "kubespray_groups", "")] :
              <<SanitizeGroup(g)>> \in HostFrom(s, r).groups
    BY <2>1, InstanceHost, MadeInstance
  <2> HIDE DEF address, port
  <2>3. \A i \in DOMAIN hosts : hosts[i].name = name => hosts[i] = Made(s, r)
    BY <1>1, <2>1, SteadyAlone
  <2>4. ~Found(hosts) => \E i \in DOMAIN hosts : hosts[i] = Made(s, r)
    BY <1>1, SteadyIsHost
  <2>5. \E i \in DOMAIN hosts : hosts[i].name = name
    BY <1>1, <2>2, <2>4 DEF Found
  <2>6. Given(name) # {} /\ \A a \in Given(name) : a = address
    <3>1. Given(name) # {}
      BY <1>1, <2>1, <2>5, GivenFacts
    <3>2. ASSUME NEW a \in Given(name)  PROVE a = address
      <4>1. PICK i \in DOMAIN hosts : hosts[i].name = name /\ a = hosts[i].attrs.ansible_host
        BY <2>1, <3>2, GivenFacts
      <4>2. QED
        BY <2>2, <2>3, <4>1
    <3>3. QED
      BY <3>1, <3>2
  <2>7. Given(name) = {address}
    BY <2>6
  <2>8. ASSUME SteadyPort(port)  PROVE address \in addresses
    <3>1. IF port \in DOMAIN ips THEN ips[port] \in Floating(port) ELSE Floating(port) = {}
      BY <1>1, <2>8, SteadyIp
    <3>2. QED
      BY <3>1 DEF address
  <2>9. ASSUME mode = "list",
               NEW g \in SplitGroups[Metadata(s, r, "kubespray_groups", "")] \ {""}
        PROVE  <<<<SanitizeGroup(g)>>, name>> \in QueryList(hosts).groups
    <3>1. ~Found(hosts)
      BY <2>9 DEF Found
    <3>2. PICK i \in DOMAIN hosts : hosts[i] = Made(s, r)
      BY <2>4, <3>1
    <3>3. <<SanitizeGroup(g)>> \in hosts[i].groups /\ hosts[i].name = name /\ g # ""
      BY <2>2, <2>9, <3>2
    <3>4. QED
      BY <3>3, GroupListed
  <2>10. QED
    BY <2>7, <2>8, <2>9 DEF port
<1>2. ASSUME IInv  PROVE SteadyListed
  BY <1>1, <1>2 DEF SteadyListed
<1>3. QED
  BY <1>2, Invariant, PTL
=============================================================================

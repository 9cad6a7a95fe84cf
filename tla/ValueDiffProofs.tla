-------------------------- MODULE ValueDiffProofs ---------------------------
(***************************************************************************)
(* Proofs about ValueDiff, for every heap and every limit: a diff exists   *)
(* exactly for the values that reflect.DeepEqual calls unequal, hides no   *)
(* difference when all its entries are shown, and reads differently for    *)
(* different places.                                                       *)
(***************************************************************************)
EXTENDS ValueDiff, FiniteSetTheorems, WellFoundedInduction, TLAPS

-----------------------------------------------------------------------------
(* Numbers and sequences.                                                  *)

LEMMA LeastExists ==
  ASSUME NEW S \in SUBSET Nat, S # {}
  PROVE  \E n \in S : \A m \in S : n <= m
<1> DEFINE R == {p \in Nat \X Nat : p[1] < p[2]}
<1>1. IsWellFoundedOn(R, Nat)
  BY NatLessThanWellFounded DEF OpToRel
<1>2. \A m, n \in Nat : m < n => <<m, n>> \in R
  OBVIOUS
<1> HIDE DEF R
<1>3. PICK n \in S : \A m \in S : <<m, n>> \notin R
  BY <1>1, WFMin
<1>4. ASSUME NEW m \in S, ~(n <= m) PROVE FALSE
  <2>1. m \in Nat /\ n \in Nat
    OBVIOUS
  <2>2. m < n
    BY <1>4, <2>1
  <2> QED BY <1>2, <1>3, <2>1, <2>2
<1> QED BY <1>4

\* Induction, for a set.
LEMMA Induction ==
  ASSUME NEW S \in SUBSET Nat, 0 \in S, \A n \in S : n + 1 \in S
  PROVE  \A n \in Nat : n \in S
<1> SUFFICES ASSUME Nat \ S # {} PROVE FALSE
  OBVIOUS
<1>1. PICK n \in Nat \ S : \A m \in Nat \ S : n <= m
  BY LeastExists
<1>2. n - 1 \in Nat /\ n - 1 + 1 = n
  BY <1>1
<1>3. n - 1 \in S
  BY <1>1, <1>2
<1> QED BY <1>1, <1>2, <1>3

\* What FlattenSeq's recursion computes: the rows, from the first to the last.
Row(g, ss, i) == IF i = 1 THEN ss[i] ELSE g[i - 1] \o ss[i]
Rows(ss, T, m) == {g \in [1..m -> Seq(T)] : \A i \in 1..m : g[i] = Row(g, ss, i)}

LEMMA RowType ==
  ASSUME NEW T, NEW ss \in Seq(Seq(T)), NEW m \in Nat, m < Len(ss), NEW g,
         m # 0 => g[m] \in Seq(T)
  PROVE  Row(g, ss, m + 1) \in Seq(T)
<1>1. m + 1 \in 1..Len(ss) /\ ss[m + 1] \in Seq(T)
  OBVIOUS
<1>2. CASE m = 0
  BY <1>1, <1>2 DEF Row
<1>3. CASE m # 0
  <2>1. g[m] \o ss[m + 1] \in Seq(T)
    BY <1>1, <1>3
  <2>2. m + 1 # 1 /\ (m + 1) - 1 = m
    BY <1>3
  <2> QED BY <2>1, <2>2 DEF Row
<1> QED BY <1>2, <1>3

Alike(g, h, m) == \A i \in 1..m : h[i] = g[i]

LEMMA RowLocal ==
  \A ss, g, h : \A m \in Nat :
    Alike(g, h, m) => \A i \in 1..(m + 1) : Row(h, ss, i) = Row(g, ss, i)
<1> SUFFICES ASSUME NEW ss, NEW g, NEW h, NEW m \in Nat, Alike(g, h, m), NEW i \in 1..(m + 1)
             PROVE  Row(h, ss, i) = Row(g, ss, i)
  OBVIOUS
<1>1. CASE i = 1
  BY <1>1 DEF Row
<1>2. CASE i # 1
  <2>1. i - 1 \in 1..m
    BY <1>2
  <2>2. h[i - 1] = g[i - 1]
    BY <2>1 DEF Alike
  <2> QED BY <1>2, <2>2 DEF Row
<1> QED BY <1>1, <1>2

LEMMA RowsExist ==
  ASSUME NEW T, NEW ss \in Seq(Seq(T))
  PROVE  \E g : g \in Rows(ss, T, Len(ss))
<1> DEFINE n == Len(ss)
           S == {m \in Nat : m <= n => \E g : g \in Rows(ss, T, m)}
<1>1. n \in Nat
  OBVIOUS
<1>2. 0 \in S
  <2>1. 1..0 = {}
    OBVIOUS
  <2>2. [i \in 1..0 |-> <<>>] \in [1..0 -> Seq(T)]
    BY <2>1
  <2>3. [i \in 1..0 |-> <<>>] \in Rows(ss, T, 0)
    BY <2>1, <2>2 DEF Rows
  <2> QED BY <2>3
<1>3. ASSUME NEW m \in S PROVE m + 1 \in S
  <2>0. m \in Nat
    OBVIOUS
  <2> SUFFICES ASSUME m + 1 <= n PROVE \E h : h \in Rows(ss, T, m + 1)
    BY <2>0
  <2>1. m <= n /\ m < n
    BY <1>1, <2>0
  <2>2. PICK g : g \in Rows(ss, T, m)
    BY <2>1
  <2>a. PICK h : h = [i \in 1..(m + 1) |-> Row(g, ss, i)]
    OBVIOUS
  <2>3. g \in [1..m -> Seq(T)] /\ \A i \in 1..m : g[i] = Row(g, ss, i)
    BY <2>2 DEF Rows
  <2>4. \A i \in 1..m : i \in 1..(m + 1)
    BY <2>0
  <2>5. \A i \in 1..m : h[i] = g[i]
    BY <2>a, <2>3, <2>4
  <2>6. \A i \in 1..(m + 1) : Row(h, ss, i) = Row(g, ss, i)
    <3>1. Alike(g, h, m)
      BY <2>5 DEF Alike
    <3> QED BY <2>0, <3>1, RowLocal
  <2>7. ASSUME NEW i \in 1..(m + 1) PROVE h[i] \in Seq(T)
    <3>1. CASE i \in 1..m
      BY <2>3, <2>5, <3>1
    <3>2. CASE i = m + 1
      <4>1. m # 0 => g[m] \in Seq(T)
        BY <2>0, <2>3
      <4>2. Row(g, ss, m + 1) \in Seq(T)
        BY <2>0, <2>1, <4>1, RowType
      <4> QED BY <2>a, <3>2, <4>2
    <3> QED BY <2>0, <3>1, <3>2
  <2>8. h \in [1..(m + 1) -> Seq(T)]
    BY <2>a, <2>7
  <2>9. \A i \in 1..(m + 1) : h[i] = Row(h, ss, i)
    BY <2>a, <2>6
  <2>10. h \in Rows(ss, T, m + 1)
    BY <2>8, <2>9 DEF Rows
  <2> QED BY <2>10
<1>4. n \in S
  <2> HIDE DEF S
  <2>1. S \in SUBSET Nat
    BY DEF S
  <2> QED BY <1>1, <1>2, <1>3, <2>1, Induction
<1> QED BY <1>1, <1>4

LEMMA FlattenRows ==
  ASSUME NEW T, NEW ss \in Seq(Seq(T)), Len(ss) # 0
  PROVE  \E f \in [1..Len(ss) -> Seq(T)] :
           /\ \A i \in 1..Len(ss) : f[i] = Row(f, ss, i)
           /\ FlattenSeq(ss) = f[Len(ss)]
<1> DEFINE flatten[i \in 1..Len(ss)] == IF i = 1 THEN ss[i] ELSE flatten[i - 1] \o ss[i]
<1>1. PICK g : g \in Rows(ss, T, Len(ss))
  BY RowsExist
<1>2. g \in [1..Len(ss) -> Seq(T)] /\ \A i \in 1..Len(ss) : g[i] = Row(g, ss, i)
  BY <1>1 DEF Rows
<1>3. g = [i \in 1..Len(ss) |-> IF i = 1 THEN ss[i] ELSE g[i - 1] \o ss[i]]
  BY <1>2 DEF Row
<1>4. flatten = [i \in 1..Len(ss) |-> IF i = 1 THEN ss[i] ELSE flatten[i - 1] \o ss[i]]
  BY <1>3
<1>5. FlattenSeq(ss) = flatten[Len(ss)]
  BY DEF FlattenSeq
<1> HIDE DEF flatten
<1>6. \A i \in 1..Len(ss) : flatten[i] = Row(flatten, ss, i)
  BY <1>4 DEF Row
<1> DEFINE U == {m \in Nat : m + 1 <= Len(ss) => flatten[m + 1] \in Seq(T)}
<1>7. 0 \in U
  <2>1. Len(ss) \in Nat /\ 0 < Len(ss)
    OBVIOUS
  <2>2. Row(flatten, ss, 0 + 1) \in Seq(T)
    BY <2>1, RowType
  <2> QED BY <1>6, <2>1, <2>2
<1>8. ASSUME NEW m \in U PROVE m + 1 \in U
  <2>0. m \in Nat /\ Len(ss) \in Nat
    OBVIOUS
  <2> SUFFICES ASSUME (m + 1) + 1 <= Len(ss) PROVE flatten[(m + 1) + 1] \in Seq(T)
    BY <2>0
  <2>1. flatten[m + 1] \in Seq(T)
    BY <2>0
  <2>2. Row(flatten, ss, (m + 1) + 1) \in Seq(T)
    <3>1. m + 1 \in Nat /\ m + 1 < Len(ss)
      BY <2>0
    <3> HIDE DEF U
    <3> QED BY <2>1, <3>1, RowType, Zenon
  <2>3. (m + 1) + 1 \in 1..Len(ss)
    BY <2>0
  <2> QED BY <1>6, <2>2, <2>3
<1>9. \A m \in Nat : m \in U
  <2> HIDE DEF U
  <2>1. U \in SUBSET Nat
    BY DEF U
  <2> QED BY <1>7, <1>8, <2>1, Induction
<1>10. ASSUME NEW i \in 1..Len(ss) PROVE flatten[i] \in Seq(T)
  <2>1. i - 1 \in Nat /\ i - 1 + 1 = i /\ i <= Len(ss)
    OBVIOUS
  <2>2. i - 1 \in U
    BY <1>9, <2>1
  <2> QED BY <2>1, <2>2
<1>11. flatten \in [1..Len(ss) -> Seq(T)]
  BY <1>4, <1>10
<1> QED BY <1>5, <1>6, <1>11

\* The elements of the sequences, and nothing else.
Holds(s, e) == \E i \in DOMAIN s : s[i] = e

LEMMA ConcatHolds ==
  ASSUME NEW T, NEW s \in Seq(T), NEW t \in Seq(T), NEW e
  PROVE  Holds(s \o t, e) <=> Holds(s, e) \/ Holds(t, e)
<1>1. /\ s \o t \in Seq(T) /\ Len(s \o t) = Len(s) + Len(t)
      /\ Len(s) \in Nat /\ Len(t) \in Nat
      /\ DOMAIN s = 1..Len(s) /\ DOMAIN t = 1..Len(t) /\ DOMAIN (s \o t) = 1..(Len(s) + Len(t))
  OBVIOUS
<1>2. \A i \in 1..Len(s) : i \in 1..(Len(s) + Len(t)) /\ (s \o t)[i] = s[i]
  BY <1>1
<1>3. \A i \in 1..Len(t) : Len(s) + i \in 1..(Len(s) + Len(t)) /\ (s \o t)[Len(s) + i] = t[i]
  BY <1>1
<1>4. ASSUME NEW i \in DOMAIN (s \o t), (s \o t)[i] = e PROVE Holds(s, e) \/ Holds(t, e)
  <2>1. CASE i \in 1..Len(s)
    BY <1>1, <1>2, <1>4, <2>1 DEF Holds
  <2>2. CASE i \notin 1..Len(s)
    <3>1. i - Len(s) \in 1..Len(t) /\ Len(s) + (i - Len(s)) = i
      BY <1>1, <2>2
    <3>2. t[i - Len(s)] = e
      BY <1>3, <1>4, <3>1
    <3> QED BY <1>1, <3>1, <3>2 DEF Holds
  <2> QED BY <2>1, <2>2
<1>5. ASSUME Holds(s, e) PROVE Holds(s \o t, e)
  BY <1>1, <1>2, <1>5 DEF Holds
<1>6. ASSUME Holds(t, e) PROVE Holds(s \o t, e)
  <2>1. PICK i \in 1..Len(t) : t[i] = e
    BY <1>1, <1>6 DEF Holds
  <2> QED BY <1>1, <1>3, <2>1 DEF Holds
<1> QED BY <1>4, <1>5, <1>6 DEF Holds

LEMMA RowHolds ==
  ASSUME NEW T, NEW ss \in Seq(Seq(T)), NEW f \in [1..Len(ss) -> Seq(T)],
         \A i \in 1..Len(ss) : f[i] = Row(f, ss, i), NEW e
  PROVE  \A n \in 1..Len(ss) : Holds(f[n], e) <=> \E j \in 1..n : Holds(ss[j], e)
<1> DEFINE P(n) == Holds(f[n], e) <=> \E j \in 1..n : Holds(ss[j], e)
           S == {n \in Nat : n + 1 <= Len(ss) => P(n + 1)}
<1>1. Len(ss) \in Nat /\ \A i \in 1..Len(ss) : ss[i] \in Seq(T) /\ f[i] \in Seq(T)
  OBVIOUS
<1>2. 0 \in S
  <2> SUFFICES ASSUME 1 <= Len(ss) PROVE P(1)
    OBVIOUS
  <2>1. 1 \in 1..Len(ss) /\ 1..1 = {1}
    BY <1>1
  <2>2. f[1] = ss[1]
    BY <2>1, Zenon DEF Row
  <2> QED BY <2>1, <2>2, Zenon
<1>3. ASSUME NEW n \in S PROVE n + 1 \in S
  <2>0. n \in Nat
    OBVIOUS
  <2> SUFFICES ASSUME (n + 1) + 1 <= Len(ss) PROVE P((n + 1) + 1)
    BY <2>0
  <2>1. P(n + 1)
    BY <1>1, <2>0
  <2> HIDE DEF S
  <2>2. /\ n + 1 \in 1..Len(ss) /\ (n + 1) + 1 \in 1..Len(ss)
        /\ (n + 1) + 1 # 1 /\ ((n + 1) + 1) - 1 = n + 1
    BY <1>1, <2>0
  <2>3. f[(n + 1) + 1] = f[n + 1] \o ss[(n + 1) + 1]
    BY <2>2, Zenon DEF Row
  <2>4. f[n + 1] \in Seq(T) /\ ss[(n + 1) + 1] \in Seq(T)
    BY <1>1, <2>2
  <2>5. Holds(f[(n + 1) + 1], e) <=> Holds(f[n + 1], e) \/ Holds(ss[(n + 1) + 1], e)
    BY <2>3, <2>4, ConcatHolds
  <2>6. \A j : j \in 1..((n + 1) + 1) <=> j \in 1..(n + 1) \/ j = (n + 1) + 1
    BY <2>0
  <2> QED BY <2>1, <2>5, <2>6, Zenon
<1>4. \A n \in Nat : n \in S
  <2> HIDE DEF S
  <2>1. S \in SUBSET Nat
    BY DEF S
  <2> QED BY <1>2, <1>3, <2>1, Induction
<1>5. ASSUME NEW n \in 1..Len(ss) PROVE P(n)
  <2>1. n - 1 \in Nat /\ (n - 1) + 1 = n /\ n <= Len(ss)
    BY <1>1
  <2>2. n - 1 \in S
    BY <1>4, <2>1
  <2> QED BY <2>1, <2>2
<1> QED BY <1>5

LEMMA FlattenHolds ==
  ASSUME NEW T, NEW ss \in Seq(Seq(T))
  PROVE  /\ FlattenSeq(ss) \in Seq(T)
         /\ \A e : Holds(FlattenSeq(ss), e) <=> \E j \in DOMAIN ss : Holds(ss[j], e)
<1>1. CASE Len(ss) = 0
  <2>1. ss = <<>> /\ DOMAIN ss = {}
    BY <1>1
  <2>2. FlattenSeq(ss) = ss
    BY <1>1, Zenon DEF FlattenSeq
  <2>3. FlattenSeq(ss) = <<>>
    BY <2>1, <2>2
  <2>4. <<>> \in Seq(T) /\ DOMAIN <<>> = {}
    OBVIOUS
  <2> QED BY <2>1, <2>3, <2>4, Zenon DEF Holds
<1>2. CASE Len(ss) # 0
  <2>1. PICK f \in [1..Len(ss) -> Seq(T)] :
          (\A i \in 1..Len(ss) : f[i] = Row(f, ss, i)) /\ FlattenSeq(ss) = f[Len(ss)]
    BY <1>2, FlattenRows
  <2>2. Len(ss) \in 1..Len(ss) /\ DOMAIN ss = 1..Len(ss)
    BY <1>2
  <2>3. \A e : Holds(f[Len(ss)], e) <=> \E j \in 1..Len(ss) : Holds(ss[j], e)
    BY <2>1, <2>2, RowHolds
  <2> QED BY <2>1, <2>2, <2>3
<1> QED BY <1>1, <1>2

-----------------------------------------------------------------------------
(* The invariant.                                                          *)

Pairs == Nodes \X Nodes

\* DeepEqual, as a relation.
Equals == {p \in Pairs : DeepEqual(p[1], p[2])}

Segments == [level : {<<>>} \cup Pairs, pos : Nat, key : Keys \cup {Nil}]
Places   == {<<>>} \cup (Nodes \X Nodes \X (Nat \cup Keys))
Items    == [line : BOOLEAN, x : Values, y : Values, path : Seq(Segments), at : Places, equal : BOOLEAN]
Lines    == [path : Seq(Segments), at : Places, below : {<<>>} \cup Pairs]

TypeInv ==
  /\ heap \in [Nodes -> Shapes]
  /\ todo \in Seq(Items) /\ visited \subseteq Pairs /\ entries \in Seq(Lines)
  /\ DOMAIN probed \subseteq Pairs /\ \A p \in DOMAIN probed : probed[p] \in BOOLEAN
  /\ sub \in Seq(Items) /\ subSeen \subseteq Pairs /\ found \in BOOLEAN

\* A probe is about the composite pair the walk is at, and the walk has room for its line.
AskInv == asked # <<>> => todo # <<>> /\ ~Full /\ ~Current.line /\ ~Scalars(Current.x, Current.y)

\* Two nodes that do not differ by themselves.
SameShape(x, y) ==
  /\ Kind(x) = Kind(y) /\ heap[x].null = heap[y].null
  /\ DOMAIN heap[x].kids = DOMAIN heap[y].kids /\ DOMAIN heap[x].kids \cap NaNs = {}

\* What a walk has still to compare, or to say.
Waits(s, v, w) == \E i \in DOMAIN s : ~s[i].line /\ s[i].x = v /\ s[i].y = w
HasLine(s)     == \E i \in DOMAIN s : s[i].line

\* A walk that has said nothing so far: the pairs of some R would be equal if what waits were.
Settled(R, s, v, w) == Agree(R, v, w) \/ Waits(s, v, w)
Supported(R, s) ==
  \A p \in R :
    \/ p[1] = p[2] /\ Kind(p[1]) \in References
    \/ /\ SameShape(p[1], p[2])
       /\ \A k \in DOMAIN heap[p[1]].kids : Settled(R, s, heap[p[1]].kids[k], heap[p[2]].kids[k])
Explained(seen, s, v, w) ==
  \/ HasLine(s)
  \/ \E R \in SUBSET Pairs : seen \subseteq R /\ Supported(R, s) /\ Settled(R, s, v, w)

\* A walk of equal values has only equal values before it.
Fine(s) == \A i \in DOMAIN s : ~s[i].line /\ Agree(Equals, s[i].x, s[i].y)

WalkInv ==
  /\ entries = <<>> => Explained(visited, todo, First, Second)
  /\ <<First, Second>> \in Equals => entries = <<>> /\ Fine(todo)
ProbeInv ==
  asked # <<>> =>
    /\ ~found => Explained(subSeen, sub, Current.x, Current.y)
    /\ Pair(Current) \in Equals => ~found /\ Fine(sub)
MemoInv == \A p \in DOMAIN probed : probed[p] <=> p \notin Equals

Inv == TypeInv /\ AskInv /\ Len(entries) <= Limit + 1 /\ WalkInv /\ ProbeInv /\ MemoInv

-----------------------------------------------------------------------------
(* Heaps.                                                                  *)

LEMMA Names ==
  /\ Nil \notin Nodes /\ Odd \notin Nodes /\ Plain \notin Nodes
  /\ Nil # Odd /\ Nil # Plain /\ Odd # Plain
  /\ First \in Nodes /\ Second \in Nodes /\ NaNs \cap Nat = {}
  /\ KeyOrder \in Seq(Keys) /\ Limit \in Nat
BY DiffAssumption DEF Nil, Odd, Plain

LEMMA ShapeFacts ==
  ASSUME TypeInv, NEW n \in Nodes
  PROVE  /\ heap[n].null \in BOOLEAN /\ (heap[n].null => heap[n].kids = <<>>)
         /\ heap[n].kind \in {"ptr", "slice", "map", "struct", "opaque"}
         /\ heap[n].kind = "ptr" /\ ~heap[n].null => heap[n].kids \in [1..1 -> Values]
         /\ heap[n].kind = "slice" /\ ~heap[n].null => \E m \in Nat : heap[n].kids \in [1..m -> Values]
         /\ heap[n].kind = "map" /\ ~heap[n].null => \E s \in SUBSET Keys : heap[n].kids \in [s -> Values]
         /\ heap[n].kind \in {"struct", "opaque"} => ~heap[n].null /\ heap[n].kids \in [1..2 -> Values]
<1>1. heap[n] \in Shapes
  BY DEF TypeInv
<1>2. CASE \E k \in [1..1 -> Values] : heap[n] = Node("ptr", FALSE, k)
  BY <1>2 DEF Node
<1>3. CASE \E k \in UNION {[1..m -> Values] : m \in 0..MaxKids} : heap[n] = Node("slice", FALSE, k)
  BY <1>3 DEF Node
<1>4. CASE \E k \in UNION {[s -> Values] : s \in {t \in SUBSET Keys : Cardinality(t) <= MaxKids}} :
             heap[n] = Node("map", FALSE, k)
  <2>1. PICK s \in SUBSET Keys : \E k \in [s -> Values] : heap[n] = Node("map", FALSE, k)
    BY <1>4
  <2> QED BY <2>1 DEF Node
<1>5. CASE \E kind \in {"ptr", "slice", "map"} : heap[n] = Node(kind, TRUE, <<>>)
  BY <1>5 DEF Node
<1>6. CASE \E k \in [1..2 -> Values] : heap[n] = Node("struct", FALSE, k)
  BY <1>6 DEF Node
<1>7. CASE \E k \in [1..2 -> Values] : heap[n] = Node("opaque", FALSE, k)
  BY <1>7 DEF Node
<1> QED BY <1>1, <1>2, <1>3, <1>4, <1>5, <1>6, <1>7 DEF Shapes

LEMMA PairFacts ==
  ASSUME TypeInv, NEW x, NEW y, ~Scalars(x, y)
  PROVE  x \in Nodes /\ y \in Nodes /\ Kind(x) = Kind(y) /\ Kind(x) = heap[x].kind
<1>1. x \in Nodes /\ Kind(x) = Kind(y)
  BY DEF Scalars
<1>2. Kind(x) = heap[x].kind
  BY <1>1 DEF Kind
<1>3. CASE y \notin Nodes
  <2>1. Kind(y) \in {"invalid", "scalar"}
    BY <1>3 DEF Kind
  <2>2. heap[x].kind \notin {"invalid", "scalar"}
    BY <1>1, ShapeFacts
  <2> QED BY <1>1, <1>2, <2>1, <2>2
<1> QED BY <1>1, <1>2, <1>3

-----------------------------------------------------------------------------
(* Equal pairs.                                                            *)

LEMMA AgreeMore ==
  ASSUME NEW R, NEW S, R \subseteq S, NEW v, NEW w, Agree(R, v, w)
  PROVE  Agree(S, v, w)
BY DEF Agree

LEMMA ConsistentEquals ==
  ASSUME NEW R \in SUBSET Pairs, Consistent(R)
  PROVE  R \subseteq Equals
<1> SUFFICES ASSUME NEW p \in R PROVE p \in Equals
  OBVIOUS
<1>1. p \in Pairs /\ p = <<p[1], p[2]>>
  BY DEF Pairs
<1>2. DeepEqual(p[1], p[2])
  BY <1>1, Zenon DEF DeepEqual, Pairs
<1> QED BY <1>1, <1>2 DEF Equals

\* The equal pairs are consistent: DeepEqual needs no pair that it does not hold of.
LEMMA EqualsShape ==
  ASSUME NEW p \in Equals
  PROVE  \/ p[1] = p[2] /\ Kind(p[1]) \in References
         \/ /\ SameShape(p[1], p[2])
            /\ \A k \in DOMAIN heap[p[1]].kids : Agree(Equals, heap[p[1]].kids[k], heap[p[2]].kids[k])
<1>1. p \in Pairs /\ DeepEqual(p[1], p[2])
  BY DEF Equals
<1>2. PICK R \in SUBSET Pairs : <<p[1], p[2]>> \in R /\ Consistent(R)
  BY <1>1, Zenon DEF DeepEqual, Pairs
<1>3. p \in R
  BY <1>1, <1>2 DEF Pairs
<1>4. R \subseteq Equals
  BY <1>2, ConsistentEquals
<1>5. \/ p[1] = p[2] /\ Kind(p[1]) \in References
      \/ /\ SameShape(p[1], p[2])
         /\ \A k \in DOMAIN heap[p[1]].kids : Agree(R, heap[p[1]].kids[k], heap[p[2]].kids[k])
  BY <1>2, <1>3, Zenon DEF Consistent, SameShape
<1>6. \A v, w : Agree(R, v, w) => Agree(Equals, v, w)
  BY <1>4, AgreeMore
<1> QED BY <1>5, <1>6

LEMMA EqualsIsDeep ==
  ASSUME NEW x \in Nodes, NEW y \in Nodes
  PROVE  <<x, y>> \in Equals <=> DeepEqual(x, y)
<1>1. <<x, y>> \in Pairs /\ <<x, y>>[1] = x /\ <<x, y>>[2] = y
  BY DEF Pairs
<1> QED BY <1>1 DEF Equals

LEMMA EqualPair ==
  ASSUME NEW x, NEW y, <<x, y>> \in Equals
  PROVE  /\ x \in Nodes /\ y \in Nodes /\ Kind(x) = Kind(y) /\ heap[x].null = heap[y].null
         /\ \/ x = y /\ Kind(x) \in References
            \/ /\ SameShape(x, y)
               /\ \A k \in DOMAIN heap[x].kids : Agree(Equals, heap[x].kids[k], heap[y].kids[k])
<1> DEFINE p == <<x, y>>
<1>1. p[1] = x /\ p[2] = y
  OBVIOUS
<1>2. \/ x = y /\ Kind(x) \in References
      \/ /\ SameShape(x, y)
         /\ \A k \in DOMAIN heap[x].kids : Agree(Equals, heap[x].kids[k], heap[y].kids[k])
  <2>1. \/ p[1] = p[2] /\ Kind(p[1]) \in References
        \/ /\ SameShape(p[1], p[2])
           /\ \A k \in DOMAIN heap[p[1]].kids : Agree(Equals, heap[p[1]].kids[k], heap[p[2]].kids[k])
    <3> HIDE DEF p
    <3>1. p \in Equals
      BY DEF p
    <3> QED BY <3>1, EqualsShape
  <2> HIDE DEF p
  <2> QED BY <1>1, <2>1
<1>3. p \in Pairs
  BY DEF Equals
<1>4. x \in Nodes /\ y \in Nodes
  BY <1>3 DEF Pairs
<1> QED BY <1>2, <1>4 DEF SameShape

\* A pair that ends the walk gets a line if and only if its values are not equal.
LEMMA ScalarsEnd ==
  ASSUME NEW x, NEW y, Scalars(x, y)
  PROVE  /\ x \in Values /\ ~Disagree(x, y) => \A R : Agree(R, x, y)
         /\ Agree(Equals, x, y) => ~Disagree(x, y)
<1>1. ASSUME x \in Values, ~Disagree(x, y) PROVE \A R : Agree(R, x, y)
  <2>1. x = y /\ x # Odd /\ x \notin Nodes
    BY <1>1 DEF Disagree, Scalars
  <2> QED BY <1>1, <2>1, Zenon DEF Agree, Values
<1>2. ASSUME Agree(Equals, x, y) PROVE ~Disagree(x, y)
  <2>1. CASE x = y /\ x \in {Nil, Plain}
    BY <2>1, Names DEF Disagree
  <2>2. CASE <<x, y>> \in Equals
    <3>1. x \in Nodes /\ Kind(x) = Kind(y)
      BY <2>2, EqualPair
    <3> QED BY <3>1 DEF Scalars
  <2> QED BY <1>2, <2>1, <2>2 DEF Agree
<1> QED BY <1>1, <1>2

LEMMA CompositeAgrees ==
  ASSUME NEW x \in Nodes, NEW y, NEW R
  PROVE  Agree(R, x, y) <=> <<x, y>> \in R
BY Names DEF Agree

-----------------------------------------------------------------------------
(* One step of a walk.                                                     *)

LEMMA SeqStep ==
  ASSUME NEW s \in Seq(Items), s # <<>>, NEW ahead \in Seq(Items)
  PROVE  /\ Head(s) \in Items /\ Tail(s) \in Seq(Items) /\ ahead \o Tail(s) \in Seq(Items)
         /\ \A e : Holds(s, e) <=> e = Head(s) \/ Holds(Tail(s), e)
         /\ \A e : Holds(ahead \o Tail(s), e) <=> Holds(ahead, e) \/ Holds(Tail(s), e)
<1>1. Head(s) \in Items /\ Tail(s) \in Seq(Items) /\ ahead \o Tail(s) \in Seq(Items)
  OBVIOUS
<1>2. \A e : Holds(ahead \o Tail(s), e) <=> Holds(ahead, e) \/ Holds(Tail(s), e)
  BY <1>1, ConcatHolds
<1>3. DOMAIN s = 1..Len(s) /\ Len(s) \in Nat /\ Len(s) >= 1 /\ Head(s) = s[1]
  OBVIOUS
<1>4. DOMAIN Tail(s) = 1..(Len(s) - 1) /\ \A i \in 1..(Len(s) - 1) : Tail(s)[i] = s[i + 1]
  BY <1>3
<1>5. ASSUME NEW i \in 1..Len(s) PROVE s[i] = Head(s) \/ Holds(Tail(s), s[i])
  <2>1. CASE i = 1
    BY <1>3, <2>1
  <2>2. CASE i # 1
    <3>1. i - 1 \in 1..(Len(s) - 1) /\ (i - 1) + 1 = i
      BY <1>3, <2>2
    <3> QED BY <1>4, <3>1 DEF Holds
  <2> QED BY <2>1, <2>2
<1>6. ASSUME NEW e, e = Head(s) \/ Holds(Tail(s), e) PROVE Holds(s, e)
  <2>1. CASE e = Head(s)
    <3>1. 1 \in DOMAIN s
      BY <1>3
    <3> QED BY <1>3, <2>1, <3>1 DEF Holds
  <2>2. CASE Holds(Tail(s), e)
    <3>1. PICK i \in 1..(Len(s) - 1) : Tail(s)[i] = e
      BY <1>4, <2>2 DEF Holds
    <3>2. i + 1 \in 1..Len(s)
      BY <1>3
    <3> QED BY <1>3, <1>4, <3>1, <3>2 DEF Holds
  <2> QED BY <1>6, <2>1, <2>2
<1> QED BY <1>1, <1>2, <1>3, <1>5, <1>6 DEF Holds

\* The three questions about a sequence of items are about its elements.
LEMMA ByElements ==
  ASSUME NEW s
  PROVE  /\ HasLine(s) <=> \E e : Holds(s, e) /\ e.line
         /\ \A v, w : Waits(s, v, w) <=> \E e : Holds(s, e) /\ ~e.line /\ e.x = v /\ e.y = w
         /\ Fine(s) <=> \A e : Holds(s, e) => ~e.line /\ Agree(Equals, e.x, e.y)
BY Zenon DEF HasLine, Waits, Fine, Holds

LEMMA FineStep ==
  ASSUME NEW s \in Seq(Items), s # <<>>, NEW ahead \in Seq(Items), Fine(s)
  PROVE  /\ ~Head(s).line /\ Agree(Equals, Head(s).x, Head(s).y)
         /\ Fine(ahead) => Fine(ahead \o Tail(s))
<1>1. \A e : Holds(s, e) => ~e.line /\ Agree(Equals, e.x, e.y)
  BY ByElements
<1>2. ~Head(s).line /\ Agree(Equals, Head(s).x, Head(s).y)
  BY <1>1, SeqStep
<1>3. ASSUME Fine(ahead) PROVE Fine(ahead \o Tail(s))
  <2>1. \A e : Holds(ahead, e) => ~e.line /\ Agree(Equals, e.x, e.y)
    BY <1>3, ByElements
  <2>2. \A e : Holds(ahead \o Tail(s), e) => ~e.line /\ Agree(Equals, e.x, e.y)
    BY <1>1, <2>1, SeqStep
  <2> QED BY <2>2, ByElements
<1> QED BY <1>2, <1>3

\* A pair that is settled by E and what it puts ahead leaves nothing of the walk unexplained.
LEMMA ExplainStep ==
  ASSUME NEW s \in Seq(Items), s # <<>>, NEW ahead \in Seq(Items), ~Head(s).line,
         NEW seen, NEW after, NEW E \in SUBSET Pairs, after \subseteq seen \cup E,
         NEW v, NEW w, Explained(seen, s, v, w),
         \/ HasLine(ahead)
         \/ Supported(E, ahead) /\ Settled(seen \cup E, ahead, Head(s).x, Head(s).y)
  PROVE  Explained(after, ahead \o Tail(s), v, w)
<1> DEFINE t == ahead \o Tail(s)
<1>1. HasLine(ahead) => HasLine(t)
  BY SeqStep, ByElements
<1>2. \A a, b : Waits(ahead, a, b) => Waits(t, a, b)
  <2>1. \A e : Holds(ahead, e) => Holds(t, e)
    BY SeqStep
  <2> SUFFICES ASSUME NEW a, NEW b, Waits(ahead, a, b) PROVE Waits(t, a, b)
    OBVIOUS
  <2> HIDE DEF t
  <2>2. PICK e : Holds(ahead, e) /\ ~e.line /\ e.x = a /\ e.y = b
    BY Zenon DEF Waits, Holds
  <2>3. Holds(t, e)
    BY <2>1, <2>2
  <2> QED BY <2>2, <2>3, ByElements
<1>3. HasLine(s) => HasLine(t)
  <2>1. \A e : Holds(s, e) => e = Head(s) \/ Holds(t, e)
    BY SeqStep
  <2> HIDE DEF t
  <2> QED BY <2>1, ByElements
<1>4. \A a, b : Waits(s, a, b) => (a = Head(s).x /\ b = Head(s).y) \/ Waits(t, a, b)
  <2>1. \A e : Holds(s, e) => e = Head(s) \/ Holds(t, e)
    BY SeqStep
  <2> SUFFICES ASSUME NEW a, NEW b, Waits(s, a, b)
               PROVE  (a = Head(s).x /\ b = Head(s).y) \/ Waits(t, a, b)
    OBVIOUS
  <2> HIDE DEF t
  <2>2. PICK e : Holds(s, e) /\ ~e.line /\ e.x = a /\ e.y = b
    BY Zenon DEF Waits, Holds
  <2>3. CASE e = Head(s)
    BY <2>2, <2>3
  <2>4. CASE Holds(t, e)
    BY <2>2, <2>4, ByElements
  <2> QED BY <2>1, <2>2, <2>3, <2>4
<1> HIDE DEF t
<1>5. CASE HasLine(t)
  BY <1>5 DEF Explained, t
<1>6. CASE ~HasLine(t)
  <2>1. Supported(E, ahead) /\ Settled(seen \cup E, ahead, Head(s).x, Head(s).y)
    BY <1>1, <1>6
  <2>2. PICK R \in SUBSET Pairs : seen \subseteq R /\ Supported(R, s) /\ Settled(R, s, v, w)
    BY <1>3, <1>6 DEF Explained
  <2> DEFINE Q == R \cup E
  <2>3. Settled(Q, t, Head(s).x, Head(s).y)
    BY <1>2, <2>1, <2>2 DEF Settled, Agree
  <2>4. \A a, b : Settled(R, s, a, b) => Settled(Q, t, a, b)
    BY <1>4, <2>3 DEF Settled, Agree
  <2>5. \A a, b : Settled(E, ahead, a, b) => Settled(Q, t, a, b)
    BY <1>2 DEF Settled, Agree
  <2>6. Q \in SUBSET Pairs /\ after \subseteq Q
    BY <2>2
  <2>7. \A p \in Q : p \in R \/ p \in E
    OBVIOUS
  <2> HIDE DEF Q
  <2>8. Supported(Q, t)
    BY <2>1, <2>2, <2>4, <2>5, <2>7, Zenon DEF Supported
  <2> QED BY <2>2, <2>4, <2>6, <2>8 DEF Explained, t
<1> QED BY <1>5, <1>6

-----------------------------------------------------------------------------
(* What is below a pair.                                                   *)

LEMMA ItemType ==
  ASSUME NEW x \in Values, NEW y \in Values, NEW path \in Seq(Segments), NEW at \in Places
  PROVE  /\ Item(x, y, path, at) \in Items /\ ~Item(x, y, path, at).line
         /\ Item(x, y, path, at).x = x /\ Item(x, y, path, at).y = y
BY DEF Item, Items

LEMMA LineType ==
  ASSUME NEW path \in Seq(Segments), NEW at \in Places
  PROVE  Line(path, at) \in Items /\ Line(path, at).line
<1>1. Nil \in Values
  BY DEF Values
<1> QED BY <1>1 DEF Line, Items

LEMMA PathTypes ==
  ASSUME NEW it \in Items, NEW x \in Nodes, NEW y \in Nodes
  PROVE  /\ it.path \in Seq(Segments) /\ <<>> \in Seq(Segments) /\ <<>> \in Places
         /\ \A i \in Nat : Append(it.path, Index(i)) \in Seq(Segments)
         /\ \A i \in Nat, k \in Keys : Append(it.path, Segment(<<x, y>>, i, k)) \in Seq(Segments)
         /\ \A i \in Nat \cup Keys : <<x, y, i>> \in Places
<1>1. it.path \in Seq(Segments) /\ <<>> \in Seq(Segments) /\ <<>> \in Places
  BY DEF Items, Places
<1>2. \A i \in Nat : Index(i) \in Segments
  BY DEF Index, Segment, Segments
<1>3. <<x, y>> \in Pairs
  BY DEF Pairs
<1>4. \A i \in Nat, k \in Keys : Segment(<<x, y>>, i, k) \in Segments
  BY <1>3 DEF Segment, Segments
<1>5. \A i \in Nat \cup Keys : <<x, y, i>> \in Places
  BY DEF Places
<1>6. \A s \in Segments : Append(it.path, s) \in Seq(Segments)
  BY <1>1
<1> QED BY <1>1, <1>2, <1>4, <1>5, <1>6

\* The items say all that differs in two nodes themselves, and put off the rest.
Tells(items, x, y) ==
  /\ \/ HasLine(items)
     \/ /\ SameShape(x, y)
        /\ \A k \in DOMAIN heap[x].kids : Waits(items, heap[x].kids[k], heap[y].kids[k])
  /\ SameShape(x, y) =>
       \A i \in DOMAIN items :
         /\ ~items[i].line
         /\ \E k \in DOMAIN heap[x].kids : items[i].x = heap[x].kids[k] /\ items[i].y = heap[y].kids[k]

Comparable(it) ==
  /\ it \in Items /\ it.x \in Nodes /\ it.y \in Nodes /\ Kind(it.x) = Kind(it.y)
  /\ Kind(it.x) = heap[it.x].kind /\ heap[it.y].kind = heap[it.x].kind
  /\ ~heap[it.x].null /\ heap[it.x].null = heap[it.y].null

\* Kids that are listed one by one.
LEMMA InOrder ==
  ASSUME TypeInv, NEW it, Comparable(it), NEW n \in Nat,
         heap[it.x].kids \in [1..n -> Values], heap[it.y].kids \in [1..n -> Values]
  PROVE  LET items == [i \in 1..n |-> Child(it, i)] IN items \in Seq(Items) /\ Tells(items, it.x, it.y)
<1> DEFINE items == [i \in 1..n |-> Child(it, i)]
           x == it.x
           y == it.y
<1>1. x \in Nodes /\ y \in Nodes /\ it \in Items
  BY DEF Comparable
<1>2. ASSUME NEW i \in 1..n
      PROVE  /\ Child(it, i) \in Items /\ ~Child(it, i).line
             /\ Child(it, i).x = heap[x].kids[i] /\ Child(it, i).y = heap[y].kids[i]
  <2>1. heap[x].kids[i] \in Values /\ heap[y].kids[i] \in Values /\ i \in Nat
    OBVIOUS
  <2>2. Append(it.path, Index(i)) \in Seq(Segments) /\ <<x, y, i>> \in Places
    BY <1>1, <2>1, PathTypes
  <2> DEFINE one == Item(heap[x].kids[i], heap[y].kids[i], Append(it.path, Index(i)), <<x, y, i>>)
  <2>3. Child(it, i) = one
    BY DEF Child
  <2>4. one \in Items /\ ~one.line /\ one.x = heap[x].kids[i] /\ one.y = heap[y].kids[i]
    <3>1. one \in Items
      BY <2>1, <2>2, ItemType
    <3> QED BY <3>1 DEF Item
  <2> HIDE DEF one
  <2> QED BY <2>3, <2>4
<1>3. items \in [1..n -> Items] /\ items \in Seq(Items) /\ DOMAIN items = 1..n
  BY <1>2
<1>4. DOMAIN heap[x].kids = 1..n /\ DOMAIN heap[y].kids = 1..n
  OBVIOUS
<1>5. SameShape(x, y)
  BY <1>4, Names DEF SameShape, Comparable
<1>6. \A k \in DOMAIN heap[x].kids : Waits(items, heap[x].kids[k], heap[y].kids[k])
  <2> SUFFICES ASSUME NEW k \in 1..n PROVE Waits(items, heap[x].kids[k], heap[y].kids[k])
    BY <1>4
  <2>1. items[k] = Child(it, k)
    OBVIOUS
  <2> HIDE DEF items
  <2> QED BY <1>2, <1>3, <2>1 DEF Waits
<1>7. \A i \in DOMAIN items : items[i] = Child(it, i) /\ i \in 1..n
  BY <1>3
<1> HIDE DEF items
<1>8. \A i \in DOMAIN items :
        /\ ~items[i].line
        /\ \E k \in DOMAIN heap[x].kids : items[i].x = heap[x].kids[k] /\ items[i].y = heap[y].kids[k]
  BY <1>2, <1>4, <1>7
<1>9. Tells(items, x, y)
  BY <1>5, <1>6, <1>8 DEF Tells
<1> QED BY <1>3, <1>9 DEF items

LEMMA Pointers ==
  ASSUME TypeInv, NEW it, Comparable(it), heap[it.x].kind = "ptr"
  PROVE  LET items == <<Item(heap[it.x].kids[1], heap[it.y].kids[1], it.path, <<it.x, it.y, 1>>)>>
         IN items \in Seq(Items) /\ Tells(items, it.x, it.y)
<1> DEFINE x == it.x
           y == it.y
           one == Item(heap[x].kids[1], heap[y].kids[1], it.path, <<x, y, 1>>)
           items == <<one>>
<1>1. x \in Nodes /\ y \in Nodes /\ it \in Items
  BY DEF Comparable
<1>2. heap[x].kids \in [1..1 -> Values] /\ heap[y].kids \in [1..1 -> Values]
  BY <1>1, ShapeFacts DEF Comparable
<1>3. heap[x].kids[1] \in Values /\ heap[y].kids[1] \in Values
  BY <1>2
<1>4. it.path \in Seq(Segments) /\ <<x, y, 1>> \in Places
  BY <1>1, PathTypes
<1>5. one \in Items /\ ~one.line /\ one.x = heap[x].kids[1] /\ one.y = heap[y].kids[1]
  BY <1>3, <1>4, ItemType
<1> HIDE DEF one
<1>6. items \in Seq(Items) /\ DOMAIN items = 1..1 /\ items[1] = one
  BY <1>5
<1>7. DOMAIN heap[x].kids = 1..1 /\ DOMAIN heap[y].kids = 1..1
  BY <1>2
<1>8. SameShape(x, y)
  BY <1>7, Names DEF SameShape, Comparable
<1> HIDE DEF items
<1>9. Tells(items, x, y)
  BY <1>5, <1>6, <1>7, <1>8 DEF Tells, Waits
<1> QED BY <1>6, <1>9 DEF items, one

LEMMA Slices ==
  ASSUME TypeInv, NEW it, Comparable(it), heap[it.x].kind = "slice"
  PROVE  ListItems(it) \in Seq(Items) /\ Tells(ListItems(it), it.x, it.y)
<1> DEFINE x == it.x
           y == it.y
           m == Len(heap[x].kids)
           n == Len(heap[y].kids)
<1>1. x \in Nodes /\ y \in Nodes /\ it \in Items
  BY DEF Comparable
<1>2. /\ m \in Nat /\ heap[x].kids \in [1..m -> Values]
      /\ n \in Nat /\ heap[y].kids \in [1..n -> Values]
  <2>1. ASSUME NEW z \in Nodes, heap[z].kind = "slice", ~heap[z].null
        PROVE  Len(heap[z].kids) \in Nat /\ heap[z].kids \in [1..Len(heap[z].kids) -> Values]
    <3>1. PICK l \in Nat : heap[z].kids \in [1..l -> Values]
      BY <2>1, ShapeFacts
    <3>2. Len(heap[z].kids) = l
      BY <3>1
    <3> QED BY <3>1, <3>2
  <2> QED BY <1>1, <2>1 DEF Comparable
<1> HIDE DEF m, n
<1>3. CASE m = n
  <2>1. ListItems(it) = <<>> \o [i \in 1..n |-> Child(it, i)]
    <3> DEFINE f == [i \in 1..(IF m < n THEN n ELSE m) |->
                       IF i <= m /\ i <= n THEN Child(it, i)
                       ELSE Line(Append(it.path, Index(i)), <<it.x, it.y, i>>)]
               g == [i \in 1..n |-> Child(it, i)]
    <3>1. ListItems(it) = <<>> \o f
      BY <1>3, Zenon DEF ListItems, m, n
    <3>2. (IF m < n THEN n ELSE m) = n /\ \A i \in 1..n : i <= m /\ i <= n
      BY <1>2, <1>3
    <3>3. f = g
      BY <3>2
    <3> QED BY <3>1, <3>3
  <2>2. [i \in 1..n |-> Child(it, i)] \in Seq(Items) /\ Tells([i \in 1..n |-> Child(it, i)], it.x, it.y)
    BY <1>2, <1>3, InOrder
  <2> QED BY <2>1, <2>2
<1>4. CASE m # n
  <2> DEFINE top == IF m < n THEN n ELSE m
             f == [i \in 1..top |-> IF i <= m /\ i <= n THEN Child(it, i)
                                    ELSE Line(Append(it.path, Index(i)), <<it.x, it.y, i>>)]
             l == Line(it.path, <<it.x, it.y, 0>>)
  <2>1. ListItems(it) = <<l>> \o f
    BY <1>4, Zenon DEF ListItems, m, n
  <2>2. l \in Items /\ l.line
    BY <1>1, PathTypes, LineType
  <2>3. top \in Nat
    BY <1>2
  <2>4. ASSUME NEW i \in 1..top PROVE f[i] \in Items
    <3>0. i \in Nat /\ i >= 1
      BY <2>3
    <3>1. Append(it.path, Index(i)) \in Seq(Segments) /\ <<x, y, i>> \in Places
      BY <1>1, <3>0, PathTypes
    <3>2. CASE i <= m /\ i <= n
      <4>1. heap[x].kids[i] \in Values /\ heap[y].kids[i] \in Values
        BY <1>2, <3>0, <3>2
      <4>2. Child(it, i) \in Items
        BY <3>1, <4>1, ItemType DEF Child
      <4> QED BY <3>2, <4>2
    <3>3. CASE ~(i <= m /\ i <= n)
      BY <3>1, <3>3, LineType
    <3> QED BY <3>2, <3>3
  <2>5. f \in Seq(Items)
    <3>1. f \in [1..top -> Items]
      BY <2>4
    <3> HIDE DEF f, top
    <3> QED BY <2>3, <3>1
  <2> HIDE DEF f, l
  <2>6. ListItems(it) \in Seq(Items) /\ 1 \in DOMAIN ListItems(it) /\ ListItems(it)[1] = l
    BY <2>1, <2>2, <2>5
  <2>7. HasLine(ListItems(it))
    BY <2>2, <2>6 DEF HasLine
  <2>8. DOMAIN heap[x].kids = 1..m /\ DOMAIN heap[y].kids = 1..n /\ 1..m # 1..n
    BY <1>2, <1>4
  <2>9. ~SameShape(x, y)
    BY <2>8 DEF SameShape
  <2> QED BY <2>6, <2>7, <2>9 DEF Tells
<1> QED BY <1>3, <1>4

-----------------------------------------------------------------------------
(* Maps.                                                                   *)

LEMMA KeysFinite == IsFiniteSet(Keys)
<1>1. KeyOrder \in Seq(Keys) /\ DOMAIN KeyOrder = 1..Len(KeyOrder) /\ Len(KeyOrder) \in Int
  BY Names
<1>2. KeyOrder \in [DOMAIN KeyOrder -> Keys]
  BY <1>1
<1>3. KeyOrder \in Surjection(DOMAIN KeyOrder, Keys)
  BY <1>2 DEF Surjection, Keys
<1>4. IsFiniteSet(DOMAIN KeyOrder)
  BY <1>1, FS_Interval
<1> QED BY <1>3, <1>4, FS_Surjection

LEMMA MapFacts ==
  ASSUME TypeInv, NEW it, Comparable(it), heap[it.x].kind = "map"
  PROVE  /\ heap[it.x].kids \in [DOMAIN heap[it.x].kids -> Values]
         /\ heap[it.y].kids \in [DOMAIN heap[it.y].kids -> Values]
         /\ DOMAIN heap[it.x].kids \subseteq Keys /\ DOMAIN heap[it.y].kids \subseteq Keys
<1>1. ASSUME NEW z \in Nodes, heap[z].kind = "map", ~heap[z].null
      PROVE  heap[z].kids \in [DOMAIN heap[z].kids -> Values] /\ DOMAIN heap[z].kids \subseteq Keys
  <2>1. PICK s \in SUBSET Keys : heap[z].kids \in [s -> Values]
    BY <1>1, ShapeFacts
  <2> QED BY <2>1
<1> QED BY <1>1 DEF Comparable

LEMMA ProbedMaps ==
  ASSUME TypeInv, NEW it, Comparable(it), heap[it.x].kind = "map", NEW items \in ProbeMapItems(it)
  PROVE  items \in Seq(Items) /\ Tells(items, it.x, it.y)
<1> DEFINE x == it.x
           y == it.y
           a == heap[x].kids
           b == heap[y].kids
           n == Cardinality(DOMAIN a)
           item(k) == IF Found(k, b) THEN Item(a[k], b[k], <<>>, <<>>) ELSE Line(<<>>, <<>>)
           orders == {o \in [1..n -> DOMAIN a] : \A i, j \in DOMAIN o : o[i] = o[j] => i = j}
<1>1. x \in Nodes /\ y \in Nodes /\ it \in Items
  BY DEF Comparable
<1>2. a \in [DOMAIN a -> Values] /\ b \in [DOMAIN b -> Values] /\ DOMAIN a \subseteq Keys /\ DOMAIN b \subseteq Keys
  BY MapFacts
<1>3. IsFiniteSet(DOMAIN a) /\ IsFiniteSet(DOMAIN b)
  BY <1>2, KeysFinite, FS_Subset
<1>4. Line(<<>>, <<>>) \in Items /\ Line(<<>>, <<>>).line
  BY <1>1, PathTypes, LineType
<1>5. CASE n # Cardinality(DOMAIN b)
  <2>1. items = <<Line(<<>>, <<>>)>>
    BY <1>5 DEF ProbeMapItems
  <2>2. items \in Seq(Items) /\ HasLine(items)
    BY <1>4, <2>1 DEF HasLine
  <2>3. ~SameShape(x, y)
    BY <1>5 DEF SameShape
  <2> QED BY <2>2, <2>3 DEF Tells
<1>6. CASE n = Cardinality(DOMAIN b)
  <2>1. items \in {[i \in DOMAIN o |-> item(o[i])] : o \in orders}
    BY <1>6, Zenon DEF ProbeMapItems
  <2>2. PICK o \in orders : items = [i \in DOMAIN o |-> item(o[i])]
    BY <2>1
  <2>3. n \in Nat
    BY <1>3, FS_CardinalityType
  <2> HIDE DEF n
  <2>4. o \in [1..n -> DOMAIN a] /\ DOMAIN o = 1..n /\ \A i, j \in 1..n : o[i] = o[j] => i = j
    BY <2>2
  <2>5. \A k \in DOMAIN a : \E i \in 1..n : o[i] = k
    <3>1. o \in Injection(1..n, DOMAIN a)
      BY <2>4, Zenon DEF Injection, IsInjective
    <3>2. Cardinality(1..n) = n
      BY <2>3, FS_Interval
    <3>3. o \in Surjection(1..n, DOMAIN a)
      BY <1>3, <3>1, <3>2, FS_Injection DEF n
    <3> QED BY <3>3, Zenon DEF Surjection
  <2>6. ASSUME NEW k \in DOMAIN a
        PROVE  /\ item(k) \in Items
               /\ Found(k, b) => ~item(k).line /\ item(k).x = a[k] /\ item(k).y = b[k]
               /\ ~Found(k, b) => item(k).line
    <3>1. CASE Found(k, b)
      <4>1. a[k] \in Values /\ b[k] \in Values
        BY <1>2, <3>1 DEF Found
      <4>2. item(k) = Item(a[k], b[k], <<>>, <<>>)
        BY <3>1
      <4> DEFINE one == Item(a[k], b[k], <<>>, <<>>)
      <4>3. one \in Items
        BY <1>1, <4>1, PathTypes, ItemType
      <4>4. ~one.line /\ one.x = a[k] /\ one.y = b[k]
        BY DEF Item
      <4> HIDE DEF one, item
      <4> QED BY <3>1, <4>2, <4>3, <4>4 DEF one
    <3>2. CASE ~Found(k, b)
      BY <1>4, <3>2
    <3> QED BY <3>1, <3>2
  <2> HIDE DEF item
  <2>7. DOMAIN items = 1..n /\ \A i \in 1..n : items[i] = item(o[i]) /\ o[i] \in DOMAIN a
    BY <2>2, <2>4
  <2>8. items \in Seq(Items)
    <3>1. items \in [1..n -> Items]
      BY <2>2, <2>4, <2>6
    <3> QED BY <2>3, <3>1
  <2>9. HasLine(items) \/ (SameShape(x, y) /\ \A k \in DOMAIN a : Waits(items, a[k], b[k]))
    <3> SUFFICES ASSUME ~HasLine(items)
                 PROVE  SameShape(x, y) /\ \A k \in DOMAIN a : Waits(items, a[k], b[k])
      OBVIOUS
    <3>1. ASSUME NEW k \in DOMAIN a PROVE Found(k, b) /\ Waits(items, a[k], b[k])
      <4>1. PICK i \in 1..n : o[i] = k
        BY <2>5
      <4>2. i \in DOMAIN items /\ items[i] = item(k) /\ ~items[i].line
        BY <2>7, <4>1 DEF HasLine
      <4>3. Found(k, b)
        BY <2>6, <4>2
      <4> QED BY <2>6, <4>2, <4>3 DEF Waits
    <3>2. DOMAIN a \subseteq DOMAIN b /\ DOMAIN a \cap NaNs = {}
      BY <3>1 DEF Found
    <3>3. DOMAIN a = DOMAIN b
      BY <1>3, <1>6, <3>2, FS_Subset DEF n
    <3>4. SameShape(x, y)
      BY <3>2, <3>3 DEF SameShape, Comparable
    <3> QED BY <3>1, <3>4
  <2>10. ASSUME SameShape(x, y), NEW i \in DOMAIN items
         PROVE  ~items[i].line /\ \E k \in DOMAIN a : items[i].x = a[k] /\ items[i].y = b[k]
    <3>1. o[i] \in DOMAIN a /\ items[i] = item(o[i])
      BY <2>7
    <3>2. Found(o[i], b)
      BY <2>10, <3>1 DEF Found, SameShape
    <3> QED BY <2>6, <3>1, <3>2
  <2> QED BY <2>8, <2>9, <2>10 DEF Tells
<1> QED BY <1>5, <1>6

LEMMA UnitFacts ==
  ASSUME NEW k, NEW a, NEW b, NEW tie \in Ties
  PROVE  LET u == Units(k, a, b, tie) IN
         /\ DOMAIN u \subseteq 1..2
         /\ DOMAIN u # {} <=> k \in DOMAIN a \/ k \in DOMAIN b
         /\ \A j \in DOMAIN u : u[j] = "a" => k \in DOMAIN a
         /\ k \in DOMAIN a /\ k \notin NaNs => u = <<"a">>
<1> DEFINE u == Units(k, a, b, tie)
<1>1. CASE k \in NaNs /\ k \in (DOMAIN a) \cap DOMAIN b
  <2>1. u = tie
    BY <1>1 DEF Units
  <2>2. DOMAIN tie = 1..2 \/ DOMAIN tie = 1..1
    BY DEF Ties
  <2> QED BY <1>1, <2>1, <2>2
<1>2. CASE ~(k \in NaNs /\ k \in (DOMAIN a) \cap DOMAIN b) /\ k \in DOMAIN a
  <2>1. u = <<"a">>
    BY <1>2 DEF Units
  <2> QED BY <1>2, <2>1
<1>3. CASE k \notin DOMAIN a /\ k \in DOMAIN b
  <2>1. u = <<"b">>
    BY <1>3 DEF Units
  <2> QED BY <1>3, <2>1
<1>4. CASE k \notin DOMAIN a /\ k \notin DOMAIN b
  <2>1. u = <<>>
    BY <1>4 DEF Units
  <2> QED BY <1>4, <2>1
<1> QED BY <1>1, <1>2, <1>3, <1>4

\* The item of the j-th unit of the i-th key.
Unit(it, tie, i) == Units(KeyOrder[i], heap[it.x].kids, heap[it.y].kids, tie)
MapSegment(it, i, j) == Segment(<<it.x, it.y>>, 2 * i + j, KeyOrder[i])
MapItem(it, tie, i, j) ==
  LET k    == KeyOrder[i]
      path == Append(it.path, MapSegment(it, i, j))
      at   == <<it.x, it.y, k>>
  IN IF Unit(it, tie, i)[j] = "a" /\ Found(k, heap[it.y].kids)
     THEN Item(heap[it.x].kids[k], heap[it.y].kids[k], path, at) ELSE Line(path, at)

LEMMA KeyFacts ==
  /\ DOMAIN KeyOrder = 1..Len(KeyOrder) /\ Len(KeyOrder) \in Nat
  /\ \A i \in DOMAIN KeyOrder : i \in Nat /\ KeyOrder[i] \in Keys
  /\ \A k \in Keys : \E i \in DOMAIN KeyOrder : KeyOrder[i] = k
<1>1. KeyOrder \in Seq(Keys)
  BY Names
<1>2. \A k \in Keys : \E i \in DOMAIN KeyOrder : KeyOrder[i] = k
  BY DEF Keys
<1> QED BY <1>1, <1>2

LEMMA MapUnit ==
  ASSUME NEW it, NEW tie \in Ties, NEW i
  PROVE  /\ DOMAIN Unit(it, tie, i) \subseteq 1..2
         /\ DOMAIN Unit(it, tie, i) # {}
              <=> KeyOrder[i] \in DOMAIN heap[it.x].kids \/ KeyOrder[i] \in DOMAIN heap[it.y].kids
         /\ \A j \in DOMAIN Unit(it, tie, i) : Unit(it, tie, i)[j] = "a" => KeyOrder[i] \in DOMAIN heap[it.x].kids
         /\ KeyOrder[i] \in DOMAIN heap[it.x].kids /\ KeyOrder[i] \notin NaNs => Unit(it, tie, i) = <<"a">>
<1> DEFINE a == heap[it.x].kids
           b == heap[it.y].kids
           k == KeyOrder[i]
<1>1. Unit(it, tie, i) = Units(k, a, b, tie)
  BY DEF Unit
<1>2. /\ DOMAIN Units(k, a, b, tie) \subseteq 1..2
      /\ DOMAIN Units(k, a, b, tie) # {} <=> k \in DOMAIN a \/ k \in DOMAIN b
      /\ \A j \in DOMAIN Units(k, a, b, tie) : Units(k, a, b, tie)[j] = "a" => k \in DOMAIN a
      /\ k \in DOMAIN a /\ k \notin NaNs => Units(k, a, b, tie) = <<"a">>
  <2> HIDE DEF k, a, b
  <2> QED BY UnitFacts, Zenon
<1> QED BY <1>1, <1>2

LEMMA MapItemFacts ==
  ASSUME TypeInv, NEW it, Comparable(it), heap[it.x].kind = "map", NEW tie \in Ties,
         NEW i \in DOMAIN KeyOrder, NEW j \in DOMAIN Unit(it, tie, i)
  PROVE  LET e == MapItem(it, tie, i, j)
             k == KeyOrder[i]
         IN /\ e \in Items /\ MapSegment(it, i, j) \in Segments
            /\ e.path = Append(it.path, MapSegment(it, i, j)) /\ e.at = <<it.x, it.y, k>>
            /\ e.line <=> ~(Unit(it, tie, i)[j] = "a" /\ Found(k, heap[it.y].kids))
            /\ ~e.line => e.x = heap[it.x].kids[k] /\ e.y = heap[it.y].kids[k]
<1> DEFINE x == it.x
           y == it.y
           a == heap[x].kids
           b == heap[y].kids
           k == KeyOrder[i]
           path == Append(it.path, MapSegment(it, i, j))
           at == <<x, y, k>>
           e == MapItem(it, tie, i, j)
<1>1. x \in Nodes /\ y \in Nodes /\ it \in Items
  BY DEF Comparable
<1>2. a \in [DOMAIN a -> Values] /\ b \in [DOMAIN b -> Values]
  BY MapFacts
<1>3. j \in Nat /\ i \in Nat /\ 2 * i + j \in Nat /\ k \in Keys
  <2>1. j \in 1..2
    BY MapUnit
  <2> QED BY <2>1, KeyFacts
<1>4. path \in Seq(Segments) /\ at \in Places /\ MapSegment(it, i, j) \in Segments
  <2>1. <<x, y>> \in Pairs
    BY <1>1 DEF Pairs
  <2> QED BY <1>1, <1>3, <2>1, PathTypes DEF MapSegment, Segment, Segments
<1> HIDE DEF path, at
<1>5. CASE Unit(it, tie, i)[j] = "a" /\ Found(k, b)
  <2> DEFINE one == Item(a[k], b[k], path, at)
  <2>1. a[k] \in Values /\ b[k] \in Values
    <3>1. k \in DOMAIN a /\ k \in DOMAIN b
      BY <1>5, MapUnit DEF Found
    <3> QED BY <1>2, <3>1
  <2>2. one \in Items
    BY <1>4, <2>1, ItemType
  <2>3. ~one.line /\ one.x = a[k] /\ one.y = b[k] /\ one.path = path /\ one.at = at
    BY DEF Item
  <2>4. e = one
    BY <1>5, Zenon DEF MapItem, path, at
  <2> HIDE DEF one, e
  <2> QED BY <1>4, <1>5, <2>2, <2>3, <2>4 DEF e, path, at
<1>6. CASE ~(Unit(it, tie, i)[j] = "a" /\ Found(k, b))
  <2> DEFINE one == Line(path, at)
  <2>1. e = one
    BY <1>6, Zenon DEF MapItem, path, at
  <2>2. one \in Items /\ one.line
    BY <1>4, LineType
  <2>3. one.path = path /\ one.at = at
    BY DEF Line
  <2> HIDE DEF one, e
  <2> QED BY <1>4, <1>6, <2>1, <2>2, <2>3 DEF e, path, at
<1> QED BY <1>5, <1>6

\* walkMap lists units, and for each key that has one at least one of them.
LEMMA MapItemsAre ==
  ASSUME TypeInv, NEW it, Comparable(it), heap[it.x].kind = "map", NEW tie \in Ties
  PROVE  LET items == MapItems(it, tie) IN
         /\ items \in Seq(Items)
         /\ \A e : Holds(items, e) =>
              \E i \in DOMAIN KeyOrder : \E j \in DOMAIN Unit(it, tie, i) : e = MapItem(it, tie, i, j)
         /\ \A i \in DOMAIN KeyOrder : DOMAIN Unit(it, tie, i) # {} =>
              \E j \in DOMAIN Unit(it, tie, i) : Holds(items, MapItem(it, tie, i, j))
<1> DEFINE units(i) == Unit(it, tie, i)
           item(i, j) == MapItem(it, tie, i, j)
           those(i, own) == {j \in DOMAIN units(i) : (units(i)[j] # "b") = own}
           row(i, own) == IF those(i, own) = {} THEN <<>> ELSE <<item(i, CHOOSE j \in those(i, own) : TRUE)>>
           rows(own) == [i \in DOMAIN KeyOrder |-> row(i, own)]
           items == MapItems(it, tie)
<1>1. items = FlattenSeq(rows(TRUE)) \o FlattenSeq(rows(FALSE))
  BY Zenon DEF MapItems, Unit, MapItem, MapSegment
<1>6. ASSUME NEW i \in DOMAIN KeyOrder, NEW j \in DOMAIN units(i) PROVE item(i, j) \in Items
  BY MapItemFacts
<1> HIDE DEF units, item
<1>7. ASSUME NEW own \in BOOLEAN, NEW i \in DOMAIN KeyOrder
      PROVE  /\ row(i, own) \in Seq(Items)
             /\ \A e : Holds(row(i, own), e) => \E j \in DOMAIN units(i) : e = item(i, j)
             /\ those(i, own) # {} => \E j \in DOMAIN units(i) : Holds(row(i, own), item(i, j))
  <2>1. CASE those(i, own) = {}
    <3>1. row(i, own) = <<>>
      BY <2>1
    <3> HIDE DEF row, those
    <3> QED BY <2>1, <3>1 DEF Holds
  <2>2. CASE those(i, own) # {}
    <3> DEFINE j == CHOOSE j \in those(i, own) : TRUE
    <3>1. j \in those(i, own)
      <4> HIDE DEF those
      <4> QED BY <2>2
    <3>2. j \in DOMAIN units(i)
      BY <3>1
    <3>3. row(i, own) = <<item(i, j)>>
      BY <2>2
    <3>4. item(i, j) \in Items
      BY <1>6, <3>2
    <3> HIDE DEF row, those, j
    <3>5. row(i, own) \in Seq(Items) /\ \A e : Holds(row(i, own), e) <=> e = item(i, j)
      BY <3>3, <3>4 DEF Holds
    <3> QED BY <3>2, <3>5
  <2> QED BY <2>1, <2>2
<1>8. \A i \in DOMAIN KeyOrder : DOMAIN units(i) # {} => those(i, TRUE) # {} \/ those(i, FALSE) # {}
  <2> SUFFICES ASSUME NEW i \in DOMAIN KeyOrder, NEW j \in DOMAIN units(i)
               PROVE  those(i, TRUE) # {} \/ those(i, FALSE) # {}
    BY Zenon
  <2>1. CASE units(i)[j] = "b"
    BY <2>1
  <2>2. CASE units(i)[j] # "b"
    BY <2>2
  <2> QED BY <2>1, <2>2
<1> HIDE DEF row, those
<1>9. ASSUME NEW own \in BOOLEAN
      PROVE  /\ FlattenSeq(rows(own)) \in Seq(Items)
             /\ \A e : Holds(FlattenSeq(rows(own)), e) <=> \E i \in DOMAIN KeyOrder : Holds(row(i, own), e)
  <2>1. /\ rows(own) \in [1..Len(KeyOrder) -> Seq(Items)] /\ DOMAIN rows(own) = DOMAIN KeyOrder
        /\ \A i \in DOMAIN KeyOrder : rows(own)[i] = row(i, own)
    BY KeyFacts, <1>7
  <2> HIDE DEF rows
  <2>2. rows(own) \in Seq(Seq(Items))
    BY KeyFacts, <2>1
  <2> QED BY <2>1, <2>2, FlattenHolds
<1> HIDE DEF rows
<1>10. /\ items \in Seq(Items)
       /\ \A e : Holds(items, e) <=> Holds(FlattenSeq(rows(TRUE)), e) \/ Holds(FlattenSeq(rows(FALSE)), e)
  <2> DEFINE p == FlattenSeq(rows(TRUE))
             q == FlattenSeq(rows(FALSE))
  <2>1. p \in Seq(Items) /\ q \in Seq(Items)
    BY <1>9
  <2>2. items = p \o q
    BY <1>1
  <2> HIDE DEF items, p, q
  <2>3. items \in Seq(Items) /\ \A e : Holds(items, e) <=> Holds(p, e) \/ Holds(q, e)
    BY <2>1, <2>2, ConcatHolds
  <2> QED BY <2>3 DEF p, q
<1> HIDE DEF items
<1>11. \A e : Holds(items, e) => \E i \in DOMAIN KeyOrder : \E j \in DOMAIN units(i) : e = item(i, j)
  <2> SUFFICES ASSUME NEW e, Holds(items, e)
               PROVE  \E i \in DOMAIN KeyOrder : \E j \in DOMAIN units(i) : e = item(i, j)
    OBVIOUS
  <2>1. PICK own \in BOOLEAN : Holds(FlattenSeq(rows(own)), e)
    BY <1>10
  <2>2. PICK i \in DOMAIN KeyOrder : Holds(row(i, own), e)
    BY <1>9, <2>1
  <2> QED BY <1>7, <2>2
<1>12. \A i \in DOMAIN KeyOrder : DOMAIN units(i) # {} => \E j \in DOMAIN units(i) : Holds(items, item(i, j))
  <2> SUFFICES ASSUME NEW i \in DOMAIN KeyOrder, DOMAIN units(i) # {}
               PROVE  \E j \in DOMAIN units(i) : Holds(items, item(i, j))
    OBVIOUS
  <2>1. PICK own \in BOOLEAN : those(i, own) # {}
    BY <1>8
  <2>2. PICK j \in DOMAIN units(i) : Holds(row(i, own), item(i, j))
    BY <1>7, <2>1
  <2>3. Holds(FlattenSeq(rows(own)), item(i, j))
    BY <1>9, <2>2
  <2> QED BY <1>10, <2>3
<1> QED BY <1>10, <1>11, <1>12 DEF items, units, item

LEMMA ListedMaps ==
  ASSUME TypeInv, NEW it, Comparable(it), heap[it.x].kind = "map", NEW tie \in Ties
  PROVE  MapItems(it, tie) \in Seq(Items) /\ Tells(MapItems(it, tie), it.x, it.y)
<1> DEFINE x == it.x
           y == it.y
           a == heap[x].kids
           b == heap[y].kids
           units(i) == Unit(it, tie, i)
           item(i, j) == MapItem(it, tie, i, j)
           items == MapItems(it, tie)
<1>1. /\ items \in Seq(Items)
      /\ \A e : Holds(items, e) => \E i \in DOMAIN KeyOrder : \E j \in DOMAIN units(i) : e = item(i, j)
      /\ \A i \in DOMAIN KeyOrder :
           DOMAIN units(i) # {} => \E j \in DOMAIN units(i) : Holds(items, item(i, j))
  BY MapItemsAre
<1>2. DOMAIN a \subseteq Keys /\ DOMAIN b \subseteq Keys
  BY MapFacts
<1>3. ASSUME NEW i
      PROVE  /\ DOMAIN units(i) # {} <=> KeyOrder[i] \in DOMAIN a \/ KeyOrder[i] \in DOMAIN b
             /\ \A j \in DOMAIN units(i) : units(i)[j] = "a" => KeyOrder[i] \in DOMAIN a
             /\ KeyOrder[i] \in DOMAIN a /\ KeyOrder[i] \notin NaNs => units(i) = <<"a">>
  BY MapUnit
<1>4. ASSUME NEW i \in DOMAIN KeyOrder, NEW j \in DOMAIN units(i)
      PROVE  /\ item(i, j).line <=> ~(units(i)[j] = "a" /\ Found(KeyOrder[i], b))
             /\ ~item(i, j).line => item(i, j).x = a[KeyOrder[i]] /\ item(i, j).y = b[KeyOrder[i]]
  BY MapItemFacts
<1> HIDE DEF items, units, item
<1>13. HasLine(items) \/ (SameShape(x, y) /\ \A k \in DOMAIN a : Waits(items, a[k], b[k]))
  <2> SUFFICES ASSUME ~HasLine(items)
               PROVE  SameShape(x, y) /\ \A k \in DOMAIN a : Waits(items, a[k], b[k])
    OBVIOUS
  <2>1. ASSUME NEW k, k \in DOMAIN a \/ k \in DOMAIN b
        PROVE  k \in DOMAIN a /\ k \in DOMAIN b /\ k \notin NaNs /\ Waits(items, a[k], b[k])
    <3>1. PICK i \in DOMAIN KeyOrder : KeyOrder[i] = k
      BY <1>2, KeyFacts, <2>1
    <3>2. DOMAIN units(i) # {}
      BY <1>3, <2>1, <3>1
    <3>3. PICK j \in DOMAIN units(i) : Holds(items, item(i, j))
      BY <1>1, <3>2
    <3>4. ~item(i, j).line
      BY <3>3, ByElements
    <3>5. units(i)[j] = "a" /\ Found(k, b) /\ item(i, j).x = a[k] /\ item(i, j).y = b[k]
      BY <1>4, <3>1, <3>4
    <3>6. Waits(items, a[k], b[k])
      BY <3>3, <3>4, <3>5, Zenon DEF Waits, Holds
    <3> QED BY <1>3, <3>1, <3>5, <3>6 DEF Found
  <2>2. DOMAIN a = DOMAIN b /\ DOMAIN a \cap NaNs = {}
    BY <2>1
  <2>3. SameShape(x, y)
    BY <2>2 DEF SameShape, Comparable
  <2> QED BY <2>1, <2>3
<1>14. ASSUME SameShape(x, y), NEW l \in DOMAIN items
       PROVE  ~items[l].line /\ \E k \in DOMAIN a : items[l].x = a[k] /\ items[l].y = b[k]
  <2>1. DOMAIN a = DOMAIN b /\ DOMAIN a \cap NaNs = {}
    BY <1>14 DEF SameShape
  <2>2. PICK i \in DOMAIN KeyOrder : \E j \in DOMAIN units(i) : items[l] = item(i, j)
    BY <1>1, Zenon DEF Holds
  <2>3. PICK j \in DOMAIN units(i) : items[l] = item(i, j)
    BY <2>2
  <2>4. KeyOrder[i] \in DOMAIN a /\ KeyOrder[i] \notin NaNs
    BY <1>3, <2>1
  <2>5. units(i) = <<"a">> /\ units(i)[j] = "a"
    <3>1. units(i) = <<"a">>
      BY <1>3, <2>4
    <3> QED BY <3>1
  <2>6. Found(KeyOrder[i], b)
    BY <2>1, <2>4 DEF Found
  <2>7. ~item(i, j).line /\ item(i, j).x = a[KeyOrder[i]] /\ item(i, j).y = b[KeyOrder[i]]
    BY <1>4, <2>5, <2>6
  <2> QED BY <2>3, <2>4, <2>7
<1> QED BY <1>1, <1>13, <1>14 DEF Tells, items

\* A probe's items are those of the walk, without what a path would need.
LEMMA PathlessTells ==
  ASSUME NEW items \in Seq(Items), NEW x, NEW y, Tells(items, x, y)
  PROVE  Pathless(items) \in Seq(Items) /\ Tells(Pathless(items), x, y)
<1> DEFINE s == Pathless(items)
<1>1. \A i \in DOMAIN items : s[i] = [items[i] EXCEPT !.path = <<>>, !.at = <<>>]
  BY DEF Pathless
<1>2. DOMAIN s = DOMAIN items /\ DOMAIN items = 1..Len(items) /\ Len(items) \in Nat
  BY DEF Pathless
<1>3. ASSUME NEW i \in DOMAIN items
      PROVE  /\ s[i] \in Items /\ s[i].line = items[i].line
             /\ s[i].x = items[i].x /\ s[i].y = items[i].y
  <2>1. items[i] \in Items
    OBVIOUS
  <2>2. <<>> \in Places /\ <<>> \in Seq(Segments)
    BY DEF Places
  <2> HIDE DEF s
  <2> QED BY <1>1, <2>1, <2>2 DEF Items
<1>4. s \in Seq(Items)
  <2>1. s \in [1..Len(items) -> Items]
    BY <1>2, <1>3 DEF Pathless
  <2> HIDE DEF s
  <2> QED BY <1>2, <2>1
<1> HIDE DEF s
<1>5. HasLine(items) => HasLine(s)
  BY <1>2, <1>3 DEF HasLine
<1>6. \A v, w : Waits(items, v, w) => Waits(s, v, w)
  <2> SUFFICES ASSUME NEW v, NEW w, Waits(items, v, w) PROVE Waits(s, v, w)
    OBVIOUS
  <2>1. PICK i \in DOMAIN items : ~items[i].line /\ items[i].x = v /\ items[i].y = w
    BY DEF Waits
  <2> QED BY <1>2, <1>3, <2>1 DEF Waits
<1>7. Tells(s, x, y)
  <2>1. HasLine(s) \/ (SameShape(x, y) /\ \A k \in DOMAIN heap[x].kids : Waits(s, heap[x].kids[k], heap[y].kids[k]))
    BY <1>5, <1>6 DEF Tells
  <2>2. ASSUME SameShape(x, y), NEW i \in DOMAIN s
        PROVE  ~s[i].line /\ \E k \in DOMAIN heap[x].kids : s[i].x = heap[x].kids[k] /\ s[i].y = heap[y].kids[k]
    BY <1>2, <1>3, <2>2 DEF Tells
  <2> QED BY <2>1, <2>2 DEF Tells
<1> QED BY <1>4, <1>7 DEF s

LEMMA BelowTells ==
  ASSUME TypeInv, NEW it, Comparable(it), NEW probing \in BOOLEAN, NEW items \in Below(it, probing)
  PROVE  items \in Seq(Items) /\ Tells(items, it.x, it.y)
<1>1. Kind(it.x) = heap[it.x].kind /\ it.x \in Nodes
  BY DEF Comparable
<1>2. heap[it.x].kind \in {"ptr", "slice", "map", "struct", "opaque"}
  BY <1>1, ShapeFacts
<1>3. CASE heap[it.x].kind = "ptr"
  <2>1. items = <<Item(heap[it.x].kids[1], heap[it.y].kids[1], it.path, <<it.x, it.y, 1>>)>>
    BY <1>1, <1>3 DEF Below
  <2> QED BY <1>3, <2>1, Pointers
<1>4. CASE heap[it.x].kind \in {"struct", "opaque"}
  <2>1. items = [i \in 1..2 |-> Child(it, i)]
    BY <1>1, <1>4 DEF Below
  <2>2. heap[it.x].kids \in [1..2 -> Values] /\ heap[it.y].kids \in [1..2 -> Values]
    BY <1>4, ShapeFacts DEF Comparable
  <2> QED BY <2>1, <2>2, InOrder
<1>5. CASE heap[it.x].kind = "slice"
  <2>1. items = ListItems(it)
    BY <1>1, <1>5 DEF Below
  <2> QED BY <1>5, <2>1, Slices
<1>6. CASE heap[it.x].kind = "map" /\ probing
  <2>1. items \in ProbeMapItems(it)
    BY <1>1, <1>6 DEF Below
  <2> QED BY <1>6, <2>1, ProbedMaps
<1>7. CASE heap[it.x].kind = "map" /\ ~probing
  <2>1. PICK tie \in Ties : items = MapItems(it, tie)
    BY <1>1, <1>7 DEF Below
  <2> QED BY <1>7, <2>1, ListedMaps
<1> QED BY <1>2, <1>3, <1>4, <1>5, <1>6, <1>7

-----------------------------------------------------------------------------
(* What a step on the first item leaves of the walk.                       *)

LEMMA Empty == <<>> \in Seq(Items) /\ Fine(<<>>) /\ \A s \in Seq(Items) : <<>> \o s = s
BY DEF Fine

LEMMA DropFine ==
  ASSUME NEW s \in Seq(Items), s # <<>>, Fine(s)
  PROVE  Fine(Tail(s))
<1>1. Fine(<<>> \o Tail(s))
  BY FineStep, Empty
<1>2. <<>> \o Tail(s) = Tail(s)
  BY SeqStep, Empty
<1> QED BY <1>1, <1>2

\* Two scalars that are equal.
LEMMA EndStep ==
  ASSUME NEW s \in Seq(Items), s # <<>>, ~Head(s).line,
         Scalars(Head(s).x, Head(s).y), ~Disagree(Head(s).x, Head(s).y),
         NEW seen \in SUBSET Pairs, NEW v, NEW w, Explained(seen, s, v, w)
  PROVE  Explained(seen, Tail(s), v, w)
<1>1. Head(s).x \in Values
  BY SeqStep, Empty DEF Items
<1>2. Agree(seen \cup {}, Head(s).x, Head(s).y)
  BY <1>1, ScalarsEnd
<1>3. Supported({}, <<>>) /\ Settled(seen \cup {}, <<>>, Head(s).x, Head(s).y)
  BY <1>2 DEF Supported, Settled
<1>4. Explained(seen, <<>> \o Tail(s), v, w)
  BY <1>3, ExplainStep, Empty
<1> QED BY <1>4, SeqStep, Empty

\* Nil on both sides, one reference on both sides, and a pair met before.
LEMMA MetStep ==
  ASSUME TypeInv, NEW s \in Seq(Items), s # <<>>, ~Head(s).line, ~Scalars(Head(s).x, Head(s).y),
         heap[Head(s).x].null = heap[Head(s).y].null,
         NEW seen \in SUBSET Pairs, Met(Head(s).x, Head(s).y, seen),
         NEW v, NEW w, Explained(seen, s, v, w)
  PROVE  Explained(seen, Tail(s), v, w)
<1> DEFINE x == Head(s).x
           y == Head(s).y
<1>1. x \in Nodes /\ y \in Nodes /\ Kind(x) = Kind(y)
  BY PairFacts
<1> HIDE DEF x, y
<1>2. \E E \in SUBSET Pairs : Supported(E, <<>>) /\ <<x, y>> \in seen \cup E
  <2>1. CASE heap[x].null
    <3>1. heap[x].kids = <<>> /\ heap[y].kids = <<>>
      BY <1>1, <2>1, ShapeFacts DEF x, y
    <3>2. DOMAIN heap[x].kids = {} /\ SameShape(x, y)
      BY <1>1, <3>1 DEF SameShape, x, y
    <3>3. Supported({<<x, y>>}, <<>>)
      BY <3>2 DEF Supported
    <3> QED BY <1>1, <3>3 DEF Pairs
  <2>2. CASE x = y /\ Kind(x) \in References
    <3>1. Supported({<<x, y>>}, <<>>)
      BY <2>2 DEF Supported
    <3> QED BY <1>1, <3>1 DEF Pairs
  <2>3. CASE <<x, y>> \in seen
    <3>1. Supported({}, <<>>)
      BY DEF Supported
    <3> QED BY <2>3, <3>1
  <2> QED BY <2>1, <2>2, <2>3 DEF Met, x, y
<1>3. PICK E \in SUBSET Pairs : Supported(E, <<>>) /\ <<x, y>> \in seen \cup E
  BY <1>2
<1>4. Settled(seen \cup E, <<>>, x, y)
  BY <1>3 DEF Settled, Agree
<1>5. Explained(seen, <<>> \o Tail(s), v, w)
  BY <1>3, <1>4, ExplainStep, Empty DEF x, y
<1> QED BY <1>5, SeqStep, Empty

\* A pair that is taken apart.
LEMMA ApartPair ==
  ASSUME TypeInv, NEW s \in Seq(Items), s # <<>>, ~Head(s).line, ~Scalars(Head(s).x, Head(s).y),
         heap[Head(s).x].null = heap[Head(s).y].null, NEW seen, ~Met(Head(s).x, Head(s).y, seen)
  PROVE  Comparable(Head(s))
<1>1. Head(s).x \in Nodes /\ Head(s).y \in Nodes
  BY PairFacts
<1>2. Kind(Head(s).x) = Kind(Head(s).y) /\ Kind(Head(s).x) = heap[Head(s).x].kind
  BY PairFacts
<1>3. Kind(Head(s).y) = heap[Head(s).y].kind
  BY <1>1 DEF Kind
<1>4. ~heap[Head(s).x].null
  BY DEF Met
<1>5. Head(s) \in Items
  BY SeqStep, Empty
<1> QED BY <1>1, <1>2, <1>3, <1>4, <1>5 DEF Comparable

LEMMA ApartStep ==
  ASSUME TypeInv, NEW s \in Seq(Items), s # <<>>, ~Head(s).line, ~Scalars(Head(s).x, Head(s).y),
         heap[Head(s).x].null = heap[Head(s).y].null,
         NEW seen \in SUBSET Pairs, ~Met(Head(s).x, Head(s).y, seen),
         NEW probing \in BOOLEAN, NEW ahead \in Below(Head(s), probing)
  PROVE  /\ ahead \in Seq(Items) /\ Tells(ahead, Head(s).x, Head(s).y)
         /\ Head(s).x \in Nodes /\ Head(s).y \in Nodes
<1>1. Head(s).x \in Nodes /\ Head(s).y \in Nodes
  BY PairFacts
<1>2. Comparable(Head(s))
  BY ApartPair
<1> QED BY <1>1, <1>2, BelowTells

LEMMA ApartExplains ==
  ASSUME NEW s \in Seq(Items), s # <<>>, ~Head(s).line,
         NEW ahead \in Seq(Items), Tells(ahead, Head(s).x, Head(s).y),
         Head(s).x \in Nodes, Head(s).y \in Nodes,
         NEW seen, NEW after, after \subseteq seen \cup {<<Head(s).x, Head(s).y>>},
         NEW v, NEW w, Explained(seen, s, v, w)
  PROVE  Explained(after, ahead \o Tail(s), v, w)
<1> DEFINE x == Head(s).x
           y == Head(s).y
           E == {<<x, y>>}
<1>1. E \in SUBSET Pairs
  BY DEF Pairs
<1>2. CASE HasLine(ahead)
  <2> HIDE DEF E
  <2> QED BY <1>1, <1>2, ExplainStep DEF E
<1>3. CASE ~HasLine(ahead)
  <2>1. SameShape(x, y) /\ \A k \in DOMAIN heap[x].kids : Waits(ahead, heap[x].kids[k], heap[y].kids[k])
    BY <1>3 DEF Tells
  <2>2. Supported(E, ahead)
    BY <2>1 DEF Supported, Settled
  <2>3. Settled(seen \cup E, ahead, x, y)
    BY DEF Settled, Agree
  <2>4. after \subseteq seen \cup E
    OBVIOUS
  <2> HIDE DEF E
  <2> QED BY <1>1, <2>2, <2>3, <2>4, ExplainStep
<1> QED BY <1>2, <1>3

LEMMA ApartFine ==
  ASSUME NEW s \in Seq(Items), s # <<>>, Fine(s), NEW seen, ~Met(Head(s).x, Head(s).y, seen),
         NEW ahead \in Seq(Items), Tells(ahead, Head(s).x, Head(s).y), Head(s).x \in Nodes
  PROVE  Fine(ahead \o Tail(s))
<1> DEFINE x == Head(s).x
           y == Head(s).y
<1>1. <<x, y>> \in Equals
  BY FineStep, CompositeAgrees
<1>2. ~(x = y /\ Kind(x) \in References)
  BY DEF Met
<1>3. SameShape(x, y) /\ \A k \in DOMAIN heap[x].kids : Agree(Equals, heap[x].kids[k], heap[y].kids[k])
  BY <1>1, <1>2, EqualPair
<1>4. Fine(ahead)
  BY <1>3 DEF Fine, Tells
<1> QED BY <1>4, FineStep

\* A pair of equal values, whether it is put off or passed over.
LEMMA EqualStep ==
  ASSUME NEW s \in Seq(Items), s # <<>>, ~Head(s).line, <<Head(s).x, Head(s).y>> \in Equals,
         NEW ahead \in Seq(Items), NEW seen, NEW v, NEW w, Explained(seen, s, v, w)
  PROVE  Explained(seen, ahead \o Tail(s), v, w)
<1>1. Equals \in SUBSET Pairs
  BY DEF Equals
<1>2. Supported(Equals, ahead)
  <2>1. \A a, b : Agree(Equals, a, b) => Settled(Equals, ahead, a, b)
    BY DEF Settled
  <2> QED BY <2>1, EqualsShape DEF Supported
<1>3. Settled(seen \cup Equals, ahead, Head(s).x, Head(s).y)
  BY DEF Settled, Agree
<1> QED BY <1>1, <1>2, <1>3, ExplainStep

\* Nothing waits and nothing was said: the values are equal.
LEMMA NothingLeft ==
  ASSUME NEW seen, NEW v \in Nodes, NEW w \in Nodes, Explained(seen, <<>>, v, w)
  PROVE  <<v, w>> \in Equals
<1>1. ~HasLine(<<>>) /\ \A a, b : ~Waits(<<>>, a, b)
  BY DEF HasLine, Waits
<1>2. PICK R \in SUBSET Pairs : Supported(R, <<>>) /\ Settled(R, <<>>, v, w)
  BY <1>1 DEF Explained
<1>3. Agree(R, v, w) /\ \A a, b : Settled(R, <<>>, a, b) => Agree(R, a, b)
  BY <1>1, <1>2 DEF Settled
<1>4. Consistent(R)
  BY <1>2, <1>3, Zenon DEF Supported, Consistent, SameShape
<1>5. <<v, w>> \in R
  BY <1>3, CompositeAgrees
<1> QED BY <1>4, <1>5, <1>2, ConsistentEquals

-----------------------------------------------------------------------------
(* The heap never changes.                                                 *)

LEMMA EqualsKeep ==
  ASSUME heap' = heap
  PROVE  Equals' = Equals
BY DEF Equals, DeepEqual, Consistent, Agree, Kind

LEMMA ExplainedKeeps ==
  ASSUME heap' = heap, Explained(visited', todo', First, Second)
  PROVE  Explained(visited, todo, First, Second)'
<1>1. CASE HasLine(todo')
  BY <1>1 DEF Explained, HasLine
<1>2. CASE ~HasLine(todo')
  <2>1. PICK R \in SUBSET Pairs : visited' \subseteq R /\ Supported(R, todo') /\ Settled(R, todo', First, Second)
    BY <1>2 DEF Explained
  <2>2. Settled(R, todo, First, Second)'
    BY <2>1 DEF Settled, Agree, Waits
  <2>3. Supported(R, todo)'
    <3> DEFINE Same(p) ==
                 \/ p[1] = p[2] /\ Kind(p[1]) \in References
                 \/ /\ SameShape(p[1], p[2])
                    /\ \A k \in DOMAIN heap[p[1]].kids : Settled(R, todo, heap[p[1]].kids[k], heap[p[2]].kids[k])
    <3> SUFFICES ASSUME NEW p \in R PROVE Same(p)'
      BY DEF Supported
    <3>1. \/ p[1] = p[2] /\ Kind(p[1]) \in References
          \/ /\ SameShape(p[1], p[2])
             /\ \A k \in DOMAIN heap[p[1]].kids : Settled(R, todo', heap[p[1]].kids[k], heap[p[2]].kids[k])
      BY <2>1 DEF Supported
    <3> QED BY <3>1 DEF Settled, Agree, Waits, SameShape, Kind
  <2> QED BY <2>1, <2>2, <2>3 DEF Explained
<1> QED BY <1>1, <1>2

LEMMA ExplainedProbeKeeps ==
  ASSUME heap' = heap, NEW v, NEW w, v = Current.x', w = Current.y', Explained(subSeen', sub', v, w)
  PROVE  Explained(subSeen, sub, Current.x, Current.y)'
<1>1. CASE HasLine(sub')
  BY <1>1 DEF Explained, HasLine
<1>2. CASE ~HasLine(sub')
  <2>1. PICK R \in SUBSET Pairs : subSeen' \subseteq R /\ Supported(R, sub') /\ Settled(R, sub', v, w)
    BY <1>2 DEF Explained
  <2>2. Settled(R, sub, Current.x, Current.y)'
    BY <2>1 DEF Settled, Agree, Waits
  <2>3. Supported(R, sub)'
    <3> DEFINE Same(p) ==
                 \/ p[1] = p[2] /\ Kind(p[1]) \in References
                 \/ /\ SameShape(p[1], p[2])
                    /\ \A k \in DOMAIN heap[p[1]].kids : Settled(R, sub, heap[p[1]].kids[k], heap[p[2]].kids[k])
    <3> SUFFICES ASSUME NEW p \in R PROVE Same(p)'
      BY DEF Supported
    <3>1. \/ p[1] = p[2] /\ Kind(p[1]) \in References
          \/ /\ SameShape(p[1], p[2])
             /\ \A k \in DOMAIN heap[p[1]].kids : Settled(R, sub', heap[p[1]].kids[k], heap[p[2]].kids[k])
      BY <2>1 DEF Supported
    <3> QED BY <3>1 DEF Settled, Agree, Waits, SameShape, Kind
  <2> QED BY <2>1, <2>2, <2>3 DEF Explained
<1> QED BY <1>1, <1>2

LEMMA FineKeeps ==
  ASSUME heap' = heap
  PROVE  (Fine(todo') => Fine(todo)') /\ (Fine(sub') => Fine(sub)')
BY EqualsKeep DEF Fine, Agree

-----------------------------------------------------------------------------
(* The actions.                                                            *)

LEMMA WalkKeeps ==
  ASSUME heap' = heap,
         entries' = <<>> => Explained(visited', todo', First, Second),
         <<First, Second>> \in Equals => entries' = <<>> /\ Fine(todo')
  PROVE  WalkInv'
<1>1. entries' = <<>> => Explained(visited, todo, First, Second)'
  BY ExplainedKeeps
<1>2. (<<First, Second>> \in Equals)' => entries' = <<>> /\ Fine(todo)'
  BY EqualsKeep, FineKeeps
<1> QED BY <1>1, <1>2 DEF WalkInv

LEMMA MemoKeeps ==
  ASSUME heap' = heap, \A p \in DOMAIN probed' : probed'[p] <=> p \notin Equals
  PROVE  MemoInv'
BY EqualsKeep DEF MemoInv

\* A step between probes.
LEMMA Unasked ==
  ASSUME Inv, heap' = heap, probed' = probed, asked' = <<>>
  PROVE  AskInv' /\ ProbeInv' /\ MemoInv'
<1>1. MemoInv'
  BY MemoKeeps DEF Inv, MemoInv
<1> QED BY <1>1 DEF AskInv, ProbeInv

LEMMA AddFacts ==
  ASSUME TypeInv, ~Full, NEW it \in Items, NEW summary \in {<<>>} \cup Pairs
  PROVE  Add(it, summary) \in Seq(Lines) /\ Len(Add(it, summary)) <= Limit + 1 /\ Add(it, summary) # <<>>
<1>1. entries \in Seq(Lines) /\ Len(entries) \in Nat /\ Len(entries) <= Limit /\ Limit \in Nat
  BY Names DEF TypeInv, Full
<1>2. [path |-> it.path, at |-> it.at, below |-> summary] \in Lines
  BY DEF Items, Lines
<1>3. Add(it, summary) = Append(entries, [path |-> it.path, at |-> it.at, below |-> summary])
  BY DEF Add
<1> QED BY <1>1, <1>2, <1>3

LEMMA DueFacts ==
  ASSUME TypeInv, todo # <<>>
  PROVE  /\ Current = Head(todo) /\ Current \in Items /\ Current.x \in Values /\ Current.y \in Values
         /\ Tail(todo) \in Seq(Items)
         /\ \A ahead \in Seq(Items) : ahead \o Tail(todo) \in Seq(Items)
<1>1. todo \in Seq(Items)
  BY DEF TypeInv
<1>2. Current = Head(todo) /\ Current \in Items
  BY <1>1 DEF Current
<1>3. Tail(todo) \in Seq(Items) /\ \A ahead \in Seq(Items) : ahead \o Tail(todo) \in Seq(Items)
  BY <1>1
<1>4. Current.x \in Values /\ Current.y \in Values
  BY <1>2 DEF Items
<1> QED BY <1>2, <1>3, <1>4

LEMMA InitInv ==
  ASSUME Init
  PROVE  Inv
<1> DEFINE it == Item(First, Second, <<>>, <<>>)
<1>1. First \in Values /\ Second \in Values /\ <<>> \in Seq(Segments) /\ <<>> \in Places
  BY Names DEF Values, Places
<1>2. it \in Items
  BY <1>1, ItemType
<1>3. ~it.line /\ it.x = First /\ it.y = Second
  BY DEF Item
<1> HIDE DEF it
<1>4. todo = <<it>> /\ todo \in Seq(Items) /\ DOMAIN todo = {1} /\ todo[1] = it
  BY <1>2 DEF Init, it
<1>5. TypeInv
  <2>1. heap \in [Nodes -> Shapes]
    BY DEF Init
  <2>2. probed = <<>> /\ DOMAIN probed = {}
    BY DEF Init
  <2>3. entries \in Seq(Lines) /\ sub \in Seq(Items)
    BY DEF Init
  <2>4. visited = {} /\ subSeen = {} /\ found = FALSE
    BY DEF Init
  <2> QED BY <1>4, <2>1, <2>2, <2>3, <2>4 DEF TypeInv
<1>6. Explained({}, todo, First, Second)
  <2>1. Waits(todo, First, Second)
    BY <1>3, <1>4 DEF Waits
  <2>2. Supported({}, todo) /\ Settled({}, todo, First, Second)
    BY <2>1 DEF Supported, Settled
  <2>3. {} \in SUBSET Pairs /\ {} \subseteq {}
    OBVIOUS
  <2> QED BY <2>2, <2>3, Zenon DEF Explained
<1>7. <<First, Second>> \in Equals => Fine(todo)
  BY <1>3, <1>4 DEF Fine, Agree
<1>8. WalkInv
  BY <1>6, <1>7 DEF Init, WalkInv
<1>9. AskInv /\ ProbeInv /\ MemoInv
  BY DEF Init, AskInv, ProbeInv, MemoInv
<1>10. Len(entries) <= Limit + 1
  BY Names DEF Init
<1> QED BY <1>5, <1>8, <1>9, <1>10 DEF Inv

LEMMA AddLineInv ==
  ASSUME Inv, AddLine
  PROVE  Inv'
<1>1. /\ todo # <<>> /\ ~Full /\ asked = <<>> /\ heap' = heap /\ probed' = probed /\ visited' = visited
      /\ asked' = <<>> /\ sub' = sub /\ subSeen' = subSeen /\ found' = found
  BY DEF AddLine, Due, probe
<1>2. TypeInv /\ todo \in Seq(Items) /\ visited \in SUBSET Pairs
  BY DEF Inv, TypeInv
<1>3. todo' = Tail(todo) /\ todo' \in Seq(Items)
  BY <1>1, <1>2, DueFacts, Empty DEF AddLine, Goes
<1>4. AskInv' /\ ProbeInv' /\ MemoInv'
  BY <1>1, Unasked
<1>5. ASSUME Fine(todo) PROVE ~Current.line /\ (Scalars(Current.x, Current.y) => ~Disagree(Current.x, Current.y))
  BY <1>1, <1>2, <1>5, FineStep, Empty, DueFacts, ScalarsEnd
<1>6. CASE Current.line \/ Disagree(Current.x, Current.y)
  <2>1. entries' = Add(Current, <<>>)
    BY <1>6 DEF AddLine
  <2>2. entries' \in Seq(Lines) /\ Len(entries') <= Limit + 1 /\ entries' # <<>>
    BY <1>1, <1>2, <2>1, AddFacts, DueFacts
  <2>3. <<First, Second>> \notin Equals
    BY <1>5, <1>6 DEF Inv, WalkInv, AddLine
  <2>4. WalkInv'
    BY <1>1, <2>2, <2>3, WalkKeeps
  <2>5. TypeInv'
    BY <1>1, <1>2, <1>3, <2>2 DEF TypeInv
  <2> QED BY <1>4, <2>2, <2>4, <2>5 DEF Inv
<1>7. CASE ~(Current.line \/ Disagree(Current.x, Current.y))
  <2>1. entries' = entries
    BY <1>7 DEF AddLine
  <2>2. ~Head(todo).line /\ Scalars(Head(todo).x, Head(todo).y) /\ ~Disagree(Head(todo).x, Head(todo).y)
    BY <1>7 DEF AddLine, Current
  <2>3. ASSUME entries = <<>> PROVE Explained(visited, Tail(todo), First, Second)
    BY <1>1, <1>2, <2>2, <2>3, EndStep DEF Inv, WalkInv
  <2>4. <<First, Second>> \in Equals => entries = <<>> /\ Fine(Tail(todo))
    BY <1>1, <1>2, DropFine DEF Inv, WalkInv
  <2>5. WalkInv'
    BY <1>1, <1>3, <2>1, <2>3, <2>4, WalkKeeps
  <2>6. TypeInv' /\ Len(entries') <= Limit + 1
    BY <1>1, <1>2, <1>3, <2>1 DEF TypeInv, Inv
  <2> QED BY <1>4, <2>5, <2>6 DEF Inv
<1> QED BY <1>6, <1>7

LEMMA DescendInv ==
  ASSUME Inv, Descend
  PROVE  Inv'
<1> DEFINE x == Current.x
           y == Current.y
<1>1. /\ todo # <<>> /\ ~Full /\ asked = <<>> /\ heap' = heap /\ probed' = probed
      /\ asked' = <<>> /\ sub' = sub /\ subSeen' = subSeen /\ found' = found
      /\ ~Current.line /\ ~Scalars(x, y) /\ Current = Head(todo)
  BY DEF Descend, Composite, Due, probe, Current
<1>2. TypeInv /\ todo \in Seq(Items) /\ visited \in SUBSET Pairs /\ Len(entries) <= Limit + 1
  BY DEF Inv, TypeInv
<1>3. AskInv' /\ ProbeInv' /\ MemoInv'
  BY <1>1, Unasked
<1>4. Current \in Items /\ x \in Nodes /\ y \in Nodes /\ Kind(x) = Kind(y) /\ Tail(todo) \in Seq(Items)
  BY <1>1, <1>2, DueFacts, PairFacts
<1>5. ASSUME Fine(todo) PROVE <<x, y>> \in Equals
  BY <1>1, <1>2, <1>4, <1>5, FineStep, Empty, CompositeAgrees
<1>6. CASE heap[x].null # heap[y].null
  <2>1. entries' = Add(Current, <<>>) /\ todo' = <<>> \o Tail(todo) /\ visited' = visited
    BY <1>6 DEF Descend, Goes
  <2>2. entries' \in Seq(Lines) /\ Len(entries') <= Limit + 1 /\ entries' # <<>>
    BY <1>1, <1>2, <1>4, <2>1, AddFacts
  <2>3. <<First, Second>> \notin Equals
    BY <1>5, <1>6, EqualPair DEF Inv, WalkInv
  <2>4. WalkInv'
    BY <1>1, <2>2, <2>3, WalkKeeps
  <2>5. TypeInv'
    BY <1>1, <1>2, <1>4, <2>1, <2>2, Empty DEF TypeInv
  <2> QED BY <1>3, <2>2, <2>4, <2>5 DEF Inv
<1>7. CASE heap[x].null = heap[y].null /\ Met(x, y, visited)
  <2>1. entries' = entries /\ todo' = <<>> \o Tail(todo) /\ visited' = visited
    BY <1>7 DEF Descend, Goes
  <2>2. todo' = Tail(todo)
    BY <1>4, <2>1, Empty
  <2>3. ASSUME entries = <<>> PROVE Explained(visited, Tail(todo), First, Second)
    BY <1>1, <1>2, <1>7, <2>3, MetStep DEF Inv, WalkInv
  <2>4. <<First, Second>> \in Equals => entries = <<>> /\ Fine(Tail(todo))
    BY <1>1, <1>2, DropFine DEF Inv, WalkInv
  <2>5. WalkInv'
    BY <1>1, <2>1, <2>2, <2>3, <2>4, WalkKeeps
  <2>6. TypeInv' /\ Len(entries') <= Limit + 1
    BY <1>1, <1>2, <1>4, <2>1, <2>2 DEF TypeInv
  <2> QED BY <1>3, <2>5, <2>6 DEF Inv
<1>8. CASE heap[x].null = heap[y].null /\ ~Met(x, y, visited)
  <2>1. /\ entries' = entries /\ \E items \in Below(Current, FALSE) : todo' = items \o Tail(todo)
        /\ visited' = IF Marks(x) THEN visited \cup {<<x, y>>} ELSE visited
    BY <1>8 DEF Descend, Goes
  <2>2. PICK items \in Below(Current, FALSE) : todo' = items \o Tail(todo)
    BY <2>1
  <2>3. items \in Seq(Items) /\ Tells(items, x, y)
    BY <1>1, <1>2, <1>8, ApartStep
  <2>4. visited' \subseteq visited \cup {<<x, y>>} /\ visited' \subseteq Pairs
    BY <1>2, <1>4, <2>1 DEF Pairs
  <2>5. ASSUME entries = <<>> PROVE Explained(visited', items \o Tail(todo), First, Second)
    BY <1>1, <1>2, <1>4, <2>3, <2>4, <2>5, ApartExplains DEF Inv, WalkInv
  <2>6. <<First, Second>> \in Equals => entries = <<>> /\ Fine(items \o Tail(todo))
    BY <1>1, <1>2, <1>4, <1>8, <2>3, ApartFine DEF Inv, WalkInv
  <2>7. WalkInv'
    BY <1>1, <2>1, <2>2, <2>5, <2>6, WalkKeeps
  <2>8. todo' \in Seq(Items)
    BY <1>1, <1>2, <2>2, <2>3, DueFacts
  <2>9. TypeInv' /\ Len(entries') <= Limit + 1
    BY <1>1, <1>2, <2>1, <2>4, <2>8 DEF TypeInv
  <2> QED BY <1>3, <2>7, <2>9 DEF Inv
<1> QED BY <1>6, <1>7, <1>8

LEMMA StopInv ==
  ASSUME Inv, Stop
  PROVE  Inv'
<1>1. /\ todo # <<>> /\ Full /\ todo' = <<>> /\ heap' = heap /\ probed' = probed /\ visited' = visited
      /\ entries' = entries /\ asked' = asked /\ sub' = sub /\ subSeen' = subSeen /\ found' = found
  BY DEF Stop, probe
<1>2. asked = <<>>
  BY <1>1 DEF Inv, AskInv
<1>3. AskInv' /\ ProbeInv' /\ MemoInv'
  BY <1>1, <1>2, Unasked
<1>4. entries # <<>>
  BY <1>1, Names DEF Full
<1>5. WalkInv'
  BY <1>1, <1>4, WalkKeeps DEF Inv, WalkInv
<1>6. TypeInv' /\ Len(entries') <= Limit + 1
  BY <1>1, Empty DEF Inv, TypeInv
<1> QED BY <1>3, <1>5, <1>6 DEF Inv

\* What the walk does with the answer of a probe, new or remembered.
LEMMA AnswerWalk ==
  ASSUME TypeInv, WalkInv, todo # <<>>, ~Full, ~Current.line, ~Scalars(Current.x, Current.y),
         NEW d \in BOOLEAN, d <=> Pair(Current) \notin Equals,
         Answer(d), heap' = heap, visited' = visited
  PROVE  /\ todo' \in Seq(Items) /\ entries' \in Seq(Lines) /\ WalkInv'
         /\ Len(entries') <= Limit + 1 \/ entries' = entries
<1>1. todo \in Seq(Items) /\ visited \in SUBSET Pairs /\ entries \in Seq(Lines)
  BY DEF TypeInv
<1>2. Current = Head(todo) /\ Current \in Items /\ Current.x \in Nodes /\ Current.y \in Nodes
  BY DueFacts, PairFacts
<1>3. Pair(Current) = <<Current.x, Current.y>> /\ Pair(Current) \in Pairs
  BY <1>2 DEF Pair, Pairs
<1>4. Fine(todo) => Pair(Current) \in Equals
  BY <1>1, <1>2, <1>3, FineStep, Empty, CompositeAgrees
<1>5. CASE d
  <2>1. entries' = Add(Current, Pair(Current)) /\ todo' = <<>> \o Tail(todo)
    BY <1>5 DEF Answer, Goes
  <2>2. entries' \in Seq(Lines) /\ Len(entries') <= Limit + 1 /\ entries' # <<>>
    BY <1>2, <1>3, <2>1, AddFacts
  <2>3. <<First, Second>> \notin Equals
    BY <1>4, <1>5 DEF WalkInv
  <2>4. WalkInv'
    BY <2>2, <2>3, WalkKeeps
  <2>5. todo' \in Seq(Items)
    BY <2>1, DueFacts, Empty
  <2> QED BY <2>2, <2>4, <2>5
<1>6. CASE ~d
  <2> DEFINE again == [Current EXCEPT !.equal = TRUE]
             ahead == IF Deep(Current) THEN <<again>> ELSE <<>>
  <2>1. entries' = entries /\ todo' = ahead \o Tail(todo)
    BY <1>6 DEF Answer, Goes
  <2>2. again \in Items /\ again.line = Current.line /\ again.x = Current.x /\ again.y = Current.y
    BY <1>2 DEF Items
  <2> HIDE DEF again
  <2>3. ahead \in Seq(Items) /\ \A i \in DOMAIN ahead : ahead[i] = again
    BY <2>2
  <2> HIDE DEF ahead
  <2>4. ASSUME Fine(todo) PROVE Fine(ahead \o Tail(todo))
    <3>1. Fine(ahead)
      BY <1>2, <1>3, <1>4, <2>2, <2>3, <2>4 DEF Fine, Agree
    <3> QED BY <1>1, <2>3, <2>4, <3>1, FineStep
  <2>5. <<First, Second>> \in Equals => entries = <<>> /\ Fine(ahead \o Tail(todo))
    BY <2>4 DEF WalkInv
  <2>6. ASSUME entries = <<>> PROVE Explained(visited, ahead \o Tail(todo), First, Second)
    BY <1>1, <1>2, <1>3, <1>6, <2>3, <2>6, EqualStep DEF WalkInv
  <2>7. WalkInv'
    BY <2>1, <2>5, <2>6, WalkKeeps
  <2>8. todo' \in Seq(Items)
    BY <2>1, <2>3, DueFacts
  <2> QED BY <1>1, <2>1, <2>7, <2>8
<1> QED BY <1>5, <1>6

LEMMA RecallInv ==
  ASSUME Inv, Recall
  PROVE  Inv'
<1>1. /\ todo # <<>> /\ ~Full /\ asked = <<>> /\ heap' = heap /\ probed' = probed /\ visited' = visited
      /\ asked' = <<>> /\ sub' = sub /\ subSeen' = subSeen /\ found' = found
      /\ ~Current.line /\ ~Scalars(Current.x, Current.y)
      /\ Pair(Current) \in DOMAIN probed /\ Answer(probed[Pair(Current)])
  BY DEF Recall, Composite, Due, probe
<1>2. TypeInv /\ WalkInv
  BY DEF Inv
<1>3. /\ probed[Pair(Current)] \in BOOLEAN
      /\ probed[Pair(Current)] <=> Pair(Current) \notin Equals
  BY <1>1 DEF Inv, TypeInv, MemoInv
<1>4. /\ todo' \in Seq(Items) /\ entries' \in Seq(Lines) /\ WalkInv'
      /\ Len(entries') <= Limit + 1 \/ entries' = entries
  BY <1>1, <1>2, <1>3, AnswerWalk
<1>5. TypeInv'
  BY <1>1, <1>2, <1>4 DEF TypeInv
<1>6. AskInv' /\ ProbeInv' /\ MemoInv'
  BY <1>1, Unasked
<1>7. Len(entries') <= Limit + 1
  BY <1>4 DEF Inv
<1> QED BY <1>4, <1>5, <1>6, <1>7 DEF Inv

LEMMA ProbeKeeps ==
  ASSUME heap' = heap, todo' = todo,
         ~found' => Explained(subSeen', sub', Current.x, Current.y),
         Pair(Current) \in Equals => ~found' /\ Fine(sub')
  PROVE  ProbeInv'
<1>1. Current' = Current
  BY DEF Current
<1>2. ~found' => Explained(subSeen, sub, Current.x, Current.y)'
  <2>1. Current.x = Current.x' /\ Current.y = Current.y'
    BY <1>1
  <2> QED BY <2>1, ExplainedProbeKeeps
<1>3. (Pair(Current) \in Equals)' => ~found' /\ Fine(sub)'
  BY <1>1, EqualsKeep, FineKeeps DEF Pair
<1> QED BY <1>2, <1>3 DEF ProbeInv

\* What a step of a probe leaves alone.
LEMMA WalkRests ==
  ASSUME Inv, heap' = heap, todo' = todo, visited' = visited, entries' = entries, probed' = probed
  PROVE  WalkInv' /\ MemoInv'
<1>1. WalkInv'
  BY WalkKeeps DEF Inv, WalkInv
<1>2. MemoInv'
  BY MemoKeeps DEF Inv, MemoInv
<1> QED BY <1>1, <1>2

LEMMA AskInvStep ==
  ASSUME Inv, Ask
  PROVE  Inv'
<1>1. /\ todo # <<>> /\ ~Full /\ heap' = heap /\ probed' = probed /\ visited' = visited
      /\ todo' = todo /\ entries' = entries /\ sub' = <<Current>> /\ subSeen' = {} /\ found' = FALSE
      /\ ~Current.line /\ ~Scalars(Current.x, Current.y)
  BY DEF Ask, Composite, Due, walk
<1>2. TypeInv
  BY DEF Inv
<1>3. Current \in Items /\ Current.x \in Nodes
  BY <1>1, <1>2, DueFacts, PairFacts
<1>4. sub' \in Seq(Items) /\ DOMAIN sub' = {1} /\ sub'[1] = Current
  BY <1>1, <1>3
<1>5. Explained(subSeen', sub', Current.x, Current.y)
  <2>1. Waits(sub', Current.x, Current.y)
    BY <1>1, <1>4 DEF Waits
  <2>2. Supported({}, sub') /\ Settled({}, sub', Current.x, Current.y)
    BY <2>1 DEF Supported, Settled
  <2>3. {} \in SUBSET Pairs /\ subSeen' \subseteq {}
    BY <1>1
  <2> QED BY <2>2, <2>3, Zenon DEF Explained
<1>6. Pair(Current) \in Equals => Fine(sub')
  BY <1>1, <1>4 DEF Fine, Agree, Pair
<1>7. ProbeInv'
  BY <1>1, <1>5, <1>6, ProbeKeeps
<1>8. TypeInv'
  BY <1>1, <1>2, <1>4 DEF TypeInv
<1>9. AskInv'
  <2>1. Current' = Current /\ Full' = Full
    BY <1>1 DEF Current, Full
  <2>2. Scalars(Current.x, Current.y)' = Scalars(Current.x, Current.y)
    BY <1>1, <2>1 DEF Scalars, Kind
  <2> QED BY <1>1, <2>1, <2>2 DEF AskInv
<1>10. WalkInv' /\ MemoInv'
  BY <1>1, WalkRests
<1> QED BY <1>1, <1>7, <1>8, <1>9, <1>10 DEF Inv

LEMMA ProbeStepInv ==
  ASSUME Inv, ProbeStep
  PROVE  Inv'
<1> DEFINE it == Head(sub)
           x  == it.x
           y  == it.y
<1>1. /\ asked # <<>> /\ sub # <<>> /\ ~found /\ heap' = heap /\ todo' = todo /\ visited' = visited
      /\ entries' = entries /\ probed' = probed /\ asked' = asked
  BY DEF ProbeStep, walk
<1>2. TypeInv /\ sub \in Seq(Items) /\ subSeen \in SUBSET Pairs
  BY DEF Inv, TypeInv
<1>3. it \in Items /\ x \in Values /\ y \in Values /\ Tail(sub) \in Seq(Items)
  <2>1. it \in Items /\ Tail(sub) \in Seq(Items)
    BY <1>1, <1>2
  <2> HIDE DEF it
  <2> QED BY <2>1 DEF Items
<1>4. /\ Explained(subSeen, sub, Current.x, Current.y)
      /\ Pair(Current) \in Equals => Fine(sub)
  BY <1>1 DEF Inv, ProbeInv
<1>5. WalkInv' /\ MemoInv'
  BY <1>1, WalkRests
<1>6. AskInv'
  <2>1. Current' = Current /\ Full' = Full
    BY <1>1 DEF Current, Full
  <2>2. Scalars(Current.x, Current.y)' = Scalars(Current.x, Current.y)
    BY <1>1, <2>1 DEF Scalars, Kind
  <2> QED BY <1>1, <2>1, <2>2 DEF Inv, AskInv
<1>7. Len(entries') <= Limit + 1
  BY <1>1 DEF Inv
<1>8. ASSUME sub' \in Seq(Items), subSeen' \subseteq Pairs, found' \in BOOLEAN, ProbeInv' PROVE Inv'
  <2>1. TypeInv'
    BY <1>1, <1>2, <1>8 DEF TypeInv
  <2> QED BY <1>5, <1>6, <1>7, <1>8, <2>1 DEF Inv
<1>9. ASSUME Fine(sub) PROVE ~it.line /\ Agree(Equals, x, y)
  BY <1>1, <1>2, <1>9, FineStep, Empty
<1>10. CASE it.line \/ Scalars(x, y)
  <2>1. found' = (it.line \/ Disagree(x, y)) /\ sub' = Tail(sub) /\ subSeen' = subSeen
    BY <1>10 DEF ProbeStep
  <2>2. ASSUME ~found' PROVE Explained(subSeen', sub', Current.x, Current.y)
    <3>1. ~it.line /\ Scalars(x, y) /\ ~Disagree(x, y)
      BY <1>10, <2>1, <2>2
    <3>2. Explained(subSeen, Tail(sub), Current.x, Current.y)
      BY <1>1, <1>2, <1>4, <3>1, EndStep
    <3> QED BY <2>1, <3>2
  <2>3. ASSUME Pair(Current) \in Equals PROVE ~found' /\ Fine(sub')
    <3>1. Fine(sub)
      BY <1>4, <2>3
    <3>2. ~it.line /\ ~Disagree(x, y)
      BY <1>9, <1>10, <3>1, ScalarsEnd
    <3>3. Fine(Tail(sub))
      BY <1>1, <1>2, <3>1, DropFine
    <3> QED BY <2>1, <3>2, <3>3
  <2>4. ProbeInv'
    BY <1>1, <2>2, <2>3, ProbeKeeps
  <2>5. found' \in BOOLEAN
    <3>1. it.line \in BOOLEAN /\ Disagree(x, y) \in BOOLEAN
      BY <1>3 DEF Items, Disagree
    <3> QED BY <2>1, <3>1
  <2> QED BY <1>2, <1>3, <1>8, <2>1, <2>4, <2>5
<1>11. CASE ~it.line /\ ~Scalars(x, y)
  <2>1. x \in Nodes /\ y \in Nodes /\ Kind(x) = Kind(y)
    BY <1>2, <1>11, PairFacts
  <2>2. ASSUME Fine(sub) PROVE <<x, y>> \in Equals
    BY <1>9, <2>1, <2>2, CompositeAgrees
  <2>3. CASE heap[x].null # heap[y].null
    <3>1. found' = TRUE /\ sub' = Tail(sub) /\ subSeen' = subSeen
      BY <1>11, <2>3 DEF ProbeStep
    <3>2. Pair(Current) \notin Equals
      BY <1>4, <2>2, <2>3, EqualPair
    <3>3. ProbeInv'
      BY <1>1, <3>1, <3>2, ProbeKeeps
    <3> QED BY <1>2, <1>3, <1>8, <3>1, <3>3
  <2>4. CASE heap[x].null = heap[y].null /\ Met(x, y, subSeen)
    <3>1. sub' = Tail(sub) /\ subSeen' = subSeen /\ found' = found
      BY <1>11, <2>4 DEF ProbeStep
    <3>2. Explained(subSeen, Tail(sub), Current.x, Current.y)
      BY <1>1, <1>2, <1>4, <1>11, <2>4, MetStep
    <3>3. Pair(Current) \in Equals => Fine(Tail(sub))
      BY <1>1, <1>2, <1>4, DropFine
    <3>4. ProbeInv'
      BY <1>1, <3>1, <3>2, <3>3, ProbeKeeps
    <3>5. found' \in BOOLEAN
      BY <1>2, <3>1 DEF TypeInv
    <3> QED BY <1>2, <1>3, <1>8, <3>1, <3>4, <3>5
  <2>5. CASE heap[x].null = heap[y].null /\ ~Met(x, y, subSeen)
    <3>1. /\ found' = found /\ \E items \in Below(it, TRUE) : sub' = Pathless(items) \o Tail(sub)
          /\ subSeen' = IF Marks(x) THEN subSeen \cup {<<x, y>>} ELSE subSeen
      BY <1>11, <2>5 DEF ProbeStep
    <3>2. PICK items \in Below(it, TRUE) : sub' = Pathless(items) \o Tail(sub)
      BY <3>1
    <3>3. items \in Seq(Items) /\ Tells(items, x, y)
      BY <1>1, <1>2, <1>11, <2>5, ApartStep
    <3> DEFINE ahead == Pathless(items)
    <3>4. ahead \in Seq(Items) /\ Tells(ahead, x, y)
      BY <3>3, PathlessTells
    <3> HIDE DEF ahead
    <3>5. subSeen' \subseteq subSeen \cup {<<x, y>>} /\ subSeen' \subseteq Pairs
      BY <1>2, <2>1, <3>1 DEF Pairs
    <3>6. sub' = ahead \o Tail(sub) /\ sub' \in Seq(Items)
      BY <1>3, <3>2, <3>4 DEF ahead
    <3>7. Explained(subSeen', ahead \o Tail(sub), Current.x, Current.y)
      BY <1>1, <1>2, <1>4, <1>11, <2>1, <3>4, <3>5, ApartExplains
    <3>8. Pair(Current) \in Equals => Fine(ahead \o Tail(sub))
      BY <1>1, <1>2, <1>4, <2>1, <2>5, <3>4, ApartFine
    <3>9. ProbeInv'
      BY <1>1, <3>1, <3>6, <3>7, <3>8, ProbeKeeps
    <3>10. found' \in BOOLEAN
      BY <1>2, <3>1 DEF TypeInv
    <3> QED BY <1>8, <3>5, <3>6, <3>9, <3>10
  <2> QED BY <2>3, <2>4, <2>5
<1> QED BY <1>10, <1>11

\* A probe that ends has answered for its pair.
LEMMA ProbeAnswers ==
  ASSUME Inv, asked # <<>>, sub = <<>> \/ found
  PROVE  found <=> Pair(Current) \notin Equals
<1>1. TypeInv /\ found \in BOOLEAN
  BY DEF Inv, TypeInv
<1>2. todo # <<>> /\ ~Current.line /\ ~Scalars(Current.x, Current.y)
  BY DEF Inv, AskInv
<1>3. Current.x \in Nodes /\ Current.y \in Nodes
  BY <1>1, <1>2, PairFacts
<1>4. CASE found
  BY <1>4 DEF Inv, ProbeInv
<1>5. CASE ~found
  <2>1. Explained(subSeen, <<>>, Current.x, Current.y)
    BY <1>5 DEF Inv, ProbeInv
  <2> QED BY <1>3, <1>5, <2>1, NothingLeft DEF Pair
<1> QED BY <1>1, <1>4, <1>5

LEMMA ProbeEndsInv ==
  ASSUME Inv, ProbeEnds
  PROVE  Inv'
<1>1. /\ asked # <<>> /\ (sub = <<>> \/ found) /\ heap' = heap /\ visited' = visited
      /\ asked' = <<>> /\ sub' = <<>> /\ subSeen' = {} /\ found' = FALSE /\ Answer(found)
      /\ probed' = IF Memo(Current)
                   THEN [p \in DOMAIN probed \cup {Pair(Current)} |->
                           IF p = Pair(Current) THEN found ELSE probed[p]]
                   ELSE probed
  BY DEF ProbeEnds
<1>2. TypeInv /\ WalkInv /\ found \in BOOLEAN
  BY DEF Inv, TypeInv
<1>3. todo # <<>> /\ ~Full /\ ~Current.line /\ ~Scalars(Current.x, Current.y)
  BY <1>1 DEF Inv, AskInv
<1>4. Current.x \in Nodes /\ Current.y \in Nodes
  BY <1>2, <1>3, PairFacts
<1>5. found <=> Pair(Current) \notin Equals
  BY <1>1, ProbeAnswers
<1>6. /\ todo' \in Seq(Items) /\ entries' \in Seq(Lines) /\ WalkInv'
      /\ Len(entries') <= Limit + 1 \/ entries' = entries
  BY <1>1, <1>2, <1>3, <1>5, AnswerWalk
<1>7. Pair(Current) \in Pairs
  BY <1>4 DEF Pair, Pairs
<1>8. /\ DOMAIN probed' \subseteq Pairs
      /\ \A p \in DOMAIN probed' : probed'[p] \in BOOLEAN /\ (probed'[p] <=> p \notin Equals)
  <2>1. /\ DOMAIN probed \subseteq Pairs
        /\ \A p \in DOMAIN probed : probed[p] \in BOOLEAN /\ (probed[p] <=> p \notin Equals)
    BY DEF Inv, TypeInv, MemoInv
  <2>2. CASE Memo(Current)
    <3>1. /\ DOMAIN probed' = DOMAIN probed \cup {Pair(Current)}
          /\ \A p \in DOMAIN probed' : probed'[p] = IF p = Pair(Current) THEN found ELSE probed[p]
      BY <1>1, <2>2
    <3>2. DOMAIN probed' \subseteq Pairs
      BY <1>7, <2>1, <3>1
    <3>3. ASSUME NEW p \in DOMAIN probed' PROVE probed'[p] \in BOOLEAN /\ (probed'[p] <=> p \notin Equals)
      <4>1. CASE p = Pair(Current)
        BY <1>2, <1>5, <3>1, <4>1
      <4>2. CASE p # Pair(Current)
        BY <2>1, <3>1, <4>2
      <4> QED BY <4>1, <4>2
    <3> QED BY <3>2, <3>3
  <2>3. CASE ~Memo(Current)
    BY <1>1, <2>1, <2>3
  <2> QED BY <2>2, <2>3
<1>9. MemoInv'
  BY <1>1, <1>8, MemoKeeps
<1>10. TypeInv'
  BY <1>1, <1>2, <1>6, <1>8, Empty DEF TypeInv
<1>11. AskInv' /\ ProbeInv'
  BY <1>1 DEF AskInv, ProbeInv
<1>12. Len(entries') <= Limit + 1
  BY <1>6 DEF Inv
<1> QED BY <1>6, <1>9, <1>10, <1>11, <1>12 DEF Inv

LEMMA NextInv ==
  ASSUME Inv, [Next]_vars
  PROVE  Inv'
<1>1. CASE Next
  BY <1>1, AddLineInv, DescendInv, StopInv, RecallInv, AskInvStep, ProbeStepInv, ProbeEndsInv DEF Next
<1>2. CASE UNCHANGED vars
  <2>1. /\ heap' = heap /\ todo' = todo /\ visited' = visited /\ entries' = entries /\ probed' = probed
        /\ asked' = asked /\ sub' = sub /\ subSeen' = subSeen /\ found' = found
    BY <1>2 DEF vars, walk, probe
  <2>2. WalkInv' /\ MemoInv'
    BY <2>1, WalkRests
  <2>3. TypeInv' /\ Len(entries') <= Limit + 1
    BY <2>1 DEF Inv, TypeInv
  <2>4. Current' = Current /\ Full' = Full
    BY <2>1 DEF Current, Full
  <2>5. Scalars(Current.x, Current.y)' = Scalars(Current.x, Current.y)
    BY <2>1, <2>4 DEF Scalars, Kind
  <2>6. AskInv'
    BY <2>1, <2>4, <2>5 DEF Inv, AskInv
  <2>7. CASE asked # <<>>
    <3>1. ProbeInv'
      BY <2>1, <2>7, ProbeKeeps DEF Inv, ProbeInv
    <3> QED BY <2>2, <2>3, <2>6, <3>1 DEF Inv
  <2>8. CASE asked = <<>>
    <3>1. ProbeInv'
      BY <2>1, <2>8 DEF ProbeInv
    <3> QED BY <2>2, <2>3, <2>6, <3>1 DEF Inv
  <2> QED BY <2>7, <2>8
<1> QED BY <1>1, <1>2

-----------------------------------------------------------------------------
(* Nothing is hidden.                                                      *)

\* Two nodes that are compared part by part, and the slots that either has.
Open(x, y) ==
  /\ Kind(x) = Kind(y) /\ (x # y \/ Kind(x) \notin References) /\ ~heap[x].null /\ ~heap[y].null
Slots(x, y)   == DOMAIN heap[x].kids \cup DOMAIN heap[y].kids
Both(x, y, k) == k \in DOMAIN heap[x].kids /\ k \in DOMAIN heap[y].kids /\ k \notin NaNs

\* An item that will tell of a difference in a slot, and whether it has been told or will be.
Says(e, x, y, k) ==
  /\ e.at = <<x, y, k>>
  /\ e.line \/ (Both(x, y, k) /\ e.x = heap[x].kids[k] /\ e.y = heap[y].kids[k])
Told(s, es, x, y, k) ==
  \/ \E i \in DOMAIN es : es[i].at = <<x, y, k>>
  \/ \E i \in DOMAIN s : Says(s[i], x, y, k)

\* A pair that was taken apart, or is said to differ as a whole, or waits.
Under(es, p) == \E i \in DOMAIN es : es[i].below # <<>> /\ p \in Reach(es[i].below)
Kept(R, s, es, v, w) == <<v, w>> \in R \/ Under(es, <<v, w>>) \/ Waits(s, v, w)

Covered(R, s, es, x, y) ==
  Open(x, y) =>
    \A k \in Slots(x, y) :
      /\ Differs(x, y, k) => Told(s, es, x, y, k)
      /\ Both(x, y, k) /\ heap[x].kids[k] \in Nodes /\ heap[y].kids[k] \in Nodes =>
           Kept(R, s, es, heap[x].kids[k], heap[y].kids[k])

\* The walk has lost nothing: some R has the pairs visited, and each of its pairs is covered.
Complete(seen, s, es) ==
  \E R \in SUBSET Pairs :
    /\ seen \subseteq R /\ Kept(R, s, es, First, Second)
    /\ \A x, y \in Nodes : <<x, y>> \in R => Covered(R, s, es, x, y)

HideInv == Len(entries) <= Limit => Complete(visited, todo, entries)

LEMMA ReachLeast ==
  ASSUME NEW p, NEW S \in SUBSET Pairs, p \in S, \A r \in S : Compared(r[1], r[2]) \subseteq S
  PROVE  Reach(p) \subseteq S
BY DEF Reach, Pairs

LEMMA ReachSelf ==
  ASSUME NEW p \in Pairs
  PROVE  p \in Reach(p)
BY DEF Reach, Pairs

LEMMA ReachClosed ==
  ASSUME NEW p, NEW q \in Reach(p)
  PROVE  q \in Pairs /\ Compared(q[1], q[2]) \subseteq Reach(p)
<1>1. q \in Pairs
  BY DEF Reach, Pairs
<1>2. Compared(q[1], q[2]) \subseteq Pairs
  BY DEF Compared, Pairs
<1>3. ASSUME NEW r \in Compared(q[1], q[2]), NEW S \in SUBSET Pairs, p \in S,
             \A t \in S : Compared(t[1], t[2]) \subseteq S
      PROVE  r \in S
  <2>1. q \in S
    BY <1>3, ReachLeast
  <2> QED BY <1>3, <2>1
<1>4. ASSUME NEW r \in Compared(q[1], q[2]) PROVE r \in Reach(p)
  <2>1. r \in Pairs
    BY <1>2, <1>4
  <2> QED BY <1>3, <1>4, <2>1, Zenon DEF Reach, Pairs
<1> QED BY <1>1, <1>4

\* Every difference in a slot is a line of its own or a pair of parts; for parts the pair itself is due.
Shows(items, x, y) ==
  \A k \in Slots(x, y) : \E e :
    /\ Holds(items, e) /\ e.at = <<x, y, k>>
    /\ IF Both(x, y, k) THEN ~e.line /\ e.x = heap[x].kids[k] /\ e.y = heap[y].kids[k] ELSE e.line

LEMMA ListShows ==
  ASSUME TypeInv, NEW it, Comparable(it), NEW n \in Nat,
         heap[it.x].kids \in [1..n -> Values], heap[it.y].kids \in [1..n -> Values]
  PROVE  Shows([i \in 1..n |-> Child(it, i)], it.x, it.y)
<1> DEFINE items == [i \in 1..n |-> Child(it, i)]
           x == it.x
           y == it.y
<1> SUFFICES ASSUME NEW k \in Slots(x, y)
             PROVE  LET e == Child(it, k) IN
                    /\ Holds(items, e) /\ e.at = <<x, y, k>>
                    /\ IF Both(x, y, k) THEN ~e.line /\ e.x = heap[x].kids[k] /\ e.y = heap[y].kids[k] ELSE e.line
  BY DEF Shows
<1>1. k \in 1..n /\ k \in DOMAIN heap[x].kids /\ k \in DOMAIN heap[y].kids
  BY DEF Slots
<1>2. k \notin NaNs
  BY <1>1, Names
<1>3. Both(x, y, k)
  BY <1>1, <1>2 DEF Both
<1>4. Holds(items, Child(it, k))
  BY <1>1 DEF Holds
<1>5. /\ Child(it, k).at = <<x, y, k>> /\ ~Child(it, k).line
      /\ Child(it, k).x = heap[x].kids[k] /\ Child(it, k).y = heap[y].kids[k]
  BY DEF Child, Item
<1> QED BY <1>3, <1>4, <1>5

LEMMA SliceShows ==
  ASSUME TypeInv, NEW it, Comparable(it), heap[it.x].kind = "slice"
  PROVE  Shows(ListItems(it), it.x, it.y)
<1> DEFINE x == it.x
           y == it.y
           m == Len(heap[x].kids)
           n == Len(heap[y].kids)
           top == IF m < n THEN n ELSE m
           front == IF m = n THEN <<>> ELSE <<Line(it.path, <<it.x, it.y, 0>>)>>
           one(i) == IF i <= m /\ i <= n THEN Child(it, i)
                     ELSE Line(Append(it.path, Index(i)), <<it.x, it.y, i>>)
           f == [i \in 1..top |-> one(i)]
<1>1. x \in Nodes /\ y \in Nodes
  BY DEF Comparable
<1>2. /\ m \in Nat /\ heap[x].kids \in [1..m -> Values]
      /\ n \in Nat /\ heap[y].kids \in [1..n -> Values]
  <2>1. ASSUME NEW z \in Nodes, heap[z].kind = "slice", ~heap[z].null
        PROVE  Len(heap[z].kids) \in Nat /\ heap[z].kids \in [1..Len(heap[z].kids) -> Values]
    <3>1. PICK l \in Nat : heap[z].kids \in [1..l -> Values]
      BY <2>1, ShapeFacts
    <3>2. Len(heap[z].kids) = l
      BY <3>1
    <3> QED BY <3>1, <3>2
  <2> QED BY <1>1, <2>1 DEF Comparable
<1>3. ListItems(it) = front \o f
  BY Zenon DEF ListItems
<1> HIDE DEF m, n
<1>4. top \in Nat /\ \A i \in 1..m : i \in 1..top /\ \A j \in 1..n : j \in 1..top
  BY <1>2
<1> SUFFICES ASSUME NEW k \in Slots(x, y)
             PROVE  LET e == one(k) IN
                    /\ Holds(ListItems(it), e) /\ e.at = <<x, y, k>>
                    /\ IF Both(x, y, k) THEN ~e.line /\ e.x = heap[x].kids[k] /\ e.y = heap[y].kids[k] ELSE e.line
  BY Zenon DEF Shows
<1>5. k \in 1..top /\ (k \in 1..m \/ k \in 1..n)
  BY <1>2, <1>4 DEF Slots
<1>6. Both(x, y, k) <=> k <= m /\ k <= n
  BY <1>2, <1>4, <1>5, Names DEF Both
<1>7. Holds(ListItems(it), one(k))
  <2> HIDE DEF one
  <2> DEFINE l == Line(it.path, <<it.x, it.y, 0>>)
  <2>1. front \in Seq({l})
    <3>1. l \in {l} /\ (front = <<>> \/ front = <<l>>)
      OBVIOUS
    <3> HIDE DEF l, front
    <3>2. CASE front = <<>>
      BY <3>2
    <3>3. CASE front = <<l>>
      BY <3>3
    <3> QED BY <3>1, <3>2, <3>3
  <2> HIDE DEF l, front
  <2>2. Len(front) \in Nat /\ DOMAIN f = 1..top /\ Len(f) = top
    BY <1>4, <2>1
  <2>3. f[k] = one(k)
    BY <1>5
  <2>4. Len(front) + k \in 1..(Len(front) + Len(f))
    BY <1>4, <1>5, <2>2
  <2>5. DOMAIN (front \o f) = 1..(Len(front) + Len(f)) /\ (front \o f)[Len(front) + k] = f[k]
    BY <1>4, <1>5, <2>2, <2>4
  <2> QED BY <1>3, <2>3, <2>4, <2>5 DEF Holds, front
<1>8. CASE k <= m /\ k <= n
  <2>1. one(k) = Child(it, k)
    BY <1>8
  <2>2. /\ Child(it, k).at = <<x, y, k>> /\ ~Child(it, k).line
        /\ Child(it, k).x = heap[x].kids[k] /\ Child(it, k).y = heap[y].kids[k]
    BY DEF Child, Item
  <2> QED BY <1>6, <1>7, <1>8, <2>1, <2>2
<1>9. CASE ~(k <= m /\ k <= n)
  <2>1. one(k) = Line(Append(it.path, Index(k)), <<x, y, k>>)
    BY <1>9
  <2>2. one(k).at = <<x, y, k>> /\ one(k).line
    BY <2>1 DEF Line
  <2> QED BY <1>6, <1>7, <1>9, <2>2
<1> QED BY <1>8, <1>9

LEMMA MapShows ==
  ASSUME TypeInv, NEW it, Comparable(it), heap[it.x].kind = "map", NEW tie \in Ties
  PROVE  Shows(MapItems(it, tie), it.x, it.y)
<1> DEFINE x == it.x
           y == it.y
           a == heap[x].kids
           b == heap[y].kids
<1> SUFFICES ASSUME NEW k \in Slots(x, y)
             PROVE  \E e : /\ Holds(MapItems(it, tie), e) /\ e.at = <<x, y, k>>
                           /\ IF Both(x, y, k) THEN ~e.line /\ e.x = a[k] /\ e.y = b[k] ELSE e.line
  BY Zenon DEF Shows
<1>1. k \in DOMAIN a \/ k \in DOMAIN b
  BY DEF Slots
<1>2. k \in Keys
  BY <1>1, MapFacts
<1>3. PICK i \in DOMAIN KeyOrder : KeyOrder[i] = k
  BY <1>2, KeyFacts
<1>4. DOMAIN Unit(it, tie, i) # {}
  BY <1>1, <1>3, MapUnit
<1>5. PICK j \in DOMAIN Unit(it, tie, i) : Holds(MapItems(it, tie), MapItem(it, tie, i, j))
  BY <1>4, MapItemsAre
<1> DEFINE e == MapItem(it, tie, i, j)
<1>6. /\ e.at = <<x, y, k>>
      /\ e.line <=> ~(Unit(it, tie, i)[j] = "a" /\ Found(k, b))
      /\ ~e.line => e.x = a[k] /\ e.y = b[k]
  BY <1>3, MapItemFacts
<1>7. CASE Both(x, y, k)
  <2>1. Unit(it, tie, i) = <<"a">>
    BY <1>3, <1>7, MapUnit DEF Both
  <2>2. Unit(it, tie, i)[j] = "a"
    BY <2>1
  <2>3. Found(k, b)
    BY <1>7 DEF Both, Found
  <2> HIDE DEF e
  <2> QED BY <1>5, <1>6, <1>7, <2>2, <2>3 DEF e
<1>8. CASE ~Both(x, y, k)
  <2>1. ~(Unit(it, tie, i)[j] = "a" /\ Found(k, b))
    <3>1. Unit(it, tie, i)[j] = "a" => k \in DOMAIN a
      BY <1>3, MapUnit
    <3> QED BY <1>8, <3>1 DEF Both, Found
  <2> HIDE DEF e
  <2> QED BY <1>5, <1>6, <1>8, <2>1 DEF e
<1> QED BY <1>7, <1>8

LEMMA BelowShows ==
  ASSUME TypeInv, NEW it, Comparable(it), NEW items \in Below(it, FALSE)
  PROVE  Shows(items, it.x, it.y)
<1>1. Kind(it.x) = heap[it.x].kind /\ it.x \in Nodes
  BY DEF Comparable
<1>2. heap[it.x].kind \in {"ptr", "slice", "map", "struct", "opaque"}
  BY <1>1, ShapeFacts
<1>3. CASE heap[it.x].kind = "ptr"
  <2> DEFINE one == Item(heap[it.x].kids[1], heap[it.y].kids[1], it.path, <<it.x, it.y, 1>>)
  <2>1. items = <<one>>
    BY <1>1, <1>3 DEF Below
  <2>2. heap[it.x].kids \in [1..1 -> Values] /\ heap[it.y].kids \in [1..1 -> Values]
    BY <1>1, <1>3, ShapeFacts DEF Comparable
  <2>3. Slots(it.x, it.y) = {1} /\ Both(it.x, it.y, 1)
    BY <2>2, Names DEF Slots, Both
  <2>4. one.at = <<it.x, it.y, 1>> /\ ~one.line /\ one.x = heap[it.x].kids[1] /\ one.y = heap[it.y].kids[1]
    BY DEF Item
  <2> HIDE DEF one
  <2>5. Holds(items, one)
    BY <2>1 DEF Holds
  <2> QED BY <2>3, <2>4, <2>5 DEF Shows
<1>4. CASE heap[it.x].kind \in {"struct", "opaque"}
  <2>1. items = [i \in 1..2 |-> Child(it, i)]
    BY <1>1, <1>4 DEF Below
  <2>2. heap[it.x].kids \in [1..2 -> Values] /\ heap[it.y].kids \in [1..2 -> Values]
    BY <1>4, ShapeFacts DEF Comparable
  <2> QED BY <2>1, <2>2, ListShows
<1>5. CASE heap[it.x].kind = "slice"
  <2>1. items = ListItems(it)
    BY <1>1, <1>5 DEF Below
  <2> QED BY <1>5, <2>1, SliceShows
<1>6. CASE heap[it.x].kind = "map"
  <2>1. PICK tie \in Ties : items = MapItems(it, tie)
    BY <1>1, <1>6 DEF Below
  <2> QED BY <1>6, <2>1, MapShows
<1> QED BY <1>2, <1>3, <1>4, <1>5, <1>6

-----------------------------------------------------------------------------
(* One step of the walk, for what it has lost.                             *)

\* What was said stays said.
Grows(es, fs) == \A i \in DOMAIN es : i \in DOMAIN fs /\ fs[i] = es[i]

LEMMA ToldKeeps ==
  ASSUME NEW s \in Seq(Items), s # <<>>, NEW ahead \in Seq(Items), NEW es, NEW fs, Grows(es, fs),
         NEW x, NEW y, NEW k, Says(Head(s), x, y, k) => Told(ahead, fs, x, y, k)
  PROVE  /\ Told(s, es, x, y, k) => Told(ahead \o Tail(s), fs, x, y, k)
         /\ Told(ahead, fs, x, y, k) => Told(ahead \o Tail(s), fs, x, y, k)
<1> DEFINE t == ahead \o Tail(s)
           Will(q) == \E e : Holds(q, e) /\ Says(e, x, y, k)
           Was(g) == \E i \in DOMAIN g : g[i].at = <<x, y, k>>
<1>1. \A q, g : Told(q, g, x, y, k) <=> Was(g) \/ Will(q)
  BY DEF Told, Holds
<1>2. Was(es) => Was(fs)
  BY DEF Grows
<1>3. \A e : Holds(s, e) => e = Head(s) \/ Holds(t, e)
  BY SeqStep
<1>4. \A e : Holds(ahead, e) => Holds(t, e)
  BY SeqStep
<1> HIDE DEF t, Was
<1>5. Will(ahead) => Will(t)
  BY <1>4
<1>6. Will(s) => Says(Head(s), x, y, k) \/ Will(t)
  BY <1>3
<1> HIDE DEF Will
<1> QED BY <1>1, <1>2, <1>5, <1>6 DEF t

LEMMA KeptKeeps ==
  ASSUME NEW s \in Seq(Items), s # <<>>, NEW ahead \in Seq(Items), NEW es, NEW fs, Grows(es, fs),
         NEW R, NEW E, NEW v \in Nodes, NEW w \in Nodes,
         ~Head(s).line /\ v = Head(s).x /\ w = Head(s).y => Kept(R \cup E, ahead, fs, v, w)
  PROVE  /\ Kept(R, s, es, v, w) => Kept(R \cup E, ahead \o Tail(s), fs, v, w)
         /\ Kept(R \cup E, ahead, fs, v, w) => Kept(R \cup E, ahead \o Tail(s), fs, v, w)
<1> DEFINE t == ahead \o Tail(s)
           One(e) == ~e.line /\ e.x = v /\ e.y = w
<1>1. \A q : Waits(q, v, w) <=> \E e : Holds(q, e) /\ One(e)
  BY Zenon DEF Waits, Holds
<1>2. Under(es, <<v, w>>) => Under(fs, <<v, w>>)
  BY DEF Grows, Under
<1>3. \A e : Holds(s, e) => e = Head(s) \/ Holds(t, e)
  BY SeqStep
<1>4. \A e : Holds(ahead, e) => Holds(t, e)
  BY SeqStep
<1> HIDE DEF t, One
<1>5. Waits(ahead, v, w) => Waits(t, v, w)
  BY <1>1, <1>4
<1>6. Waits(s, v, w) => One(Head(s)) \/ Waits(t, v, w)
  BY <1>1, <1>3
<1> QED BY <1>2, <1>5, <1>6 DEF Kept, t, One

LEMMA CoverStep ==
  ASSUME NEW s \in Seq(Items), s # <<>>, NEW ahead \in Seq(Items), NEW es, NEW fs, Grows(es, fs),
         NEW seen, NEW after, NEW E \in SUBSET Pairs, after \subseteq seen \cup E, Complete(seen, s, es),
         \A x, y, k : Differs(x, y, k) /\ Says(Head(s), x, y, k) => Told(ahead, fs, x, y, k),
         ~Head(s).line /\ Head(s).x \in Nodes /\ Head(s).y \in Nodes =>
           Kept(seen \cup E, ahead, fs, Head(s).x, Head(s).y),
         \A x, y \in Nodes : <<x, y>> \in E => Covered(seen \cup E, ahead, fs, x, y)
  PROVE  Complete(after, ahead \o Tail(s), fs)
<1> DEFINE t == ahead \o Tail(s)
<1>1. PICK R \in SUBSET Pairs :
        /\ seen \subseteq R /\ Kept(R, s, es, First, Second)
        /\ \A x, y \in Nodes : <<x, y>> \in R => Covered(R, s, es, x, y)
  BY DEF Complete
<1> DEFINE Q == R \cup E
<1>2. \A v, w : Kept(seen \cup E, ahead, fs, v, w) => Kept(Q, ahead, fs, v, w)
  BY <1>1 DEF Kept
<1>3. \A v, w \in Nodes : Kept(R, s, es, v, w) => Kept(Q, t, fs, v, w)
  BY <1>2, KeptKeeps
<1>4. \A v, w \in Nodes : Kept(seen \cup E, ahead, fs, v, w) => Kept(Q, t, fs, v, w)
  BY <1>2, KeptKeeps
<1>5. \A x, y, k : Differs(x, y, k) /\ Told(s, es, x, y, k) => Told(t, fs, x, y, k)
  BY ToldKeeps
<1>6. \A x, y, k : Differs(x, y, k) /\ Told(ahead, fs, x, y, k) => Told(t, fs, x, y, k)
  BY ToldKeeps
<1>7. Q \in SUBSET Pairs /\ after \subseteq Q /\ \A p \in Q : p \in R \/ p \in E
  BY <1>1
<1> HIDE DEF Q, t
<1>8. ASSUME NEW x \in Nodes, NEW y \in Nodes, <<x, y>> \in Q PROVE Covered(Q, t, fs, x, y)
  <2>1. CASE <<x, y>> \in R
    <3>1. Covered(R, s, es, x, y)
      BY <1>1, <2>1
    <3> QED BY <1>3, <1>5, <3>1, Zenon DEF Covered
  <2>2. CASE <<x, y>> \in E
    <3>1. Covered(seen \cup E, ahead, fs, x, y)
      BY <2>2
    <3> QED BY <1>4, <1>6, <3>1, Zenon DEF Covered
  <2> QED BY <1>7, <1>8, <2>1, <2>2
<1>9. Kept(Q, t, fs, First, Second)
  BY <1>1, <1>3, Names
<1> QED BY <1>7, <1>8, <1>9, Zenon DEF Complete, t

\* A composite pair that is null on both sides or on none is no difference itself.
LEMMA NoDifference ==
  ASSUME NEW e, ~e.line, ~Scalars(e.x, e.y), heap[e.x].null = heap[e.y].null, NEW x, NEW y, NEW k
  PROVE  ~(Differs(x, y, k) /\ Says(e, x, y, k))
BY DEF Differs, Says, Both

\* An entry for the item the walk is at.
LEMMA AddTells ==
  ASSUME TypeInv, NEW it \in Items, NEW below \in {<<>>} \cup Pairs
  PROVE  LET fs == Add(it, below) IN
         /\ Grows(entries, fs)
         /\ \A s, x, y, k : Says(it, x, y, k) => Told(s, fs, x, y, k)
         /\ below \in Pairs => Under(fs, below)
<1> DEFINE one == [path |-> it.path, at |-> it.at, below |-> below]
           fs == Add(it, below)
<1>1. entries \in Seq(Lines) /\ one \in Lines
  BY DEF TypeInv, Items, Lines
<1>2. one.at = it.at /\ one.below = below
  OBVIOUS
<1> HIDE DEF one
<1>3. fs = Append(entries, one)
  BY DEF Add, one
<1>4. /\ Len(entries) + 1 \in DOMAIN fs /\ fs[Len(entries) + 1] = one
      /\ \A i \in DOMAIN entries : i \in DOMAIN fs /\ fs[i] = entries[i]
  <2> HIDE DEF fs
  <2> QED BY <1>1, <1>3
<1> HIDE DEF fs
<1>5. Grows(entries, fs)
  BY <1>4 DEF Grows
<1>6. \A s, x, y, k : Says(it, x, y, k) => Told(s, fs, x, y, k)
  BY <1>2, <1>4 DEF Says, Told
<1>7. ASSUME below \in Pairs PROVE Under(fs, below)
  <2>1. below # <<>>
    BY <1>7 DEF Pairs
  <2>2. below \in Reach(below)
    BY <1>7, ReachSelf
  <2> QED BY <1>2, <1>4, <2>1, <2>2 DEF Under
<1> QED BY <1>5, <1>6, <1>7 DEF fs

LEMMA GrowsSelf == \A es : Grows(es, es)
BY DEF Grows

\* An item that is not to be taken apart.
LEMMA CoverEnd ==
  ASSUME NEW s \in Seq(Items), s # <<>>, NEW es, NEW fs, Grows(es, fs), NEW seen, Complete(seen, s, es),
         \A x, y, k : Differs(x, y, k) /\ Says(Head(s), x, y, k) => Told(<<>>, fs, x, y, k),
         \/ Head(s).line
         \/ Head(s).x \in Nodes /\ Head(s).y \in Nodes =>
              ~Open(Head(s).x, Head(s).y) \/ <<Head(s).x, Head(s).y>> \in seen
  PROVE  Complete(seen, Tail(s), fs)
<1> DEFINE p == <<Head(s).x, Head(s).y>>
           E == {q \in Pairs : q = p /\ ~Head(s).line /\ ~Open(Head(s).x, Head(s).y)}
<1>1. E \in SUBSET Pairs
  OBVIOUS
<1>2. ~Head(s).line /\ p \in Pairs => p \in seen \cup E
  BY DEF Pairs
<1>3. \A x, y \in Nodes : <<x, y>> \in E => ~Open(x, y)
  OBVIOUS
<1> HIDE DEF E
<1>4. \A x, y \in Nodes : <<x, y>> \in E => Covered(seen \cup E, <<>>, fs, x, y)
  BY <1>3 DEF Covered
<1>5. ~Head(s).line /\ Head(s).x \in Nodes /\ Head(s).y \in Nodes =>
        Kept(seen \cup E, <<>>, fs, Head(s).x, Head(s).y)
  BY <1>2 DEF Kept, Pairs
<1>6. <<>> \in Seq(Items) /\ seen \subseteq seen \cup E
  BY Empty
<1>7. Complete(seen, <<>> \o Tail(s), fs)
  BY <1>1, <1>4, <1>5, <1>6, CoverStep
<1> QED BY <1>7, SeqStep, Empty

\* A pair that is taken apart.
LEMMA CoverApart ==
  ASSUME NEW s \in Seq(Items), s # <<>>, ~Head(s).line, Head(s).x \in Nodes, Head(s).y \in Nodes,
         ~Scalars(Head(s).x, Head(s).y), heap[Head(s).x].null = heap[Head(s).y].null,
         NEW ahead \in Seq(Items), Shows(ahead, Head(s).x, Head(s).y), NEW es,
         NEW seen, NEW after, after \subseteq seen \cup {<<Head(s).x, Head(s).y>>}, Complete(seen, s, es)
  PROVE  Complete(after, ahead \o Tail(s), es)
<1> DEFINE x == Head(s).x
           y == Head(s).y
           E == {<<x, y>>}
<1>1. E \in SUBSET Pairs /\ after \subseteq seen \cup E /\ <<x, y>> \in E
  BY DEF Pairs
<1>2. \A u, v, k : ~(Differs(u, v, k) /\ Says(Head(s), u, v, k))
  BY NoDifference
<1>3. ASSUME NEW k \in Slots(x, y)
      PROVE  /\ Told(ahead, es, x, y, k)
             /\ Both(x, y, k) => Waits(ahead, heap[x].kids[k], heap[y].kids[k])
  <2> HIDE DEF x, y
  <2>1. PICK e : /\ Holds(ahead, e) /\ e.at = <<x, y, k>>
                 /\ IF Both(x, y, k) THEN ~e.line /\ e.x = heap[x].kids[k] /\ e.y = heap[y].kids[k] ELSE e.line
    BY <1>3, Zenon DEF Shows, x, y
  <2>2. Says(e, x, y, k)
    BY <2>1 DEF Says
  <2>3. Told(ahead, es, x, y, k)
    BY <2>1, <2>2 DEF Told, Holds
  <2>4. Both(x, y, k) => Waits(ahead, heap[x].kids[k], heap[y].kids[k])
    BY <2>1, ByElements
  <2> QED BY <2>3, <2>4
<1>4. Covered(seen \cup E, ahead, es, x, y)
  <2> HIDE DEF x, y, E
  <2> QED BY <1>3 DEF Covered, Kept
<1>5. \A u, v \in Nodes : <<u, v>> \in E => Covered(seen \cup E, ahead, es, u, v)
  <2> SUFFICES ASSUME NEW u \in Nodes, NEW v \in Nodes, <<u, v>> \in E
               PROVE  Covered(seen \cup E, ahead, es, u, v)
    OBVIOUS
  <2>1. u = x /\ v = y
    OBVIOUS
  <2> HIDE DEF x, y, E
  <2> QED BY <1>4, <2>1
<1>6. Kept(seen \cup E, ahead, es, x, y)
  BY <1>1 DEF Kept
<1> HIDE DEF E
<1> QED BY <1>1, <1>2, <1>5, <1>6, GrowsSelf, CoverStep

\* A pair of equal values, in which nothing differs.
LEMMA CoverEqual ==
  ASSUME TypeInv, NEW s \in Seq(Items), s # <<>>, ~Head(s).line, ~Scalars(Head(s).x, Head(s).y),
         <<Head(s).x, Head(s).y>> \in Equals,
         NEW ahead \in Seq(Items), NEW es, NEW seen, Complete(seen, s, es)
  PROVE  Complete(seen, ahead \o Tail(s), es)
<1>1. Equals \in SUBSET Pairs
  BY DEF Equals
<1>2. heap[Head(s).x].null = heap[Head(s).y].null
  BY EqualPair
<1>3. \A u, v, k : ~(Differs(u, v, k) /\ Says(Head(s), u, v, k))
  BY <1>2, NoDifference
<1>4. ASSUME NEW x \in Nodes, NEW y \in Nodes, <<x, y>> \in Equals, Open(x, y), NEW k \in Slots(x, y)
      PROVE  /\ ~Differs(x, y, k)
             /\ heap[x].kids[k] \in Nodes => <<heap[x].kids[k], heap[y].kids[k]>> \in Equals
  <2> DEFINE v == heap[x].kids[k]
             w == heap[y].kids[k]
  <2>1. SameShape(x, y) /\ \A l \in DOMAIN heap[x].kids : Agree(Equals, heap[x].kids[l], heap[y].kids[l])
    BY <1>4, EqualPair DEF Open
  <2>2. k \in DOMAIN heap[x].kids /\ k \in DOMAIN heap[y].kids /\ k \notin NaNs
    BY <2>1 DEF Slots, SameShape
  <2>3. Agree(Equals, v, w)
    BY <2>1, <2>2
  <2> HIDE DEF v, w
  <2>4. IF Scalars(v, w) THEN ~Disagree(v, w) ELSE heap[v].null = heap[w].null
    <3>1. CASE Scalars(v, w)
      BY <2>3, <3>1, ScalarsEnd
    <3>2. CASE ~Scalars(v, w)
      <4>1. v \in Nodes
        BY <3>2 DEF Scalars
      <4>2. <<v, w>> \in Equals
        BY <2>3, <4>1, CompositeAgrees
      <4> QED BY <3>2, <4>2, EqualPair
    <3> QED BY <3>1, <3>2
  <2>5. ~Differs(x, y, k)
    BY <2>2, <2>4 DEF Differs, v, w
  <2>6. v \in Nodes => <<v, w>> \in Equals
    BY <2>3, CompositeAgrees
  <2> QED BY <2>5, <2>6 DEF v, w
<1>5. \A x, y \in Nodes : <<x, y>> \in Equals => Covered(seen \cup Equals, ahead, es, x, y)
  BY <1>4 DEF Covered, Kept
<1>6. Kept(seen \cup Equals, ahead, es, Head(s).x, Head(s).y)
  BY DEF Kept
<1> QED BY <1>1, <1>3, <1>5, <1>6, GrowsSelf, CoverStep

-----------------------------------------------------------------------------
(* The actions, for what they lose.                                        *)

LEMMA RoomLeft ==
  ASSUME TypeInv, HideInv, ~Full
  PROVE  todo \in Seq(Items) /\ visited \in SUBSET Pairs /\ Complete(visited, todo, entries)
<1>1. Len(entries) \in Nat /\ Limit \in Nat
  BY Names DEF TypeInv
<1>2. Len(entries) <= Limit
  BY <1>1 DEF Full
<1> QED BY <1>2 DEF TypeInv, HideInv

LEMMA HideKeeps ==
  ASSUME heap' = heap, Len(entries') <= Limit => Complete(visited', todo', entries')
  PROVE  HideInv'
<1> SUFFICES ASSUME Len(entries') <= Limit PROVE Complete(visited, todo, entries)'
  BY DEF HideInv
<1>1. \A p : Reach(p)' = Reach(p)
  BY DEF Reach, Compared, Kind
<1>2. \A p : Under(entries, p)' <=> Under(entries', p)
  BY <1>1 DEF Under
<1>3. \A R, v, w : Kept(R, todo, entries, v, w)' <=> Kept(R, todo', entries', v, w)
  BY <1>2 DEF Kept, Waits
<1>4. \A x, y : (Open(x, y)' <=> Open(x, y)) /\ Slots(x, y)' = Slots(x, y)
  BY DEF Open, Slots, Kind
<1>5. \A x, y, k : (Both(x, y, k)' <=> Both(x, y, k)) /\ (Differs(x, y, k)' <=> Differs(x, y, k))
  BY DEF Both, Differs, Scalars, Disagree, Kind
<1>6. \A x, y, k : Told(todo, entries, x, y, k)' <=> Told(todo', entries', x, y, k)
  BY <1>5 DEF Told, Says
<1>7. \A R : \A x, y : Covered(R, todo', entries', x, y) => Covered(R, todo, entries, x, y)'
  BY <1>3, <1>4, <1>5, <1>6 DEF Covered
<1>8. PICK R \in SUBSET Pairs :
        /\ visited' \subseteq R /\ Kept(R, todo', entries', First, Second)
        /\ \A x, y \in Nodes : <<x, y>> \in R => Covered(R, todo', entries', x, y)
  BY DEF Complete
<1> QED BY <1>3, <1>7, <1>8 DEF Complete

LEMMA AddLineHide ==
  ASSUME Inv, HideInv, AddLine
  PROVE  HideInv'
<1> DEFINE x == Current.x
           y == Current.y
<1>1. /\ todo # <<>> /\ ~Full /\ heap' = heap /\ visited' = visited
      /\ Current.line \/ Scalars(x, y)
      /\ entries' = IF Current.line \/ Disagree(x, y) THEN Add(Current, <<>>) ELSE entries
  BY DEF AddLine, Due
<1>2. TypeInv /\ todo \in Seq(Items) /\ Complete(visited, todo, entries)
  BY <1>1, RoomLeft DEF Inv
<1>3. Current = Head(todo) /\ Current \in Items
  BY <1>1, <1>2, DueFacts
<1>4. todo' = Tail(todo)
  BY <1>1, <1>2, DueFacts, Empty DEF AddLine, Goes
<1>5. /\ Grows(entries, entries')
      /\ \A u, v, k : Differs(u, v, k) /\ Says(Current, u, v, k) => Told(<<>>, entries', u, v, k)
  <2>1. CASE Current.line \/ Disagree(x, y)
    BY <1>1, <1>2, <1>3, <2>1, AddTells
  <2>2. CASE ~(Current.line \/ Disagree(x, y))
    <3>1. \A u, v, k : ~(Differs(u, v, k) /\ Says(Current, u, v, k))
      BY <1>1, <2>2 DEF Differs, Says, Both
    <3> QED BY <1>1, <2>2, <3>1, GrowsSelf
  <2> QED BY <2>1, <2>2
<1>6. Current.line \/ (x \in Nodes /\ y \in Nodes => ~Open(x, y))
  BY <1>1 DEF Scalars, Open
<1>7. Complete(visited, Tail(todo), entries')
  BY <1>1, <1>2, <1>3, <1>5, <1>6, CoverEnd
<1> QED BY <1>1, <1>4, <1>7, HideKeeps

LEMMA DescendHide ==
  ASSUME Inv, HideInv, Descend
  PROVE  HideInv'
<1> DEFINE x == Current.x
           y == Current.y
<1>1. /\ todo # <<>> /\ ~Full /\ heap' = heap /\ ~Current.line /\ ~Scalars(x, y)
  BY DEF Descend, Composite, Due
<1>2. TypeInv /\ todo \in Seq(Items) /\ visited \in SUBSET Pairs /\ Complete(visited, todo, entries)
  BY <1>1, RoomLeft DEF Inv
<1>3. Current = Head(todo) /\ Current \in Items /\ x \in Nodes /\ y \in Nodes
  BY <1>1, <1>2, DueFacts, PairFacts
<1>4. heap[x].null \in BOOLEAN /\ heap[y].null \in BOOLEAN
  BY <1>2, <1>3, ShapeFacts
<1>5. CASE heap[x].null # heap[y].null
  <2>1. entries' = Add(Current, <<>>) /\ todo' = <<>> \o Tail(todo) /\ visited' = visited
    BY <1>5 DEF Descend, Goes
  <2>2. todo' = Tail(todo)
    BY <1>1, <1>2, <2>1, DueFacts, Empty
  <2>3. /\ Grows(entries, entries')
        /\ \A u, v, k : Says(Current, u, v, k) => Told(<<>>, entries', u, v, k)
    BY <1>2, <1>3, <2>1, AddTells
  <2>4. ~Open(x, y)
    BY <1>4, <1>5 DEF Open
  <2>5. Complete(visited, Tail(todo), entries')
    BY <1>1, <1>2, <1>3, <2>3, <2>4, CoverEnd
  <2> QED BY <1>1, <2>1, <2>2, <2>5, HideKeeps
<1>6. CASE heap[x].null = heap[y].null /\ Met(x, y, visited)
  <2>1. entries' = entries /\ todo' = <<>> \o Tail(todo) /\ visited' = visited
    BY <1>6 DEF Descend, Goes
  <2>2. todo' = Tail(todo)
    BY <1>1, <1>2, <2>1, DueFacts, Empty
  <2>3. \A u, v, k : ~(Differs(u, v, k) /\ Says(Current, u, v, k))
    BY <1>1, <1>6, NoDifference
  <2>4. ~Open(x, y) \/ <<x, y>> \in visited
    BY <1>6 DEF Met, Open
  <2>5. Complete(visited, Tail(todo), entries)
    BY <1>1, <1>2, <1>3, <2>3, <2>4, GrowsSelf, CoverEnd
  <2> QED BY <1>1, <2>1, <2>2, <2>5, HideKeeps
<1>7. CASE heap[x].null = heap[y].null /\ ~Met(x, y, visited)
  <2>1. /\ entries' = entries /\ \E items \in Below(Current, FALSE) : todo' = items \o Tail(todo)
        /\ visited' = IF Marks(x) THEN visited \cup {<<x, y>>} ELSE visited
    BY <1>7 DEF Descend, Goes
  <2>2. PICK items \in Below(Current, FALSE) : todo' = items \o Tail(todo)
    BY <2>1
  <2>3. Comparable(Current)
    BY <1>1, <1>2, <1>3, <1>7, ApartPair
  <2>4. items \in Seq(Items) /\ Shows(items, x, y)
    BY <1>2, <2>3, BelowTells, BelowShows
  <2>5. visited' \subseteq visited \cup {<<x, y>>}
    BY <2>1
  <2>6. Complete(visited', items \o Tail(todo), entries)
    BY <1>1, <1>2, <1>3, <1>7, <2>4, <2>5, CoverApart
  <2> QED BY <1>1, <2>1, <2>2, <2>6, HideKeeps
<1> QED BY <1>5, <1>6, <1>7

LEMMA AnswerHide ==
  ASSUME TypeInv, HideInv, todo # <<>>, ~Full, ~Current.line, ~Scalars(Current.x, Current.y),
         NEW d \in BOOLEAN, d <=> Pair(Current) \notin Equals,
         Answer(d), heap' = heap, visited' = visited
  PROVE  HideInv'
<1>1. todo \in Seq(Items) /\ Complete(visited, todo, entries)
  BY RoomLeft
<1>2. Current = Head(todo) /\ Current \in Items /\ Current.x \in Nodes /\ Current.y \in Nodes
  BY DueFacts, PairFacts
<1>3. Pair(Current) = <<Current.x, Current.y>> /\ Pair(Current) \in Pairs
  BY <1>2 DEF Pair, Pairs
<1>4. CASE d
  <2>1. entries' = Add(Current, Pair(Current)) /\ todo' = <<>> \o Tail(todo)
    BY <1>4 DEF Answer, Goes
  <2>2. /\ Grows(entries, entries') /\ Under(entries', Pair(Current))
        /\ \A u, v, k : Says(Current, u, v, k) => Told(<<>>, entries', u, v, k)
    BY <1>2, <1>3, <2>1, AddTells
  <2>3. Kept(visited \cup {}, <<>>, entries', Current.x, Current.y)
    BY <1>3, <2>2 DEF Kept
  <2>4. {} \in SUBSET Pairs /\ visited \subseteq visited \cup {} /\ <<>> \in Seq(Items)
    BY Empty
  <2>5. \A x, y \in Nodes : <<x, y>> \in {} => Covered(visited \cup {}, <<>>, entries', x, y)
    OBVIOUS
  <2>6. Complete(visited, <<>> \o Tail(todo), entries')
    BY <1>1, <1>2, <2>2, <2>3, <2>4, <2>5, CoverStep
  <2> QED BY <2>1, <2>6, HideKeeps
<1>5. CASE ~d
  <2> DEFINE again == [Current EXCEPT !.equal = TRUE]
             ahead == IF Deep(Current) THEN <<again>> ELSE <<>>
  <2>1. entries' = entries /\ todo' = ahead \o Tail(todo)
    BY <1>5 DEF Answer, Goes
  <2>2. again \in Items
    BY <1>2 DEF Items
  <2> HIDE DEF again
  <2>3. ahead \in Seq(Items)
    BY <2>2
  <2> HIDE DEF ahead
  <2>4. Complete(visited, ahead \o Tail(todo), entries)
    BY <1>1, <1>2, <1>3, <1>5, <2>3, CoverEqual
  <2> QED BY <2>1, <2>4, HideKeeps
<1> QED BY <1>4, <1>5

LEMMA InitHide ==
  ASSUME Init
  PROVE  HideInv
<1> DEFINE it == Item(First, Second, <<>>, <<>>)
<1>1. ~it.line /\ it.x = First /\ it.y = Second
  BY DEF Item
<1> HIDE DEF it
<1>2. todo = <<it>> /\ DOMAIN todo = {1} /\ todo[1] = it /\ visited = {}
  BY DEF Init, it
<1>3. Waits(todo, First, Second)
  BY <1>1, <1>2 DEF Waits
<1>4. Kept({}, todo, entries, First, Second)
  BY <1>3 DEF Kept
<1>5. {} \in SUBSET Pairs /\ visited \subseteq {}
  BY <1>2
<1>6. \A x, y \in Nodes : <<x, y>> \in {} => Covered({}, todo, entries, x, y)
  OBVIOUS
<1> QED BY <1>4, <1>5, <1>6, Zenon DEF HideInv, Complete

LEMMA NextHide ==
  ASSUME Inv, HideInv, [Next]_vars
  PROVE  HideInv'
<1>1. ASSUME heap' = heap, walk' = walk PROVE HideInv'
  <2>1. todo' = todo /\ visited' = visited /\ entries' = entries
    BY <1>1 DEF walk
  <2> QED BY <1>1, <2>1, HideKeeps DEF HideInv
<1>2. CASE AddLine
  BY <1>2, AddLineHide
<1>3. CASE Descend
  BY <1>3, DescendHide
<1>4. CASE Stop
  <2>1. heap' = heap /\ entries' = entries /\ ~(Len(entries') <= Limit)
    <3>1. heap' = heap /\ entries' = entries /\ Len(entries) > Limit
      BY <1>4 DEF Stop, Full
    <3>2. Len(entries) \in Nat /\ Limit \in Nat
      BY Names DEF Inv, TypeInv
    <3> QED BY <3>1, <3>2
  <2> QED BY <2>1, HideKeeps
<1>5. CASE Recall
  <2>1. /\ todo # <<>> /\ ~Full /\ heap' = heap /\ visited' = visited
        /\ ~Current.line /\ ~Scalars(Current.x, Current.y)
        /\ Pair(Current) \in DOMAIN probed /\ Answer(probed[Pair(Current)])
    BY <1>5 DEF Recall, Composite, Due
  <2>2. /\ probed[Pair(Current)] \in BOOLEAN
        /\ probed[Pair(Current)] <=> Pair(Current) \notin Equals
    BY <2>1 DEF Inv, TypeInv, MemoInv
  <2> QED BY <2>1, <2>2, AnswerHide DEF Inv
<1>6. CASE Ask
  BY <1>1, <1>6 DEF Ask
<1>7. CASE ProbeStep
  BY <1>1, <1>7 DEF ProbeStep
<1>8. CASE ProbeEnds
  <2>1. asked # <<>> /\ (sub = <<>> \/ found) /\ heap' = heap /\ visited' = visited /\ Answer(found)
    BY <1>8 DEF ProbeEnds
  <2>2. todo # <<>> /\ ~Full /\ ~Current.line /\ ~Scalars(Current.x, Current.y)
    BY <2>1 DEF Inv, AskInv
  <2>3. found \in BOOLEAN /\ (found <=> Pair(Current) \notin Equals)
    BY <2>1, ProbeAnswers DEF Inv, TypeInv
  <2> QED BY <2>1, <2>2, <2>3, AnswerHide DEF Inv
<1>9. CASE UNCHANGED vars
  BY <1>1, <1>9 DEF vars
<1> QED BY <1>2, <1>3, <1>4, <1>5, <1>6, <1>7, <1>8, <1>9 DEF Next

\* Nothing waits: what R and the entries have is closed.
LEMMA CompleteEnds ==
  ASSUME TypeInv, Complete(visited, <<>>, entries), NEW q \in Reach(<<First, Second>>),
         Open(q[1], q[2]), NEW k \in Slots(q[1], q[2]), Differs(q[1], q[2], k)
  PROVE  \E i \in DOMAIN entries :
           \/ entries[i].at = <<q[1], q[2], k>>
           \/ entries[i].below # <<>> /\ q \in Reach(entries[i].below)
<1>1. PICK R \in SUBSET Pairs :
        /\ Kept(R, <<>>, entries, First, Second)
        /\ \A x, y \in Nodes : <<x, y>> \in R => Covered(R, <<>>, entries, x, y)
  BY DEF Complete
<1> DEFINE U == {p \in Pairs : p \in R \/ Under(entries, p)}
<1>2. \A v, w \in Nodes : Kept(R, <<>>, entries, v, w) => <<v, w>> \in U
  BY DEF Kept, Waits, Pairs
<1>3. <<First, Second>> \in U
  BY <1>1, <1>2, Names
<1>4. ASSUME NEW r \in U, NEW p \in Compared(r[1], r[2]) PROVE p \in U
  <2>1. CASE Under(entries, r)
    <3>1. PICK i \in DOMAIN entries : entries[i].below # <<>> /\ r \in Reach(entries[i].below)
      BY <2>1 DEF Under
    <3>2. p \in Reach(entries[i].below) /\ p \in Pairs
      BY <1>4, <3>1, ReachClosed
    <3> QED BY <3>1, <3>2 DEF Under
  <2>2. CASE r \in R
    <3> DEFINE x == r[1]
               y == r[2]
    <3>1. x \in Nodes /\ y \in Nodes /\ <<x, y>> \in R
      BY <2>2 DEF Pairs
    <3> HIDE DEF x, y
    <3>2. p \in Compared(x, y)
      BY <1>4 DEF x, y
    <3>3. /\ Kind(x) = Kind(y) /\ ~(x = y /\ Kind(x) \in References) /\ p \in Pairs
          /\ \E k1 \in DOMAIN heap[x].kids \cap DOMAIN heap[y].kids :
               k1 \notin NaNs /\ p = <<heap[x].kids[k1], heap[y].kids[k1]>>
      BY <3>2, Zenon DEF Compared, Pairs
    <3>4. PICK l : /\ Both(x, y, l) /\ p = <<heap[x].kids[l], heap[y].kids[l]>>
      BY <3>3 DEF Both
    <3>5. heap[x].kids[l] \in Nodes /\ heap[y].kids[l] \in Nodes
      BY <3>3, <3>4 DEF Pairs
    <3>6. ~heap[x].null /\ ~heap[y].null
      <4>1. ASSUME NEW n \in Nodes, heap[n].null PROVE DOMAIN heap[n].kids = {}
        BY <4>1, ShapeFacts
      <4> QED BY <3>1, <3>4, <4>1 DEF Both
    <3>7. Open(x, y) /\ l \in Slots(x, y)
      BY <3>3, <3>4, <3>6 DEF Open, Slots, Both
    <3>8. Covered(R, <<>>, entries, x, y)
      BY <1>1, <3>1
    <3>9. Kept(R, <<>>, entries, heap[x].kids[l], heap[y].kids[l])
      BY <3>4, <3>5, <3>7, <3>8, Zenon DEF Covered
    <3> QED BY <1>2, <3>4, <3>5, <3>9
  <2> QED BY <1>4, <2>1, <2>2
<1>5. U \in SUBSET Pairs /\ \A r \in U : Compared(r[1], r[2]) \subseteq U
  BY <1>4
<1> HIDE DEF U
<1>6. q \in U
  BY <1>3, <1>5, ReachLeast
<1>7. CASE Under(entries, q)
  BY <1>7 DEF Under
<1>8. CASE q \in R
  <2> DEFINE x == q[1]
             y == q[2]
  <2>1. x \in Nodes /\ y \in Nodes /\ <<x, y>> \in R
    BY <1>8 DEF Pairs
  <2> HIDE DEF x, y
  <2>2. Open(x, y) /\ k \in Slots(x, y) /\ Differs(x, y, k)
    BY DEF x, y
  <2>3. Told(<<>>, entries, x, y, k)
    BY <1>1, <2>1, <2>2, Zenon DEF Covered
  <2>4. \E i \in DOMAIN entries : entries[i].at = <<x, y, k>>
    BY <2>3 DEF Told
  <2> QED BY <2>4 DEF x, y
<1> QED BY <1>6, <1>7, <1>8 DEF U

-----------------------------------------------------------------------------
(* Where a path leads.                                                     *)

\* Pointers are followed without a segment.
Two == Values \X Values
Kid(p, k)  == <<heap[p[1]].kids[k], heap[p[2]].kids[k]>>
Chained(p) ==
  /\ p \in Pairs /\ Kind(p[1]) = "ptr" /\ Kind(p[2]) = "ptr"
  /\ ~heap[p[1]].null /\ ~heap[p[2]].null
Linked(S)  == \A r \in S : Chained(r) => Kid(r, 1) \in S
Follow(p)  == {q \in Two : p \in Two /\ \A S \in SUBSET Two : p \in S /\ Linked(S) => q \in S}
Landed(p)  == p \in Pairs /\ Kind(p[1]) # "ptr"

LEMMA KidOfChained ==
  ASSUME TypeInv, NEW p, Chained(p)
  PROVE  Kid(p, 1) \in Two
<1> DEFINE x == p[1]
           y == p[2]
<1>1. x \in Nodes /\ y \in Nodes
  BY DEF Chained, Pairs
<1>2. Kind(x) = "ptr" /\ Kind(y) = "ptr" /\ ~heap[x].null /\ ~heap[y].null
  BY DEF Chained
<1> HIDE DEF x, y
<1>3. heap[x].kind = "ptr" /\ heap[y].kind = "ptr"
  BY <1>1, <1>2 DEF Kind
<1>4. heap[x].kids \in [1..1 -> Values] /\ heap[y].kids \in [1..1 -> Values]
  BY <1>1, <1>2, <1>3, ShapeFacts
<1> QED BY <1>4 DEF Kid, Two, x, y

LEMMA FollowSelf ==
  ASSUME NEW p \in Two
  PROVE  p \in Follow(p)
BY DEF Follow

LEMMA FollowOn ==
  ASSUME TypeInv, NEW p, NEW q \in Follow(p), Chained(q)
  PROVE  Kid(q, 1) \in Follow(p)
<1>1. Kid(q, 1) \in Two
  BY KidOfChained
<1>2. ASSUME NEW S \in SUBSET Two, p \in S, Linked(S) PROVE Kid(q, 1) \in S
  <2>1. q \in S
    BY <1>2 DEF Follow
  <2> QED BY <1>2, <2>1 DEF Linked
<1>3. p \in Two
  BY DEF Follow
<1> QED BY <1>1, <1>2, <1>3, Zenon DEF Follow

\* A chain of pointers ends at one pair.
LEMMA OneLanding ==
  ASSUME TypeInv, NEW p, NEW q \in Follow(p), NEW r \in Follow(p), Landed(q), Landed(r)
  PROVE  q = r
<1>1. ASSUME NEW s \in Two, Chained(s), r \in Follow(s) PROVE r \in Follow(Kid(s, 1))
  <2>1. r # s
    BY <1>1 DEF Landed, Chained
  <2>2. ASSUME NEW S \in SUBSET Two, Kid(s, 1) \in S, Linked(S) PROVE r \in S
    <3>1. S \cup {s} \in SUBSET Two /\ s \in S \cup {s}
      OBVIOUS
    <3>2. Linked(S \cup {s})
      BY <2>2 DEF Linked
    <3>3. r \in S \cup {s}
      BY <1>1, <3>1, <3>2, Zenon DEF Follow
    <3> QED BY <2>1, <3>3
  <2>3. r \in Two /\ Kid(s, 1) \in Two
    BY <1>1, KidOfChained DEF Follow
  <2> QED BY <2>2, <2>3, Zenon DEF Follow
<1> DEFINE T == {s \in Two : r \in Follow(s)}
<1>2. Linked(T)
  <2> SUFFICES ASSUME NEW s \in T, Chained(s) PROVE Kid(s, 1) \in T
    BY DEF Linked
  <2> QED BY <1>1, KidOfChained
<1>3. p \in T
  <2>1. p \in Two
    BY DEF Follow
  <2> QED BY <2>1
<1>4. q \in T
  BY <1>2, <1>3, Zenon DEF Follow
<1>5. q \in Two /\ {q} \in SUBSET Two
  BY DEF Follow
<1>6. Linked({q})
  BY DEF Linked, Chained, Landed
<1> HIDE DEF T
<1>7. r \in Follow(q)
  BY <1>4 DEF T
<1>8. r \in {q}
  BY <1>5, <1>6, <1>7, Zenon DEF Follow
<1> QED BY <1>8

-----------------------------------------------------------------------------
(* Trails.                                                                 *)

\* A segment that leaves a pair, and the slot it leads to.
Fits(p, s) ==
  \/ /\ Kind(p[1]) = "map" /\ s.level = p
     /\ \E i \in DOMAIN KeyOrder : s.key = KeyOrder[i] /\ s.pos \in {2 * i + 1, 2 * i + 2}
  \/ Kind(p[1]) # "map" /\ s.level = <<>> /\ s.key = Nil
At(s) == IF s.key = Nil THEN s.pos ELSE s.key

\* The pairs the segments of a path leave, each where the one before led, but for pointers.
Start(l, path, i) == IF i = 1 THEN <<First, Second>> ELSE Kid(l[i - 1], At(path[i - 1]))
Trail(l, path) ==
  /\ l \in Seq(Pairs) /\ Len(l) = Len(path)
  /\ \A i \in 1..Len(path) :
       Landed(l[i]) /\ l[i] \in Follow(Start(l, path, i)) /\ Fits(l[i], path[i])

Reached(e) ==
  \E l : Trail(l, e.path) /\ (~e.line => <<e.x, e.y>> \in Follow(Start(l, e.path, Len(e.path) + 1)))
Traced(path) == \E l : Trail(l, path)

TrailInv ==
  /\ \A i \in DOMAIN todo : Reached(todo[i])
  /\ \A i \in DOMAIN entries : Traced(entries[i].path)

\* An item below another.
Follows(it, e) ==
  LET p == <<it.x, it.y>> IN
  \/ e.path = it.path /\ (e.line \/ (Chained(p) /\ <<e.x, e.y>> = Kid(p, 1)))
  \/ \E s \in Segments : /\ e.path = Append(it.path, s) /\ Landed(p) /\ Fits(p, s)
                         /\ ~e.line => <<e.x, e.y>> = Kid(p, At(s))

LEMMA ReachStep ==
  ASSUME TypeInv, NEW it \in Items, ~it.line, Reached(it), NEW e \in Items, Follows(it, e)
  PROVE  Reached(e)
<1> DEFINE p == <<it.x, it.y>>
           path == it.path
           n == Len(path)
<1>1. PICK l : Trail(l, path) /\ p \in Follow(Start(l, path, n + 1))
  BY DEF Reached
<1>2. path \in Seq(Segments) /\ n \in Nat /\ <<e.x, e.y>> \in Two
  BY DEF Items, Two
<1> HIDE DEF p, path
<1>3. CASE e.path = path /\ (e.line \/ (Chained(p) /\ <<e.x, e.y>> = Kid(p, 1)))
  BY <1>1, <1>3, FollowOn DEF Reached
<1>4. CASE \E s \in Segments : /\ e.path = Append(path, s) /\ Landed(p) /\ Fits(p, s)
                               /\ ~e.line => <<e.x, e.y>> = Kid(p, At(s))
  <2>1. PICK s \in Segments : /\ e.path = Append(path, s) /\ Landed(p) /\ Fits(p, s)
                              /\ ~e.line => <<e.x, e.y>> = Kid(p, At(s))
    BY <1>4
  <2> DEFINE m == Append(l, p)
             new == Append(path, s)
  <2>2. p \in Pairs
    BY <2>1 DEF Landed
  <2>3. l \in Seq(Pairs) /\ Len(l) = n
    BY <1>1 DEF Trail
  <2>4. /\ m \in Seq(Pairs) /\ Len(m) = n + 1 /\ Len(new) = n + 1 /\ m[n + 1] = p /\ new[n + 1] = s
        /\ \A i \in 1..n : m[i] = l[i] /\ new[i] = path[i]
    BY <1>2, <2>2, <2>3
  <2> HIDE DEF m, new, n
  <2>5. ASSUME NEW i \in 1..(n + 1) PROVE Start(m, new, i) = Start(l, path, i)
    <3>1. CASE i = 1
      BY <3>1 DEF Start
    <3>2. CASE i # 1
      <4>1. i - 1 \in 1..n
        BY <1>2, <3>2
      <4> QED BY <2>4, <4>1 DEF Start
    <3> QED BY <3>1, <3>2
  <2>6. ASSUME NEW i \in 1..(n + 1)
        PROVE  Landed(m[i]) /\ m[i] \in Follow(Start(m, new, i)) /\ Fits(m[i], new[i])
    <3>1. CASE i = n + 1
      BY <1>1, <2>1, <2>4, <2>5, <3>1
    <3>2. CASE i # n + 1
      <4>1. i \in 1..n
        BY <1>2, <3>2
      <4>2. Landed(l[i]) /\ l[i] \in Follow(Start(l, path, i)) /\ Fits(l[i], path[i])
        BY <1>1, <4>1 DEF Trail, n
      <4> QED BY <2>4, <2>5, <4>1, <4>2
    <3> QED BY <3>1, <3>2
  <2>7. Trail(m, new)
    BY <2>4, <2>6 DEF Trail
  <2>8. Start(m, new, n + 1 + 1) = Kid(p, At(s))
    <3>1. n + 1 + 1 # 1 /\ n + 1 + 1 - 1 = n + 1
      BY <1>2
    <3> QED BY <2>4, <3>1 DEF Start
  <2>9. ~e.line => <<e.x, e.y>> \in Follow(Start(m, new, Len(new) + 1))
    BY <1>2, <2>1, <2>4, <2>8, FollowSelf
  <2> QED BY <2>1, <2>7, <2>9 DEF Reached, new
<1> QED BY <1>3, <1>4 DEF Follows, p, path

\* Positions are no keys, and Nil is none.
LEMMA KeyNames == Nil \notin Keys /\ Keys \cap Nat = {}
BY DiffAssumption

LEMMA ChildFollows ==
  ASSUME TypeInv, NEW it, Comparable(it), heap[it.x].kind \in {"slice", "struct", "opaque"}, NEW i \in Nat
  PROVE  /\ Follows(it, Child(it, i))
         /\ \A at : Follows(it, Line(Append(it.path, Index(i)), at))
<1> DEFINE p == <<it.x, it.y>>
           s == Index(i)
<1>1. it.x \in Nodes /\ it.y \in Nodes /\ Kind(it.x) = heap[it.x].kind
  BY DEF Comparable
<1>2. p \in Pairs /\ p[1] = it.x /\ p[2] = it.y
  BY <1>1 DEF Pairs
<1>3. s.level = <<>> /\ s.pos = i /\ s.key = Nil /\ s \in Segments
  <2>1. <<>> \in {<<>>} \cup Pairs
    OBVIOUS
  <2> QED BY <2>1 DEF Index, Segment, Segments
<1> HIDE DEF p, s
<1>4. Landed(p) /\ Fits(p, s)
  BY <1>1, <1>2, <1>3 DEF Landed, Fits
<1>5. At(s) = i
  BY <1>3 DEF At
<1>6. Kid(p, i) = <<heap[it.x].kids[i], heap[it.y].kids[i]>>
  BY <1>2 DEF Kid
<1>7. /\ Child(it, i).path = Append(it.path, s) /\ ~Child(it, i).line
      /\ Child(it, i).x = heap[it.x].kids[i] /\ Child(it, i).y = heap[it.y].kids[i]
  BY DEF Child, Item, s
<1>8. \A at : Line(Append(it.path, s), at).path = Append(it.path, s) /\ Line(Append(it.path, s), at).line
  BY DEF Line
<1>9. Follows(it, Child(it, i))
  BY <1>3, <1>4, <1>5, <1>6, <1>7 DEF Follows, p
<1>10. \A at : Follows(it, Line(Append(it.path, s), at))
  BY <1>3, <1>4, <1>8 DEF Follows, p
<1> QED BY <1>9, <1>10 DEF s

LEMMA SliceFollows ==
  ASSUME TypeInv, NEW it, Comparable(it), heap[it.x].kind = "slice", NEW e, Holds(ListItems(it), e)
  PROVE  Follows(it, e)
<1> DEFINE x == it.x
           y == it.y
           m == Len(heap[x].kids)
           n == Len(heap[y].kids)
           top == IF m < n THEN n ELSE m
           l == Line(it.path, <<it.x, it.y, 0>>)
           front == IF m = n THEN <<>> ELSE <<l>>
           one(i) == IF i <= m /\ i <= n THEN Child(it, i)
                     ELSE Line(Append(it.path, Index(i)), <<it.x, it.y, i>>)
           f == [i \in 1..top |-> one(i)]
<1>1. m \in Nat /\ n \in Nat
  <2>1. ASSUME NEW z \in Nodes, heap[z].kind = "slice", ~heap[z].null PROVE Len(heap[z].kids) \in Nat
    <3>1. PICK c \in Nat : heap[z].kids \in [1..c -> Values]
      BY <2>1, ShapeFacts
    <3>2. Len(heap[z].kids) = c
      BY <3>1
    <3> QED BY <3>2
  <2> QED BY <2>1 DEF Comparable
<1>2. ListItems(it) = front \o f
  BY Zenon DEF ListItems
<1>3. top \in Nat
  BY <1>1
<1>4. Follows(it, l)
  BY DEF Follows, Line
<1>5. \A i \in Nat : Follows(it, one(i))
  BY ChildFollows
<1> HIDE DEF top, one, l
<1>6. front \in Seq({l}) /\ f \in Seq({one(i) : i \in Nat}) /\ DOMAIN f = 1..top
  <2>1. \A i \in 1..top : f[i] \in {one(j) : j \in Nat}
    BY <1>3
  <2>2. f \in [1..top -> {one(j) : j \in Nat}] /\ DOMAIN f = 1..top
    BY <2>1
  <2>3. front \in Seq({l})
    <3>1. <<>> \in Seq({l}) /\ <<l>> \in Seq({l})
      OBVIOUS
    <3> QED BY <3>1
  <2> HIDE DEF f
  <2> QED BY <1>3, <2>2, <2>3
<1> DEFINE T == {l} \cup {one(i) : i \in Nat}
<1>7. front \in Seq(T) /\ f \in Seq(T)
  <2> HIDE DEF front, f
  <2>1. {l} \subseteq T /\ {one(i) : i \in Nat} \subseteq T
    OBVIOUS
  <2> HIDE DEF T
  <2> QED BY <1>6, <2>1
<1> HIDE DEF front, f
<1>8. front \o f \in Seq(T)
  <2> HIDE DEF T
  <2> QED BY <1>7
<1>9. e \in T
  <2> HIDE DEF T
  <2> QED BY <1>2, <1>8 DEF Holds
<1> QED BY <1>4, <1>5, <1>9

LEMMA MapFollows ==
  ASSUME TypeInv, NEW it, Comparable(it), heap[it.x].kind = "map", NEW tie \in Ties,
         NEW e, Holds(MapItems(it, tie), e)
  PROVE  Follows(it, e)
<1> DEFINE p == <<it.x, it.y>>
<1>1. PICK i \in DOMAIN KeyOrder : \E j \in DOMAIN Unit(it, tie, i) : e = MapItem(it, tie, i, j)
  BY MapItemsAre
<1>2. PICK j \in DOMAIN Unit(it, tie, i) : e = MapItem(it, tie, i, j)
  BY <1>1
<1> DEFINE s == MapSegment(it, i, j)
           k == KeyOrder[i]
<1>3. /\ s \in Segments /\ e.path = Append(it.path, s)
      /\ ~e.line => e.x = heap[it.x].kids[k] /\ e.y = heap[it.y].kids[k]
  BY <1>2, MapItemFacts
<1>4. p \in Pairs /\ p[1] = it.x /\ p[2] = it.y /\ Kind(it.x) = "map"
  BY DEF Comparable, Pairs
<1>5. s.level = p /\ s.pos = 2 * i + j /\ s.key = k
  BY DEF MapSegment, Segment
<1>6. j \in 1..2 /\ k \in Keys /\ k # Nil
  <2>1. j \in 1..2 /\ k \in Keys
    BY MapUnit, KeyFacts
  <2> QED BY <2>1, KeyNames
<1> HIDE DEF p, s
<1>7. s.pos \in {2 * i + 1, 2 * i + 2}
  BY <1>5, <1>6
<1>8. Landed(p) /\ Fits(p, s)
  BY <1>4, <1>5, <1>7 DEF Landed, Fits
<1>9. At(s) = k
  BY <1>5, <1>6 DEF At
<1>10. Kid(p, k) = <<heap[it.x].kids[k], heap[it.y].kids[k]>>
  BY <1>4 DEF Kid
<1> HIDE DEF k
<1> QED BY <1>3, <1>8, <1>9, <1>10 DEF Follows, p

LEMMA BelowFollows ==
  ASSUME TypeInv, NEW it, Comparable(it), NEW items \in Below(it, FALSE), NEW e, Holds(items, e)
  PROVE  Follows(it, e)
<1>1. Kind(it.x) = heap[it.x].kind /\ it.x \in Nodes /\ it.y \in Nodes
  BY DEF Comparable
<1>2. heap[it.x].kind \in {"ptr", "slice", "map", "struct", "opaque"}
  BY <1>1, ShapeFacts
<1>3. CASE heap[it.x].kind = "ptr"
  <2> DEFINE one == Item(heap[it.x].kids[1], heap[it.y].kids[1], it.path, <<it.x, it.y, 1>>)
             p == <<it.x, it.y>>
  <2>1. items = <<one>>
    BY <1>1, <1>3 DEF Below
  <2>2. one.path = it.path /\ one.x = heap[it.x].kids[1] /\ one.y = heap[it.y].kids[1]
    BY DEF Item
  <2> HIDE DEF one
  <2>3. e = one
    BY <2>1 DEF Holds
  <2>4. p[1] = it.x /\ p[2] = it.y /\ p \in Pairs
    BY <1>1 DEF Pairs
  <2> HIDE DEF p
  <2>5. Chained(p)
    BY <1>1, <1>3, <2>4 DEF Chained, Comparable
  <2>6. Kid(p, 1) = <<heap[it.x].kids[1], heap[it.y].kids[1]>>
    BY <2>4 DEF Kid
  <2> QED BY <2>2, <2>3, <2>5, <2>6 DEF Follows, p
<1>4. CASE heap[it.x].kind \in {"struct", "opaque"}
  <2>1. items = [i \in 1..2 |-> Child(it, i)]
    BY <1>1, <1>4 DEF Below
  <2>2. PICK i \in 1..2 : e = Child(it, i)
    BY <2>1 DEF Holds
  <2> QED BY <1>4, <2>2, ChildFollows
<1>5. CASE heap[it.x].kind = "slice"
  <2>1. items = ListItems(it)
    BY <1>1, <1>5 DEF Below
  <2> QED BY <1>5, <2>1, SliceFollows
<1>6. CASE heap[it.x].kind = "map"
  <2>1. PICK tie \in Ties : items = MapItems(it, tie)
    BY <1>1, <1>6 DEF Below
  <2> QED BY <1>6, <2>1, MapFollows
<1> QED BY <1>2, <1>3, <1>4, <1>5, <1>6

-----------------------------------------------------------------------------
(* The actions, for where their paths lead.                                *)

\* What a path leads through does not change.
LEMMA TrailKeeps ==
  ASSUME heap' = heap, \A i \in DOMAIN todo' : Reached(todo'[i]),
         \A i \in DOMAIN entries' : Traced(entries'[i].path)
  PROVE  TrailInv'
<1>1. \A v : Kind(v)' = Kind(v)
  BY DEF Kind
<1>2. \A p, k : Kid(p, k)' = Kid(p, k)
  BY DEF Kid
<1>3. \A p : (Chained(p)' <=> Chained(p)) /\ (Landed(p)' <=> Landed(p))
  BY <1>1 DEF Chained, Landed
<1>4. \A S : Linked(S)' <=> Linked(S)
  BY <1>2, <1>3 DEF Linked
<1>5. \A p : Follow(p)' = Follow(p)
  BY <1>4 DEF Follow
<1>6. \A p, s : Fits(p, s)' <=> Fits(p, s)
  BY <1>1 DEF Fits
<1>7. \A l, path, i : Start(l, path, i)' = Start(l, path, i)
  BY <1>2 DEF Start
<1>8. \A l, path : Trail(l, path)' <=> Trail(l, path)
  BY <1>3, <1>5, <1>6, <1>7 DEF Trail
<1>9. \A i : Reached(todo[i])' <=> Reached(todo'[i])
  BY <1>5, <1>7, <1>8 DEF Reached
<1>10. \A i : Traced(entries[i].path)' <=> Traced(entries'[i].path)
  BY <1>8 DEF Traced
<1> QED BY <1>9, <1>10 DEF TrailInv

LEMMA TrailHolds ==
  TrailInv <=> (\A e : Holds(todo, e) => Reached(e)) /\ (\A e : Holds(entries, e) => Traced(e.path))
BY DEF TrailInv, Holds

\* A step that goes on to items that are reached, and adds no line but one for the item it is at.
LEMMA TrailStep ==
  ASSUME TypeInv, TrailInv, todo # <<>>, heap' = heap,
         NEW ahead \in Seq(Items), todo' = ahead \o Tail(todo),
         \A e : Holds(ahead, e) => Reached(e),
         entries' = entries \/ \E below \in {<<>>} \cup Pairs : entries' = Add(Current, below)
  PROVE  TrailInv'
<1>1. todo \in Seq(Items) /\ Current = Head(todo) /\ Current \in Items
  BY DueFacts DEF TypeInv
<1>2. \A e : Holds(todo', e) => Reached(e)
  <2>1. \A e : Holds(todo, e) => Reached(e)
    BY TrailHolds
  <2> QED BY <1>1, <2>1, SeqStep
<1>3. Traced(Current.path)
  <2>1. Reached(Current)
    BY <1>1, TrailHolds, SeqStep
  <2> QED BY <2>1 DEF Reached, Traced
<1>4. \A e : Holds(entries, e) => Traced(e.path)
  BY TrailHolds
<1>5. \A e : Holds(entries', e) => Traced(e.path)
  <2>1. CASE entries' = entries
    BY <1>4, <2>1
  <2>2. CASE \E below \in {<<>>} \cup Pairs : entries' = Add(Current, below)
    <3>1. PICK below \in {<<>>} \cup Pairs : entries' = Add(Current, below)
      BY <2>2
    <3> DEFINE one == [path |-> Current.path, at |-> Current.at, below |-> below]
    <3>2. entries \in Seq(Lines) /\ one \in Lines /\ one.path = Current.path
      BY <1>1 DEF TypeInv, Items, Lines
    <3>3. entries' = Append(entries, one)
      BY <3>1 DEF Add
    <3> HIDE DEF one
    <3>4. \A e : Holds(entries', e) => e = one \/ Holds(entries, e)
      BY <3>2, <3>3 DEF Holds
    <3> QED BY <1>3, <1>4, <3>2, <3>4
  <2> QED BY <2>1, <2>2
<1>6. \A i \in DOMAIN todo' : Reached(todo'[i])
  BY <1>2 DEF Holds
<1>7. \A i \in DOMAIN entries' : Traced(entries'[i].path)
  BY <1>5 DEF Holds
<1> QED BY <1>6, <1>7, TrailKeeps

LEMMA AddLineTrail ==
  ASSUME Inv, TrailInv, AddLine
  PROVE  TrailInv'
<1>1. todo # <<>> /\ heap' = heap /\ todo' = <<>> \o Tail(todo) /\ TypeInv
  BY DEF AddLine, Due, Goes, Inv
<1>2. entries' = entries \/ \E below \in {<<>>} \cup Pairs : entries' = Add(Current, below)
  BY DEF AddLine
<1>3. <<>> \in Seq(Items) /\ \A e : ~Holds(<<>>, e)
  BY DEF Holds
<1> QED BY <1>1, <1>2, <1>3, TrailStep

LEMMA DescendTrail ==
  ASSUME Inv, TrailInv, Descend
  PROVE  TrailInv'
<1> DEFINE x == Current.x
           y == Current.y
<1>1. todo # <<>> /\ heap' = heap /\ ~Current.line /\ ~Scalars(x, y) /\ TypeInv
  BY DEF Descend, Composite, Due, Inv
<1>2. Current = Head(todo) /\ Current \in Items /\ todo \in Seq(Items)
  BY <1>1, DueFacts DEF TypeInv
<1>3. <<>> \in Seq(Items) /\ \A e : ~Holds(<<>>, e)
  BY DEF Holds
<1>4. CASE heap[x].null # heap[y].null
  <2>1. entries' = Add(Current, <<>>) /\ todo' = <<>> \o Tail(todo)
    BY <1>4 DEF Descend, Goes
  <2> QED BY <1>1, <1>3, <2>1, TrailStep
<1>5. CASE heap[x].null = heap[y].null /\ Met(x, y, visited)
  <2>1. entries' = entries /\ todo' = <<>> \o Tail(todo)
    BY <1>5 DEF Descend, Goes
  <2> QED BY <1>1, <1>3, <2>1, TrailStep
<1>6. CASE heap[x].null = heap[y].null /\ ~Met(x, y, visited)
  <2>1. entries' = entries /\ \E items \in Below(Current, FALSE) : todo' = items \o Tail(todo)
    BY <1>6 DEF Descend, Goes
  <2>2. PICK items \in Below(Current, FALSE) : todo' = items \o Tail(todo)
    BY <2>1
  <2>3. Comparable(Current)
    BY <1>1, <1>2, <1>6, ApartPair
  <2>4. items \in Seq(Items)
    BY <1>1, <2>3, BelowTells
  <2>5. Reached(Current)
    BY <1>1, <1>2, TrailHolds, SeqStep, <1>3
  <2>6. ASSUME NEW e, Holds(items, e) PROVE Reached(e)
    <3>1. e \in Items
      BY <2>4, <2>6 DEF Holds
    <3>2. Follows(Current, e)
      BY <1>1, <2>3, <2>6, BelowFollows
    <3> QED BY <1>1, <1>2, <2>5, <3>1, <3>2, ReachStep
  <2> QED BY <1>1, <2>1, <2>2, <2>4, <2>6, TrailStep
<1> QED BY <1>4, <1>5, <1>6

LEMMA AnswerTrail ==
  ASSUME TypeInv, TrailInv, todo # <<>>, ~Current.line, ~Scalars(Current.x, Current.y),
         NEW d \in BOOLEAN, Answer(d), heap' = heap
  PROVE  TrailInv'
<1>1. Current = Head(todo) /\ Current \in Items /\ todo \in Seq(Items)
  BY DueFacts DEF TypeInv
<1>2. CASE d
  <2>1. entries' = Add(Current, Pair(Current)) /\ todo' = <<>> \o Tail(todo)
    BY <1>2 DEF Answer, Goes
  <2>2. Pair(Current) \in Pairs
    BY PairFacts DEF Pair, Pairs
  <2>3. <<>> \in Seq(Items) /\ \A e : ~Holds(<<>>, e)
    BY DEF Holds
  <2> QED BY <2>1, <2>2, <2>3, TrailStep
<1>3. CASE ~d
  <2> DEFINE again == [Current EXCEPT !.equal = TRUE]
             ahead == IF Deep(Current) THEN <<again>> ELSE <<>>
  <2>1. entries' = entries /\ todo' = ahead \o Tail(todo)
    BY <1>3 DEF Answer, Goes
  <2>2. /\ again \in Items /\ again.line = Current.line /\ again.path = Current.path
        /\ again.x = Current.x /\ again.y = Current.y
    BY <1>1 DEF Items
  <2> HIDE DEF again
  <2>3. ahead \in Seq(Items) /\ \A e : Holds(ahead, e) => e = again
    BY <2>2 DEF Holds
  <2> HIDE DEF ahead
  <2>4. Reached(again)
    <3>1. Reached(Current)
      BY <1>1, <2>3, TrailHolds, SeqStep
    <3> QED BY <2>2, <3>1 DEF Reached
  <2> QED BY <2>1, <2>3, <2>4, TrailStep
<1> QED BY <1>2, <1>3

LEMMA InitTrail ==
  ASSUME Init
  PROVE  TrailInv
<1> DEFINE it == Item(First, Second, <<>>, <<>>)
           p  == <<First, Second>>
<1>1. it.path = <<>> /\ it.x = First /\ it.y = Second
  BY DEF Item
<1> HIDE DEF it
<1>2. todo = <<it>> /\ entries = <<>>
  BY DEF Init, it
<1>3. p \in Two
  BY Names DEF Two, Values
<1>4. Trail(<<>>, <<>>)
  <2>1. <<>> \in Seq(Pairs) /\ Len(<<>>) = 0 /\ 1..0 = {}
    OBVIOUS
  <2> QED BY <2>1 DEF Trail
<1>5. Start(<<>>, <<>>, Len(<<>>) + 1) = p
  <2>1. Len(<<>>) + 1 = 1
    OBVIOUS
  <2> QED BY <2>1 DEF Start
<1>6. p \in Follow(p)
  BY <1>3, FollowSelf
<1>7. Reached(it)
  BY <1>1, <1>4, <1>5, <1>6 DEF Reached
<1>8. \A i \in DOMAIN todo : todo[i] = it
  BY <1>2
<1>9. DOMAIN entries = {}
  BY <1>2
<1> QED BY <1>7, <1>8, <1>9 DEF TrailInv

LEMMA NextTrail ==
  ASSUME Inv, TrailInv, [Next]_vars
  PROVE  TrailInv'
<1>1. ASSUME heap' = heap, walk' = walk PROVE TrailInv'
  <2>1. todo' = todo /\ entries' = entries
    BY <1>1 DEF walk
  <2> QED BY <1>1, <2>1, TrailKeeps DEF TrailInv
<1>2. CASE AddLine
  BY <1>2, AddLineTrail
<1>3. CASE Descend
  BY <1>3, DescendTrail
<1>4. CASE Stop
  <2>1. heap' = heap /\ todo' = <<>> /\ entries' = entries
    BY <1>4 DEF Stop
  <2>2. DOMAIN todo' = {}
    BY <2>1
  <2> QED BY <2>1, <2>2, TrailKeeps DEF TrailInv
<1>5. CASE Recall
  <2>1. /\ todo # <<>> /\ heap' = heap /\ ~Current.line /\ ~Scalars(Current.x, Current.y)
        /\ Pair(Current) \in DOMAIN probed /\ Answer(probed[Pair(Current)])
    BY <1>5 DEF Recall, Composite, Due
  <2>2. probed[Pair(Current)] \in BOOLEAN
    BY <2>1 DEF Inv, TypeInv
  <2> QED BY <2>1, <2>2, AnswerTrail DEF Inv
<1>6. CASE Ask
  BY <1>1, <1>6 DEF Ask
<1>7. CASE ProbeStep
  BY <1>1, <1>7 DEF ProbeStep
<1>8. CASE ProbeEnds
  <2>1. asked # <<>> /\ heap' = heap /\ Answer(found)
    BY <1>8 DEF ProbeEnds
  <2>2. todo # <<>> /\ ~Current.line /\ ~Scalars(Current.x, Current.y) /\ TypeInv /\ found \in BOOLEAN
    BY <2>1 DEF Inv, AskInv, TypeInv
  <2> QED BY <2>1, <2>2, AnswerTrail
<1>9. CASE UNCHANGED vars
  BY <1>1, <1>9 DEF vars
<1> QED BY <1>2, <1>3, <1>4, <1>5, <1>6, <1>7, <1>8, <1>9 DEF Next

-----------------------------------------------------------------------------
(* What a path reads.                                                      *)

ShownSegments == UNION {{e.path[i] : i \in DOMAIN e.path} : e \in {Shown[j] : j \in DOMAIN Shown}}
AlikeTo(s) == {t \in ShownSegments : t.level = s.level /\ t.key # Nil /\ Label[t.key] = Label[s.key]}
Word(s)    == IF s.key = Nil THEN <<"", s.pos>> ELSE <<Label[s.key], Ordinal(s, AlikeTo(s))>>

LEMMA TextWords ==
  ASSUME NEW path
  PROVE  Text(path) = [i \in DOMAIN path |-> Word(path[i])]
BY Zenon DEF Text, Word, AlikeTo, ShownSegments

LEMMA ElementsFinite ==
  ASSUME NEW T, NEW s \in Seq(T)
  PROVE  IsFiniteSet({s[i] : i \in DOMAIN s})
<1> DEFINE R == {s[i] : i \in DOMAIN s}
<1>1. DOMAIN s = 1..Len(s) /\ Len(s) \in Int
  OBVIOUS
<1>2. IsFiniteSet(DOMAIN s)
  <2>1. IsFiniteSet(1..Len(s))
    BY <1>1, FS_Interval
  <2> QED BY <1>1, <2>1
<1>3. s \in Surjection(DOMAIN s, R)
  <2>1. s \in [DOMAIN s -> R] /\ \A r \in R : \E i \in DOMAIN s : s[i] = r
    OBVIOUS
  <2> QED BY <2>1 DEF Surjection
<1> HIDE DEF R
<1>4. IsFiniteSet(R)
  BY <1>2, <1>3, FS_Surjection
<1> QED BY <1>4 DEF R

LEMMA ShownLines ==
  ASSUME TypeInv
  PROVE  Shown \in Seq(Lines) /\ \A i \in DOMAIN Shown : i \in DOMAIN entries /\ Shown[i] = entries[i]
<1> DEFINE m == IF Len(entries) < Limit THEN Len(entries) ELSE Limit
<1>1. entries \in Seq(Lines) /\ Len(entries) \in Nat /\ Limit \in Nat
  BY Names DEF TypeInv
<1>2. m \in 0..Len(entries)
  BY <1>1
<1>3. Shown = SubSeq(entries, 1, m)
  BY DEF Shown
<1> HIDE DEF m
<1> QED BY <1>1, <1>2, <1>3

LEMMA SegmentsShown ==
  ASSUME TypeInv
  PROVE  /\ ShownSegments \in SUBSET Segments /\ IsFiniteSet(ShownSegments)
         /\ \A j \in DOMAIN Shown : \A i \in DOMAIN Shown[j].path : Shown[j].path[i] \in ShownSegments
<1> DEFINE those(e) == {e.path[i] : i \in DOMAIN e.path}
           E == {Shown[j] : j \in DOMAIN Shown}
           F == {those(e) : e \in E}
<1>1. Shown \in Seq(Lines)
  BY ShownLines
<1>2. IsFiniteSet(E)
  BY <1>1, ElementsFinite
<1>3. \A e \in E : e \in Lines /\ e.path \in Seq(Segments)
  <2>1. E \subseteq Lines
    BY <1>1
  <2>2. \A e \in Lines : e.path \in Seq(Segments)
    BY DEF Lines
  <2> QED BY <2>1, <2>2
<1> HIDE DEF E
<1>4. \A e \in E : those(e) \in SUBSET Segments /\ IsFiniteSet(those(e))
  BY <1>3, ElementsFinite
<1> HIDE DEF those
<1>5. IsFiniteSet(F)
  <2> DEFINE f == [e \in E |-> those(e)]
  <2>1. f \in [E -> F] /\ \A r \in F : \E e \in E : f[e] = r
    OBVIOUS
  <2>2. f \in Surjection(E, F)
    BY <2>1 DEF Surjection
  <2> HIDE DEF f, F
  <2> QED BY <1>2, <2>2, FS_Surjection
<1>6. \A T \in F : IsFiniteSet(T) /\ T \in SUBSET Segments
  BY <1>4
<1>7. ShownSegments = UNION F
  BY DEF ShownSegments, E, those
<1>8. IsFiniteSet(UNION F)
  <2> HIDE DEF F
  <2> QED BY <1>5, <1>6, FS_UNION
<1>9. \A j \in DOMAIN Shown : \A i \in DOMAIN Shown[j].path : Shown[j].path[i] \in ShownSegments
  BY DEF ShownSegments
<1> HIDE DEF F
<1> QED BY <1>6, <1>7, <1>8, <1>9

\* Among finitely many segments the ordinal tells the positions apart.
LEMMA OrdinalTells ==
  ASSUME NEW A \in SUBSET Segments, IsFiniteSet(A), NEW s \in A, NEW t \in A, Ordinal(s, A) = Ordinal(t, A)
  PROVE  s.pos = t.pos
<1> DEFINE upto(u) == {v \in A : v.pos <= u.pos}
<1>1. \A u \in A : u.pos \in Nat
  BY DEF Segments
<1>2. \A u \in A : upto(u) \in SUBSET A /\ IsFiniteSet(upto(u))
  BY FS_Subset
<1>3. ASSUME NEW u \in A, NEW v \in A, u.pos < v.pos PROVE Cardinality(upto(u)) # Cardinality(upto(v))
  <2>1. \A w \in A : w.pos <= u.pos => w.pos <= v.pos
    BY <1>1, <1>3
  <2>2. upto(u) \in SUBSET upto(v)
    BY <2>1
  <2>3. v \in upto(v) /\ v \notin upto(u)
    BY <1>1, <1>3
  <2> HIDE DEF upto
  <2> QED BY <1>2, <2>2, <2>3, FS_Subset
<1>4. CASE Cardinality(A) = 1
  <2>1. PICK x : A = {x}
    BY <1>4, FS_Singleton
  <2> QED BY <2>1
<1>5. CASE Cardinality(A) # 1
  <2>1. Cardinality(upto(s)) = Cardinality(upto(t))
    BY <1>5 DEF Ordinal
  <2> HIDE DEF upto
  <2>2. ~(s.pos < t.pos) /\ ~(t.pos < s.pos)
    BY <1>3, <2>1
  <2> QED BY <1>1, <2>2
<1> QED BY <1>4, <1>5

LEMMA SameSegment ==
  ASSUME NEW s \in Segments, NEW t \in Segments, s.level = t.level, s.pos = t.pos, s.key = t.key
  PROVE  s = t
BY DEF Segments

\* Two segments that leave one pair and read alike are one.
LEMMA WordTells ==
  ASSUME TypeInv, NEW p, NEW s \in ShownSegments, NEW t \in ShownSegments,
         Fits(p, s), Fits(p, t), Word(s) = Word(t)
  PROVE  s = t
<1>1. s \in Segments /\ t \in Segments
  BY SegmentsShown
<1>2. CASE Kind(p[1]) # "map"
  <2>1. s.level = <<>> /\ t.level = <<>> /\ s.key = Nil /\ t.key = Nil
    BY <1>2 DEF Fits
  <2>2. <<"", s.pos>> = <<"", t.pos>>
    BY <2>1 DEF Word
  <2> QED BY <1>1, <2>1, <2>2, SameSegment
<1>3. CASE Kind(p[1]) = "map"
  <2>1. /\ s.level = p /\ t.level = p
        /\ \E i \in DOMAIN KeyOrder : s.key = KeyOrder[i] /\ s.pos \in {2 * i + 1, 2 * i + 2}
        /\ \E i \in DOMAIN KeyOrder : t.key = KeyOrder[i] /\ t.pos \in {2 * i + 1, 2 * i + 2}
    BY <1>3 DEF Fits
  <2>2. PICK i \in DOMAIN KeyOrder : s.key = KeyOrder[i] /\ s.pos \in {2 * i + 1, 2 * i + 2}
    BY <2>1
  <2>3. PICK j \in DOMAIN KeyOrder : t.key = KeyOrder[j] /\ t.pos \in {2 * j + 1, 2 * j + 2}
    BY <2>1
  <2>4. s.key # Nil /\ t.key # Nil
    BY <2>2, <2>3, KeyFacts, KeyNames
  <2>5. <<Label[s.key], Ordinal(s, AlikeTo(s))>> = <<Label[t.key], Ordinal(t, AlikeTo(t))>>
    BY <2>4 DEF Word
  <2>6. Label[s.key] = Label[t.key] /\ Ordinal(s, AlikeTo(s)) = Ordinal(t, AlikeTo(t))
    BY <2>5
  <2> DEFINE A == AlikeTo(s)
  <2>7. AlikeTo(t) = A
    BY <2>1, <2>6 DEF AlikeTo
  <2>8. s \in A /\ t \in A /\ A \in SUBSET ShownSegments
    BY <2>1, <2>4, <2>6 DEF AlikeTo
  <2> HIDE DEF A
  <2>9. A \in SUBSET Segments /\ IsFiniteSet(A)
    BY <2>8, SegmentsShown, FS_Subset
  <2>10. Ordinal(s, A) = Ordinal(t, A)
    BY <2>6, <2>7 DEF A
  <2>11. s.pos = t.pos
    BY <2>8, <2>9, <2>10, OrdinalTells
  <2>12. i = j
    <3>1. i \in Nat /\ j \in Nat
      BY KeyFacts
    <3> QED BY <2>2, <2>3, <2>11, <3>1
  <2> QED BY <1>1, <2>1, <2>2, <2>3, <2>11, <2>12, SameSegment
<1> QED BY <1>2, <1>3

LEMMA SameBound == \A a, b \in Nat : 1..a = 1..b => a = b
<1>1. \A a, b \in Nat : a < b => b \in 1..b /\ b \notin 1..a
  OBVIOUS
<1>2. \A a, b \in Nat : a = b \/ a < b \/ b < a
  OBVIOUS
<1> QED BY <1>1, <1>2, Zenon

\* Paths that read alike leave the same pairs one after the other, by the same segments.
LEMMA TrailsMeet ==
  ASSUME TypeInv, NEW P \in Seq(ShownSegments), NEW Q \in Seq(ShownSegments), Text(P) = Text(Q),
         NEW l, NEW m, Trail(l, P), Trail(m, Q)
  PROVE  P = Q
<1>1. Len(P) \in Nat /\ DOMAIN P = 1..Len(P) /\ Len(Q) \in Nat /\ DOMAIN Q = 1..Len(Q)
  OBVIOUS
<1>2. Len(P) = Len(Q) /\ \A c \in 1..Len(P) : Word(P[c]) = Word(Q[c])
  <2>1. [c \in DOMAIN P |-> Word(P[c])] = [c \in DOMAIN Q |-> Word(Q[c])]
    BY TextWords
  <2> DEFINE f == [c \in DOMAIN P |-> Word(P[c])]
             g == [c \in DOMAIN Q |-> Word(Q[c])]
  <2>2. DOMAIN f = DOMAIN P /\ DOMAIN g = DOMAIN Q
    OBVIOUS
  <2>3. (\A c \in DOMAIN P : f[c] = Word(P[c])) /\ (\A c \in DOMAIN Q : g[c] = Word(Q[c])) /\ f = g
    BY <2>1
  <2> HIDE DEF f, g
  <2>4. DOMAIN P = DOMAIN Q
    BY <2>2, <2>3
  <2>5. 1..Len(P) = 1..Len(Q)
    BY <1>1, <2>4, Zenon
  <2>6. Len(P) = Len(Q)
    BY <1>1, <2>5, SameBound, Zenon
  <2> QED BY <1>1, <2>3, <2>4, <2>6
<1> DEFINE n == Len(P)
           Same(c) == c <= n => P[c] = Q[c] /\ l[c] = m[c]
           S == {k \in Nat : \A c \in 1..k : Same(c)}
<1>3. ASSUME NEW k \in Nat, \A c \in 1..k : Same(c), k + 1 <= n
      PROVE  P[k + 1] = Q[k + 1] /\ l[k + 1] = m[k + 1]
  <2> DEFINE d == k + 1
  <2>1. d \in 1..n /\ d \in 1..Len(Q)
    BY <1>1, <1>2, <1>3
  <2>2. Start(l, P, d) = Start(m, Q, d)
    <3>1. CASE d = 1
      BY <3>1 DEF Start
    <3>2. CASE d # 1
      <4>1. d - 1 \in 1..k /\ d - 1 <= n
        BY <1>1, <1>3, <3>2
      <4>2. P[d - 1] = Q[d - 1] /\ l[d - 1] = m[d - 1]
        BY <1>3, <4>1
      <4> QED BY <3>2, <4>2 DEF Start
    <3> QED BY <3>1, <3>2
  <2> HIDE DEF d, n
  <2>3. Landed(l[d]) /\ l[d] \in Follow(Start(l, P, d)) /\ Fits(l[d], P[d])
    BY <2>1 DEF Trail, n
  <2>4. Landed(m[d]) /\ m[d] \in Follow(Start(m, Q, d)) /\ Fits(m[d], Q[d])
    BY <2>1 DEF Trail
  <2>5. l[d] = m[d]
    BY <2>2, <2>3, <2>4, OneLanding
  <2>6. P[d] \in ShownSegments /\ Q[d] \in ShownSegments /\ Word(P[d]) = Word(Q[d])
    BY <1>1, <1>2, <2>1 DEF n
  <2>7. P[d] = Q[d]
    BY <2>3, <2>4, <2>5, <2>6, WordTells
  <2> QED BY <2>5, <2>7 DEF d
<1> HIDE DEF n
<1>4. 0 \in S
  OBVIOUS
<1>5. ASSUME NEW k \in S PROVE k + 1 \in S
  <2>1. k \in Nat /\ \A c \in 1..k : Same(c)
    OBVIOUS
  <2>2. Same(k + 1)
    BY <1>3, <2>1
  <2> HIDE DEF Same
  <2>3. \A c \in 1..(k + 1) : c \in 1..k \/ c = k + 1
    BY <2>1
  <2>4. \A c \in 1..(k + 1) : Same(c)
    BY <2>1, <2>2, <2>3
  <2> QED BY <2>1, <2>4
<1>6. n \in S
  <2> HIDE DEF S
  <2>1. S \in SUBSET Nat
    BY DEF S
  <2>2. n \in Nat
    BY <1>1 DEF n
  <2> QED BY <1>4, <1>5, <2>1, <2>2, Induction
<1>7. \A c \in 1..n : P[c] = Q[c]
  <2>1. \A c \in 1..n : Same(c)
    BY <1>6
  <2>2. \A c \in 1..n : c <= n
    BY <1>1 DEF n
  <2> QED BY <2>1, <2>2
<1> QED BY <1>1, <1>2, <1>7 DEF n

LEMMA TextTells ==
  ASSUME TypeInv, TrailInv, NEW i \in DOMAIN Shown, NEW j \in DOMAIN Shown,
         Text(Shown[i].path) = Text(Shown[j].path)
  PROVE  Shown[i].path = Shown[j].path
<1>1. ASSUME NEW k \in DOMAIN Shown PROVE Traced(Shown[k].path) /\ Shown[k].path \in Seq(ShownSegments)
  <2>1. Shown[k] \in Lines /\ k \in DOMAIN entries /\ Shown[k] = entries[k]
    BY ShownLines
  <2>2. Traced(Shown[k].path)
    BY <2>1 DEF TrailInv
  <2> DEFINE P == Shown[k].path
  <2>3. P \in Seq(Segments)
    BY <2>1 DEF Lines
  <2>4. \A c \in DOMAIN P : P[c] \in ShownSegments
    BY SegmentsShown
  <2> HIDE DEF P
  <2>5. P \in Seq(ShownSegments)
    BY <2>3, <2>4
  <2> QED BY <2>2, <2>5 DEF P
<1>2. PICK l : Trail(l, Shown[i].path)
  BY <1>1 DEF Traced
<1>3. PICK m : Trail(m, Shown[j].path)
  BY <1>1 DEF Traced
<1> QED BY <1>1, <1>2, <1>3, TrailsMeet

-----------------------------------------------------------------------------
(* The theorems.                                                           *)

\* A diff exists exactly for the values reflect.DeepEqual calls unequal, and never has more than one
\* entry beyond those that are shown: on every heap, whatever is shared, cyclic, cut off at the depth
\* limit or answered from the memo (structuralDiff, diffWalker.walk and differs).
THEOREM DiffTellsTheTruth == Spec => []DiffIffUnequal
<1>1. Init => Inv
  BY InitInv
<1>2. Inv /\ [Next]_vars => Inv'
  BY NextInv
<1>3. Inv => DiffIffUnequal
  <2> SUFFICES ASSUME Inv PROVE DiffIffUnequal
    OBVIOUS
  <2>1. First \in Nodes /\ Second \in Nodes
    BY Names
  <2>2. Len(entries) <= Limit + 1 /\ WalkInv
    BY DEF Inv
  <2>3. ASSUME todo = <<>>, entries = <<>> PROVE DeepEqual(First, Second)
    <3>1. Explained(visited, <<>>, First, Second)
      BY <2>2, <2>3 DEF WalkInv
    <3>2. <<First, Second>> \in Equals
      BY <2>1, <3>1, NothingLeft
    <3> QED BY <2>1, <3>2, EqualsIsDeep
  <2>4. ASSUME DeepEqual(First, Second) PROVE entries = <<>>
    <3>1. <<First, Second>> \in Equals
      BY <2>1, <2>4, EqualsIsDeep
    <3> QED BY <2>2, <3>1 DEF WalkInv
  <2> QED BY <2>2, <2>3, <2>4 DEF DiffIffUnequal, Done
<1> QED BY <1>1, <1>2, <1>3, PTL DEF Spec

\* When all entries are shown nothing is hidden: each difference in a slot of a pair that the two values
\* lead to has a line of its own or lies below a pair said to differ; and lines for different places read
\* differently (diffWalker.walk, differs, formatPaths).
THEOREM NothingIsHidden == Spec => []NothingHidden
<1> DEFINE All == Inv /\ HideInv /\ TrailInv
<1>1. Init => All
  BY InitInv, InitHide, InitTrail
<1>2. All /\ [Next]_vars => All'
  BY NextInv, NextHide, NextTrail
<1>3. All => NothingHidden
  <2> SUFFICES ASSUME All, Done PROVE NothingHidden
    BY DEF NothingHidden
  <2>1. TypeInv /\ HideInv /\ TrailInv /\ todo = <<>>
    BY DEF Inv, Done
  <2>2. ASSUME Len(entries) <= Limit,
               NEW q \in Reach(<<First, Second>>),
               Kind(q[1]) = Kind(q[2]), q[1] # q[2] \/ Kind(q[1]) \notin References,
               ~heap[q[1]].null, ~heap[q[2]].null,
               NEW k \in DOMAIN heap[q[1]].kids \cup DOMAIN heap[q[2]].kids, Differs(q[1], q[2], k)
        PROVE  \E i \in DOMAIN entries :
                 \/ entries[i].at = <<q[1], q[2], k>>
                 \/ entries[i].below # <<>> /\ q \in Reach(entries[i].below)
    <3>1. Complete(visited, <<>>, entries)
      BY <2>1, <2>2 DEF HideInv
    <3>2. Open(q[1], q[2]) /\ k \in Slots(q[1], q[2])
      BY <2>2 DEF Open, Slots
    <3> QED BY <2>1, <2>2, <3>1, <3>2, CompleteEnds
  <2>3. \A i, j \in DOMAIN Shown :
          Shown[i].path # Shown[j].path => Text(Shown[i].path) # Text(Shown[j].path)
    BY <2>1, TextTells
  <2> QED BY <2>2, <2>3, Zenon DEF NothingHidden
<1> QED BY <1>1, <1>2, <1>3, PTL DEF Spec
=============================================================================

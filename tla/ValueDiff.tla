----------------------------- MODULE ValueDiff ------------------------------
(***************************************************************************)
(* The walk that explains why two composite values are not equal           *)
(* (assert/structural_diff.go): structuralDiff, diffWalker and its probes. *)
(*                                                                         *)
(* A heap holds what expected and actual reach.  A node is a pointer, a    *)
(* slice or a map (which have an identity, and so may be shared or lead    *)
(* back to themselves) or a struct; its kids are nodes and leaves.  A leaf *)
(* is Nil (an interface that holds nothing), Odd (a value that equals      *)
(* nothing, itself included: a NaN, or a func) or Plain.                   *)
(*                                                                         *)
(* The recursion of the walk is a stack of what is left to do; a line is   *)
(* an entry that is due when the walk gets there.                          *)
(***************************************************************************)
EXTENDS Naturals, FiniteSets, SequencesExt

CONSTANTS
  Nodes,       \* the nodes of the heap
  First, Second,  \* the nodes expected and actual are
  KeyOrder,    \* keys of maps, in the order of compareMapKeys
  NaNs,        \* those that are not equal to themselves
  Label,       \* how the bounded renderer shows each key
  MaxKids,     \* bound on the elements of a slice and the entries of a map
  DepthLimit,  \* diffMaxDepth
  Limit        \* diffMaxEntries

Nil   == "nil"
Odd   == "odd"
Plain == "plain"
Values == Nodes \cup {Nil, Odd, Plain}
Keys   == {KeyOrder[i] : i \in DOMAIN KeyOrder}

ASSUME DiffAssumption ==
  /\ First \in Nodes /\ Second \in Nodes /\ {Nil, Odd, Plain} \cap Nodes = {}
  /\ KeyOrder \in Seq(Keys) /\ Keys \cap (Nat \cup {Nil}) = {} /\ NaNs \subseteq Keys /\ DOMAIN Label = Keys
  /\ MaxKids \in Nat /\ DepthLimit \in Nat /\ Limit \in Nat

VARIABLES
  heap,     \* what each node is; never changes
  todo,     \* what the walk has left to do
  visited,  \* diffWalker.visited: pairs of references that are, or were, under comparison
  entries,  \* diffWalker.entries
  probed,   \* diffWalker.probed: the pairs differs has answered, with its answers
  asked,    \* the item differs is asked about, none or one
  sub,      \* what its walk has left to do
  subSeen,  \* and its visited pairs
  found     \* whether it has found a difference

walk  == <<todo, visited, entries>>
probe == <<asked, sub, subSeen, found>>
vars  == <<heap, walk, probed, probe>>

Node(kind, null, kids) == [kind |-> kind, null |-> null, kids |-> kids]
Shapes ==
  LET pairs == [1..2 -> Values] IN
  {Node("ptr", FALSE, k) : k \in [1..1 -> Values]}
  \cup {Node("slice", FALSE, k) : k \in UNION {[1..n -> Values] : n \in 0..MaxKids}}
  \cup {Node("map", FALSE, k) :
          k \in UNION {[s -> Values] : s \in {t \in SUBSET Keys : Cardinality(t) <= MaxKids}}}
  \cup {Node(kind, TRUE, <<>>) : kind \in {"ptr", "slice", "map"}}
  \cup {Node("struct", FALSE, k) : k \in pairs} \cup {Node("opaque", FALSE, k) : k \in pairs}

References == {"ptr", "slice", "map"}
Kids(h, n) == {h[n].kids[k] : k \in DOMAIN h[n].kids} \cap Nodes
\* A struct holds its fields: only a reference can lead back to it.
Laid(h) ==
  ~ \E S \in SUBSET {n \in Nodes : h[n].kind \notin References} :
      S # {} /\ \A n \in S : Kids(h, n) \cap S # {}

Item(x, y, path, at) ==
  [line |-> FALSE, x |-> x, y |-> y, path |-> path, at |-> at, equal |-> FALSE]
Line(path, at) ==
  [line |-> TRUE, x |-> Nil, y |-> Nil, path |-> path, at |-> at, equal |-> FALSE]

Init ==
  /\ heap \in {h \in [Nodes -> Shapes] : Laid(h)}
  /\ todo = <<Item(First, Second, <<>>, <<>>)>>
  /\ visited = {} /\ entries = <<>> /\ probed = <<>>
  /\ asked = <<>> /\ sub = <<>> /\ subSeen = {} /\ found = FALSE

-----------------------------------------------------------------------------
(* One pair of values.                                                     *)

Kind(v) == IF v \in Nodes THEN heap[v].kind ELSE IF v = Nil THEN "invalid" ELSE "scalar"

\* walk's cases that end at this pair with a line: one is invalid, types differ, scalars differ.
Scalars(x, y) == Kind(x) # Kind(y) \/ x \notin Nodes
Disagree(x, y) == Kind(x) # Kind(y) \/ x # y \/ x = Odd

\* Nothing is below nil, below one and the same reference, and below a pair met before.
Met(x, y, seen) ==
  \/ heap[x].null
  \/ Kind(x) \in References /\ (x = y \/ <<x, y>> \in seen)

\* Mutant: only pointers and maps are remembered.
Marks_NotSlices(x) == Kind(x) \in {"ptr", "map"}
\* The pairs seen records.
Marks(x) == Kind(x) \in {"ptr", "map"} \/ (Kind(x) = "slice" /\ heap[x].kids # <<>>)

-----------------------------------------------------------------------------
(* What is below a pair, in the order of the walk.                         *)

Segment(level, pos, key) == [level |-> level, pos |-> pos, key |-> key]
Index(i) == Segment(<<>>, i, Nil)
Child(it, i) ==
  Item(heap[it.x].kids[i], heap[it.y].kids[i], Append(it.path, Index(i)), <<it.x, it.y, i>>)

\* Mutant: what only one of the lists holds is not listed.
ListItems_Common(it) ==
  LET m == Len(heap[it.x].kids)
      n == Len(heap[it.y].kids)
  IN [i \in 1..(IF m < n THEN m ELSE n) |-> Child(it, i)]
\* walkList: the length, the common elements, the rest of the longer one.
ListItems(it) ==
  LET m == Len(heap[it.x].kids)
      n == Len(heap[it.y].kids)
  IN (IF m = n THEN <<>> ELSE <<Line(it.path, <<it.x, it.y, 0>>)>>)
     \o [i \in 1..(IF m < n THEN n ELSE m) |->
           IF i <= m /\ i <= n THEN Child(it, i)
           ELSE Line(Append(it.path, Index(i)), <<it.x, it.y, i>>)]

\* MapIndex: a key that is not equal to itself is never found.
Found(k, m) == k \in DOMAIN m /\ k \notin NaNs

\* Who holds an entry of key k in the union of both maps: expected, actual, or both, each on a line of its
\* own.  Entries whose keys tie are ordered by their values' fingerprints, or told as one.
Ties == {<<"a", "b">>, <<"b", "a">>, <<"both">>}
Units(k, a, b, tie) ==
  IF k \in NaNs /\ k \in (DOMAIN a) \cap DOMAIN b THEN tie
  ELSE IF k \in DOMAIN a THEN <<"a">>
  ELSE IF k \in DOMAIN b THEN <<"b">> ELSE <<>>

\* walkMap: what expected holds, in the order of the union, then what only actual holds.
MapItems(it, tie) ==
  LET a == heap[it.x].kids
      b == heap[it.y].kids
      units(i) == Units(KeyOrder[i], a, b, tie)
      item(i, j) ==
        LET k    == KeyOrder[i]
            path == Append(it.path, Segment(<<it.x, it.y>>, 2 * i + j, k))
            at   == <<it.x, it.y, k>>
        IN IF units(i)[j] = "a" /\ Found(k, b) THEN Item(a[k], b[k], path, at) ELSE Line(path, at)
      those(i, own) == {j \in DOMAIN units(i) : (units(i)[j] # "b") = own}
      listed(own) ==
        FlattenSeq([i \in DOMAIN KeyOrder |->
          IF those(i, own) = {} THEN <<>> ELSE <<item(i, CHOOSE j \in those(i, own) : TRUE)>>])
  IN listed(TRUE) \o listed(FALSE)

\* probeMap: sizes first, then expected's entries in any order of iteration.
ProbeMapItems(it) ==
  LET a == heap[it.x].kids
      b == heap[it.y].kids
      item(k) == IF Found(k, b) THEN Item(a[k], b[k], <<>>, <<>>) ELSE Line(<<>>, <<>>)
      orders == {o \in [1..Cardinality(DOMAIN a) -> DOMAIN a] :
                   \A i, j \in DOMAIN o : o[i] = o[j] => i = j}
  IN IF Cardinality(DOMAIN a) # Cardinality(DOMAIN b) THEN {<<Line(<<>>, <<>>)>>}
     ELSE {[i \in DOMAIN o |-> item(o[i])] : o \in orders}

\* walk's switch, for two values of one kind, not nil and not met before.
Below(it, probing) ==
  CASE Kind(it.x) = "ptr" -> {<<Item(heap[it.x].kids[1], heap[it.y].kids[1], it.path, <<it.x, it.y, 1>>)>>}
    [] Kind(it.x) \in {"struct", "opaque"} -> {[i \in 1..2 |-> Child(it, i)]}
    [] Kind(it.x) = "slice" -> {ListItems(it)}
    [] OTHER -> IF probing THEN ProbeMapItems(it) ELSE {MapItems(it, tie) : tie \in Ties}

-----------------------------------------------------------------------------
(* The walk.                                                               *)

Full    == Len(entries) > Limit
Due     == todo # <<>> /\ ~Full /\ asked = <<>>
Current == Head(todo)
Add(it, summary) == Append(entries, [path |-> it.path, at |-> it.at, below |-> summary])
Goes(ahead)      == todo' = ahead \o Tail(todo)

\* add, of a line that was due or of a pair that ends the walk here.
AddLine ==
  /\ Due /\ (Current.line \/ Scalars(Current.x, Current.y))
  /\ entries' = IF Current.line \/ Disagree(Current.x, Current.y) THEN Add(Current, <<>>) ELSE entries
  /\ Goes(<<>>)
  /\ UNCHANGED <<heap, visited, probed, probe>>

\* Only one line at most is given to a subtree at the depth limit and to an opaque struct.
Deep(it)   == Len(it.path) >= DepthLimit /\ ~it.equal
Summed(it) == Deep(it) \/ Kind(it.x) = "opaque"
Composite  == Due /\ ~Current.line /\ ~Scalars(Current.x, Current.y)

Descend ==
  /\ Composite /\ ~Summed(Current)
  /\ LET x == Current.x
         y == Current.y
     IN IF heap[x].null # heap[y].null
        THEN entries' = Add(Current, <<>>) /\ Goes(<<>>) /\ UNCHANGED visited
        ELSE IF Met(x, y, visited) THEN Goes(<<>>) /\ UNCHANGED <<visited, entries>>
        ELSE /\ \E items \in Below(Current, FALSE) : Goes(items)
             /\ visited' = IF Marks(x) THEN visited \cup {<<x, y>>} ELSE visited
             /\ UNCHANGED entries
  /\ UNCHANGED <<heap, probed, probe>>

\* Enough entries: every loop and call of the walk returns.
Stop ==
  /\ todo # <<>> /\ Full /\ todo' = <<>>
  /\ UNCHANGED <<heap, visited, entries, probed, probe>>

-----------------------------------------------------------------------------
(* differs.                                                                *)

Pair(it) == <<it.x, it.y>>
Memo(it) == Kind(it.x) \in References
\* A subtree the depth limit cuts off is walked after all when nothing differs in it.
Answer(d) ==
  IF d THEN entries' = Add(Current, Pair(Current)) /\ Goes(<<>>)
  ELSE /\ Goes(IF Deep(Current) THEN <<[Current EXCEPT !.equal = TRUE]>> ELSE <<>>)
       /\ UNCHANGED entries

Recall ==
  /\ Composite /\ Summed(Current) /\ Memo(Current) /\ Pair(Current) \in DOMAIN probed
  /\ Answer(probed[Pair(Current)])
  /\ UNCHANGED <<heap, visited, probed, probe>>

\* A probe starts from an empty visited set, so its answer is a function of the two values.
Ask ==
  /\ Composite /\ Summed(Current) /\ ~(Memo(Current) /\ Pair(Current) \in DOMAIN probed)
  /\ asked' = <<Current>> /\ sub' = <<Current>> /\ subSeen' = {} /\ found' = FALSE
  /\ UNCHANGED <<heap, walk, probed>>

\* A probe never shows a path, so it builds none.
Pathless(items) == [i \in DOMAIN items |-> [items[i] EXCEPT !.path = <<>>, !.at = <<>>]]

ProbeStep ==
  /\ asked # <<>> /\ sub # <<>> /\ ~found
  /\ LET it == Head(sub)
         x  == it.x
         y  == it.y
         ends == it.line \/ Scalars(x, y)
     IN IF ends THEN found' = (it.line \/ Disagree(x, y)) /\ sub' = Tail(sub) /\ UNCHANGED subSeen
        ELSE IF heap[x].null # heap[y].null
        THEN found' = TRUE /\ sub' = Tail(sub) /\ UNCHANGED subSeen
        ELSE IF Met(x, y, subSeen) THEN sub' = Tail(sub) /\ UNCHANGED <<subSeen, found>>
        ELSE /\ \E items \in Below(it, TRUE) : sub' = Pathless(items) \o Tail(sub)
             /\ subSeen' = IF Marks(x) THEN subSeen \cup {<<x, y>>} ELSE subSeen
             /\ UNCHANGED found
  /\ UNCHANGED <<heap, walk, probed, asked>>

ProbeEnds ==
  /\ asked # <<>> /\ (sub = <<>> \/ found)
  /\ Answer(found)
  /\ probed' = IF Memo(Current)
               THEN [p \in DOMAIN probed \cup {Pair(Current)} |->
                       IF p = Pair(Current) THEN found ELSE probed[p]]
               ELSE probed
  /\ asked' = <<>> /\ sub' = <<>> /\ subSeen' = {} /\ found' = FALSE
  /\ UNCHANGED <<heap, visited>>

Next == AddLine \/ Descend \/ Stop \/ Recall \/ Ask \/ ProbeStep \/ ProbeEnds

Spec == Init /\ [][Next]_vars
\* The walk is a function call: it goes on until it returns.
FairSpec == Spec /\ WF_vars(Next)

-----------------------------------------------------------------------------
(* The lines that are shown.                                               *)

Shown == SubSeq(entries, 1, IF Len(entries) < Limit THEN Len(entries) ELSE Limit)

\* Mutant: no ordinals.
Ordinal_None(s, same) == 0
\* formatPaths: keys of one map that look alike are numbered, in the map's order.
Ordinal(s, same) ==
  IF Cardinality(same) = 1 THEN 0 ELSE Cardinality({t \in same : t.pos <= s.pos})

Text(path) ==
  LET segments == UNION {{e.path[i] : i \in DOMAIN e.path} : e \in {Shown[j] : j \in DOMAIN Shown}}
      alike(s) == {t \in segments : t.level = s.level /\ t.key # Nil /\ Label[t.key] = Label[s.key]}
  IN [i \in DOMAIN path |->
        LET s == path[i] IN
        IF s.key = Nil THEN <<"", s.pos>> ELSE <<Label[s.key], Ordinal(s, alike(s))>>]

-----------------------------------------------------------------------------
(* Properties.                                                             *)

\* reflect.DeepEqual: some set of pairs, assumed equal, holds this one and gives no reason against any.
Agree(R, v, w) ==
  \/ v = w /\ v \in {Nil, Plain}
  \/ <<v, w>> \in R
Consistent(R) ==
  \A p \in R :
    LET x == p[1]
        y == p[2]
    IN \/ x = y /\ Kind(x) \in References
       \/ /\ Kind(x) = Kind(y) /\ heap[x].null = heap[y].null
          /\ DOMAIN heap[x].kids = DOMAIN heap[y].kids /\ DOMAIN heap[x].kids \cap NaNs = {}
          /\ \A k \in DOMAIN heap[x].kids : Agree(R, heap[x].kids[k], heap[y].kids[k])
DeepEqual(x, y) == \E R \in SUBSET (Nodes \X Nodes) : <<x, y>> \in R /\ Consistent(R)

Done == todo = <<>>

\* A diff exists exactly for the values DeepEqual calls unequal, and never has more than one entry
\* beyond those that are shown, whatever is shared, cyclic, cut off or answered from the memo
\* (comment of structural_diff.go; structuralDiff).
DiffIffUnequal ==
  /\ Len(entries) <= Limit + 1
  /\ Done => (entries = <<>> <=> DeepEqual(First, Second))

\* The pairs of nodes below a pair, itself included, where both sides have something to compare.
Compared(x, y) ==
  IF Kind(x) # Kind(y) \/ (x = y /\ Kind(x) \in References) THEN {}
  ELSE {p \in Nodes \X Nodes : \E k \in DOMAIN heap[x].kids \cap DOMAIN heap[y].kids :
          k \notin NaNs /\ p = <<heap[x].kids[k], heap[y].kids[k]>>}
Reach(p) ==
  LET closed(S) == \A r \in S : Compared(r[1], r[2]) \subseteq S
  IN {q \in Nodes \X Nodes : \A S \in SUBSET (Nodes \X Nodes) : p \in S /\ closed(S) => q \in S}

\* What differs in the slot k of two nodes, and not below it.
Differs(x, y, k) ==
  \/ k \notin DOMAIN heap[x].kids \/ k \notin DOMAIN heap[y].kids \/ k \in NaNs
  \/ LET v == heap[x].kids[k]
         w == heap[y].kids[k]
     IN IF Scalars(v, w) THEN Disagree(v, w) ELSE heap[v].null # heap[w].null

\* When all entries are shown nothing is hidden: each difference, wherever it is, has a line of its
\* own or lies below a pair that is said to differ; and lines for different places read differently.
NothingHidden ==
  Done =>
    /\ (Len(entries) <= Limit /\ Kind(First) = Kind(Second)) =>
         \A q \in Reach(<<First, Second>>) :
           (Kind(q[1]) = Kind(q[2]) /\ (q[1] # q[2] \/ Kind(q[1]) \notin References)
             /\ ~heap[q[1]].null /\ ~heap[q[2]].null) =>
             \A k \in DOMAIN heap[q[1]].kids \cup DOMAIN heap[q[2]].kids :
               Differs(q[1], q[2], k) =>
                 \E i \in DOMAIN entries :
                   \/ entries[i].at = <<q[1], q[2], k>>
                   \/ entries[i].below # <<>> /\ q \in Reach(entries[i].below)
    /\ \A i, j \in DOMAIN Shown :
         Shown[i].path # Shown[j].path => Text(Shown[i].path) # Text(Shown[j].path)

\* The walk and its probes end, on values that lead back to themselves too.
WalkEnds == <>Done
=============================================================================

------------------------------ MODULE PlanTree ------------------------------
(***************************************************************************)
(* The compiled shape of one Describe suite (specs/group_hooks.go,         *)
(* planGroups): the flat plan of specs 1..NSpecs (plan indices, counted    *)
(* from 1 here), the hooked groups laid over it as index ranges, and the   *)
(* ItParallel batches, which are ranges too.  This module derives from it  *)
(* the tree the runner walks (buildTree) and the units RunShard assigns.   *)
(***************************************************************************)
EXTENDS Integers, FiniteSets

CONSTANTS
  NSpecs,      \* number of specs in the flat plan
  NGroups,     \* number of groups with BeforeAll or AfterAll hooks
  Start, End,  \* first and last plan index of each group
  Depth,       \* length of each group's Path
  Batches,     \* set of <<first, last>>: the ItParallel ranges
  ShardCount   \* number of shards RunShard splits the suite into

Specs  == 1..NSpecs
Groups == 1..NGroups
Root   == 0
Scopes == Groups \cup {Root}

Contains(g, i) == Start[g] <= i /\ i <= End[g]

\* buildTree's order: the wider range is outer; on equal ranges the shorter Path is.
Encloses(g, h) ==
  /\ g # h
  /\ Start[g] <= Start[h]
  /\ End[h] <= End[g]
  /\ Depth[g] < Depth[h]

ASSUME SizeAssumption ==
  /\ NSpecs \in Nat /\ NSpecs > 0
  /\ NGroups \in Nat
  /\ ShardCount \in Nat /\ ShardCount > 0

\* Scopes nest: two groups are disjoint or one encloses the other.
ASSUME GroupAssumption ==
  /\ Start \in [Groups -> Specs]
  /\ End \in [Groups -> Specs]
  /\ Depth \in [Groups -> Nat]
  /\ \A g \in Groups : Start[g] <= End[g]
  /\ \A g, h \in Groups :
       g = h \/ Encloses(g, h) \/ Encloses(h, g) \/ End[g] < Start[h] \/ End[h] < Start[g]

\* A batch never straddles a group boundary.
ASSUME BatchAssumption ==
  /\ Batches \subseteq (Specs \X Specs)
  /\ \A b \in Batches : b[1] <= b[2]
  /\ \A b, c \in Batches : b = c \/ b[2] < c[1] \/ c[2] < b[1]
  /\ \A b \in Batches, g \in Groups :
       (Start[g] <= b[1] /\ b[2] <= End[g]) \/ b[2] < Start[g] \/ End[g] < b[1]

\* First and last plan index of the range runRange walks for a scope.
First(s) == IF s = Root THEN 1 ELSE Start[s]
Last(s)  == IF s = Root THEN NSpecs ELSE End[s]

Above(g)  == {h \in Groups : Encloses(h, g)}
Around(i) == {h \in Groups : Contains(h, i)}

\* The innermost member of a chain of nested groups, Root when there is none.
Innermost(chain) ==
  IF chain = {} THEN Root
  ELSE CHOOSE h \in chain : \A k \in chain : k = h \/ Encloses(k, h)

Parent(g)  == Innermost(Above(g))
ScopeOf(i) == Innermost(Around(i))

InBatch(b, i) == b[1] <= i /\ i <= b[2]
Batched(i)    == \E b \in Batches : InBatch(b, i)

(***************************************************************************)
(* buildShardSelection: a unit is a whole top-level group, a whole batch   *)
(* outside every group, or a single spec; units are numbered in            *)
(* declaration order from 0 and unit u goes to shard u % ShardCount.       *)
(***************************************************************************)
\* Mutant: every spec is a unit of its own.
UnitStart_PerSpec(i) == i
UnitStart(i) ==
  IF Around(i) # {} THEN CHOOSE s \in {Start[g] : g \in Around(i)} :
                           \A h \in Around(i) : s <= Start[h]
  ELSE IF Batched(i) THEN (CHOOSE b \in Batches : InBatch(b, i))[1]
  ELSE i

UnitNumber(i) == Cardinality({UnitStart(j) : j \in 1..i}) - 1

\* The shard value that stands for Run, which selects every unit.
NoShard == -1
Shards  == 0..(ShardCount - 1)

Included(sh, i)  == sh = NoShard \/ UnitNumber(i) % ShardCount = sh
ReportsMarks(sh) == sh = NoShard \/ sh = 0
AnySelected(sh)  == \E i \in Specs : Included(sh, i)
=============================================================================

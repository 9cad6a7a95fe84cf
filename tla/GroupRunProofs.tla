--------------------------- MODULE GroupRunProofs ---------------------------
(***************************************************************************)
(* Proofs about GroupRun, for every plan, hook count, driver and shard.    *)
(***************************************************************************)
EXTENDS GroupRun, FiniteSetTheorems, TLAPS

-----------------------------------------------------------------------------
(* The group tree.                                                         *)

\* The ranges and depths of groups are integers.
LEMMA RangeTypes ==
  ASSUME NEW g \in Groups
  PROVE  /\ Start[g] \in Specs /\ End[g] \in Specs /\ Depth[g] \in Nat
         /\ Start[g] \in Int /\ End[g] \in Int /\ Start[g] <= End[g]
  BY SizeAssumption, GroupAssumption DEF SizeAssumption, GroupAssumption, Specs

\* Enclosing is transitive.
LEMMA EnclosesIsTransitive ==
  ASSUME NEW f \in Groups, NEW g \in Groups, NEW h \in Groups, Encloses(f, g), Encloses(g, h)
  PROVE  Encloses(f, h)
  BY RangeTypes DEF Encloses

\* Innermost picks a member of any nonempty chain of nested groups: the one all others enclose.
LEMMA InnermostInChain ==
  ASSUME NEW chain \in SUBSET Groups, chain # {},
         \A g, h \in chain : g = h \/ Encloses(g, h) \/ Encloses(h, g)
  PROVE  /\ Innermost(chain) \in chain
         /\ \A k \in chain : k = Innermost(chain) \/ Encloses(k, Innermost(chain))
<1> DEFINE Outside(g) == Groups \ (Above(g) \cup {g})
           Gaps == {Outside(g) : g \in chain}
<1>1. IsFiniteSet(Groups)
  <2>1. 1 \in Int /\ NGroups \in Int
    BY SizeAssumption DEF SizeAssumption
  <2> QED BY <2>1, FS_Interval DEF Groups
<1>2. Gaps \subseteq FiniteSubsetsOf(Groups) /\ Gaps # {}
  <2>1. FiniteSubsetsOf(Groups) = SUBSET Groups
    BY <1>1, FS_FiniteSubsetsOfFinite
  <2>2. PICK g \in chain : TRUE
    OBVIOUS
  <2>3. Outside(g) \in Gaps
    BY <2>2
  <2>4. ASSUME NEW gap \in Gaps PROVE gap \in SUBSET Groups
    <3>1. PICK h \in chain : gap = Outside(h)
      OBVIOUS
    <3> QED BY <3>1
  <2> HIDE DEF Gaps
  <2>5. Gaps \subseteq FiniteSubsetsOf(Groups)
    BY <2>1, <2>4
  <2> QED BY <2>3, <2>5
<1>3. PICK gap \in Gaps : \A other \in Gaps : <<other, gap>> \notin StrictSubsetOrdering(Groups)
  BY <1>1, <1>2, FS_StrictSubsetOrderingWellFounded, WFMin
<1>4. PICK h \in chain : gap = Outside(h)
  OBVIOUS
<1>5. ASSUME NEW k \in chain, k # h, ~Encloses(k, h) PROVE FALSE
  <2>1. Encloses(h, k)
    BY <1>5
  <2>2. Outside(k) \subseteq Outside(h)
    BY <2>1, EnclosesIsTransitive DEF Above
  <2>3. k \in Outside(h) /\ k \notin Outside(k)
    BY <1>5 DEF Above
  <2>4. <<Outside(k), Outside(h)>> \in StrictSubsetOrdering(Groups)
    BY <2>2, <2>3 DEF StrictSubsetOrdering
  <2> QED BY <2>4, <1>3, <1>4
<1> QED BY <1>5 DEF Innermost

\* The groups around a group, or around a spec, are nested.
LEMMA NestedAround ==
  ASSUME NEW chain, (\E g \in Groups : chain = Above(g)) \/ (\E i \in Specs : chain = Around(i))
  PROVE  chain \in SUBSET Groups /\ \A h, k \in chain : h = k \/ Encloses(h, k) \/ Encloses(k, h)
<1>1. ASSUME NEW first \in Int, NEW last \in Int, first <= last, NEW h \in Groups, NEW k \in Groups,
             Start[h] <= first, last <= End[h], Start[k] <= first, last <= End[k]
      PROVE  h = k \/ Encloses(h, k) \/ Encloses(k, h)
  <2>1. ~(End[h] < Start[k]) /\ ~(End[k] < Start[h])
    BY <1>1, RangeTypes
  <2> QED BY <2>1, GroupAssumption DEF GroupAssumption
<1>2. ASSUME NEW g \in Groups, chain = Above(g)
      PROVE  chain \in SUBSET Groups /\ \A h, k \in chain : h = k \/ Encloses(h, k) \/ Encloses(k, h)
  <2>1. \A h \in chain : h \in Groups /\ Start[h] <= Start[g] /\ End[g] <= End[h]
    BY <1>2 DEF Above, Encloses
  <2> QED BY <1>1, <2>1, RangeTypes
<1>3. ASSUME NEW i \in Specs, chain = Around(i)
      PROVE  chain \in SUBSET Groups /\ \A h, k \in chain : h = k \/ Encloses(h, k) \/ Encloses(k, h)
  <2>1. i \in Int
    BY SizeAssumption DEF SizeAssumption, Specs
  <2>2. \A h \in chain : h \in Groups /\ Start[h] <= i /\ i <= End[h]
    BY <1>3 DEF Around, Contains
  <2> QED BY <1>1, <2>1, <2>2
<1> QED BY <1>2, <1>3

\* The scope around a group is the root or another group.
LEMMA ParentIsScope ==
  ASSUME NEW g \in Groups
  PROVE  Parent(g) \in Scopes
<1>1. CASE Above(g) = {}
  BY <1>1 DEF Parent, Innermost, Scopes
<1>2. CASE Above(g) # {}
  BY <1>2, NestedAround, InnermostInChain DEF Parent, Scopes
<1> QED BY <1>1, <1>2

\* So is the innermost scope around a spec.
LEMMA ScopeOfIsScope ==
  ASSUME NEW i \in Specs
  PROVE  ScopeOf(i) \in Scopes
<1>1. CASE Around(i) = {}
  BY <1>1 DEF ScopeOf, Innermost, Scopes
<1>2. CASE Around(i) # {}
  BY <1>2, NestedAround, InnermostInChain DEF ScopeOf, Scopes
<1> QED BY <1>1, <1>2

\* Every group and the root have a range inside the plan.
LEMMA ScopeRange ==
  ASSUME NEW s \in Scopes
  PROVE  First(s) \in Specs /\ Last(s) \in Specs
  BY RangeTypes, SizeAssumption DEF First, Last, Scopes, Specs, SizeAssumption

\* A batch is a range inside the plan.
LEMMA BatchRange ==
  ASSUME NEW b \in Batches
  PROVE  b[1] \in Specs /\ b[2] \in Specs /\ b[1] <= b[2]
  BY BatchAssumption DEF BatchAssumption

\* The groups around a group are its parent and the groups around that.
LEMMA ParentAbove ==
  ASSUME NEW g \in Groups
  PROVE  /\ Parent(g) = Root => Above(g) = {}
         /\ Parent(g) # Root => /\ Parent(g) \in Groups /\ Encloses(Parent(g), g)
                                /\ Above(g) = {Parent(g)} \cup Above(Parent(g))
<1>1. Root \notin Groups
  BY DEF Root, Groups
<1>2. CASE Above(g) = {}
  BY <1>2 DEF Parent, Innermost
<1>3. CASE Above(g) # {}
  <2>1. /\ Parent(g) \in Above(g) /\ Above(g) \subseteq Groups
        /\ \A k \in Above(g) : k = Parent(g) \/ Encloses(k, Parent(g))
    BY <1>3, NestedAround, InnermostInChain DEF Parent
  <2>2. Parent(g) \in Groups /\ Encloses(Parent(g), g)
    BY <2>1 DEF Above
  <2>3. Above(Parent(g)) \subseteq Above(g)
    BY <2>2, EnclosesIsTransitive DEF Above
  <2>4. Above(g) \subseteq {Parent(g)} \cup Above(Parent(g))
    BY <2>1 DEF Above
  <2> QED BY <1>1, <2>1, <2>2, <2>3, <2>4
<1> QED BY <1>2, <1>3

\* The groups around a spec are its innermost scope and the groups around that.
LEMMA ScopeAround ==
  ASSUME NEW i \in Specs
  PROVE  /\ ScopeOf(i) = Root => Around(i) = {}
         /\ ScopeOf(i) # Root => /\ ScopeOf(i) \in Groups /\ Contains(ScopeOf(i), i)
                                 /\ Around(i) = {ScopeOf(i)} \cup Above(ScopeOf(i))
<1>1. Root \notin Groups /\ i \in Int
  BY SizeAssumption DEF Root, Groups, SizeAssumption, Specs
<1>2. CASE Around(i) = {}
  BY <1>2 DEF ScopeOf, Innermost
<1>3. CASE Around(i) # {}
  <2>1. /\ ScopeOf(i) \in Around(i) /\ Around(i) \subseteq Groups
        /\ \A k \in Around(i) : k = ScopeOf(i) \/ Encloses(k, ScopeOf(i))
    BY <1>3, NestedAround, InnermostInChain DEF ScopeOf
  <2>2. ScopeOf(i) \in Groups /\ Contains(ScopeOf(i), i)
    BY <2>1 DEF Around
  <2>3. Above(ScopeOf(i)) \subseteq Around(i)
    BY <1>1, <2>2, RangeTypes DEF Above, Around, Contains, Encloses
  <2>4. Around(i) \subseteq {ScopeOf(i)} \cup Above(ScopeOf(i))
    BY <2>1 DEF Above
  <2> QED BY <1>1, <2>1, <2>2, <2>3, <2>4
<1> QED BY <1>2, <1>3

\* At its first spec a group is entered from its parent, which is not the innermost scope there.
LEMMA StartIsInside ==
  ASSUME NEW g \in Groups
  PROVE  ScopeOf(Start[g]) # Parent(g)
<1>1. SUFFICES ASSUME ScopeOf(Start[g]) = Parent(g) PROVE FALSE
  OBVIOUS
<1>2. Start[g] \in Specs /\ g \in Around(Start[g])
  BY RangeTypes DEF Around, Contains
<1>3. ScopeOf(Start[g]) # Root /\ (g = Parent(g) \/ g \in Above(Parent(g)))
  BY <1>1, <1>2, ScopeAround
<1>4. Parent(g) \in Groups /\ Encloses(Parent(g), g)
  BY <1>1, <1>3, ParentAbove
<1> QED BY <1>3, <1>4, RangeTypes DEF Above, Encloses

\* The specs of a batch have the same groups around them.
LEMMA BatchTogether ==
  ASSUME NEW b \in Batches, NEW i \in Specs, InBatch(b, i)
  PROVE  Around(i) = Around(b[1]) /\ ScopeOf(i) = ScopeOf(b[1])
<1>1. i \in Int /\ b[1] \in Int /\ b[2] \in Int /\ b[1] <= i /\ i <= b[2]
  BY BatchRange, SizeAssumption DEF InBatch, SizeAssumption, Specs
<1>2. ASSUME NEW g \in Groups PROVE Contains(g, i) <=> Contains(g, b[1])
  <2>1. Start[g] \in Int /\ End[g] \in Int
    BY RangeTypes
  <2>2. (Start[g] <= b[1] /\ b[2] <= End[g]) \/ b[2] < Start[g] \/ End[g] < b[1]
    BY BatchAssumption DEF BatchAssumption
  <2> QED BY <1>1, <2>1, <2>2 DEF Contains
<1>3. Around(i) = Around(b[1])
  BY <1>2 DEF Around
<1> QED BY <1>3 DEF ScopeOf

\* A spec is in one batch at most.
LEMMA OneBatch ==
  ASSUME NEW b \in Batches, NEW c \in Batches, NEW i \in Specs, InBatch(b, i), InBatch(c, i)
  PROVE  b = c
<1>1. i \in Int /\ b[1] \in Int /\ b[2] \in Int /\ c[1] \in Int /\ c[2] \in Int
  BY BatchRange, SizeAssumption DEF SizeAssumption, Specs
<1> QED BY <1>1, BatchAssumption DEF BatchAssumption, InBatch

-----------------------------------------------------------------------------
(* Units.                                                                  *)

\* The specs of a group are of one unit,
LEMMA UnitOfGroup ==
  ASSUME NEW g \in Groups, NEW i \in Specs, NEW j \in Specs, Contains(g, i), Contains(g, j)
  PROVE  UnitStart(i) = UnitStart(j)
<1> DEFINE Starts(k) == {Start[h] : h \in Around(k)}
           Least(k, s) == \A h \in Around(k) : s <= Start[h]
<1>1. ASSUME NEW k \in Specs, NEW l \in Specs, Contains(g, k), Contains(g, l),
             NEW s \in Starts(k), Least(k, s)
      PROVE  s \in Starts(l) /\ Least(l, s)
  <2>1. g \in Around(k) /\ g \in Around(l)
    BY <1>1 DEF Around
  <2>2. k \in Int /\ l \in Int /\ Start[g] \in Int /\ End[g] \in Int
    BY RangeTypes, SizeAssumption DEF SizeAssumption, Specs
  <2>3. PICK h \in Around(k) : s = Start[h]
    OBVIOUS
  <2>4. h \in Groups /\ s \in Int /\ s <= Start[g]
    BY <1>1, <2>1, <2>3, RangeTypes DEF Around
  <2>5. h = g \/ Encloses(g, h) \/ Encloses(h, g)
    BY <1>1, <2>1, NestedAround
  <2>6. s \in Starts(l)
    <3>1. CASE h = g
      BY <2>1, <2>3, <3>1
    <3>2. CASE Encloses(g, h)
      BY <2>1, <2>2, <2>3, <2>4, <3>2 DEF Encloses
    <3>3. CASE Encloses(h, g)
      <4>1. h \in Around(l)
        BY <1>1, <2>2, <2>4, <3>3, RangeTypes DEF Around, Contains, Encloses
      <4> QED BY <2>3, <4>1
    <3> QED BY <2>5, <3>1, <3>2, <3>3
  <2>7. ASSUME NEW m \in Around(l) PROVE s <= Start[m]
    <3>1. m \in Groups /\ Start[m] \in Int /\ End[m] \in Int
      BY <2>7, RangeTypes DEF Around
    <3>2. m = g \/ Encloses(g, m) \/ Encloses(m, g)
      BY <1>1, <2>1, <2>7, NestedAround
    <3>3. CASE m = g \/ Encloses(g, m)
      BY <2>2, <2>4, <3>1, <3>3 DEF Encloses
    <3>4. CASE Encloses(m, g)
      <4>1. m \in Around(k)
        BY <1>1, <2>2, <3>1, <3>4 DEF Around, Contains, Encloses
      <4> QED BY <1>1, <4>1
    <3> QED BY <3>2, <3>3, <3>4
  <2> QED BY <2>6, <2>7
<1>2. g \in Around(i) /\ g \in Around(j)
  BY DEF Around
<1>3. UnitStart(i) = (CHOOSE s \in Starts(i) : Least(i, s)) /\ UnitStart(j) = (CHOOSE s \in Starts(j) : Least(j, s))
  BY <1>2 DEF UnitStart
<1>4. \A s : (s \in Starts(i) /\ Least(i, s)) <=> (s \in Starts(j) /\ Least(j, s))
  BY <1>1
<1> HIDE DEF Starts, Least
<1>5. (CHOOSE s \in Starts(i) : Least(i, s)) = (CHOOSE s \in Starts(j) : Least(j, s))
  BY <1>4
<1> QED BY <1>3, <1>5

\* and so are those of a batch outside every group.
LEMMA UnitOfBatch ==
  ASSUME NEW b \in Batches, NEW i \in Specs, InBatch(b, i), Around(i) = {}
  PROVE  UnitStart(i) = b[1]
<1>1. (CHOOSE c \in Batches : InBatch(c, i)) = b
  BY OneBatch
<1>2. Batched(i)
  BY DEF Batched
<1> QED BY <1>1, <1>2 DEF UnitStart

\* A shard draws a unit as a whole.
LEMMA UnitIsWhole ==
  ASSUME NEW sh, NEW i \in Specs, NEW k \in Specs, i <= k,
         \A j \in Specs : i <= j /\ j <= k => UnitStart(j) = UnitStart(i)
  PROVE  Included(sh, k) <=> Included(sh, i)
<1>1. i \in Int /\ k \in Int /\ 1 <= i /\ k <= NSpecs
  BY SizeAssumption DEF SizeAssumption, Specs
<1> DEFINE Seen(n) == {UnitStart(j) : j \in 1..n}
<1>2. ASSUME NEW j \in 1..k PROVE UnitStart(j) \in Seen(i)
  <2>1. CASE j <= i
    BY <1>1, <2>1
  <2>2. CASE i < j
    <3>1. UnitStart(j) = UnitStart(i)
      BY <1>1, <2>2, SizeAssumption DEF Specs, SizeAssumption
    <3>2. i \in 1..i
      BY <1>1
    <3> QED BY <3>1, <3>2
  <2> QED BY <1>1, <2>1, <2>2
<1>3. Seen(i) \subseteq Seen(k)
  BY <1>1
<1>4. Seen(k) \subseteq Seen(i)
  BY <1>2
<1>5. Seen(i) = Seen(k)
  BY <1>3, <1>4
<1>6. UnitNumber(i) = UnitNumber(k)
  BY <1>5 DEF UnitNumber
<1> QED BY <1>6 DEF Included

\* So all specs of a group belong to one shard,
LEMMA GroupIsWhole ==
  ASSUME NEW sh, NEW g \in Groups, NEW i \in Specs, Contains(g, i)
  PROVE  Included(sh, i) <=> Included(sh, Start[g])
<1>1. Start[g] \in Specs /\ Start[g] \in Int /\ End[g] \in Int /\ Contains(g, Start[g]) /\ i \in Int
  BY RangeTypes, SizeAssumption DEF Contains, SizeAssumption, Specs
<1>2. \A j \in Specs : Start[g] <= j /\ j <= i => UnitStart(j) = UnitStart(Start[g])
  <2>1. SUFFICES ASSUME NEW j \in Specs, Start[g] <= j, j <= i PROVE Contains(g, j)
    BY <1>1, UnitOfGroup
  <2>2. j \in Int
    BY SizeAssumption DEF SizeAssumption, Specs
  <2> QED BY <1>1, <2>1, <2>2 DEF Contains
<1> QED BY <1>1, <1>2, UnitIsWhole DEF Contains

\* and all specs of a batch.
LEMMA BatchIsWhole ==
  ASSUME NEW sh, NEW b \in Batches, NEW i \in Specs, InBatch(b, i)
  PROVE  Included(sh, i) <=> Included(sh, b[1])
<1>1. b[1] \in Specs /\ b[1] \in Int /\ b[2] \in Int /\ InBatch(b, b[1]) /\ i \in Int
  BY BatchRange, SizeAssumption DEF InBatch, SizeAssumption, Specs
<1>2. ASSUME NEW j \in Specs, b[1] <= j, j <= i PROVE UnitStart(j) = UnitStart(b[1])
  <2>1. j \in Int
    BY SizeAssumption DEF SizeAssumption, Specs
  <2>2. InBatch(b, j)
    BY <1>1, <1>2, <2>1 DEF InBatch
  <2>3. Around(j) = Around(b[1])
    BY <2>2, BatchTogether
  <2>4. CASE Around(b[1]) = {}
    BY <1>1, <2>2, <2>3, <2>4, UnitOfBatch
  <2>5. CASE Around(b[1]) # {}
    <3>1. PICK g \in Around(b[1]) : TRUE
      BY <2>5
    <3>2. g \in Groups /\ Contains(g, b[1]) /\ Contains(g, j)
      BY <2>3, <3>1 DEF Around
    <3> QED BY <1>1, <3>2, UnitOfGroup
  <2> QED BY <2>4, <2>5
<1> QED BY <1>1, <1>2, UnitIsWhole DEF InBatch

-----------------------------------------------------------------------------
(* Type correctness.                                                       *)

USE DEF walk, bodies, stops, specRs, hookRs, suiteRs

LEMMA TypeInit == Init => TypeOK
<1> SUFFICES ASSUME Init PROVE TypeOK
  OBVIOUS
<1>1. pos \in 1..(NSpecs + 1) /\ at \in Scopes
  BY SizeAssumption DEF Init, SizeAssumption, Scopes
<1>2. phase \in [Scopes -> Phases] /\ marks \in [Marks -> {"none", "declared", "unstarted"}]
  BY DEF Init, Phases
<1>3. /\ hookAt \in [Groups -> Nat] /\ park \in [Groups -> {"no", "parked", "resumed"}]
      /\ beforeCases \in [Groups -> Nat] /\ afterCases \in [Groups -> Nat]
  BY DEF Init
<1>4. /\ batch \in [Specs -> {"idle", "running", "ok", "fail", "skip", "filtered", "park"}]
      /\ status \in [Specs -> Statuses] /\ reports \in [Specs -> Nat]
  BY DEF Init, Statuses
<1> QED BY <1>1, <1>2, <1>3, <1>4 DEF Init, TypeOK

\* A report with a status of the reporter keeps the two report functions well typed.
LEMMA ReportTypes ==
  ASSUME TypeOK, NEW S, NEW r \in Statuses, Report(S, r)
  PROVE  status' \in [Specs -> Statuses] /\ reports' \in [Specs -> Nat]
  BY DEF TypeOK, Report

\* A failure marks scopes only.
LEMMA FailTypes ==
  ASSUME TypeOK, NEW s \in Scopes, NEW c \in BOOLEAN, FailIf(c, s)
  PROVE  failed' \subseteq Scopes
  BY DEF TypeOK, FailIf, Failing, Above, Scopes

LEMMA TypeNext == TypeOK /\ [Next]_vars => TypeOK'
<1> SUFFICES ASSUME TypeOK, [Next]_vars PROVE TypeOK'
  OBVIOUS
<1> USE DEF TypeOK
<1>1. CASE StaySilent
  BY <1>1 DEF StaySilent, Phases, Scopes
<1>2. CASE StartSuite
  BY <1>2 DEF StartSuite, Phases, Scopes
<1>3. CASE EndSuite
  BY <1>3 DEF EndSuite, SuiteEvent, Phases, Scopes
<1>4. CASE FinishTest
  BY <1>4 DEF FinishTest, Phases, Scopes
<1>5. CASE SkipUnit
  <2>1. PICK last \in Specs : SkipUnselected(last)
    BY <1>5, RangeTypes, BatchRange, SizeAssumption
       DEF SkipUnit, SkipUnselected, Specs, SizeAssumption
  <2> QED BY <2>1, SizeAssumption DEF SkipUnselected, Specs, SizeAssumption
<1>6. ASSUME NEW s \in Scopes, CutRange(s) PROVE TypeOK'
  <2>1. status' \in [Specs -> Statuses] /\ reports' \in [Specs -> Nat]
    BY <1>6, ReportTypes DEF CutRange, Statuses
  <2>2. Last(s) + 1 \in 1..(NSpecs + 1)
    BY ScopeRange, SizeAssumption DEF SizeAssumption, Specs
  <2> QED BY <1>6, <2>1, <2>2 DEF CutRange
<1>7. ASSUME NEW g \in Groups, EnterGroup(g) PROVE TypeOK'
  BY <1>7 DEF EnterGroup, Phases, Scopes
<1>8. ASSUME NEW g \in Groups, FilterGroup(g) PROVE TypeOK'
  <2>1. status' \in [Specs -> Statuses] /\ reports' \in [Specs -> Nat]
    BY <1>8, ReportTypes DEF FilterGroup, Statuses
  <2>2. End[g] + 1 \in 1..(NSpecs + 1)
    BY RangeTypes, SizeAssumption DEF SizeAssumption, Specs
  <2> QED BY <1>8, <2>1, <2>2 DEF FilterGroup
<1>9. ASSUME NEW g \in Groups, NEW o, BeforeAllReturns(g, o) PROVE TypeOK'
  <2>1. failed' \subseteq Scopes
    BY <1>9, FailTypes DEF BeforeAllReturns, Scopes
  <2>2. hookAt' \in [Groups -> Nat]
    BY <1>9 DEF BeforeAllReturns
  <2> QED BY <1>9, <2>1, <2>2 DEF BeforeAllReturns
<1>10. ASSUME NEW g \in Groups, NEW o, BeforeAllFails(g, o) PROVE TypeOK'
  <2>1. failed' \subseteq Scopes
    BY <1>10, FailTypes DEF BeforeAllFails, Scopes
  <2>2. status' \in [Specs -> Statuses] /\ reports' \in [Specs -> Nat]
    BY <1>10, ReportTypes DEF BeforeAllFails, SuppressGroup, Statuses
  <2>3. pos' \in 1..(NSpecs + 1)
    BY <1>10, RangeTypes, SizeAssumption DEF BeforeAllFails, SuppressGroup, SizeAssumption, Specs
  <2>4. phase' \in [Scopes -> Phases] /\ hookAt' \in [Groups -> Nat]
    BY <1>10 DEF BeforeAllFails, SuppressGroup, ToAfter, Phases, Scopes
  <2>5. beforeCases' \in [Groups -> Nat]
    BY <1>10 DEF BeforeAllFails
  <2>6. failFastStopped' \in BOOLEAN /\ unwinding' \in BOOLEAN
    BY <1>10 DEF BeforeAllFails, MarkFailFast
  <2> QED BY <1>10, <2>1, <2>2, <2>3, <2>4, <2>5, <2>6 DEF BeforeAllFails
<1>11. ASSUME NEW g \in Groups, NEW o, AfterAll(g, o) PROVE TypeOK'
  <2>1. failed' \subseteq Scopes
    <3> DEFINE c == o \in {"fail", "exit", "error"}
    <3>1. FailIf(c, g) /\ g \in Scopes
      BY <1>11 DEF AfterAll, Scopes
    <3>2. c \in BOOLEAN
      OBVIOUS
    <3> HIDE DEF c
    <3> QED BY <3>1, <3>2, FailTypes
  <2>2. phase' \in [Scopes -> Phases] /\ hookAt' \in [Groups -> Nat]
    BY <1>11 DEF AfterAll, Phases, Scopes
  <2>3. accFailed' \subseteq Groups
    BY <1>11 DEF AfterAll
  <2>4. afterCases' \in [Groups -> Nat]
    BY <1>11 DEF AfterAll
  <2>5. failFastStopped' \in BOOLEAN /\ unwinding' \in BOOLEAN
    BY <1>11 DEF AfterAll, MarkFailFast
  <2> QED BY <1>11, <2>1, <2>2, <2>3, <2>4, <2>5 DEF AfterAll
<1>12. ASSUME NEW g \in Groups, BeforeAllsDone(g) PROVE TypeOK'
  <2>1. phase' \in [Scopes -> Phases] /\ hookAt' \in [Groups -> Nat]
    BY <1>12 DEF BeforeAllsDone, ToAfter, Phases, Scopes
  <2> QED BY <1>12, <2>1 DEF BeforeAllsDone
<1>13. ASSUME NEW g \in Groups, BeforeAllSkips(g) PROVE TypeOK'
  <2>1. status' \in [Specs -> Statuses] /\ reports' \in [Specs -> Nat]
    BY <1>13, ReportTypes DEF BeforeAllSkips, SuppressGroup, Statuses
  <2>2. pos' \in 1..(NSpecs + 1)
    BY <1>13, RangeTypes, SizeAssumption DEF BeforeAllSkips, SuppressGroup, SizeAssumption, Specs
  <2>3. phase' \in [Scopes -> Phases] /\ hookAt' \in [Groups -> Nat]
    BY <1>13 DEF BeforeAllSkips, SuppressGroup, ToAfter, Phases, Scopes
  <2> QED BY <1>13, <2>1, <2>2, <2>3 DEF BeforeAllSkips
<1>14. ASSUME NEW g \in Groups, HookParks(g) PROVE TypeOK'
  <2>1. failed' \subseteq Scopes
    BY <1>14, FailTypes, ParentIsScope DEF HookParks
  <2> QED BY <1>14, <2>1, ParentIsScope DEF HookParks
<1>15. ASSUME NEW g \in Groups, HookResumes(g) PROVE TypeOK'
  BY <1>15 DEF HookResumes
<1>16. ASSUME NEW g \in Groups, LeaveBody(g) PROVE TypeOK'
  BY <1>16 DEF LeaveBody, ToAfter, Phases, Scopes
<1>17. ASSUME NEW g \in Groups, NEW c \in BOOLEAN, FinishGroup(g, c) PROVE TypeOK'
  <2>1. failed' \subseteq Scopes
    BY <1>17, FailTypes DEF FinishGroup, Scopes
  <2>2. afterCases' \in [Groups -> Nat]
    BY <1>17 DEF FinishGroup
  <2>3. phase' \in [Scopes -> Phases] /\ at' \in Scopes
    BY <1>17, ParentIsScope DEF FinishGroup, Phases, Scopes
  <2>4. failFastStopped' \in BOOLEAN
    BY <1>17 DEF FinishGroup, MarkFailFast
  <2> QED BY <1>17, <2>1, <2>2, <2>3, <2>4 DEF FinishGroup
<1>18. ASSUME NEW o, RunSpec(o) PROVE TypeOK'
  <2>1. Result(o) \in Statuses
    BY <1>18 DEF RunSpec, BodyOutcomes, Permitted, Result, Statuses
  <2>2. status' \in [Specs -> Statuses] /\ reports' \in [Specs -> Nat]
    BY <1>18, <2>1, ReportTypes DEF RunSpec
  <2>3. failed' \subseteq Scopes
    BY <1>18, FailTypes DEF RunSpec
  <2>4. pos' \in 1..(NSpecs + 1) /\ failFastStopped' \in BOOLEAN
    BY <1>18, SizeAssumption DEF RunSpec, MarkFailFast, Specs, SizeAssumption
  <2> QED BY <1>18, <2>2, <2>3, <2>4 DEF RunSpec
<1>19. CASE SpecParks
  <2>1. failed' \subseteq Scopes
    BY <1>19, FailTypes DEF SpecParks
  <2> QED BY <1>19, <2>1 DEF SpecParks, Statuses
<1>20. CASE SpecExits
  <2>1. failed' \subseteq Scopes
    BY <1>20, FailTypes DEF SpecExits
  <2> QED BY <1>20, <2>1 DEF SpecExits, Statuses
<1>21. ASSUME NEW i \in Specs, NEW o, LateBodyEnds(i, o) PROVE TypeOK'
  <2>1. failed' \subseteq Scopes
    BY <1>21, FailTypes, ScopeOfIsScope DEF LateBodyEnds
  <2> QED BY <1>21, <2>1 DEF LateBodyEnds
<1>22. ASSUME NEW i \in Specs, NEW o, BatchSpecEnds(i, o) PROVE TypeOK'
  <2>1. failed' \subseteq Scopes
    BY <1>22, FailTypes, ScopeOfIsScope DEF BatchSpecEnds
  <2>2. o \in {"ok", "fail", "skip", "filtered", "park"}
    BY <1>22 DEF BatchSpecEnds, BodyOutcomes, Permitted
  <2> QED BY <1>22, <2>1, <2>2 DEF BatchSpecEnds
<1>23. ASSUME NEW b \in Batches, LaunchBatch(b) PROVE TypeOK'
  BY <1>23 DEF LaunchBatch
<1>24. ASSUME NEW b \in Batches, CollectBatch(b) PROVE TypeOK'
  <2>1. ASSUME NEW i \in Specs, i \in SpecsOf(b) PROVE Result(batch[i]) \in Statuses
    <3>1. batch[i] \notin {"idle", "running"}
      BY <1>24, <2>1 DEF CollectBatch, BatchDone
    <3>2. batch[i] \in {"ok", "fail", "skip", "filtered", "park"}
      BY <3>1
    <3> QED BY <3>2 DEF Result, Statuses
  <2>2. status' \in [Specs -> Statuses] /\ reports' \in [Specs -> Nat]
    <3>1. /\ status' = [i \in Specs |-> IF i \in SpecsOf(b) THEN Result(batch[i]) ELSE status[i]]
          /\ reports' = [i \in Specs |-> IF i \in SpecsOf(b) THEN reports[i] + 1 ELSE reports[i]]
      BY <1>24 DEF CollectBatch
    <3> QED BY <3>1, <2>1
  <2>3. failed' \subseteq Scopes /\ stopped' \in BOOLEAN
    <3>1. FailIf(BatchHas(b, "park"), at) /\ BatchHas(b, "park") \in BOOLEAN
      BY <1>24 DEF CollectBatch, BatchHas
    <3>2. stopped' \in BOOLEAN
      BY <1>24 DEF CollectBatch
    <3> QED BY <3>1, <3>2, FailTypes
  <2>4. pos' \in 1..(NSpecs + 1)
    BY <1>24, BatchRange, SizeAssumption DEF CollectBatch, Specs, SizeAssumption
  <2>5. failFastStopped' \in BOOLEAN
    BY <1>24 DEF CollectBatch, MarkFailFast
  <2> QED BY <1>24, <2>2, <2>3, <2>4, <2>5 DEF CollectBatch
<1>25. CASE UNCHANGED vars
  BY <1>25 DEF vars
<1> QED
  BY <1>1, <1>2, <1>3, <1>4, <1>5, <1>6, <1>7, <1>8, <1>9, <1>10, <1>11, <1>12, <1>13, <1>14,
     <1>15, <1>16, <1>17, <1>18, <1>19, <1>20, <1>21, <1>22, <1>23, <1>24, <1>25
     DEF Next, SuiteNext, GroupNext, SpecNext

\* Every variable stays in its type, in every run of every plan.
THEOREM TypeCorrect == Spec => []TypeOK
  BY TypeInit, TypeNext, PTL DEF Spec

-----------------------------------------------------------------------------
(* One report per spec, in plan order.                                     *)

\* A walking goroutine has no group in its BeforeAlls.
LEMMA WalkingIsPastBefore ==
  ASSUME TypeOK, CursorInv, NEW s, Walking(s), NEW g \in Groups
  PROVE  phase[g] # "before"
  BY DEF CursorInv, Walking, Halted

\* What a step does to the cursor and the reports: it finishes, once, only specs the cursor
\* passes, and leaves what was reported of the ones behind it.
Advances ==
  /\ pos <= pos'
  /\ \A i \in Specs :
       \/ reports'[i] = reports[i]
       \/ reports'[i] = reports[i] + 1 /\ pos <= i /\ i < pos'
  /\ \A i \in Specs : i < pos => status'[i] = status[i]

\* Reporting a range at or behind the cursor and moving past it.
LEMMA ReportAdvances ==
  ASSUME TypeOK, NEW S, NEW r, Report(S, r),
         NEW first \in Int, NEW last \in Int, pos <= first, first <= last, pos' = last + 1,
         \A i \in Specs : i \in S => first <= i /\ i <= last
  PROVE  Advances
<1>1. pos \in Int
  BY SizeAssumption DEF TypeOK, SizeAssumption
<1>2. ASSUME NEW i \in Specs
      PROVE  \/ reports'[i] = reports[i]
             \/ reports'[i] = reports[i] + 1 /\ pos <= i /\ i < pos'
  <2>1. i \in Int
    BY SizeAssumption DEF SizeAssumption, Specs
  <2>2. reports'[i] = IF i \in S THEN reports[i] + 1 ELSE reports[i]
    BY DEF Report
  <2> QED BY <1>1, <2>1, <2>2
<1>3. ASSUME NEW i \in Specs, i < pos PROVE status'[i] = status[i]
  <2>1. i \in Int /\ i \notin S
    BY <1>1, <1>3, SizeAssumption DEF SizeAssumption, Specs
  <2> QED BY <2>1 DEF Report
<1> QED BY <1>1, <1>2, <1>3 DEF Advances

\* A suppressed group's specs are ahead of the cursor.
LEMMA SuppressAdvances ==
  ASSUME TypeOK, CursorInv, NEW g \in Groups, phase[g] = "before", SuppressGroup(g)
  PROVE  Advances
<1>1. pos <= Start[g]
  BY DEF CursorInv
<1>2. \A i \in Specs : i \in Start[g]..End[g] => Start[g] <= i /\ i <= End[g]
  BY RangeTypes
<1> QED BY <1>1, <1>2, RangeTypes, ReportAdvances DEF SuppressGroup

LEMMA NextAdvances == TypeOK /\ CursorInv /\ [Next]_vars => Advances
<1> SUFFICES ASSUME TypeOK, CursorInv, [Next]_vars PROVE Advances
  OBVIOUS
<1> DEFINE Still == pos' = pos /\ reports' = reports /\ status' = status
<1>1. pos \in Int
  BY SizeAssumption DEF TypeOK, SizeAssumption
<1>2. Still => Advances
  BY <1>1 DEF Advances
<1>3. CASE SuiteNext
  <2>1. CASE SkipUnit
    <3>1. PICK last : SkipUnselected(last) /\ last \in Int /\ pos <= last
      <4>1. ASSUME NEW g \in Groups, pos = Start[g], SkipUnselected(End[g])
            PROVE  \E last : SkipUnselected(last) /\ last \in Int /\ pos <= last
        BY <4>1, RangeTypes
      <4>2. ASSUME NEW b \in Batches, pos = b[1], SkipUnselected(b[2])
            PROVE  \E last : SkipUnselected(last) /\ last \in Int /\ pos <= last
        BY <4>2, BatchRange, SizeAssumption DEF Specs, SizeAssumption
      <4> QED BY <1>1, <2>1, <4>1, <4>2 DEF SkipUnit
    <3> QED BY <1>1, <3>1, SizeAssumption DEF SkipUnselected, Advances, Specs, SizeAssumption
  <2>2. CASE StaySilent \/ StartSuite \/ EndSuite \/ FinishTest
    BY <1>2, <2>2 DEF StaySilent, StartSuite, EndSuite, FinishTest
  <2> QED BY <1>3, <2>1, <2>2 DEF SuiteNext
<1>4. ASSUME NEW s \in Scopes, CutRange(s) PROVE Advances
  <2>1. Last(s) \in Int /\ pos <= Last(s) /\ pos' = Last(s) + 1
    BY <1>4, ScopeRange, SizeAssumption DEF CutRange, Specs, SizeAssumption
  <2>2. Report({i \in RestOf(s) : Included(mode.shard, i)}, "unstarted")
    BY <1>4 DEF CutRange
  <2>3. \A i \in {k \in RestOf(s) : Included(mode.shard, k)} : pos <= i /\ i <= Last(s)
    BY <1>1, <2>1 DEF RestOf
  <2> QED BY <1>1, <2>1, <2>2, <2>3, ReportAdvances
<1>5. CASE SpecNext
  <2>1. ASSUME NEW o, RunSpec(o) PROVE Advances
    BY <1>1, <2>1, ReportAdvances DEF RunSpec
  <2>2. CASE SpecParks \/ SpecExits
    <3>1. pos' = pos /\ reports' = reports /\ status' = [status EXCEPT ![pos] = "open"]
      BY <2>2 DEF SpecParks, SpecExits
    <3>2. status \in [Specs -> Statuses] /\ \A i \in Specs : i \in Int
      BY SizeAssumption DEF TypeOK, Specs, SizeAssumption
    <3> QED BY <1>1, <3>1, <3>2 DEF Advances
  <2>3. ASSUME NEW i, NEW o, LateBodyEnds(i, o) \/ BatchSpecEnds(i, o) PROVE Advances
    BY <1>2, <2>3 DEF LateBodyEnds, BatchSpecEnds
  <2>4. ASSUME NEW b \in Batches, LaunchBatch(b) PROVE Advances
    BY <1>2, <2>4 DEF LaunchBatch
  <2>5. ASSUME NEW b \in Batches, CollectBatch(b) PROVE Advances
    <3>1. /\ pos = b[1] /\ pos' = b[2] + 1
          /\ reports' = [i \in Specs |-> IF i \in SpecsOf(b) THEN reports[i] + 1 ELSE reports[i]]
          /\ \A i \in Specs : i \notin SpecsOf(b) => status'[i] = status[i]
      BY <2>5 DEF CollectBatch
    <3>2. b[1] \in Int /\ b[2] \in Int /\ b[1] <= b[2] /\ \A i \in Specs : i \in Int
      BY BatchRange, SizeAssumption DEF Specs, SizeAssumption
    <3>3. \A i \in SpecsOf(b) : b[1] <= i /\ i <= b[2]
      BY <3>2 DEF SpecsOf
    <3> QED BY <3>1, <3>2, <3>3 DEF Advances
  <2> QED BY <1>5, <2>1, <2>2, <2>3, <2>4, <2>5 DEF SpecNext
<1>6. ASSUME NEW g \in Groups, GroupNext(g) PROVE Advances
  <2>1. CASE FilterGroup(g)
    <3>1. \A i \in Specs : i \in Start[g]..End[g] => Start[g] <= i /\ i <= End[g]
      BY RangeTypes
    <3> QED BY <1>1, <2>1, <3>1, RangeTypes, ReportAdvances DEF FilterGroup
  <2>2. ASSUME NEW o, BeforeAllFails(g, o) PROVE Advances
    BY <2>2, SuppressAdvances DEF BeforeAllFails, HookMayRun
  <2>3. CASE BeforeAllSkips(g)
    BY <2>3, SuppressAdvances DEF BeforeAllSkips, HookMayRun
  <2>4. CASE \/ EnterGroup(g) \/ BeforeAllsDone(g) \/ HookParks(g) \/ HookResumes(g) \/ LeaveBody(g)
    BY <1>2, <2>4 DEF EnterGroup, BeforeAllsDone, HookParks, HookResumes, LeaveBody
  <2>5. ASSUME NEW o, BeforeAllReturns(g, o) \/ AfterAll(g, o) PROVE Advances
    BY <1>2, <2>5 DEF BeforeAllReturns, AfterAll
  <2>6. ASSUME NEW c, FinishGroup(g, c) PROVE Advances
    BY <1>2, <2>6 DEF FinishGroup
  <2> QED BY <1>6, <2>1, <2>2, <2>3, <2>4, <2>5, <2>6 DEF GroupNext
<1>7. CASE UNCHANGED vars
  BY <1>2, <1>7 DEF vars
<1> QED BY <1>3, <1>4, <1>5, <1>6, <1>7 DEF Next

\* A step that enters no group: no group newly runs its BeforeAlls, and one that goes on doing so
\* keeps its place ahead of the cursor.
Settles ==
  \A g \in Groups : phase'[g] = "before" =>
    /\ phase[g] = "before" /\ pos' = pos
    /\ at = g => at' = g \/ stopped'
    /\ stopped => stopped'

LEMMA NextSettles ==
  TypeOK /\ CursorInv /\ [Next]_vars => Settles \/ \E g \in Groups : EnterGroup(g)
<1> SUFFICES ASSUME TypeOK, CursorInv, [Next]_vars, ~ \E g \in Groups : EnterGroup(g) PROVE Settles
  OBVIOUS
<1>1. ASSUME NEW s, Walking(s), phase' = phase PROVE Settles
  BY <1>1, WalkingIsPastBefore DEF Settles
<1>2. phase \in [Scopes -> Phases] /\ Groups \subseteq Scopes /\ Root \notin Groups
  BY DEF TypeOK, Scopes, Groups, Root
<1>3. CASE SuiteNext
  <2>1. CASE SkipUnit
    BY <2>1, <1>1 DEF SkipUnit, SkipUnselected
  <2>2. CASE StaySilent \/ StartSuite \/ EndSuite \/ FinishTest
    BY <1>2, <2>2 DEF Settles, StaySilent, StartSuite, EndSuite, FinishTest
  <2> QED BY <1>3, <2>1, <2>2 DEF SuiteNext
<1>4. ASSUME NEW s \in Scopes, CutRange(s) PROVE Settles
  BY <1>4, <1>1 DEF CutRange
<1>5. CASE SpecNext
  <2>1. ASSUME NEW o, RunSpec(o) PROVE Settles
    BY <2>1, <1>1 DEF RunSpec, SpecIsNext, MayStart
  <2>2. CASE SpecParks \/ SpecExits
    BY <2>2 DEF SpecParks, SpecExits, Settles
  <2>3. ASSUME NEW i, NEW o, LateBodyEnds(i, o) \/ BatchSpecEnds(i, o) PROVE Settles
    BY <2>3 DEF LateBodyEnds, BatchSpecEnds, Settles
  <2>4. ASSUME NEW b \in Batches, LaunchBatch(b) PROVE Settles
    BY <2>4 DEF LaunchBatch, Settles
  <2>5. ASSUME NEW b \in Batches, CollectBatch(b) PROVE Settles
    BY <2>5, <1>1 DEF CollectBatch
  <2> QED BY <1>5, <2>1, <2>2, <2>3, <2>4, <2>5 DEF SpecNext
<1>6. ASSUME NEW h \in Groups, GroupNext(h) PROVE Settles
  <2>1. CASE FilterGroup(h)
    BY <2>1, <1>1 DEF FilterGroup, MayStart
  <2>2. ASSUME phase[h] = "before", SuppressGroup(h) PROVE Settles
    <3>1. phase'[h] # "before" /\ \A g \in Groups : g # h => phase'[g] = phase[g]
      BY <1>2, <2>2 DEF SuppressGroup, ToAfter
    <3> QED BY <2>2, <3>1 DEF CursorInv, Settles
  <2>3. ASSUME NEW o, BeforeAllFails(h, o) \/ BeforeAllSkips(h) PROVE Settles
    BY <2>2, <2>3 DEF BeforeAllFails, BeforeAllSkips, HookMayRun
  <2>4. CASE BeforeAllsDone(h)
    BY <1>2, <2>4 DEF BeforeAllsDone, ToAfter, Settles
  <2>5. CASE HookParks(h) \/ HookResumes(h)
    BY <2>5 DEF HookParks, HookResumes, Settles
  <2>6. CASE LeaveBody(h)
    BY <1>2, <2>6 DEF LeaveBody, ToAfter, Settles
  <2>7. ASSUME NEW o, BeforeAllReturns(h, o) PROVE Settles
    BY <2>7 DEF BeforeAllReturns, Settles
  <2>8. ASSUME NEW o, AfterAll(h, o) PROVE Settles
    BY <1>2, <2>8 DEF AfterAll, Settles
  <2>9. ASSUME NEW c, FinishGroup(h, c) PROVE Settles
    BY <1>2, <2>9 DEF FinishGroup, Settles
  <2> QED BY <1>6, <2>1, <2>3, <2>4, <2>5, <2>6, <2>7, <2>8, <2>9 DEF GroupNext
<1>7. CASE UNCHANGED vars
  BY <1>7 DEF vars, Settles
<1> QED BY <1>3, <1>4, <1>5, <1>6, <1>7 DEF Next

LEMMA CursorInit == Init => CursorInv
<1> SUFFICES ASSUME Init PROVE CursorInv
  OBVIOUS
<1>1. \A g \in Groups : phase[g] # "before"
  BY DEF Init, Scopes, Groups, Root
<1> QED BY <1>1 DEF Init, CursorInv

LEMMA CursorNext == TypeOK /\ CursorInv /\ [Next]_vars => CursorInv'
<1> SUFFICES ASSUME TypeOK, CursorInv, [Next]_vars PROVE CursorInv'
  OBVIOUS
<1>1. \A i \in Specs : reports'[i] <= 1 /\ (i >= pos' => reports'[i] = 0)
  <2>1. Advances /\ pos \in Int /\ pos' \in Int
    BY NextAdvances, TypeNext, SizeAssumption DEF TypeOK, SizeAssumption
  <2>2. SUFFICES ASSUME NEW i \in Specs PROVE reports'[i] <= 1 /\ (i >= pos' => reports'[i] = 0)
    OBVIOUS
  <2>3. i \in Int /\ reports[i] \in Int /\ reports[i] <= 1 /\ (i >= pos => reports[i] = 0)
    <3>1. i \in Int
      BY SizeAssumption DEF Specs, SizeAssumption
    <3>2. reports \in [Specs -> Nat]
      BY DEF TypeOK
    <3>3. reports[i] <= 1 /\ (i >= pos => reports[i] = 0)
      BY DEF CursorInv
    <3> QED BY <3>1, <3>2, <3>3
  <2>4. CASE reports'[i] = reports[i]
    BY <2>1, <2>3, <2>4 DEF Advances
  <2>5. CASE reports'[i] = reports[i] + 1 /\ pos <= i /\ i < pos'
    BY <2>1, <2>3, <2>5
  <2> QED BY <2>1, <2>4, <2>5 DEF Advances
<1>2. /\ \A g \in Groups : phase'[g] = "before" => pos' <= Start[g] /\ (at' = g \/ stopped')
      /\ \A g, h \in Groups : phase'[g] = "before" /\ phase'[h] = "before" => g = h
  <2>1. CASE Settles
    BY <2>1 DEF Settles, CursorInv
  <2>2. ASSUME NEW g \in Groups, EnterGroup(g)
        PROVE  /\ \A h \in Groups : phase'[h] = "before" => h = g
               /\ pos' <= Start[g] /\ at' = g
    <3>1. \A h \in Groups : phase[h] # "before"
      BY <2>2, WalkingIsPastBefore DEF EnterGroup, MayStart
    <3>2. \A h \in Groups : h # g => phase'[h] = phase[h]
      BY <2>2 DEF EnterGroup, TypeOK, Scopes
    <3>3. pos' = Start[g] /\ at' = g
      BY <2>2 DEF EnterGroup
    <3> QED BY <3>1, <3>2, <3>3, RangeTypes
  <2> QED BY <2>1, <2>2, NextSettles
<1> QED BY <1>1, <1>2 DEF CursorInv

LEMMA CursorCorrect == Spec => [](TypeOK /\ CursorInv)
<1>1. Init => TypeOK /\ CursorInv
  BY TypeInit, CursorInit
<1>2. TypeOK /\ CursorInv /\ [Next]_vars => (TypeOK /\ CursorInv)'
  BY TypeNext, CursorNext
<1> QED BY <1>1, <1>2, PTL DEF Spec

\* When a spec is reported, by whichever handler, neither it nor a later one of the plan has been.
THEOREM SpecsReportedInPlanOrder == Spec => ReportedInPlanOrder
<1> DEFINE InOrder == \A i, j \in Specs : reports'[i] # reports[i] /\ i <= j => reports[j] = 0
<1>1. TypeOK /\ CursorInv /\ [Next]_vars => [InOrder]_vars
  <2> SUFFICES ASSUME TypeOK, CursorInv, [Next]_vars,
                      NEW i \in Specs, NEW j \in Specs, reports'[i] # reports[i], i <= j
               PROVE  reports[j] = 0
    BY DEF InOrder
  <2>1. pos <= i
    BY NextAdvances DEF Advances
  <2>2. pos \in Int /\ i \in Int /\ j \in Int
    BY SizeAssumption DEF TypeOK, Specs, SizeAssumption
  <2> QED BY <2>1, <2>2 DEF CursorInv
<1> QED BY <1>1, CursorCorrect, PTL DEF Spec, ReportedInPlanOrder

-----------------------------------------------------------------------------
(* The walk, and the batch it waits for.                                  *)

LEMMA WalkInit == Init => WalkInv
<1> SUFFICES ASSUME Init PROVE WalkInv
  OBVIOUS
<1>1. at \notin Groups /\ \A g \in Groups : phase[g] = "idle" /\ park[g] = "no"
  BY DEF Init, Scopes, Groups, Root
<1> QED BY <1>1 DEF WalkInv, Active

\* A step that moves no group and leaves the walk where it is.
LEMMA WalkStays ==
  ASSUME WalkInv, at' = at, stopped => stopped',
         \A g \in Groups : phase'[g] = phase[g] /\ (park'[g] = "no" <=> park[g] = "no"),
         at \in Groups => phase'[Root] = phase[Root]
  PROVE  WalkInv'
<1>1. \A g \in Groups : Above(g) \subseteq Groups
  BY DEF Above
<1> QED BY <1>1 DEF WalkInv, Active, Inside

\* A group whose hooks run, or whose body is left, goes to its next phase.
LEMMA WalkWaits ==
  ASSUME WalkInv, NEW g \in Groups, Active(g), at = g \/ park[g] # "no",
         phase'[g] \in {"body", "after", "drain"}, phase'[g] = "body" => park[g] = "no",
         \A s \in Scopes : s # g => phase'[s] = phase[s],
         at' = at, park' = park, stopped' = stopped
  PROVE  WalkInv'
<1>1. \A h \in Groups : Above(h) \subseteq Groups /\ h \notin Above(h)
  BY DEF Above, Encloses
<1>2. Root \notin Groups /\ Root \in Scopes /\ Groups \subseteq Scopes
  BY DEF Root, Groups, Scopes
<1>3. at \in Groups => g \notin Above(at)
  BY <1>1 DEF WalkInv
<1>4. at \in Groups => /\ phase'[Root] = "body" /\ Active(at)' /\ park'[at] = "no"
                       /\ \A h \in Above(at) : phase'[h] = "body"
  BY <1>1, <1>2, <1>3 DEF WalkInv, Active
<1>5. \A h \in Groups : Active(h)' /\ park'[h] = "no" => Inside(h)'
  BY <1>2 DEF WalkInv, Active, Inside
<1>6. \A h \in Groups : park'[h] # "no" => stopped' /\ phase'[h] \in {"before", "after", "drain", "done"}
  BY <1>2 DEF WalkInv
<1> QED BY <1>4, <1>5, <1>6 DEF WalkInv

\* The walk goes back from a group that has ended or parked to its parent.
LEMMA WalkReturns ==
  ASSUME WalkInv, NEW g \in Groups, at = g, at' = Parent(g), stopped => stopped',
         phase'[g] = "done" \/ (phase'[g] \in {"before", "after"} /\ park'[g] # "no" /\ stopped'),
         \A s \in Scopes : s # g => phase'[s] = phase[s],
         \A h \in Groups : h # g => park'[h] = park[h],
         park'[g] # "no" => stopped'
  PROVE  WalkInv'
<1>1. \A h \in Groups : Above(h) \subseteq Groups /\ h \notin Above(h)
  BY DEF Above, Encloses
<1>2. Root \notin Groups /\ Root \in Scopes /\ Groups \subseteq Scopes
  BY DEF Root, Groups, Scopes
<1>3. /\ Parent(g) = Root => Above(g) = {}
      /\ Parent(g) # Root => Parent(g) \in Groups /\ Above(g) = {Parent(g)} \cup Above(Parent(g))
  BY ParentAbove
<1>4. at' \in Groups => /\ phase'[Root] = "body" /\ Active(at)' /\ park'[at'] = "no"
                        /\ \A h \in Above(at') : phase'[h] = "body"
  <2>1. SUFFICES ASSUME Parent(g) \in Groups
                 PROVE  /\ phase'[Root] = "body" /\ phase'[Parent(g)] = "body" /\ park'[Parent(g)] = "no"
                        /\ \A h \in Above(Parent(g)) : phase'[h] = "body"
    BY DEF Active
  <2>2. Above(g) = {Parent(g)} \cup Above(Parent(g)) /\ g \notin Above(g)
    BY <1>1, <1>2, <1>3, <2>1
  <2>3. phase[Root] = "body" /\ \A h \in Above(g) : phase[h] = "body"
    BY DEF WalkInv
  <2>4. park[Parent(g)] = "no"
    BY <2>1, <2>2, <2>3 DEF WalkInv
  <2> QED BY <1>1, <1>2, <2>1, <2>2, <2>3, <2>4
<1>5. \A h \in Groups : Active(h)' /\ park'[h] = "no" => Inside(h)'
  <2>1. SUFFICES ASSUME NEW h \in Groups, Active(h)', park'[h] = "no" PROVE Inside(h)'
    OBVIOUS
  <2>2. h # g
    BY <2>1 DEF Active
  <2>3. h \in Above(g)
    BY <1>2, <2>1, <2>2 DEF WalkInv, Active, Inside
  <2> QED BY <1>2, <1>3, <2>3 DEF Inside
<1>6. \A h \in Groups : park'[h] # "no" => stopped' /\ phase'[h] \in {"before", "after", "drain", "done"}
  BY <1>2 DEF WalkInv
<1> QED BY <1>4, <1>5, <1>6 DEF WalkInv

\* The walk enters a group from its parent.
LEMMA WalkEnters ==
  ASSUME WalkInv, TypeOK, NEW g \in Groups, EnterGroup(g)
  PROVE  WalkInv'
<1>1. \A h \in Groups : Above(h) \subseteq Groups /\ h \notin Above(h)
  BY DEF Above, Encloses
<1>2. Root \notin Groups /\ Root \in Scopes /\ Groups \subseteq Scopes
  BY DEF Root, Groups, Scopes
<1>3. /\ Parent(g) = Root => Above(g) = {}
      /\ Parent(g) # Root => Parent(g) \in Groups /\ Above(g) = {Parent(g)} \cup Above(Parent(g))
  BY ParentAbove
<1>4. /\ at = Parent(g) /\ phase[Parent(g)] = "body" /\ ~stopped /\ phase[g] = "idle"
      /\ at' = g /\ park' = park /\ stopped' = stopped
      /\ phase' = [phase EXCEPT ![g] = IF NBefore[g] = 0 THEN "body" ELSE "before"]
  BY DEF EnterGroup, MayStart, Walking, Halted
<1>5. phase'[g] \in {"before", "body"} /\ \A s \in Scopes : s # g => phase'[s] = phase[s]
  BY <1>2, <1>4 DEF TypeOK
<1>6. phase[Root] = "body" /\ \A h \in Above(g) : phase[h] = "body"
  <2>1. CASE Parent(g) = Root
    BY <1>3, <1>4, <2>1
  <2>2. CASE Parent(g) # Root
    BY <1>3, <1>4, <2>2 DEF WalkInv
  <2> QED BY <2>1, <2>2
<1>7. \A h \in Groups : park[h] = "no"
  BY <1>4 DEF WalkInv
<1>8. /\ phase'[Root] = "body" /\ Active(g)' /\ park'[g] = "no"
      /\ \A h \in Above(g) : phase'[h] = "body"
  BY <1>1, <1>2, <1>4, <1>5, <1>6, <1>7 DEF Active
<1>9. \A h \in Groups : Active(h)' => Inside(h)'
  <2>1. SUFFICES ASSUME NEW h \in Groups, Active(h)', h # g PROVE h \in Above(g)
    BY <1>4 DEF Inside
  <2>2. at \in Groups /\ (h = at \/ h \in Above(at))
    BY <1>2, <1>5, <1>7, <2>1 DEF WalkInv, Active, Inside
  <2> QED BY <1>2, <1>3, <1>4, <2>2
<1> QED BY <1>4, <1>7, <1>8, <1>9 DEF WalkInv

\* Leaving a group's body, or its BeforeAlls, moves no other group.
LEMMA ToAfterMoves ==
  ASSUME TypeOK, NEW g \in Groups, ToAfter(g)
  PROVE  phase'[g] \in {"after", "drain"} /\ \A s \in Scopes : s # g => phase'[s] = phase[s]
<1>1. g \in Scopes /\ phase \in [Scopes -> Phases]
  BY DEF TypeOK, Scopes
<1> QED BY <1>1 DEF ToAfter

LEMMA WalkNext == TypeOK /\ WalkInv /\ [Next]_vars => WalkInv'
<1> SUFFICES ASSUME TypeOK, WalkInv, [Next]_vars PROVE WalkInv'
  OBVIOUS
<1>1. Root \notin Groups /\ Root \in Scopes /\ Groups \subseteq Scopes /\ phase \in [Scopes -> Phases]
  BY DEF Root, Groups, Scopes, TypeOK
<1>2. CASE SuiteNext
  <2>1. CASE SkipUnit
    BY <2>1, WalkStays DEF SkipUnit, SkipUnselected
  <2>2. CASE StaySilent \/ StartSuite \/ EndSuite \/ FinishTest
    <3>1. at \notin Groups
      BY <1>1, <2>2 DEF WalkInv, StaySilent, StartSuite, EndSuite, FinishTest
    <3>2. at' = at /\ park' = park /\ stopped' = stopped /\ \A g \in Groups : phase'[g] = phase[g]
      BY <1>1, <2>2 DEF StaySilent, StartSuite, EndSuite, FinishTest
    <3> QED BY <3>1, <3>2, WalkStays
  <2> QED BY <1>2, <2>1, <2>2 DEF SuiteNext
<1>3. ASSUME NEW s \in Scopes, CutRange(s) PROVE WalkInv'
  BY <1>3, WalkStays DEF CutRange
<1>4. CASE SpecNext
  <2>1. ASSUME NEW o, RunSpec(o) PROVE WalkInv'
    BY <2>1, WalkStays DEF RunSpec
  <2>2. CASE SpecParks \/ SpecExits
    <3>1. at' = at /\ park' = park /\ phase' = phase
      BY <2>2 DEF SpecParks, SpecExits
    <3>2. stopped => stopped'
      BY <2>2 DEF SpecParks, SpecExits
    <3>3. \A g \in Groups : phase'[g] = phase[g] /\ (park'[g] = "no" <=> park[g] = "no")
      BY <3>1
    <3>4. at \in Groups => phase'[Root] = phase[Root]
      BY <3>1
    <3> QED BY <3>1, <3>2, <3>3, <3>4, WalkStays
  <2>3. ASSUME NEW i, NEW o, LateBodyEnds(i, o) \/ BatchSpecEnds(i, o) PROVE WalkInv'
    BY <2>3, WalkStays DEF LateBodyEnds, BatchSpecEnds
  <2>4. ASSUME NEW b \in Batches, LaunchBatch(b) PROVE WalkInv'
    BY <2>4, WalkStays DEF LaunchBatch
  <2>5. ASSUME NEW b \in Batches, CollectBatch(b) PROVE WalkInv'
    BY <2>5, WalkStays DEF CollectBatch
  <2> QED BY <1>4, <2>1, <2>2, <2>3, <2>4, <2>5 DEF SpecNext
<1>5. ASSUME NEW g \in Groups, GroupNext(g) PROVE WalkInv'
  <2>1. CASE EnterGroup(g)
    BY <2>1, WalkEnters
  <2>2. CASE FilterGroup(g)
    BY <2>2, WalkStays DEF FilterGroup
  <2>3. ASSUME NEW o, BeforeAllReturns(g, o) PROVE WalkInv'
    BY <2>3, WalkStays DEF BeforeAllReturns
  <2>4. ASSUME NEW o, BeforeAllFails(g, o) \/ BeforeAllSkips(g) PROVE WalkInv'
    <3>1. Active(g) /\ (at = g \/ park[g] # "no") /\ ToAfter(g)
      BY <2>4 DEF BeforeAllFails, BeforeAllSkips, HookMayRun, Runs, SuppressGroup, Active
    <3>2. at' = at /\ park' = park /\ stopped' = stopped
      BY <2>4 DEF BeforeAllFails, BeforeAllSkips
    <3> QED BY <3>1, <3>2, ToAfterMoves, WalkWaits
  <2>5. CASE BeforeAllsDone(g)
    <3>1. Active(g) /\ (at = g \/ park[g] # "no") /\ at' = at /\ park' = park /\ stopped' = stopped
      BY <2>5 DEF BeforeAllsDone, HookMayRun, Runs, Active
    <3>2. CASE ToAfter(g)
      BY <3>1, <3>2, ToAfterMoves, WalkWaits
    <3>3. CASE ~Halted /\ phase' = [phase EXCEPT ![g] = "body"]
      <4>1. park[g] = "no"
        BY <3>3 DEF WalkInv, Halted
      <4>2. phase'[g] = "body" /\ \A s \in Scopes : s # g => phase'[s] = phase[s]
        BY <1>1, <3>3
      <4> QED BY <3>1, <4>1, <4>2, WalkWaits
    <3> QED BY <2>5, <3>2, <3>3 DEF BeforeAllsDone
  <2>6. CASE HookParks(g)
    <3>1. /\ at = g /\ at' = Parent(g) /\ stopped' /\ phase'[g] \in {"before", "after"}
          /\ phase' = phase /\ park' = [park EXCEPT ![g] = "parked"] /\ park[g] = "no"
      BY <2>6 DEF HookParks
    <3>2. park'[g] # "no" /\ \A h \in Groups : h # g => park'[h] = park[h]
      BY <3>1 DEF TypeOK
    <3> QED BY <3>1, <3>2, WalkReturns
  <2>7. CASE HookResumes(g)
    <3>1. \A h \in Groups : park'[h] = "no" <=> park[h] = "no"
      BY <2>7 DEF HookResumes, TypeOK
    <3> QED BY <2>7, <3>1, WalkStays DEF HookResumes
  <2>8. CASE LeaveBody(g)
    <3>1. Active(g) /\ at = g /\ ToAfter(g) /\ at' = at /\ park' = park /\ stopped' = stopped
      BY <2>8 DEF LeaveBody, Active
    <3> QED BY <3>1, ToAfterMoves, WalkWaits
  <2>9. ASSUME NEW o, AfterAll(g, o) PROVE WalkInv'
    <3>1. CASE LastAfterAll(g)
      <4>1. Active(g) /\ (at = g \/ park[g] # "no") /\ at' = at /\ park' = park /\ stopped' = stopped
        BY <2>9 DEF AfterAll, HookMayRun, Runs, Active
      <4>2. phase'[g] = "drain" /\ \A s \in Scopes : s # g => phase'[s] = phase[s]
        BY <1>1, <2>9, <3>1 DEF AfterAll
      <4> QED BY <4>1, <4>2, WalkWaits
    <3>2. CASE ~LastAfterAll(g)
      BY <2>9, <3>2, WalkStays DEF AfterAll
    <3> QED BY <3>1, <3>2
  <2>10. ASSUME NEW c, FinishGroup(g, c) PROVE WalkInv'
    <3>1. /\ phase'[g] = "done" /\ \A s \in Scopes : s # g => phase'[s] = phase[s]
          /\ park' = park /\ stopped' = stopped /\ phase[g] = "drain"
      BY <1>1, <2>10 DEF FinishGroup
    <3>2. CASE at = g
      <4>1. at' = Parent(g) /\ park[g] = "no"
        BY <2>10, <3>2 DEF FinishGroup, WalkInv
      <4> QED BY <3>1, <3>2, <4>1, WalkReturns
    <3>3. CASE at # g
      <4>1. park[g] # "no" /\ at' = at
        BY <2>10, <3>3 DEF FinishGroup, Runs
      <4>2. \A h \in Groups : Above(h) \subseteq Groups
        BY DEF Above
      <4>3. at \in Groups => g \notin Above(at)
        BY <3>1 DEF WalkInv
      <4> QED BY <1>1, <3>1, <3>3, <4>1, <4>2, <4>3 DEF WalkInv, Active, Inside
    <3> QED BY <3>2, <3>3
  <2> QED BY <1>5, <2>1, <2>2, <2>3, <2>4, <2>5, <2>6, <2>7, <2>8, <2>9, <2>10 DEF GroupNext
<1>6. CASE UNCHANGED vars
  BY <1>6, WalkStays DEF vars
<1> QED BY <1>2, <1>3, <1>4, <1>5, <1>6 DEF Next

\* While the outcomes of a batch are in the buffer, the run does nothing but end the batch's specs,
\* and collect them.
LEMMA BatchHoldsTheWalk ==
  ASSUME TypeOK, WalkInv, BatchInv, [Next]_vars,
         NEW j \in Specs, batch[j] # "idle", pos <= j
  PROVE  \/ \E i \in Specs, o \in AllOutcomes : BatchSpecEnds(i, o) \/ LateBodyEnds(i, o)
         \/ \E b \in Batches : CollectBatch(b)
         \/ UNCHANGED vars
<1>1. Held(j)
  BY DEF BatchInv
<1>2. PICK b \in Batches : b[1] = pos /\ InBatch(b, j)
  BY <1>1 DEF Held
<1>3. pos \in Specs /\ pos \in Int /\ Batched(pos) /\ Groups \subseteq Scopes /\ Root \notin Groups
  <2>1. b[1] \in Int /\ b[2] \in Int /\ b[1] \in Specs /\ b[1] <= b[2]
    BY BatchRange, SizeAssumption DEF SizeAssumption, Specs
  <2> QED BY <1>2, <2>1 DEF Batched, InBatch, Scopes, Groups, Root
<1>4. /\ batch[pos] # "idle" /\ Real /\ ~failFastStopped /\ Included(mode.shard, pos)
      /\ at = ScopeOf(pos) /\ phase[at] = "body" /\ ~Halted
  BY <1>1 DEF Held, Walking
<1>5. \A g \in Groups : park[g] = "no"
  BY <1>4 DEF WalkInv, Halted
<1>6. phase[Root] = "body"
  BY <1>3, <1>4, ScopeOfIsScope DEF WalkInv, Scopes
<1>7. ~SuiteNext
  <2>1. ~SkipUnit
    BY <1>4 DEF SkipUnit, SkipUnselected
  <2>2. ~EndSuite
    BY <1>3, <1>4, SizeAssumption DEF EndSuite, Specs, SizeAssumption
  <2>3. ~StaySilent /\ ~StartSuite /\ ~FinishTest
    BY <1>6 DEF StaySilent, StartSuite, FinishTest
  <2> QED BY <2>1, <2>2, <2>3 DEF SuiteNext
<1>8. ~ \E s \in Scopes : CutRange(s)
  BY <1>4 DEF CutRange
<1>9. /\ ~ \E o \in AllOutcomes : RunSpec(o)
      /\ ~SpecParks /\ ~SpecExits
      /\ ~ \E c \in Batches : LaunchBatch(c)
  <2>1. mode.backend = "T"
    BY <1>4 DEF Real
  <2> QED BY <1>3, <1>4, <2>1 DEF RunSpec, SpecParks, SpecExits, SpecIsNext, LaunchBatch
<1>10. ASSUME NEW g \in Groups, GroupNext(g) PROVE FALSE
  <2>1. ~EnterGroup(g) /\ ~FilterGroup(g)
    BY <1>4, StartIsInside DEF EnterGroup, FilterGroup, MayStart, Walking
  <2>2. \A ph \in {"before", "after", "drain"} : ~(phase[g] = ph /\ Runs(g))
    BY <1>4, <1>5 DEF Runs
  <2>3. ~ \E o \in AllOutcomes : BeforeAllReturns(g, o) \/ BeforeAllFails(g, o) \/ AfterAll(g, o)
    BY <2>2 DEF BeforeAllReturns, BeforeAllFails, AfterAll, HookMayRun
  <2>4. ~BeforeAllsDone(g) /\ ~BeforeAllSkips(g) /\ ~ \E c \in BOOLEAN : FinishGroup(g, c)
    BY <2>2 DEF BeforeAllsDone, BeforeAllSkips, FinishGroup, HookMayRun
  <2>5. ~HookParks(g) /\ ~HookResumes(g)
    BY <1>4, <1>5 DEF HookParks, HookResumes
  <2>6. ~LeaveBody(g)
    <3>1. SUFFICES ASSUME at = g, pos > End[g] PROVE FALSE
      BY <1>4 DEF LeaveBody
    <3>2. Contains(g, pos)
      BY <1>3, <1>4, <3>1, ScopeAround
    <3> QED BY <1>3, <3>1, <3>2, RangeTypes DEF Contains
  <2> QED BY <1>10, <2>1, <2>3, <2>4, <2>5, <2>6 DEF GroupNext
<1> QED BY <1>7, <1>8, <1>9, <1>10 DEF Next, SpecNext

\* Only launching and ending a batch's specs write the buffer.
LEMMA BufferWrites ==
  ASSUME [Next]_vars
  PROVE  \/ batch' = batch
         \/ \E b \in Batches : LaunchBatch(b)
         \/ \E i \in Specs, o \in AllOutcomes : BatchSpecEnds(i, o)
<1>1. CASE SuiteNext
  BY <1>1 DEF SuiteNext, StaySilent, StartSuite, EndSuite, FinishTest, SkipUnit, SkipUnselected
<1>2. ASSUME NEW s \in Scopes, CutRange(s) PROVE batch' = batch
  BY <1>2 DEF CutRange
<1>3. ASSUME NEW o, NEW i, RunSpec(o) \/ SpecParks \/ SpecExits \/ LateBodyEnds(i, o) PROVE batch' = batch
  BY <1>3 DEF RunSpec, SpecParks, SpecExits, LateBodyEnds
<1>4. ASSUME NEW b \in Batches, CollectBatch(b) PROVE batch' = batch
  BY <1>4 DEF CollectBatch
<1>5. ASSUME NEW g \in Groups, GroupNext(g) PROVE batch' = batch
  <2>1. CASE \/ EnterGroup(g) \/ FilterGroup(g) \/ BeforeAllsDone(g) \/ BeforeAllSkips(g)
             \/ HookParks(g) \/ HookResumes(g) \/ LeaveBody(g)
    BY <2>1 DEF EnterGroup, FilterGroup, BeforeAllsDone, BeforeAllSkips, HookParks, HookResumes, LeaveBody
  <2>2. ASSUME NEW o, BeforeAllReturns(g, o) \/ BeforeAllFails(g, o) PROVE batch' = batch
    BY <2>2 DEF BeforeAllReturns, BeforeAllFails
  <2>3. ASSUME NEW o, AfterAll(g, o) PROVE batch' = batch
    BY <2>3 DEF AfterAll
  <2>4. ASSUME NEW c, FinishGroup(g, c) PROVE batch' = batch
    BY <2>4 DEF FinishGroup
  <2> QED BY <1>5, <2>1, <2>2, <2>3, <2>4 DEF GroupNext
<1>6. CASE UNCHANGED vars
  BY <1>6 DEF vars
<1> QED BY <1>1, <1>2, <1>3, <1>4, <1>5, <1>6 DEF Next, SpecNext

LEMMA BatchInit == Init => BatchInv
  BY DEF Init, BatchInv

LEMMA BatchNext == TypeOK /\ CursorInv /\ WalkInv /\ BatchInv /\ [Next]_vars => BatchInv'
<1> SUFFICES ASSUME TypeOK, CursorInv, WalkInv, BatchInv, [Next]_vars PROVE BatchInv'
  OBVIOUS
<1>1. /\ pos \in Int /\ pos' \in Int /\ pos <= pos' /\ \A i \in Specs : i \in Int
      /\ batch \in [Specs -> {"idle", "running", "ok", "fail", "skip", "filtered", "park"}]
  <2>1. TypeOK' /\ Advances
    BY NextAdvances, TypeNext
  <2>2. pos \in Int /\ pos' \in Int /\ pos <= pos'
    BY <2>1, SizeAssumption DEF TypeOK, Advances, SizeAssumption
  <2>3. \A i \in Specs : i \in Int
    BY SizeAssumption DEF Specs, SizeAssumption
  <2> QED BY <2>2, <2>3 DEF TypeOK
<1>2. ASSUME NEW i \in Specs, NEW o, BatchSpecEnds(i, o) PROVE BatchInv'
  <2>1. batch[i] = "running" /\ o \notin {"idle", "running"} /\ batch' = [batch EXCEPT ![i] = o]
    BY <1>2 DEF BatchSpecEnds, BodyOutcomes, Permitted
  <2>2. \A k \in Specs : (batch'[k] = "running" => batch[k] = "running") /\ (batch'[k] = "idle" <=> batch[k] = "idle")
    BY <1>1, <2>1
  <2>3. UNCHANGED <<mode, pos, at, phase, stops>>
    BY <1>2 DEF BatchSpecEnds
  <2>4. SUFFICES ASSUME NEW k \in Specs
                 PROVE  /\ batch'[k] = "running" => pos' <= k
                        /\ batch'[k] # "idle" /\ pos' <= k => Held(k)'
    BY DEF BatchInv
  <2>5. Held(k) => Held(k)'
    <3>1. SUFFICES ASSUME Held(k) PROVE Held(k)'
      OBVIOUS
    <3>2. PICK b \in Batches : b[1] = pos /\ InBatch(b, k)
      BY <3>1 DEF Held
    <3>3. pos \in Specs
      BY <3>2, BatchRange
    <3>4. batch'[pos'] # "idle"
      BY <2>2, <2>3, <3>1, <3>3 DEF Held
    <3> QED BY <2>3, <3>1, <3>4 DEF Held, Real, Walking, Halted
  <2> QED BY <2>2, <2>3, <2>5 DEF BatchInv
<1>3. CASE \E j \in Specs : batch[j] # "idle" /\ pos <= j
  <2>1. CASE \E b \in Batches : CollectBatch(b)
    <3>1. PICK b \in Batches : CollectBatch(b)
      BY <2>1
    <3>2. pos = b[1] /\ pos' = b[2] + 1 /\ BatchDone(b) /\ batch' = batch
      BY <3>1 DEF CollectBatch
    <3>3. b[1] \in Int /\ b[2] \in Int /\ b[1] \in Specs /\ b[1] <= b[2]
      BY BatchRange, SizeAssumption DEF SizeAssumption, Specs
    <3>4. ASSUME NEW k \in Specs, batch[k] # "idle", pos <= k PROVE k <= b[2] /\ k \in SpecsOf(b)
      <4>1. PICK c \in Batches : c[1] = pos /\ InBatch(c, k)
        BY <3>4 DEF BatchInv, Held
      <4>2. c[1] \in Int /\ c[2] \in Int /\ c[1] <= c[2]
        BY BatchRange, SizeAssumption DEF SizeAssumption, Specs
      <4>3. c = b
        BY <3>2, <3>3, <4>1, <4>2, OneBatch DEF InBatch
      <4> QED BY <1>1, <3>3, <4>1, <4>3 DEF InBatch, SpecsOf
    <3>5. ASSUME NEW k \in Specs PROVE batch[k] # "running" /\ ~(batch[k] # "idle" /\ pos' <= k)
      <4>1. batch[k] # "running"
        BY <3>2, <3>4 DEF BatchInv, BatchDone
      <4>2. ~(batch[k] # "idle" /\ pos' <= k)
        BY <1>1, <3>2, <3>3, <3>4
      <4> QED BY <4>1, <4>2
    <3> QED BY <3>2, <3>5 DEF BatchInv
  <2>2. CASE UNCHANGED vars \/ \E i \in Specs, o \in AllOutcomes : LateBodyEnds(i, o)
    <3>1. UNCHANGED <<mode, pos, at, phase, stops, batch>>
      BY <2>2 DEF vars, LateBodyEnds
    <3> QED BY <3>1 DEF BatchInv, Held, Real, Walking, Halted
  <2> QED BY <1>2, <1>3, <2>1, <2>2, BatchHoldsTheWalk
<1>4. CASE \A j \in Specs : ~(batch[j] # "idle" /\ pos <= j)
  <2>1. CASE batch' = batch
    BY <1>1, <1>4, <2>1 DEF BatchInv
  <2>2. ASSUME NEW b \in Batches, LaunchBatch(b) PROVE BatchInv'
    <3>1. /\ Real /\ MayStart(ScopeOf(pos)) /\ pos = b[1]
          /\ batch' = [i \in Specs |-> IF i \in SpecsOf(b) THEN "running" ELSE batch[i]]
          /\ UNCHANGED <<mode, pos, at, phase, stops>>
      BY <2>2 DEF LaunchBatch
    <3>2. b[1] \in Int /\ b[2] \in Int /\ b[1] \in Specs /\ b[1] <= b[2]
      BY BatchRange, SizeAssumption DEF SizeAssumption, Specs
    <3>3. pos \in SpecsOf(b) /\ batch'[pos] = "running"
      BY <3>1, <3>2 DEF SpecsOf
    <3>4. ASSUME NEW k \in Specs, batch'[k] # "idle", pos' <= k \/ batch'[k] = "running"
          PROVE  pos' <= k /\ Held(k)'
      <4>1. k \in SpecsOf(b)
        BY <1>4, <3>1, <3>4 DEF BatchInv
      <4>2. InBatch(b, k) /\ pos <= k
        BY <1>1, <3>1, <3>2, <4>1 DEF SpecsOf, InBatch
      <4>3. Real' /\ Walking(ScopeOf(pos))' /\ ~failFastStopped' /\ Included(mode.shard, pos)'
        BY <3>1 DEF MayStart, Walking, Halted, Real
      <4> QED BY <3>1, <3>3, <4>2, <4>3 DEF Held
    <3>5. \A k \in Specs : (batch'[k] = "running" => pos' <= k) /\ (batch'[k] # "idle" /\ pos' <= k => Held(k)')
      BY <3>4
    <3> QED BY <3>5 DEF BatchInv
  <2> QED BY <1>2, <2>1, <2>2, BufferWrites
<1> QED BY <1>3, <1>4

LEMMA WalkCorrect == Spec => [](TypeOK /\ CursorInv /\ WalkInv /\ BatchInv)
<1>1. Init => TypeOK /\ CursorInv /\ WalkInv /\ BatchInv
  BY TypeInit, CursorInit, WalkInit, BatchInit
<1>2. TypeOK /\ CursorInv /\ WalkInv /\ BatchInv /\ [Next]_vars
        => (TypeOK /\ CursorInv /\ WalkInv /\ BatchInv)'
  BY TypeNext, CursorNext, WalkNext, BatchNext
<1> QED BY <1>1, <1>2, PTL DEF Spec

\* H1, H2, H9: whatever a group or a batch spec runs, every group around it is between its BeforeAlls
\* and its AfterAlls, unless the group has parked.
THEOREM HooksRunInsideOuterGroups == Spec => []InsideOuterGroups
<1>1. TypeOK /\ WalkInv /\ BatchInv => InsideOuterGroups
  <2> SUFFICES ASSUME TypeOK, WalkInv, BatchInv PROVE InsideOuterGroups
    OBVIOUS
  <2>1. ASSUME NEW g \in Groups, Active(g), park[g] = "no", NEW h \in Above(g) PROVE phase[h] = "body"
    <3>1. at \in Groups /\ (g = at \/ g \in Above(at)) /\ \A k \in Above(at) : phase[k] = "body"
      BY <2>1 DEF WalkInv, Inside
    <3>2. h \in Above(at)
      BY <2>1, <3>1, EnclosesIsTransitive DEF Above
    <3> QED BY <3>1, <3>2
  <2>2. ASSUME NEW i \in Specs, batch[i] = "running", NEW h \in Around(i) PROVE phase[h] = "body"
    <3>1. Held(i)
      BY <2>2 DEF BatchInv
    <3>2. PICK b \in Batches : b[1] = pos /\ InBatch(b, i)
      BY <3>1 DEF Held
    <3>3. pos \in Specs /\ h \in Around(pos) /\ Root \notin Groups
      BY <2>2, <3>2, BatchRange, BatchTogether DEF Root, Groups
    <3>4. at = ScopeOf(pos) /\ phase[at] = "body"
      BY <3>1 DEF Held, Walking
    <3>5. at \in Groups /\ (h = at \/ h \in Above(at))
      BY <3>3, <3>4, ScopeAround
    <3> QED BY <3>4, <3>5 DEF WalkInv
  <2> QED BY <2>1, <2>2 DEF InsideOuterGroups, Active
<1> QED BY <1>1, WalkCorrect, PTL

-----------------------------------------------------------------------------
(* What a run reports: its hooks and their cases, the specs of its shard,  *)
(* the agreement of the reports with the test, and what FailFast cuts.     *)

USE DEF walk, bodies, stops, specRs, hookRs, suiteRs

\* What a step that is about other groups leaves of group g.
Keeps(g) ==
  /\ phase'[g] = phase[g] /\ hookAt'[g] = hookAt[g]
  /\ beforeCases'[g] = beforeCases[g] /\ afterCases'[g] = afterCases[g]
  /\ g \in accFailed' => g \in accFailed
  /\ g \in failed => g \in failed'

\* Suppressed specs behind the cursor stay so.
LEMMA SuppressedStays ==
  ASSUME TypeOK, Advances, NEW g \in Groups, beforeCases[g] > 0, HookOK(g), TypeOK'
  PROVE  End[g] < pos' /\ \A i \in Start[g]..End[g] : status'[i] = "suppressed"
<1>1. pos \in Int /\ pos' \in Int /\ pos <= pos' /\ End[g] < pos
  BY SizeAssumption DEF TypeOK, Advances, HookOK, SizeAssumption
<1>2. ASSUME NEW i \in Start[g]..End[g] PROVE status'[i] = "suppressed"
  <2>1. i \in Specs /\ i < pos
    BY <1>1, RangeTypes, SizeAssumption DEF Specs, SizeAssumption
  <2> QED BY <2>1 DEF Advances, HookOK
<1> QED BY <1>1, <1>2, RangeTypes

LEMMA KeepsHookOK ==
  ASSUME TypeOK, TypeOK', Advances, NEW g \in Groups, HookOK(g), Keeps(g), mode' = mode
  PROVE  HookOK(g)'
<1>1. beforeCases[g] > 0 =>
        End[g] < pos' /\ \A i \in Start[g]..End[g] : status'[i] = "suppressed"
  BY SuppressedStays
<1> QED BY <1>1 DEF HookOK, Keeps, Real

\* A failure is never forgotten.
LEMMA FailGrows ==
  ASSUME NEW c, NEW s, FailIf(c, s)
  PROVE  failed \subseteq failed'
  BY DEF FailIf

\* On a real *testing.T a failing hook fails the test of its group.
LEMMA GroupFails ==
  ASSUME NEW g \in Groups, NEW c, FailIf(c, g), c, Real
  PROVE  g \in failed'
  BY DEF FailIf, Failing, Groups, Root

\* The steps that are not about one group leave the hooks of all alone.
LEMMA OthersKeep ==
  ASSUME TypeOK, NEW g \in Groups,
         SuiteNext \/ (\E s \in Scopes : CutRange(s)) \/ SpecNext \/ UNCHANGED vars
  PROVE  Keeps(g) /\ mode' = mode
<1>1. g # Root /\ g \in Scopes /\ phase \in [Scopes -> Phases]
  BY DEF TypeOK, Scopes, Groups, Root
<1>2. CASE SuiteNext
  <2>1. CASE SkipUnit
    BY <2>1 DEF SkipUnit, SkipUnselected, Keeps
  <2>2. CASE StaySilent \/ StartSuite \/ EndSuite \/ FinishTest
    <3>1. /\ mode' = mode /\ hookAt' = hookAt /\ accFailed' = accFailed /\ failed' = failed
          /\ beforeCases' = beforeCases /\ afterCases' = afterCases
      BY <2>2 DEF StaySilent, StartSuite, EndSuite, FinishTest
    <3>2. phase'[g] = phase[g]
      BY <1>1, <2>2 DEF StaySilent, StartSuite, EndSuite, FinishTest
    <3> QED BY <3>1, <3>2 DEF Keeps
  <2> QED BY <1>2, <2>1, <2>2 DEF SuiteNext
<1>3. ASSUME NEW s \in Scopes, CutRange(s) PROVE Keeps(g) /\ mode' = mode
  BY <1>3 DEF CutRange, Keeps
<1>4. CASE SpecNext
  <2>1. ASSUME NEW o, RunSpec(o) PROVE Keeps(g) /\ mode' = mode
    BY <2>1, FailGrows DEF RunSpec, Keeps
  <2>2. CASE SpecParks \/ SpecExits
    BY <2>2, FailGrows DEF SpecParks, SpecExits, Keeps
  <2>3. ASSUME NEW i, NEW o, LateBodyEnds(i, o) \/ BatchSpecEnds(i, o) PROVE Keeps(g) /\ mode' = mode
    BY <2>3, FailGrows DEF LateBodyEnds, BatchSpecEnds, Keeps
  <2>4. ASSUME NEW b \in Batches, LaunchBatch(b) PROVE Keeps(g) /\ mode' = mode
    BY <2>4 DEF LaunchBatch, Keeps
  <2>5. ASSUME NEW b \in Batches, CollectBatch(b) PROVE Keeps(g) /\ mode' = mode
    <3>1. FailIf(BatchHas(b, "park"), at)
      BY <2>5 DEF CollectBatch
    <3> QED BY <2>5, <3>1, FailGrows DEF CollectBatch, Keeps
  <2> QED BY <1>4, <2>1, <2>2, <2>3, <2>4, <2>5 DEF SpecNext
<1>5. CASE UNCHANGED vars
  BY <1>5 DEF vars, Keeps
<1> QED BY <1>2, <1>3, <1>4, <1>5

\* A step of another group keeps this one's hooks.
LEMMA OtherGroupKeeps ==
  ASSUME TypeOK, NEW g \in Groups, NEW h \in Groups, g # h, GroupNext(h)
  PROVE  Keeps(g) /\ mode' = mode
<1>1. /\ phase \in [Scopes -> Phases] /\ hookAt \in [Groups -> Nat]
      /\ beforeCases \in [Groups -> Nat] /\ afterCases \in [Groups -> Nat]
      /\ g \in Scopes
  BY DEF TypeOK, Scopes
<1>2. CASE EnterGroup(h) \/ FilterGroup(h)
  BY <1>1, <1>2 DEF EnterGroup, FilterGroup, Keeps
<1>3. ASSUME NEW o, BeforeAllReturns(h, o) PROVE Keeps(g) /\ mode' = mode
  BY <1>1, <1>3, FailGrows DEF BeforeAllReturns, Keeps
<1>4. ASSUME NEW o, BeforeAllFails(h, o) PROVE Keeps(g) /\ mode' = mode
  <2>1. failed \subseteq failed' /\ mode' = mode
    BY <1>4 DEF BeforeAllFails, FailIf
  <2>2. SuppressGroup(h) /\ beforeCases'[g] = beforeCases[g] /\ afterCases'[g] = afterCases[g]
    BY <1>1, <1>4 DEF BeforeAllFails
  <2>3. phase'[g] = phase[g] /\ hookAt'[g] = hookAt[g]
    BY <1>1, <2>2 DEF SuppressGroup, ToAfter
  <2>4. accFailed' = accFailed
    BY <1>4 DEF BeforeAllFails
  <2> QED BY <2>1, <2>2, <2>3, <2>4 DEF Keeps
<1>5. ASSUME NEW o, AfterAll(h, o) PROVE Keeps(g) /\ mode' = mode
  <2>1. failed \subseteq failed' /\ mode' = mode
    BY <1>5 DEF AfterAll, FailIf
  <2>2. phase'[g] = phase[g] /\ hookAt'[g] = hookAt[g]
    BY <1>1, <1>5 DEF AfterAll
  <2>3. beforeCases'[g] = beforeCases[g] /\ afterCases'[g] = afterCases[g]
    BY <1>1, <1>5 DEF AfterAll
  <2>4. g \in accFailed' => g \in accFailed
    BY <1>5 DEF AfterAll
  <2> QED BY <2>1, <2>2, <2>3, <2>4 DEF Keeps
<1>6. CASE BeforeAllsDone(h)
  BY <1>1, <1>6 DEF BeforeAllsDone, ToAfter, Keeps
<1>7. CASE BeforeAllSkips(h)
  BY <1>1, <1>7 DEF BeforeAllSkips, SuppressGroup, ToAfter, Keeps
<1>8. CASE HookParks(h) \/ HookResumes(h)
  BY <1>8 DEF HookParks, HookResumes, FailIf, Keeps
<1>9. CASE LeaveBody(h)
  BY <1>1, <1>9 DEF LeaveBody, ToAfter, Keeps
<1>10. ASSUME NEW c, FinishGroup(h, c) PROVE Keeps(g) /\ mode' = mode
  <2>1. failed \subseteq failed' /\ mode' = mode
    BY <1>10, FailGrows DEF FinishGroup
  <2>2. phase'[g] = phase[g] /\ hookAt'[g] = hookAt[g] /\ (g \in accFailed' => g \in accFailed)
    BY <1>1, <1>10 DEF FinishGroup
  <2>3. beforeCases'[g] = beforeCases[g] /\ afterCases'[g] = afterCases[g]
    BY <1>1, <1>10 DEF FinishGroup
  <2> QED BY <2>1, <2>2, <2>3 DEF Keeps
<1> QED BY <1>2, <1>3, <1>4, <1>5, <1>6, <1>7, <1>8, <1>9, <1>10 DEF GroupNext

\* Leaving a group's body leaves all its AfterAlls to run.
LEMMA ToAfterCounts ==
  ASSUME TypeOK, NEW g \in Groups, ToAfter(g)
  PROVE  /\ phase'[g] \in {"after", "drain"}
         /\ phase'[g] = "after" => hookAt'[g] < NAfter[g]
         /\ phase'[g] = "drain" => hookAt'[g] = NAfter[g]
<1>1. NAfter[g] \in Nat /\ g \in Scopes
  BY RunAssumption DEF RunAssumption, Scopes
<1>2. phase'[g] = (IF NAfter[g] = 0 THEN "drain" ELSE "after") /\ hookAt'[g] = 0
  BY <1>1 DEF ToAfter, TypeOK
<1> QED BY <1>1, <1>2

\* Suppressing a group suppresses its whole range and moves past it.
LEMMA SuppressCovers ==
  ASSUME TypeOK, NEW g \in Groups, SuppressGroup(g)
  PROVE  End[g] < pos' /\ \A i \in Start[g]..End[g] : status'[i] = "suppressed"
<1>1. \A i \in Start[g]..End[g] : i \in Specs
  BY RangeTypes, SizeAssumption DEF Specs, SizeAssumption
<1>2. pos' = End[g] + 1
  BY DEF SuppressGroup
<1> QED BY <1>1, <1>2, RangeTypes DEF SuppressGroup, Report

LEMMA OwnStepHookOK ==
  ASSUME TypeOK, TypeOK', CursorInv, Advances, NEW g \in Groups, HookOK(g), GroupNext(g)
  PROVE  HookOK(g)'
<1> DEFINE Behind == End[g] < pos' /\ \A i \in Start[g]..End[g] : status'[i] = "suppressed"
<1>1. /\ phase \in [Scopes -> Phases] /\ g \in Scopes /\ hookAt[g] \in Nat /\ NAfter[g] \in Nat
      /\ beforeCases \in [Groups -> Nat] /\ afterCases \in [Groups -> Nat]
      /\ hookAt \in [Groups -> Nat] /\ beforeCases[g] \in Nat /\ afterCases[g] \in Nat
  BY RunAssumption DEF TypeOK, RunAssumption, Scopes
<1>2. beforeCases[g] > 0 => Behind
  BY SuppressedStays
<1> HIDE DEF Behind
<1>3. CASE EnterGroup(g)
  <2>1. phase[g] = "idle" /\ phase'[g] \in {"before", "body"}
    BY <1>1, <1>3 DEF EnterGroup
  <2>2. /\ beforeCases' = beforeCases /\ afterCases' = afterCases /\ failed' = failed
        /\ accFailed' = accFailed /\ mode' = mode
    BY <1>3 DEF EnterGroup
  <2> QED BY <1>1, <2>1, <2>2 DEF HookOK, Real
<1>4. CASE FilterGroup(g)
  BY <1>4, KeepsHookOK DEF FilterGroup, Keeps
<1>5. ASSUME NEW o, BeforeAllReturns(g, o) PROVE HookOK(g)'
  <2>1. phase[g] = "before" /\ phase' = phase
    BY <1>5 DEF BeforeAllReturns, HookMayRun
  <2>2. /\ beforeCases' = beforeCases /\ afterCases' = afterCases /\ failed \subseteq failed'
        /\ accFailed' = accFailed /\ mode' = mode
    BY <1>5 DEF BeforeAllReturns, FailIf
  <2> QED BY <1>1, <2>1, <2>2 DEF HookOK, Real
<1>6. ASSUME NEW o, BeforeAllFails(g, o) PROVE HookOK(g)'
  <2>1. phase[g] = "before" /\ SuppressGroup(g) /\ ToAfter(g)
    BY <1>6 DEF BeforeAllFails, HookMayRun, SuppressGroup
  <2>2. /\ beforeCases'[g] = beforeCases[g] + 1 /\ afterCases' = afterCases
        /\ failed \subseteq failed' /\ accFailed' = accFailed /\ mode' = mode
    BY <1>1, <1>6 DEF BeforeAllFails, FailIf
  <2>3. beforeCases[g] = 0 /\ afterCases[g] = 0 /\ (Real /\ g \in accFailed => g \in failed)
    BY <1>1, <2>1 DEF HookOK
  <2> QED BY <1>1, <2>1, <2>2, <2>3, ToAfterCounts, SuppressCovers DEF HookOK, Real
<1>7. CASE BeforeAllSkips(g)
  <2>1. phase[g] = "before" /\ SuppressGroup(g) /\ ToAfter(g)
    BY <1>7 DEF BeforeAllSkips, HookMayRun, SuppressGroup
  <2>2. /\ beforeCases' = beforeCases /\ afterCases' = afterCases
        /\ failed' = failed /\ accFailed' = accFailed /\ mode' = mode
    BY <1>7 DEF BeforeAllSkips
  <2>3. beforeCases[g] = 0 /\ afterCases[g] = 0 /\ (Real /\ g \in accFailed => g \in failed)
    BY <1>1, <2>1 DEF HookOK
  <2> QED BY <1>1, <2>1, <2>2, <2>3, ToAfterCounts DEF HookOK, Real
<1>8. CASE BeforeAllsDone(g)
  <2>1. phase[g] = "before" /\ (ToAfter(g) \/ phase'[g] = "body")
    BY <1>1, <1>8 DEF BeforeAllsDone, HookMayRun
  <2>2. /\ beforeCases' = beforeCases /\ afterCases' = afterCases
        /\ failed' = failed /\ accFailed' = accFailed /\ mode' = mode
    BY <1>8 DEF BeforeAllsDone
  <2>3. beforeCases[g] = 0 /\ afterCases[g] = 0 /\ (Real /\ g \in accFailed => g \in failed)
    BY <1>1, <2>1 DEF HookOK
  <2> QED BY <1>1, <2>1, <2>2, <2>3, ToAfterCounts DEF HookOK, Real
<1>9. CASE HookParks(g) \/ HookResumes(g)
  BY <1>9, KeepsHookOK DEF HookParks, HookResumes, FailIf, Keeps
<1>10. CASE LeaveBody(g)
  <2>1. phase[g] = "body" /\ ToAfter(g)
    BY <1>10 DEF LeaveBody
  <2>2. /\ beforeCases' = beforeCases /\ afterCases' = afterCases
        /\ failed' = failed /\ accFailed' = accFailed /\ mode' = mode
    BY <1>10 DEF LeaveBody
  <2>3. beforeCases[g] <= 1 /\ afterCases[g] = 0 /\ (Real /\ g \in accFailed => g \in failed)
    BY <1>1, <2>1 DEF HookOK
  <2> QED BY <1>1, <1>2, <2>1, <2>2, <2>3, ToAfterCounts DEF HookOK, Real, Behind
<1>11. ASSUME NEW o, AfterAll(g, o) PROVE HookOK(g)'
  <2> DEFINE counts == CountsAsFailed(g, o)
             last   == LastAfterAll(g)
             case   == last /\ (counts \/ g \in accFailed)
  <2>1. phase[g] = "after" /\ hookAt[g] < NAfter[g] /\ beforeCases[g] <= 1 /\ afterCases[g] = 0
    BY <1>1, <1>11 DEF AfterAll, HookMayRun, HookOK
  <2>2. /\ hookAt'[g] = hookAt[g] + 1 /\ beforeCases' = beforeCases /\ mode' = mode
        /\ accFailed' = IF counts THEN accFailed \cup {g} ELSE accFailed
    BY <1>1, <1>11 DEF AfterAll
  <2>3. phase'[g] = IF last THEN "drain" ELSE "after"
    BY <1>1, <1>11, <2>1 DEF AfterAll
  <2>4. last <=> hookAt[g] + 1 = NAfter[g]
    BY DEF LastAfterAll
  <2>5. afterCases'[g] = IF case THEN 1 ELSE 0
    BY <1>1, <1>11, <2>1 DEF AfterAll
  <2>6. Real /\ counts => g \in failed'
    <3>1. failed' = IF o \in {"fail", "exit", "error"} THEN failed \cup Failing(g) ELSE failed
      BY <1>11 DEF AfterAll, FailIf
    <3>2. Real => g \in Failing(g)
      BY DEF Failing, Groups, Root
    <3>3. counts => o \in {"fail", "exit", "error"} \/ g \in failed
      BY DEF CountsAsFailed
    <3> QED BY <3>1, <3>2, <3>3
  <2>7. Real /\ g \in accFailed' => g \in failed'
    <3>1. failed \subseteq failed'
      BY <1>11 DEF AfterAll, FailIf
    <3> QED BY <2>2, <2>6, <3>1 DEF HookOK
  <2>8. Real /\ case => g \in failed'
    <3>1. failed \subseteq failed'
      BY <1>11 DEF AfterAll, FailIf
    <3> QED BY <2>6, <3>1 DEF HookOK
  <2>9. case => last
    OBVIOUS
  <2> HIDE DEF counts, last, case
  <2>10. /\ phase'[g] = "after" => hookAt'[g] < NAfter[g]
         /\ phase'[g] \in {"drain", "done"} => hookAt'[g] = NAfter[g]
         /\ phase'[g] \in {"after", "drain"}
    BY <1>1, <2>1, <2>2, <2>3, <2>4
  <2>11. /\ afterCases'[g] <= IF phase'[g] \in {"drain", "done"} THEN 1 ELSE 0
         /\ afterCases'[g] > 0 => case
    BY <2>3, <2>5, <2>9
  <2>12. /\ beforeCases'[g] <= 1 /\ beforeCases'[g] = beforeCases[g]
         /\ Real' <=> Real
    BY <2>1, <2>2 DEF Real
  <2> QED BY <1>2, <2>7, <2>8, <2>10, <2>11, <2>12 DEF HookOK, Behind
<1>12. ASSUME NEW c \in BOOLEAN, FinishGroup(g, c) PROVE HookOK(g)'
  <2>1. phase[g] = "drain" /\ phase'[g] = "done" /\ hookAt[g] = NAfter[g] /\ beforeCases[g] <= 1
    BY <1>1, <1>12 DEF FinishGroup, HookOK
  <2>2. /\ beforeCases' = beforeCases /\ hookAt' = hookAt /\ mode' = mode /\ accFailed' = accFailed
        /\ failed \subseteq failed'
    BY <1>12 DEF FinishGroup, FailIf
  <2>3. afterCases'[g] <= 1
    <3>1. CASE CleanupCase(g, c)
      <4>1. Real /\ g \notin failed
        BY <1>12, <3>1 DEF FinishGroup, CleanupCase
      <4>2. ~(afterCases[g] > 0)
        BY <2>1, <4>1 DEF HookOK
      <4>3. afterCases'[g] = afterCases[g] + 1
        BY <1>1, <1>12, <3>1 DEF FinishGroup
      <4> QED BY <1>1, <4>2, <4>3
    <3>2. CASE ~CleanupCase(g, c)
      <4>1. afterCases'[g] = afterCases[g] /\ afterCases[g] <= 1
        BY <1>12, <2>1, <3>2 DEF FinishGroup, HookOK
      <4> QED BY <4>1
    <3> QED BY <3>1, <3>2
  <2>4. Real /\ g \in accFailed => g \in failed
    BY DEF HookOK
  <2> QED BY <1>1, <1>2, <2>1, <2>2, <2>3, <2>4 DEF HookOK, Real, Behind
<1> QED BY <1>3, <1>4, <1>5, <1>6, <1>7, <1>8, <1>9, <1>10, <1>11, <1>12 DEF GroupNext

LEMMA HookInit == Init => HookInv
<1> SUFFICES ASSUME Init, NEW g \in Groups PROVE HookOK(g)
  BY DEF HookInv
<1>1. phase[g] = "idle"
  BY DEF Init, Scopes, Groups, Root
<1> QED BY <1>1 DEF Init, HookOK

LEMMA HookNext == TypeOK /\ CursorInv /\ HookInv /\ [Next]_vars => HookInv'
<1> SUFFICES ASSUME TypeOK, CursorInv, HookInv, [Next]_vars, NEW g \in Groups PROVE HookOK(g)'
  BY DEF HookInv
<1>1. TypeOK' /\ Advances /\ HookOK(g)
  BY TypeNext, NextAdvances DEF HookInv
<1>2. CASE SuiteNext \/ (\E s \in Scopes : CutRange(s)) \/ SpecNext \/ UNCHANGED vars
  BY <1>1, <1>2, OthersKeep, KeepsHookOK
<1>3. ASSUME NEW h \in Groups, GroupNext(h) PROVE HookOK(g)'
  <2>1. CASE h = g
    BY <1>1, <1>3, <2>1, OwnStepHookOK
  <2>2. CASE h # g
    BY <1>1, <1>3, <2>2, OtherGroupKeeps, KeepsHookOK
  <2> QED BY <2>1, <2>2
<1> QED BY <1>2, <1>3 DEF Next

LEMMA HooksCorrect == Spec => [](TypeOK /\ HookInv)
<1>1. Init => TypeOK /\ CursorInv /\ HookInv
  BY TypeInit, CursorInit, HookInit
<1>2. TypeOK /\ CursorInv /\ HookInv /\ [Next]_vars => (TypeOK /\ CursorInv /\ HookInv)'
  BY TypeNext, CursorNext, HookNext
<1> QED BY <1>1, <1>2, PTL DEF Spec

\* H4, H5, H6: whatever fails, parks or unwinds, a group is left only after its last AfterAll, and
\* makes one [BeforeAll] and one [AfterAll] case at most, for any number of hooks and failures.
THEOREM HooksAlwaysAccountedFor == Spec => []HooksAccountedFor
<1>1. TypeOK /\ HookInv => HooksAccountedFor
  <2> SUFFICES ASSUME TypeOK, HookInv, NEW g \in Groups
               PROVE  /\ phase[g] \in {"drain", "done"} => hookAt[g] = NAfter[g]
                      /\ beforeCases[g] <= 1 /\ afterCases[g] <= 1
    BY DEF HooksAccountedFor
  <2>1. phase[g] \in {"drain", "done"} => hookAt[g] = NAfter[g]
    BY DEF HookInv, HookOK
  <2>2. beforeCases[g] <= 1 /\ afterCases[g] <= 1
    BY DEF TypeOK, HookInv, HookOK
  <2> QED BY <2>1, <2>2
<1> QED BY <1>1, HooksCorrect, PTL

\* H4: a failed BeforeAll suppresses its group for good, nested groups included.
THEOREM FailedBeforeAllsSuppress == Spec => []FailedBeforeAllSuppresses
<1>1. HookInv => FailedBeforeAllSuppresses
  BY DEF HookInv, HookOK, FailedBeforeAllSuppresses
<1> QED BY <1>1, HooksCorrect, PTL

-----------------------------------------------------------------------------
(* Every spec is accounted for.                                            *)

\* A group that is not entered stays out of the run, and one that is left stays left.
LEMMA PhaseMoves ==
  ASSUME TypeOK, [Next]_vars, NEW g \in Groups, ~EnterGroup(g)
  PROVE  /\ phase[g] = "idle" => phase'[g] = "idle"
         /\ phase[g] = "done" => phase'[g] = "done"
         /\ phase[g] \notin {"idle", "before"} => phase'[g] \notin {"idle", "before"}
<1>1. /\ phase \in [Scopes -> Phases] /\ g \in Scopes
  BY DEF TypeOK, Scopes
<1>2. CASE phase'[g] = phase[g]
  BY <1>2
<1>3. CASE GroupNext(g)
  <2>1. CASE FilterGroup(g) \/ HookParks(g) \/ HookResumes(g)
    BY <1>2, <2>1 DEF FilterGroup, HookParks, HookResumes
  <2>2. ASSUME NEW o, BeforeAllReturns(g, o)
        PROVE  phase'[g] = phase[g]
    BY <2>2 DEF BeforeAllReturns
  <2>3. ASSUME NEW o, BeforeAllFails(g, o) \/ BeforeAllSkips(g)
        PROVE  phase[g] = "before"
    BY <2>3 DEF BeforeAllFails, BeforeAllSkips, HookMayRun
  <2>4. CASE BeforeAllsDone(g)
    BY <2>4 DEF BeforeAllsDone, HookMayRun
  <2>5. ASSUME NEW o, AfterAll(g, o)
        PROVE  phase[g] = "after" /\ phase'[g] \in {"after", "drain"}
    BY <1>1, <2>5 DEF AfterAll, HookMayRun
  <2>6. CASE LeaveBody(g)
    <3>1. phase[g] = "body" /\ phase'[g] \in {"after", "drain"}
      BY <2>6, ToAfterMoves DEF LeaveBody
    <3> QED BY <3>1
  <2>7. ASSUME NEW c, FinishGroup(g, c)
        PROVE  phase[g] = "drain" /\ phase'[g] = "done"
    BY <1>1, <2>7 DEF FinishGroup
  <2>8. ASSUME NEW o, BeforeAllFails(g, o) \/ BeforeAllSkips(g)
        PROVE  phase'[g] \in {"after", "drain"}
    BY <2>8, ToAfterMoves DEF BeforeAllFails, BeforeAllSkips, SuppressGroup
  <2>9. CASE BeforeAllSkips(g)
    BY <2>3, <2>9
  <2> QED BY <1>2, <1>3, <2>1, <2>2, <2>3, <2>4, <2>5, <2>6, <2>7, <2>9 DEF GroupNext
<1>4. ASSUME NEW h \in Groups, h # g, GroupNext(h) PROVE phase'[g] = phase[g]
  BY <1>4, OtherGroupKeeps DEF Keeps
<1>5. CASE SuiteNext \/ (\E s \in Scopes : CutRange(s)) \/ SpecNext \/ UNCHANGED vars
  BY <1>2, <1>5, OthersKeep DEF Keeps
<1> QED BY <1>2, <1>3, <1>4, <1>5 DEF Next

\* The specs a step moves the cursor past are reported, if they are of the shard.
Accounts ==
  \A i \in Specs : pos <= i /\ i < pos' =>
    reports'[i] = IF Included(mode.shard, i) THEN reports[i] + 1 ELSE reports[i]

\* Reporting the shard's specs of a range and moving past it.
LEMMA ReportAccounts ==
  ASSUME TypeOK, NEW S, NEW r, Report(S, r), NEW last \in Int, pos' = last + 1,
         \A i \in Specs : pos <= i /\ i <= last => (i \in S <=> Included(mode.shard, i))
  PROVE  Accounts
<1>1. SUFFICES ASSUME NEW i \in Specs, pos <= i, i < pos'
               PROVE  reports'[i] = IF Included(mode.shard, i) THEN reports[i] + 1 ELSE reports[i]
  BY DEF Accounts
<1>2. i \in Int
  BY SizeAssumption DEF Specs, SizeAssumption
<1>3. i \in S <=> Included(mode.shard, i)
  BY <1>1, <1>2
<1> QED BY <1>3 DEF Report

\* A suppressed group is of the shard and begins at the cursor.
LEMMA SuppressAccounts ==
  ASSUME TypeOK, AccountInv, NEW g \in Groups, phase[g] = "before", SuppressGroup(g)
  PROVE  Accounts
<1>1. pos = Start[g] /\ \A i \in Start[g]..End[g] : Included(mode.shard, i)
  BY DEF AccountInv
<1>2. ASSUME NEW i \in Specs, pos <= i, i <= End[g]
      PROVE  i \in Start[g]..End[g] /\ Included(mode.shard, i)
  <2>1. i \in Int
    BY SizeAssumption DEF Specs, SizeAssumption
  <2> QED BY <1>1, <1>2, <2>1, RangeTypes
<1> QED BY <1>2, RangeTypes, ReportAccounts DEF SuppressGroup

LEMMA NextAccounts ==
  TypeOK /\ CursorInv /\ WalkInv /\ BatchInv /\ AccountInv /\ [Next]_vars => Accounts
<1> SUFFICES ASSUME TypeOK, CursorInv, WalkInv, BatchInv, AccountInv, [Next]_vars PROVE Accounts
  OBVIOUS
<1>1. pos \in Int /\ \A i \in Specs : i \in Int
  BY SizeAssumption DEF TypeOK, Specs, SizeAssumption
<1>2. pos' = pos => Accounts
  BY <1>1 DEF Accounts
<1>3. CASE SuiteNext
  <2>1. CASE SkipUnit
    <3>1. PICK last : /\ SkipUnselected(last) /\ last \in Int
                      /\ \A i \in Specs : pos <= i /\ i <= last => ~Included(mode.shard, i)
      <4>1. ASSUME NEW g \in Groups, pos = Start[g], SkipUnselected(End[g])
            PROVE  \A i \in Specs : pos <= i /\ i <= End[g] => ~Included(mode.shard, i)
        BY <4>1, GroupIsWhole DEF SkipUnselected, Contains
      <4>2. ASSUME NEW b \in Batches, pos = b[1], SkipUnselected(b[2])
            PROVE  \A i \in Specs : pos <= i /\ i <= b[2] => ~Included(mode.shard, i)
        BY <4>2, BatchIsWhole DEF SkipUnselected, InBatch
      <4>3. ASSUME SkipUnselected(pos)
            PROVE  \A i \in Specs : pos <= i /\ i <= pos => ~Included(mode.shard, i)
        <5>1. ~Included(mode.shard, pos)
          BY <4>3 DEF SkipUnselected
        <5>2. \A i \in Specs : pos <= i /\ i <= pos => i = pos
          BY <1>1
        <5> QED BY <5>1, <5>2
      <4>4. \A g \in Groups : End[g] \in Int
        BY RangeTypes
      <4>5. \A b \in Batches : b[2] \in Int
        BY BatchRange, SizeAssumption DEF Specs, SizeAssumption
      <4> QED BY <1>1, <2>1, <4>1, <4>2, <4>3, <4>4, <4>5 DEF SkipUnit
    <3>2. reports' = reports /\ pos' = last + 1
      BY <3>1 DEF SkipUnselected
    <3> QED BY <1>1, <3>1, <3>2 DEF Accounts
  <2>2. CASE StaySilent \/ StartSuite \/ EndSuite \/ FinishTest
    BY <1>2, <2>2 DEF StaySilent, StartSuite, EndSuite, FinishTest
  <2> QED BY <1>3, <2>1, <2>2 DEF SuiteNext
<1>4. ASSUME NEW s \in Scopes, CutRange(s) PROVE Accounts
  <2>1. Last(s) \in Int /\ pos' = Last(s) + 1
    BY <1>4, ScopeRange, SizeAssumption DEF CutRange, Specs, SizeAssumption
  <2>2. Report({i \in RestOf(s) : Included(mode.shard, i)}, "unstarted")
    BY <1>4 DEF CutRange
  <2>3. \A i \in Specs : pos <= i /\ i <= Last(s) =>
          (i \in {k \in RestOf(s) : Included(mode.shard, k)} <=> Included(mode.shard, i))
    BY <1>1, <2>1 DEF RestOf
  <2> QED BY <2>1, <2>2, <2>3, ReportAccounts
<1>5. CASE SpecNext
  <2>1. ASSUME NEW o, RunSpec(o) PROVE Accounts
    <3>1. Report({pos}, Result(o)) /\ pos' = pos + 1 /\ Included(mode.shard, pos)
      BY <2>1 DEF RunSpec, SpecIsNext, MayStart
    <3>2. \A i \in Specs : pos <= i /\ i <= pos => (i \in {pos} <=> Included(mode.shard, i))
      <4>1. \A i \in Specs : pos <= i /\ i <= pos => i = pos
        BY <1>1
      <4> QED BY <3>1, <4>1
    <3> QED BY <1>1, <3>1, <3>2, ReportAccounts
  <2>2. CASE SpecParks \/ SpecExits
    BY <1>2, <2>2 DEF SpecParks, SpecExits
  <2>3. ASSUME NEW i, NEW o, LateBodyEnds(i, o) \/ BatchSpecEnds(i, o) PROVE Accounts
    BY <1>2, <2>3 DEF LateBodyEnds, BatchSpecEnds
  <2>4. ASSUME NEW b \in Batches, LaunchBatch(b) PROVE Accounts
    BY <1>2, <2>4 DEF LaunchBatch
  <2>5. ASSUME NEW b \in Batches, CollectBatch(b) PROVE Accounts
    <3>1. /\ pos = b[1] /\ pos' = b[2] + 1 /\ BatchDone(b)
          /\ reports' = [i \in Specs |-> IF i \in SpecsOf(b) THEN reports[i] + 1 ELSE reports[i]]
      BY <2>5 DEF CollectBatch
    <3>2. b[1] \in Specs /\ b[1] \in Int /\ b[2] \in Int /\ b[1] <= b[2]
      BY BatchRange, SizeAssumption DEF Specs, SizeAssumption
    <3>3. Included(mode.shard, pos)
      <4>1. pos \in Specs /\ batch[pos] # "idle"
        BY <3>1, <3>2 DEF BatchDone, SpecsOf
      <4> QED BY <1>1, <4>1 DEF BatchInv, Held
    <3>4. ASSUME NEW i \in Specs, pos <= i, i < pos' PROVE i \in SpecsOf(b) /\ Included(mode.shard, i)
      <4>1. InBatch(b, i) /\ i \in SpecsOf(b)
        BY <1>1, <3>1, <3>2, <3>4 DEF InBatch, SpecsOf
      <4> QED BY <3>1, <3>3, <4>1, BatchIsWhole
    <3> QED BY <3>1, <3>4 DEF Accounts
  <2> QED BY <1>5, <2>1, <2>2, <2>3, <2>4, <2>5 DEF SpecNext
<1>6. ASSUME NEW g \in Groups, GroupNext(g) PROVE Accounts
  <2>1. CASE FilterGroup(g)
    <3>1. /\ Report(Start[g]..End[g], "filtered") /\ pos' = End[g] + 1
          /\ pos = Start[g] /\ Included(mode.shard, Start[g])
      BY <2>1 DEF FilterGroup, MayStart
    <3>2. ASSUME NEW i \in Specs, pos <= i, i <= End[g]
          PROVE  i \in Start[g]..End[g] /\ Included(mode.shard, i)
      <4>1. i \in Start[g]..End[g] /\ Contains(g, i)
        BY <1>1, <3>1, <3>2, RangeTypes DEF Contains
      <4> QED BY <3>1, <4>1, GroupIsWhole
    <3> QED BY <3>1, <3>2, RangeTypes, ReportAccounts
  <2>2. ASSUME NEW o, BeforeAllFails(g, o) PROVE Accounts
    BY <2>2, SuppressAccounts DEF BeforeAllFails, HookMayRun
  <2>3. CASE BeforeAllSkips(g)
    BY <2>3, SuppressAccounts DEF BeforeAllSkips, HookMayRun
  <2>4. CASE \/ EnterGroup(g) \/ BeforeAllsDone(g) \/ HookParks(g) \/ HookResumes(g) \/ LeaveBody(g)
    BY <1>2, <2>4 DEF EnterGroup, BeforeAllsDone, HookParks, HookResumes, LeaveBody
  <2>5. ASSUME NEW o, BeforeAllReturns(g, o) \/ AfterAll(g, o) PROVE Accounts
    BY <1>2, <2>5 DEF BeforeAllReturns, AfterAll
  <2>6. ASSUME NEW c, FinishGroup(g, c) PROVE Accounts
    BY <1>2, <2>6 DEF FinishGroup
  <2> QED BY <1>6, <2>1, <2>2, <2>3, <2>4, <2>5, <2>6 DEF GroupNext
<1>7. CASE UNCHANGED vars
  BY <1>2, <1>7 DEF vars
<1> QED BY <1>3, <1>4, <1>5, <1>6, <1>7 DEF Next

\* A run keeps its mode, and SuiteFinished is emitted at the end of the plan.
LEMMA SuiteMoves ==
  ASSUME TypeOK, [Next]_vars
  PROVE  /\ mode' = mode
         /\ suite' = "finished" => suite = "finished" \/ (EndSuite /\ ~Halted /\ pos > NSpecs)
         /\ suite' = suite \/ SuiteNext
<1>1. CASE SuiteNext
  <2>1. CASE EndSuite
    BY <1>1, <2>1 DEF EndSuite, SuiteEvent
  <2>2. CASE StaySilent \/ StartSuite
    BY <1>1, <2>2 DEF StaySilent, StartSuite
  <2>3. CASE FinishTest \/ SkipUnit
    BY <2>3 DEF FinishTest, SkipUnit, SkipUnselected
  <2> QED BY <1>1, <2>1, <2>2, <2>3 DEF SuiteNext
<1>2. ASSUME NEW s \in Scopes, CutRange(s) PROVE mode' = mode /\ suite' = suite
  BY <1>2 DEF CutRange
<1>3. CASE SpecNext
  <2>1. ASSUME NEW o, RunSpec(o) PROVE mode' = mode /\ suite' = suite
    BY <2>1 DEF RunSpec
  <2>2. CASE SpecParks \/ SpecExits
    BY <2>2 DEF SpecParks, SpecExits
  <2>3. ASSUME NEW i, NEW o, LateBodyEnds(i, o) \/ BatchSpecEnds(i, o) PROVE mode' = mode /\ suite' = suite
    BY <2>3 DEF LateBodyEnds, BatchSpecEnds
  <2>4. ASSUME NEW b, LaunchBatch(b) \/ CollectBatch(b) PROVE mode' = mode /\ suite' = suite
    BY <2>4 DEF LaunchBatch, CollectBatch
  <2> QED BY <1>3, <2>1, <2>2, <2>3, <2>4 DEF SpecNext
<1>4. ASSUME NEW g \in Groups, GroupNext(g) PROVE mode' = mode /\ suite' = suite
  <2>1. CASE \/ EnterGroup(g) \/ FilterGroup(g) \/ BeforeAllsDone(g) \/ BeforeAllSkips(g)
             \/ HookParks(g) \/ HookResumes(g) \/ LeaveBody(g)
    BY <2>1 DEF EnterGroup, FilterGroup, BeforeAllsDone, BeforeAllSkips, HookParks, HookResumes, LeaveBody
  <2>2. ASSUME NEW o, BeforeAllReturns(g, o) \/ BeforeAllFails(g, o) PROVE mode' = mode /\ suite' = suite
    BY <2>2 DEF BeforeAllReturns, BeforeAllFails
  <2>3. ASSUME NEW o, AfterAll(g, o) PROVE mode' = mode /\ suite' = suite
    BY <2>3 DEF AfterAll
  <2>4. ASSUME NEW c, FinishGroup(g, c) PROVE mode' = mode /\ suite' = suite
    BY <2>4 DEF FinishGroup
  <2> QED BY <1>4, <2>1, <2>2, <2>3, <2>4 DEF GroupNext
<1>5. CASE UNCHANGED vars
  BY <1>5 DEF vars
<1> QED BY <1>1, <1>2, <1>3, <1>4, <1>5 DEF Next

LEMMA AccountInit == Init => AccountInv
<1> SUFFICES ASSUME Init PROVE AccountInv
  OBVIOUS
<1>1. \A g \in Groups : phase[g] = "idle"
  BY DEF Init, Scopes, Groups, Root
<1>2. \A i \in Specs : ~(i < pos)
  BY SizeAssumption DEF Init, Specs, SizeAssumption
<1> QED BY <1>1, <1>2 DEF Init, AccountInv

LEMMA AccountNext ==
  TypeOK /\ CursorInv /\ WalkInv /\ BatchInv /\ AccountInv /\ [Next]_vars => AccountInv'
<1> SUFFICES ASSUME TypeOK, CursorInv, WalkInv, BatchInv, AccountInv, [Next]_vars PROVE AccountInv'
  OBVIOUS
<1>1. pos \in Int /\ pos' \in Int /\ pos <= pos'
  <2>1. TypeOK' /\ Advances
    BY NextAdvances, TypeNext
  <2> QED BY <2>1, SizeAssumption DEF TypeOK, Advances, SizeAssumption
<1>2. mode' = mode
  BY SuiteMoves
<1>3. ASSUME NEW i \in Specs, i < pos' PROVE reports'[i] = IF Included(mode.shard, i) THEN 1 ELSE 0
  <2>1. Advances /\ Accounts /\ i \in Int
    BY NextAdvances, NextAccounts, SizeAssumption DEF Specs, SizeAssumption
  <2>2. CASE i < pos
    BY <1>1, <2>1, <2>2 DEF Advances, AccountInv
  <2>3. CASE pos <= i
    <3>1. reports[i] = 0
      BY <1>1, <2>1, <2>3 DEF CursorInv
    <3> QED BY <1>3, <2>1, <2>3, <3>1 DEF Accounts
  <2> QED BY <1>1, <2>1, <2>2, <2>3
<1>4. ASSUME NEW g \in Groups, phase'[g] # "idle", NEW i \in Start[g]..End[g]
      PROVE  Included(mode.shard, i)
  <2>1. CASE phase[g] # "idle"
    BY <2>1 DEF AccountInv
  <2>2. CASE EnterGroup(g)
    <3>1. Included(mode.shard, Start[g])
      BY <2>2 DEF EnterGroup, MayStart
    <3>2. i \in Specs /\ Contains(g, i)
      BY RangeTypes, SizeAssumption DEF Contains, Specs, SizeAssumption
    <3> QED BY <3>1, <3>2, GroupIsWhole
  <2> QED BY <1>4, <2>1, <2>2, PhaseMoves
<1>5. ASSUME NEW g \in Groups, phase'[g] = "before" PROVE pos' = Start[g]
  <2>1. CASE Settles
    BY <1>5, <2>1 DEF Settles, AccountInv
  <2>2. ASSUME NEW h \in Groups, EnterGroup(h) PROVE pos' = Start[g]
    <3>1. \A k \in Groups : phase[k] # "before"
      BY <2>2, WalkingIsPastBefore DEF EnterGroup, MayStart
    <3>2. \A k \in Groups : k # h => phase'[k] = phase[k]
      BY <2>2 DEF EnterGroup, TypeOK, Scopes
    <3>3. g = h
      BY <1>5, <3>1, <3>2
    <3> QED BY <2>2, <3>3 DEF EnterGroup
  <2> QED BY <2>1, <2>2, NextSettles
<1>6. ASSUME suite' = "finished" PROVE pos' > NSpecs
  <2>1. pos > NSpecs
    BY <1>6, SuiteMoves DEF AccountInv
  <2> QED BY <1>1, <2>1, SizeAssumption DEF SizeAssumption
<1> QED BY <1>2, <1>3, <1>4, <1>5, <1>6 DEF AccountInv

LEMMA AccountCorrect == Spec => [](TypeOK /\ AccountInv)
<1>1. Init => TypeOK /\ CursorInv /\ WalkInv /\ BatchInv /\ AccountInv
  BY TypeInit, CursorInit, WalkInit, BatchInit, AccountInit
<1>2. TypeOK /\ CursorInv /\ WalkInv /\ BatchInv /\ AccountInv /\ [Next]_vars
        => (TypeOK /\ CursorInv /\ WalkInv /\ BatchInv /\ AccountInv)'
  BY TypeNext, CursorNext, WalkNext, BatchNext, AccountNext
<1> QED BY <1>1, <1>2, PTL DEF Spec

\* For every plan and shard, a group is entered only by the shard that owns all its specs, and a run
\* that emits SuiteFinished has reported each spec of its shard once, and no other.
THEOREM EverySpecIsAccountedFor == Spec => []EverySpecAccountedFor
<1>1. TypeOK /\ AccountInv => EverySpecAccountedFor
  <2> SUFFICES ASSUME TypeOK, AccountInv PROVE EverySpecAccountedFor
    OBVIOUS
  <2>1. ASSUME suite = "finished", NEW i \in Specs
        PROVE  reports[i] = IF Included(mode.shard, i) THEN 1 ELSE 0
    <3>1. i < pos
      BY <2>1, SizeAssumption DEF AccountInv, TypeOK, Specs, SizeAssumption
    <3> QED BY <3>1 DEF AccountInv
  <2> QED BY <2>1 DEF AccountInv, EverySpecAccountedFor
<1> QED BY <1>1, AccountCorrect, PTL

-----------------------------------------------------------------------------
(* What a step does to statuses, failures and cases.                       *)

\* Every failure fails the test of the run.
LEMMA FailHitsRoot ==
  ASSUME NEW c, NEW s, FailIf(c, s), c
  PROVE  Root \in failed'
  BY DEF FailIf, Failing

\* Two specs that a batch runs together.
SameBatch(i, j) == \E b \in Batches : InBatch(b, i) /\ InBatch(b, j)

\* What a step does to the status of spec i: a body parks or unwinds and leaves it open, or the
\* cursor passes it, because FailFast cuts it, a BeforeAll suppresses it or it has been started.
FailsAt(i) ==
  /\ mode.failFast => failFastStopped'
  /\ Root \in failed' \/ batch[i] = "fail"
  /\ \A j \in Specs : pos <= j /\ j < pos' => i = j \/ SameBatch(i, j)
MovesStatus(i) ==
  \/ status'[i] = status[i]
  \/ i = pos /\ status'[i] = "open" /\ Halted' /\ ~failFastStopped /\ Walking(at) /\ at = ScopeOf(i)
  \/ /\ pos <= i /\ i < pos'
     /\ \/ status'[i] = "unstarted"
        \/ status'[i] = "suppressed" /\ \E h \in Groups : phase[h] = "before" /\ Contains(h, i)
        \/ /\ status'[i] # "open" /\ ~failFastStopped /\ Walking(at)
           /\ status'[i] = "fail" => FailsAt(i)

\* A suppressed group's specs are ahead of the cursor, which passes them.
LEMMA SuppressMoves ==
  ASSUME TypeOK, CursorInv, NEW g \in Groups, phase[g] = "before", SuppressGroup(g), NEW i \in Specs
  PROVE  MovesStatus(i)
<1>1. i \in Int /\ pos \in Int /\ pos <= Start[g] /\ pos' = End[g] + 1
  BY SizeAssumption DEF TypeOK, CursorInv, SuppressGroup, Specs, SizeAssumption
<1>2. status'[i] = IF i \in Start[g]..End[g] THEN "suppressed" ELSE status[i]
  BY DEF SuppressGroup, Report
<1>3. i \in Start[g]..End[g] => pos <= i /\ i < pos' /\ Contains(g, i)
  BY <1>1, RangeTypes DEF Contains
<1> QED BY <1>2, <1>3 DEF MovesStatus

LEMMA StatusMoves ==
  ASSUME TypeOK, CursorInv, BatchInv, [Next]_vars, NEW i \in Specs
  PROVE  MovesStatus(i)
<1>1. i \in Int /\ pos \in Int
  BY SizeAssumption DEF TypeOK, Specs, SizeAssumption
<1>2. status' = status => MovesStatus(i)
  BY DEF MovesStatus
<1>3. CASE SuiteNext
  <2>1. CASE SkipUnit
    BY <1>2, <2>1 DEF SkipUnit, SkipUnselected
  <2>2. CASE StaySilent \/ StartSuite \/ EndSuite \/ FinishTest
    BY <1>2, <2>2 DEF StaySilent, StartSuite, EndSuite, FinishTest
  <2> QED BY <1>3, <2>1, <2>2 DEF SuiteNext
<1>4. ASSUME NEW s \in Scopes, CutRange(s) PROVE MovesStatus(i)
  <2>1. /\ Last(s) \in Int /\ pos' = Last(s) + 1
        /\ Report({k \in RestOf(s) : Included(mode.shard, k)}, "unstarted")
    BY <1>4, ScopeRange, SizeAssumption DEF CutRange, Specs, SizeAssumption
  <2>2. i \in RestOf(s) => pos <= i /\ i < pos'
    BY <1>1, <2>1 DEF RestOf
  <2>3. status'[i] = IF i \in {k \in RestOf(s) : Included(mode.shard, k)} THEN "unstarted" ELSE status[i]
    BY <2>1 DEF Report
  <2> QED BY <2>2, <2>3 DEF MovesStatus
<1>5. CASE SpecNext
  <2>1. ASSUME NEW o, RunSpec(o) PROVE MovesStatus(i)
    <3>1. /\ Report({pos}, Result(o)) /\ pos' = pos + 1 /\ o \in BodyOutcomes
          /\ FailIf(o = "fail", at) /\ MarkFailFast(o = "fail")
          /\ Walking(at) /\ ~failFastStopped
      BY <2>1 DEF RunSpec, SpecIsNext, MayStart, Walking
    <3>2. status'[i] = IF i = pos THEN Result(o) ELSE status[i]
      BY <3>1 DEF Report
    <3>3. Result(o) # "open" /\ (Result(o) = "fail" => o = "fail")
      BY <3>1 DEF Result, BodyOutcomes, Permitted
    <3>4. o = "fail" => Root \in failed' /\ (mode.failFast => failFastStopped')
      BY <3>1, FailHitsRoot DEF MarkFailFast
    <3>5. \A j \in Specs : pos <= j /\ j < pos' => pos = j
      BY <1>1, <3>1, SizeAssumption DEF Specs, SizeAssumption
    <3>6. CASE i # pos
      BY <3>2, <3>6 DEF MovesStatus
    <3>7. CASE i = pos
      BY <1>1, <3>1, <3>2, <3>3, <3>4, <3>5, <3>7 DEF MovesStatus, FailsAt
    <3> QED BY <3>6, <3>7
  <2>2. CASE SpecParks \/ SpecExits
    <3>1. /\ pos \in Specs /\ Walking(at) /\ at = ScopeOf(pos) /\ ~failFastStopped
          /\ status' = [status EXCEPT ![pos] = "open"] /\ Halted'
      BY <2>2 DEF SpecParks, SpecExits, SpecIsNext, MayStart, Walking, Halted
    <3> QED BY <3>1 DEF MovesStatus, TypeOK
  <2>3. ASSUME NEW k, NEW o, LateBodyEnds(k, o) \/ BatchSpecEnds(k, o) PROVE MovesStatus(i)
    BY <1>2, <2>3 DEF LateBodyEnds, BatchSpecEnds
  <2>4. ASSUME NEW b \in Batches, LaunchBatch(b) PROVE MovesStatus(i)
    BY <1>2, <2>4 DEF LaunchBatch
  <2>5. ASSUME NEW b \in Batches, CollectBatch(b) PROVE MovesStatus(i)
    <3>1. /\ Walking(at) /\ pos = b[1] /\ BatchDone(b) /\ pos' = b[2] + 1
          /\ status' = [k \in Specs |-> IF k \in SpecsOf(b) THEN Result(batch[k]) ELSE status[k]]
          /\ MarkFailFast(BatchHas(b, "fail"))
      BY <2>5 DEF CollectBatch, Walking
    <3>2. b[1] \in Specs /\ b[1] \in Int /\ b[2] \in Int /\ b[1] <= b[2]
      BY BatchRange, SizeAssumption DEF Specs, SizeAssumption
    <3>3. ~failFastStopped
      <4>1. pos \in Specs /\ batch[pos] # "idle"
        BY <3>1, <3>2 DEF BatchDone, SpecsOf
      <4> QED BY <1>1, <4>1 DEF BatchInv, Held
    <3>4. CASE i \notin SpecsOf(b)
      BY <3>1, <3>4 DEF MovesStatus
    <3>5. CASE i \in SpecsOf(b)
      <4>1. status'[i] = Result(batch[i]) /\ batch[i] \in {"ok", "fail", "skip", "filtered", "park"}
        <5>1. batch[i] \notin {"idle", "running"}
          BY <3>1, <3>5 DEF BatchDone
        <5>2. batch[i] \in {"ok", "fail", "skip", "filtered", "park"}
          BY <5>1 DEF TypeOK
        <5> QED BY <3>1, <3>5, <5>2
      <4>2. status'[i] # "open" /\ (status'[i] = "fail" => batch[i] = "fail")
        BY <4>1 DEF Result
      <4>3. pos <= i /\ i < pos'
        BY <3>1, <3>2, <3>5 DEF SpecsOf
      <4>4. batch[i] = "fail" => (mode.failFast => failFastStopped')
        BY <3>1, <3>5 DEF BatchHas, MarkFailFast
      <4>5. \A j \in Specs : pos <= j /\ j < pos' => SameBatch(i, j)
        <5>1. InBatch(b, i)
          BY <3>2, <3>5 DEF SpecsOf, InBatch
        <5>2. \A j \in Specs : pos <= j /\ j < pos' => InBatch(b, j)
          BY <3>1, <3>2, SizeAssumption DEF InBatch, Specs, SizeAssumption
        <5> QED BY <5>1, <5>2 DEF SameBatch
      <4> QED BY <3>1, <3>3, <4>2, <4>3, <4>4, <4>5 DEF MovesStatus, FailsAt
    <3> QED BY <3>4, <3>5
  <2> QED BY <1>5, <2>1, <2>2, <2>3, <2>4, <2>5 DEF SpecNext
<1>6. ASSUME NEW g \in Groups, GroupNext(g) PROVE MovesStatus(i)
  <2>1. CASE FilterGroup(g)
    <3>1. /\ status'[i] = (IF i \in Start[g]..End[g] THEN "filtered" ELSE status[i])
          /\ pos = Start[g] /\ pos' = End[g] + 1 /\ Walking(at) /\ ~failFastStopped
      BY <2>1 DEF FilterGroup, MayStart, Walking, Report
    <3>2. i \in Start[g]..End[g] => pos <= i /\ i < pos'
      BY <1>1, <3>1, RangeTypes
    <3> QED BY <3>1, <3>2 DEF MovesStatus
  <2>2. ASSUME NEW o, BeforeAllFails(g, o) PROVE MovesStatus(i)
    BY <2>2, SuppressMoves DEF BeforeAllFails, HookMayRun
  <2>3. CASE BeforeAllSkips(g)
    BY <2>3, SuppressMoves DEF BeforeAllSkips, HookMayRun
  <2>4. CASE \/ EnterGroup(g) \/ BeforeAllsDone(g) \/ HookParks(g) \/ HookResumes(g) \/ LeaveBody(g)
    BY <1>2, <2>4 DEF EnterGroup, BeforeAllsDone, HookParks, HookResumes, LeaveBody
  <2>5. ASSUME NEW o, BeforeAllReturns(g, o) \/ AfterAll(g, o) PROVE MovesStatus(i)
    BY <1>2, <2>5 DEF BeforeAllReturns, AfterAll
  <2>6. ASSUME NEW c, FinishGroup(g, c) PROVE MovesStatus(i)
    BY <1>2, <2>6 DEF FinishGroup
  <2> QED BY <1>6, <2>1, <2>2, <2>3, <2>4, <2>5, <2>6 DEF GroupNext
<1>7. CASE UNCHANGED vars
  BY <1>2, <1>7 DEF vars
<1> QED BY <1>3, <1>4, <1>5, <1>6, <1>7 DEF Next

\* A run that stopped stays stopped, a failure stays recorded and a case stays emitted.
Remembers ==
  /\ stopped => stopped'
  /\ unwinding => unwinding'
  /\ failFastStopped => failFastStopped'
  /\ failed \subseteq failed' /\ accFailed \subseteq accFailed'
  /\ \A g \in Groups : Case(g) => Case(g)'

LEMMA NextRemembers == TypeOK /\ [Next]_vars => Remembers
<1> SUFFICES ASSUME TypeOK, [Next]_vars PROVE Remembers
  OBVIOUS
<1>1. beforeCases' = beforeCases /\ afterCases' = afterCases => \A g \in Groups : Case(g) => Case(g)'
  BY DEF Case
<1>2. \A g \in Groups : beforeCases[g] \in Nat /\ afterCases[g] \in Nat
  BY DEF TypeOK
<1>3. CASE SuiteNext
  <2>1. CASE SkipUnit
    BY <1>1, <2>1 DEF SkipUnit, SkipUnselected, Remembers
  <2>2. CASE StaySilent \/ StartSuite \/ EndSuite \/ FinishTest
    <3>1. UNCHANGED <<stopped, unwinding, failFastStopped, failed, accFailed, beforeCases, afterCases>>
      BY <2>2 DEF StaySilent, StartSuite, EndSuite, FinishTest
    <3> QED BY <1>1, <3>1 DEF Remembers
  <2> QED BY <1>3, <2>1, <2>2 DEF SuiteNext
<1>4. ASSUME NEW s \in Scopes, CutRange(s) PROVE Remembers
  BY <1>1, <1>4 DEF CutRange, Remembers
<1>5. CASE SpecNext
  <2>1. ASSUME NEW o, RunSpec(o) PROVE Remembers
    BY <1>1, <2>1, FailGrows DEF RunSpec, MarkFailFast, Remembers
  <2>2. CASE SpecParks
    BY <1>1, <2>2, FailGrows DEF SpecParks, Remembers
  <2>3. CASE SpecExits
    BY <1>1, <2>3, FailGrows DEF SpecExits, Remembers
  <2>4. ASSUME NEW i, NEW o, LateBodyEnds(i, o) PROVE Remembers
    BY <1>1, <2>4, FailGrows DEF LateBodyEnds, Remembers
  <2>5. ASSUME NEW i, NEW o, BatchSpecEnds(i, o) PROVE Remembers
    BY <1>1, <2>5, FailGrows DEF BatchSpecEnds, Remembers
  <2>6. ASSUME NEW b \in Batches, LaunchBatch(b) PROVE Remembers
    BY <1>1, <2>6 DEF LaunchBatch, Remembers
  <2>7. ASSUME NEW b \in Batches, CollectBatch(b) PROVE Remembers
    <3>1. failed \subseteq failed'
      BY <2>7, FailGrows DEF CollectBatch
    <3>2. UNCHANGED <<unwinding, accFailed, beforeCases, afterCases>> /\ (stopped => stopped')
      BY <2>7 DEF CollectBatch
    <3>3. failFastStopped => failFastStopped'
      BY <2>7 DEF CollectBatch, MarkFailFast
    <3> QED BY <1>1, <3>1, <3>2, <3>3 DEF Remembers
  <2> QED BY <1>5, <2>1, <2>2, <2>3, <2>4, <2>5, <2>6, <2>7 DEF SpecNext
<1>6. ASSUME NEW g \in Groups, GroupNext(g) PROVE Remembers
  <2>1. CASE \/ EnterGroup(g) \/ FilterGroup(g) \/ BeforeAllsDone(g) \/ BeforeAllSkips(g)
             \/ HookResumes(g) \/ LeaveBody(g)
    <3>1. UNCHANGED <<stopped, unwinding, failFastStopped, failed, accFailed, beforeCases, afterCases>>
      BY <2>1 DEF EnterGroup, FilterGroup, BeforeAllsDone, BeforeAllSkips, HookResumes, LeaveBody
    <3> QED BY <1>1, <3>1 DEF Remembers
  <2>2. CASE HookParks(g)
    BY <1>1, <2>2, FailGrows DEF HookParks, Remembers
  <2>3. ASSUME NEW o, BeforeAllReturns(g, o) PROVE Remembers
    BY <1>1, <2>3, FailGrows DEF BeforeAllReturns, Remembers
  <2>4. ASSUME NEW o, BeforeAllFails(g, o) PROVE Remembers
    <3>1. failed \subseteq failed' /\ stopped' = stopped /\ (unwinding => unwinding')
      BY <2>4, FailGrows DEF BeforeAllFails
    <3>2. failFastStopped => failFastStopped'
      BY <2>4 DEF BeforeAllFails, MarkFailFast
    <3>3. accFailed' = accFailed /\ afterCases' = afterCases /\ beforeCases' = [beforeCases EXCEPT ![g] = @ + 1]
      BY <2>4 DEF BeforeAllFails
    <3>4. \A h \in Groups : beforeCases'[h] = IF h = g THEN beforeCases[h] + 1 ELSE beforeCases[h]
      BY <3>3 DEF TypeOK
    <3>5. \A h \in Groups : Case(h) => Case(h)'
      BY <1>2, <3>3, <3>4 DEF Case
    <3> QED BY <3>1, <3>2, <3>3, <3>5 DEF Remembers
  <2>5. ASSUME NEW o, AfterAll(g, o) PROVE Remembers
    <3>1. /\ failed \subseteq failed' /\ accFailed \subseteq accFailed'
          /\ stopped' = stopped /\ (unwinding => unwinding')
      BY <2>5 DEF AfterAll, FailIf
    <3>2. failFastStopped => failFastStopped'
      BY <2>5 DEF AfterAll, MarkFailFast
    <3>3. beforeCases' = beforeCases /\ (afterCases' = afterCases \/ afterCases' = [afterCases EXCEPT ![g] = @ + 1])
      BY <2>5 DEF AfterAll
    <3>4. \A h \in Groups : afterCases'[h] = afterCases[h] \/ afterCases'[h] = afterCases[h] + 1
      BY <3>3 DEF TypeOK
    <3>5. \A h \in Groups : Case(h) => Case(h)'
      BY <1>2, <3>3, <3>4 DEF Case
    <3> QED BY <3>1, <3>2, <3>3, <3>5 DEF Remembers
  <2>6. ASSUME NEW c, FinishGroup(g, c) PROVE Remembers
    <3>1. failed \subseteq failed' /\ accFailed' = accFailed /\ stopped' = stopped /\ unwinding' = unwinding
      BY <2>6, FailGrows DEF FinishGroup
    <3>2. failFastStopped => failFastStopped'
      BY <2>6 DEF FinishGroup, MarkFailFast
    <3>3. beforeCases' = beforeCases /\ (afterCases' = afterCases \/ afterCases' = [afterCases EXCEPT ![g] = @ + 1])
      BY <2>6 DEF FinishGroup
    <3>4. \A h \in Groups : afterCases'[h] = afterCases[h] \/ afterCases'[h] = afterCases[h] + 1
      BY <3>3 DEF TypeOK
    <3>5. \A h \in Groups : Case(h) => Case(h)'
      BY <1>2, <3>3, <3>4 DEF Case
    <3> QED BY <3>1, <3>2, <3>3, <3>5 DEF Remembers
  <2> QED BY <1>6, <2>1, <2>2, <2>3, <2>4, <2>5, <2>6 DEF GroupNext
<1>7. CASE UNCHANGED vars
  BY <1>1, <1>7 DEF vars, Remembers
<1> QED BY <1>3, <1>4, <1>5, <1>6, <1>7 DEF Next

LEMMA AheadInit == Init => AheadInv
  BY DEF Init, AheadInv

LEMMA AheadNext == TypeOK /\ CursorInv /\ BatchInv /\ AheadInv /\ [Next]_vars => AheadInv'
<1> SUFFICES ASSUME TypeOK, CursorInv, BatchInv, AheadInv, [Next]_vars PROVE AheadInv'
  OBVIOUS
<1>1. pos \in Int /\ pos' \in Int /\ pos <= pos' /\ \A i \in Specs : i \in Int
  <2>1. TypeOK' /\ Advances
    BY NextAdvances, TypeNext
  <2>2. \A i \in Specs : i \in Int
    BY SizeAssumption DEF Specs, SizeAssumption
  <2> QED BY <2>1, <2>2, SizeAssumption DEF TypeOK, Advances, SizeAssumption
<1>2. ASSUME NEW i \in Specs, pos' <= i PROVE status'[i] = "none" \/ (i = pos' /\ status'[i] = "open")
  <2>1. i \in Int /\ MovesStatus(i) /\ (status[i] = "none" \/ (i = pos /\ status[i] = "open"))
    BY <1>1, <1>2, StatusMoves DEF AheadInv
  <2>2. i = pos => pos' = pos
    BY <1>1, <1>2
  <2>3. ~(i < pos')
    BY <1>1, <1>2
  <2> QED BY <2>1, <2>2, <2>3 DEF MovesStatus
<1>3. ASSUME NEW i \in Specs, status'[i] = "open" PROVE Halted' /\ \A g \in Groups : phase'[g] # "before"
  <2>1. Halted' /\ \A g \in Groups : phase[g] # "before"
    <3>1. CASE status[i] = "open"
      BY <3>1, NextRemembers DEF AheadInv, Halted, Remembers
    <3>2. CASE status[i] # "open"
      BY <1>3, <3>2, StatusMoves, WalkingIsPastBefore DEF MovesStatus
    <3> QED BY <3>1, <3>2
  <2>2. ASSUME NEW g \in Groups, EnterGroup(g) PROVE FALSE
    <3>1. ~Halted'
      BY <2>2 DEF EnterGroup, MayStart, Walking, Halted
    <3> QED BY <2>1, <3>1
  <2> QED BY <2>1, <2>2, NextSettles DEF Settles
<1> QED BY <1>2, <1>3 DEF AheadInv

-----------------------------------------------------------------------------
(* The reports and the test agree.                                         *)

\* What a step may do with failures: it makes one only together with what reports it, or what will.
FailureMoves ==
  /\ \/ failed' = failed
     \/ Root \in failed' /\ (Root \in failed \/ Halted' \/ Reported' \/ Owed')
  /\ Halted' => Halted \/ Root \in failed'
  /\ \A g \in accFailed' : g \in accFailed \/ Root \in failed'
  /\ \A i \in Specs : batch'[i] = "fail" => batch[i] = "fail" \/ Root \in failed'
  /\ \A i \in late' : i \in late \/ stopped' \/ (batch'[i] = "park" /\ pos' <= i)
  /\ \A g \in Groups : Case(g)' => Case(g) \/ Root \in failed'

\* The whole step is quiet about failures.
Quietly == UNCHANGED <<failed, stopped, unwinding, accFailed, batch, late, beforeCases, afterCases>>

LEMMA QuietMoves ==
  ASSUME Quietly
  PROVE  FailureMoves
<1>1. Halted' = Halted /\ \A g \in Groups : Case(g)' = Case(g)
  BY DEF Quietly, Halted, Case
<1> QED BY <1>1 DEF FailureMoves, Quietly

\* A failing step that fails the root.
LEMMA FailedMoves ==
  ASSUME NEW c, NEW s, FailIf(c, s)
  PROVE  failed' = failed \/ (c /\ Root \in failed')
  BY FailHitsRoot DEF FailIf

LEMMA SpecFailureMoves ==
  TypeOK /\ BatchInv /\ AgreeInv /\ SpecNext => FailureMoves
<1> SUFFICES ASSUME TypeOK, BatchInv, AgreeInv, SpecNext PROVE FailureMoves
  OBVIOUS
<1>1. \A g \in Groups : Case(g) => Root \in failed
  BY DEF AgreeInv, Reported
<1>2. ASSUME NEW o, RunSpec(o) PROVE FailureMoves
  <2>1. UNCHANGED <<stopped, unwinding, accFailed, batch, late, beforeCases, afterCases>>
    BY <1>2 DEF RunSpec
  <2>2. failed' = failed \/ (o = "fail" /\ Root \in failed')
    BY <1>2, FailedMoves DEF RunSpec
  <2>3. CASE failed' = failed
    BY <2>1, <2>3, QuietMoves DEF Quietly
  <2>4. CASE o = "fail" /\ Root \in failed'
    <3>1. pos \in Specs /\ status'[pos] = "fail"
      BY <1>2, <2>4 DEF RunSpec, Report, Result
    <3>2. Reported'
      BY <3>1 DEF Reported
    <3> QED BY <2>1, <2>4, <3>2 DEF FailureMoves
  <2> QED BY <2>2, <2>3, <2>4
<1>3. CASE SpecParks
  <2>1. UNCHANGED <<accFailed, batch, beforeCases, afterCases>> /\ stopped' /\ Root \in failed'
    BY <1>3, FailHitsRoot DEF SpecParks
  <2> QED BY <2>1 DEF FailureMoves, Halted
<1>4. CASE SpecExits
  <2>1. UNCHANGED <<accFailed, batch, late, beforeCases, afterCases>> /\ unwinding' /\ Root \in failed'
    BY <1>4, FailHitsRoot DEF SpecExits
  <2> QED BY <2>1 DEF FailureMoves, Halted
<1>5. ASSUME NEW i \in Specs, NEW o, LateBodyEnds(i, o) PROVE FailureMoves
  <2>1. /\ UNCHANGED <<pos, stopped, unwinding, accFailed, batch, beforeCases, afterCases>>
        /\ late' \subseteq late /\ i \in late
    BY <1>5 DEF LateBodyEnds
  <2>2. failed' = failed \/ Root \in failed'
    BY <1>5, FailedMoves DEF LateBodyEnds
  <2>3. Halted' \/ Owed'
    <3>1. stopped \/ (batch[i] = "park" /\ pos <= i)
      BY <2>1 DEF AgreeInv
    <3>2. stopped => Halted'
      BY <2>1 DEF Halted
    <3>3. batch[i] = "park" /\ pos <= i => Owed'
      BY <2>1 DEF Owed
    <3> QED BY <3>1, <3>2, <3>3
  <2>4. Halted' => Halted
    BY <2>1 DEF Halted
  <2>5. \A g \in Groups : Case(g)' => Case(g)
    BY <2>1 DEF Case
  <2> QED BY <2>1, <2>2, <2>3, <2>4, <2>5 DEF FailureMoves
<1>6. ASSUME NEW i \in Specs, NEW o, BatchSpecEnds(i, o) PROVE FailureMoves
  <2>1. /\ UNCHANGED <<pos, stopped, unwinding, accFailed, beforeCases, afterCases>>
        /\ batch' = [batch EXCEPT ![i] = o] /\ batch[i] = "running"
        /\ late' = IF o = "park" THEN late \cup {i} ELSE late
    BY <1>6 DEF BatchSpecEnds
  <2>2. batch'[i] = o /\ (\A k \in Specs : k # i => batch'[k] = batch[k]) /\ pos' <= i
    BY <2>1 DEF TypeOK, BatchInv
  <2>3. failed' = failed \/ (o = "fail" /\ Root \in failed')
    BY <1>6, FailedMoves DEF BatchSpecEnds
  <2>4. o = "fail" => Root \in failed' /\ Owed'
    <3>1. o = "fail" => Root \in failed'
      BY <1>6, FailHitsRoot DEF BatchSpecEnds
    <3>2. o = "fail" => Owed'
      BY <2>2 DEF Owed
    <3> QED BY <3>1, <3>2
  <2>5. (Halted' => Halted) /\ \A g \in Groups : Case(g)' => Case(g)
    BY <2>1 DEF Case, Halted
  <2>6. \A k \in Specs : batch'[k] = "fail" => batch[k] = "fail" \/ Root \in failed'
    BY <2>2, <2>4
  <2>7. \A k \in late' : k \in late \/ (batch'[k] = "park" /\ pos' <= k)
    BY <2>1, <2>2
  <2> QED BY <2>1, <2>3, <2>4, <2>5, <2>6, <2>7 DEF FailureMoves
<1>7. ASSUME NEW b \in Batches, LaunchBatch(b) PROVE FailureMoves
  <2>1. /\ UNCHANGED <<failed, stopped, unwinding, accFailed, late, beforeCases, afterCases>>
        /\ \A k \in Specs : batch'[k] = "running" \/ batch'[k] = batch[k]
    BY <1>7 DEF LaunchBatch
  <2>2. (Halted' => Halted) /\ \A g \in Groups : Case(g)' => Case(g)
    BY <2>1 DEF Case, Halted
  <2> QED BY <2>1, <2>2 DEF FailureMoves
<1>8. ASSUME NEW b \in Batches, CollectBatch(b) PROVE FailureMoves
  <2>1. /\ UNCHANGED <<unwinding, accFailed, batch, late, beforeCases, afterCases>>
        /\ stopped' = (stopped \/ BatchHas(b, "park")) /\ FailIf(BatchHas(b, "park"), at)
    BY <1>8 DEF CollectBatch
  <2>2. CASE BatchHas(b, "park")
    <3>1. stopped' /\ Root \in failed'
      BY <2>1, <2>2, FailHitsRoot
    <3> QED BY <2>1, <3>1 DEF FailureMoves, Halted
  <2>3. CASE ~BatchHas(b, "park")
    <3>1. stopped' = stopped /\ failed' = failed
      BY <2>1, <2>3 DEF FailIf, TypeOK
    <3> QED BY <2>1, <3>1, QuietMoves DEF Quietly
  <2> QED BY <2>2, <2>3
<1> QED BY <1>2, <1>3, <1>4, <1>5, <1>6, <1>7, <1>8 DEF SpecNext

LEMMA GroupFailureMoves ==
  ASSUME TypeOK, WalkInv, AgreeInv, NEW g \in Groups, GroupNext(g)
  PROVE  FailureMoves
<1>1. /\ phase \in [Scopes -> Phases] /\ g \in Scopes /\ g # Root
      /\ beforeCases \in [Groups -> Nat] /\ afterCases \in [Groups -> Nat]
  BY DEF TypeOK, Scopes, Groups, Root
<1>2. g \in failed => Root \in failed
  BY DEF AgreeInv
<1>3. CASE \/ EnterGroup(g) \/ FilterGroup(g) \/ BeforeAllsDone(g) \/ BeforeAllSkips(g)
           \/ HookResumes(g) \/ LeaveBody(g)
  <2>1. Quietly
    BY <1>3 DEF Quietly, EnterGroup, FilterGroup, BeforeAllsDone, BeforeAllSkips, HookResumes, LeaveBody
  <2> QED BY <2>1, QuietMoves
<1>4. CASE HookParks(g)
  <2>1. UNCHANGED <<accFailed, batch, late, beforeCases, afterCases>> /\ stopped' /\ Root \in failed'
    BY <1>4, FailHitsRoot DEF HookParks
  <2> QED BY <2>1 DEF FailureMoves, Halted
<1>5. ASSUME NEW o, BeforeAllReturns(g, o) PROVE FailureMoves
  <2>1. UNCHANGED <<stopped, unwinding, accFailed, batch, late, beforeCases, afterCases>>
    BY <1>5 DEF BeforeAllReturns
  <2>2. failed' = failed \/ (o = "error" /\ Root \in failed')
    BY <1>5, FailedMoves DEF BeforeAllReturns
  <2>3. CASE failed' = failed
    BY <2>1, <2>3, QuietMoves DEF Quietly
  <2>4. CASE o = "error" /\ Root \in failed'
    <3>1. Real
      BY <1>5, <2>4 DEF BeforeAllReturns, HookOutcomes, Permitted
    <3>2. g \in failed'
      BY <1>5, <2>4, <3>1, GroupFails DEF BeforeAllReturns
    <3>3. Owed'
      BY <1>5, <3>2 DEF BeforeAllReturns, HookMayRun, Owed
    <3>4. (Halted' => Halted) /\ \A h \in Groups : Case(h)' => Case(h)
      BY <2>1 DEF Case, Halted
    <3> QED BY <2>1, <2>4, <3>3, <3>4 DEF FailureMoves
  <2> QED BY <2>2, <2>3, <2>4
<1>6. ASSUME NEW o, BeforeAllFails(g, o) PROVE FailureMoves
  <2>1. /\ UNCHANGED <<stopped, accFailed, batch, late, afterCases>> /\ Root \in failed'
        /\ beforeCases' = [beforeCases EXCEPT ![g] = @ + 1]
    BY <1>6, FailHitsRoot DEF BeforeAllFails
  <2>2. Reported'
    <3>1. beforeCases'[g] = beforeCases[g] + 1 /\ beforeCases[g] \in Nat /\ afterCases[g] \in Nat
      BY <1>1, <2>1
    <3>2. Case(g)'
      BY <2>1, <3>1 DEF Case
    <3> QED BY <3>2 DEF Reported
  <2> QED BY <2>1, <2>2 DEF FailureMoves
<1>7. ASSUME NEW o, AfterAll(g, o) PROVE FailureMoves
  <2> DEFINE fails == o \in {"fail", "exit", "error"}
             case  == LastAfterAll(g) /\ (CountsAsFailed(g, o) \/ g \in accFailed)
  <2>1. /\ UNCHANGED <<stopped, batch, late, beforeCases>> /\ FailIf(fails, g)
        /\ phase[g] = "after" /\ phase' = IF LastAfterAll(g) THEN [phase EXCEPT ![g] = "drain"] ELSE phase
        /\ accFailed' = IF CountsAsFailed(g, o) THEN accFailed \cup {g} ELSE accFailed
        /\ afterCases' = IF case THEN [afterCases EXCEPT ![g] = @ + 1] ELSE afterCases
    BY <1>7 DEF AfterAll, HookMayRun
  <2>2. unwinding' => unwinding \/ fails
    BY <1>7 DEF AfterAll
  <2>3. fails => Root \in failed'
    BY <2>1, FailHitsRoot
  <2>4. failed \subseteq failed' /\ (~fails => failed' = failed)
    BY <2>1 DEF FailIf
  <2>5. CountsAsFailed(g, o) => Root \in failed'
    BY <1>2, <2>3, <2>4 DEF CountsAsFailed
  <2>6. g \in accFailed => Root \in failed'
    BY <2>4 DEF AgreeInv
  <2>7. fails => Root \in failed \/ Reported' \/ Owed'
    <3>1. SUFFICES ASSUME fails, Root \notin failed PROVE Reported' \/ Owed'
      OBVIOUS
    <3>2. CountsAsFailed(g, o)
      BY <1>2, <3>1 DEF CountsAsFailed
    <3>3. CASE LastAfterAll(g)
      <4>1. afterCases'[g] = afterCases[g] + 1 /\ beforeCases'[g] \in Nat /\ afterCases[g] \in Nat
        BY <1>1, <2>1, <3>2, <3>3
      <4>2. Case(g)'
        BY <4>1 DEF Case
      <4> QED BY <4>2 DEF Reported
    <3>4. CASE ~LastAfterAll(g)
      <4>1. phase'[g] = "after" /\ g \in accFailed'
        BY <2>1, <3>2, <3>4
      <4> QED BY <4>1 DEF Owed
    <3> QED BY <3>3, <3>4
  <2>8. \A h \in Groups : Case(h)' => Case(h) \/ case
    BY <2>1 DEF Case
  <2>9. case => Root \in failed'
    BY <2>5, <2>6
  <2> HIDE DEF case
  <2>10. Halted' => Halted \/ Root \in failed'
    BY <2>1, <2>2, <2>3 DEF Halted
  <2> QED BY <2>1, <2>3, <2>4, <2>5, <2>7, <2>8, <2>9, <2>10 DEF FailureMoves
<1>8. ASSUME NEW c \in BOOLEAN, FinishGroup(g, c) PROVE FailureMoves
  <2>1. /\ UNCHANGED <<stopped, unwinding, accFailed, batch, late, beforeCases>> /\ FailIf(c, g)
        /\ afterCases' = IF CleanupCase(g, c) THEN [afterCases EXCEPT ![g] = @ + 1] ELSE afterCases
    BY <1>8 DEF FinishGroup
  <2>2. CASE c
    <3>1. Root \in failed'
      BY <2>1, <2>2, FailHitsRoot
    <3>2. Root \in failed \/ Halted' \/ Reported'
      <4>1. SUFFICES ASSUME Root \notin failed, ~Halted' PROVE Reported'
        OBVIOUS
      <4>2. CleanupCase(g, c)
        BY <1>2, <2>1, <2>2, <4>1 DEF CleanupCase, WalkInv, Halted
      <4>3. afterCases'[g] = afterCases[g] + 1 /\ beforeCases'[g] \in Nat /\ afterCases[g] \in Nat
        BY <1>1, <2>1, <4>2
      <4>4. Case(g)'
        BY <4>3 DEF Case
      <4> QED BY <4>4 DEF Reported
    <3> QED BY <2>1, <3>1, <3>2 DEF FailureMoves
  <2>3. CASE ~c
    <3>1. failed' = failed /\ afterCases' = afterCases
      BY <2>1, <2>3 DEF FailIf, CleanupCase
    <3> QED BY <2>1, <3>1, QuietMoves DEF Quietly
  <2> QED BY <2>2, <2>3
<1> QED BY <1>3, <1>4, <1>5, <1>6, <1>7, <1>8 DEF GroupNext

LEMMA NextFailureMoves ==
  TypeOK /\ WalkInv /\ BatchInv /\ AgreeInv /\ [Next]_vars => FailureMoves
<1> SUFFICES ASSUME TypeOK, WalkInv, BatchInv, AgreeInv, [Next]_vars PROVE FailureMoves
  OBVIOUS
<1>1. CASE SuiteNext
  <2>1. CASE SkipUnit
    BY <2>1, QuietMoves DEF SkipUnit, SkipUnselected, Quietly
  <2>2. CASE StaySilent \/ StartSuite \/ EndSuite \/ FinishTest
    BY <2>2, QuietMoves DEF StaySilent, StartSuite, EndSuite, FinishTest, Quietly
  <2> QED BY <1>1, <2>1, <2>2 DEF SuiteNext
<1>2. ASSUME NEW s \in Scopes, CutRange(s) PROVE FailureMoves
  BY <1>2, QuietMoves DEF CutRange, Quietly
<1>3. CASE UNCHANGED vars
  BY <1>3, QuietMoves DEF vars, Quietly
<1> QED BY <1>1, <1>2, <1>3, SpecFailureMoves, GroupFailureMoves DEF Next

\* An outcome that is in the buffer stays there until it is collected, and is a failure then.
LEMMA PendingEnds ==
  ASSUME TypeOK, WalkInv, BatchInv, [Next]_vars,
         NEW i \in Specs, batch[i] \in {"fail", "park"}, pos <= i
  PROVE  /\ batch'[i] = batch[i]
         /\ pos' = pos \/ (batch[i] = "fail" /\ status'[i] = "fail") \/ (batch[i] = "park" /\ stopped')
<1>1. ASSUME NEW k \in Specs, NEW o, BatchSpecEnds(k, o) PROVE batch'[i] = batch[i] /\ pos' = pos
  BY <1>1 DEF BatchSpecEnds, TypeOK
<1>2. ASSUME NEW k \in Specs, NEW o, LateBodyEnds(k, o) PROVE batch'[i] = batch[i] /\ pos' = pos
  BY <1>2 DEF LateBodyEnds
<1>3. ASSUME NEW b \in Batches, CollectBatch(b)
      PROVE  /\ batch'[i] = batch[i]
             /\ (batch[i] = "fail" /\ status'[i] = "fail") \/ (batch[i] = "park" /\ stopped')
  <2>1. /\ batch' = batch /\ pos = b[1] /\ stopped' = (stopped \/ BatchHas(b, "park"))
        /\ status' = [k \in Specs |-> IF k \in SpecsOf(b) THEN Result(batch[k]) ELSE status[k]]
    BY <1>3 DEF CollectBatch
  <2>2. b[1] \in Int /\ b[2] \in Int /\ b[1] <= b[2] /\ i \in Int
    BY BatchRange, SizeAssumption DEF Specs, SizeAssumption
  <2>3. PICK c \in Batches : c[1] = pos /\ InBatch(c, i)
    BY DEF BatchInv, Held
  <2>4. c[1] \in Int /\ c[2] \in Int /\ c[1] <= c[2] /\ b[1] \in Specs
    BY BatchRange, SizeAssumption DEF Specs, SizeAssumption
  <2>5. c = b
    BY <2>1, <2>2, <2>3, <2>4, OneBatch DEF InBatch
  <2>6. i \in SpecsOf(b)
    BY <2>2, <2>3, <2>5 DEF InBatch, SpecsOf
  <2>7. batch[i] = "fail" => status'[i] = "fail"
    BY <2>1, <2>6 DEF Result
  <2>8. batch[i] = "park" => stopped'
    BY <2>1, <2>6 DEF BatchHas
  <2> QED BY <2>1, <2>7, <2>8
<1>4. CASE UNCHANGED vars
  BY <1>4 DEF vars
<1> QED BY <1>1, <1>2, <1>3, <1>4, BatchHoldsTheWalk

\* A failed group whose BeforeAlls run, or whose AfterAlls have failed, ends in a case.
LEMMA OwedEnds ==
  ASSUME TypeOK, [Next]_vars, NEW g \in Groups,
         \/ phase[g] = "before" /\ g \in failed
         \/ phase[g] = "after" /\ g \in accFailed
  PROVE  Owed' \/ Case(g)'
<1>1. phase' [g] = phase[g] => Owed'
  BY NextRemembers DEF Owed, Remembers
<1>2. /\ phase \in [Scopes -> Phases] /\ g \in Scopes
      /\ beforeCases \in [Groups -> Nat] /\ afterCases \in [Groups -> Nat]
      /\ beforeCases[g] \in Nat /\ afterCases[g] \in Nat
  BY DEF TypeOK, Scopes
<1>3. CASE GroupNext(g)
  <2>1. ~EnterGroup(g) /\ ~FilterGroup(g) /\ ~BeforeAllsDone(g) /\ ~BeforeAllSkips(g) /\ ~LeaveBody(g)
    BY DEF EnterGroup, FilterGroup, BeforeAllsDone, BeforeAllSkips, LeaveBody, HookMayRun
  <2>2. ~ \E c \in BOOLEAN : FinishGroup(g, c)
    BY DEF FinishGroup
  <2>3. CASE HookParks(g) \/ HookResumes(g)
    BY <1>1, <2>3 DEF HookParks, HookResumes
  <2>4. ASSUME NEW o, BeforeAllReturns(g, o) PROVE phase'[g] = phase[g]
    BY <2>4 DEF BeforeAllReturns
  <2>5. ASSUME NEW o, BeforeAllFails(g, o) PROVE Case(g)'
    <3>1. beforeCases'[g] = beforeCases[g] + 1 /\ afterCases'[g] = afterCases[g]
      BY <1>2, <2>5 DEF BeforeAllFails
    <3> QED BY <1>2, <3>1 DEF Case
  <2>6. ASSUME NEW o, AfterAll(g, o) PROVE phase'[g] = phase[g] \/ Case(g)'
    <3>1. CASE LastAfterAll(g)
      <4>1. g \in accFailed
        BY <2>6 DEF AfterAll, HookMayRun
      <4>2. afterCases'[g] = afterCases[g] + 1 /\ beforeCases'[g] = beforeCases[g]
        BY <1>2, <2>6, <3>1, <4>1 DEF AfterAll
      <4> QED BY <1>2, <4>2 DEF Case
    <3>2. CASE ~LastAfterAll(g)
      BY <2>6, <3>2 DEF AfterAll
    <3> QED BY <3>1, <3>2
  <2> QED BY <1>1, <1>3, <2>1, <2>2, <2>3, <2>4, <2>5, <2>6 DEF GroupNext
<1>4. ASSUME NEW h \in Groups, h # g, GroupNext(h) PROVE phase'[g] = phase[g]
  BY <1>4, OtherGroupKeeps DEF Keeps
<1>5. CASE SuiteNext \/ (\E s \in Scopes : CutRange(s)) \/ SpecNext \/ UNCHANGED vars
  BY <1>1, <1>5, OthersKeep DEF Keeps
<1> QED BY <1>1, <1>3, <1>4, <1>5 DEF Next

\* After SuiteFinished nothing but the end of the test is left.
LEMMA FinishedIsStill ==
  ASSUME TypeOK, WalkInv, BatchInv, AgreeInv, suite = "finished", [Next]_vars
  PROVE  FinishTest \/ UNCHANGED vars
<1>1. /\ ~Halted /\ phase[Root] \in {"drain", "done"} /\ pos > NSpecs
      /\ \A i \in Specs : ~(pos <= i) /\ i # pos
  BY SizeAssumption DEF AgreeInv, TypeOK, Specs, SizeAssumption
<1>2. at \notin Groups /\ at = Root /\ \A g \in Groups : park[g] = "no" /\ ~Runs(g)
  BY <1>1 DEF WalkInv, Halted, Runs, TypeOK, Scopes
<1>3. ~StaySilent /\ ~StartSuite /\ ~EndSuite /\ ~SkipUnit
  BY <1>1 DEF StaySilent, StartSuite, EndSuite, SkipUnit, SkipUnselected, Walking
<1>4. ~ \E s \in Scopes : CutRange(s)
  BY <1>1, <1>2 DEF CutRange, Walking
<1>5. ~SpecNext
  <2>1. ~ \E o \in AllOutcomes : RunSpec(o) \/ SpecParks \/ SpecExits
    BY <1>1 DEF RunSpec, SpecParks, SpecExits
  <2>2. ~ \E i \in Specs, o \in AllOutcomes : LateBodyEnds(i, o)
    <3>1. late = {}
      BY <1>1 DEF AgreeInv, Halted, TypeOK
    <3> QED BY <3>1 DEF LateBodyEnds
  <2>3. ~ \E i \in Specs, o \in AllOutcomes : BatchSpecEnds(i, o)
    BY <1>1 DEF BatchSpecEnds, BatchInv
  <2>4. ~ \E b \in Batches : LaunchBatch(b) \/ CollectBatch(b)
    BY <1>1, BatchRange DEF LaunchBatch, CollectBatch
  <2>5. ~SpecParks /\ ~SpecExits
    BY <1>1 DEF SpecParks, SpecExits
  <2> QED BY <2>1, <2>2, <2>3, <2>4, <2>5 DEF SpecNext
<1>6. ASSUME NEW g \in Groups, GroupNext(g) PROVE FALSE
  <2>1. ~EnterGroup(g) /\ ~FilterGroup(g)
    BY <1>1, RangeTypes DEF EnterGroup, FilterGroup
  <2>2. ~ \E o \in AllOutcomes : BeforeAllReturns(g, o) \/ BeforeAllFails(g, o) \/ AfterAll(g, o)
    BY <1>2 DEF BeforeAllReturns, BeforeAllFails, AfterAll, HookMayRun
  <2>3. ~BeforeAllsDone(g) /\ ~BeforeAllSkips(g) /\ ~ \E c \in BOOLEAN : FinishGroup(g, c)
    BY <1>2 DEF BeforeAllsDone, BeforeAllSkips, FinishGroup, HookMayRun
  <2>4. ~HookParks(g) /\ ~HookResumes(g) /\ ~LeaveBody(g)
    BY <1>2 DEF HookParks, HookResumes, LeaveBody, Runs
  <2> QED BY <1>6, <2>1, <2>2, <2>3, <2>4 DEF GroupNext
<1> QED BY <1>3, <1>4, <1>5, <1>6 DEF Next, SuiteNext

LEMMA AgreeInit == Init => AgreeInv
<1> SUFFICES ASSUME Init PROVE AgreeInv
  OBVIOUS
<1>1. ~Reported
  BY DEF Init, Reported, Case
<1> QED BY <1>1 DEF Init, AgreeInv, Halted

LEMMA AgreeNext ==
  TypeOK /\ CursorInv /\ WalkInv /\ BatchInv /\ AheadInv /\ AgreeInv /\ [Next]_vars => AgreeInv'
<1> SUFFICES ASSUME TypeOK, CursorInv, WalkInv, BatchInv, AheadInv, AgreeInv, [Next]_vars
             PROVE  AgreeInv'
  OBVIOUS
<1>1. FailureMoves /\ Remembers /\ (Root \in failed => Root \in failed')
  BY NextFailureMoves, NextRemembers DEF Remembers
<1>2. \A s \in failed' : Root \in failed'
  BY <1>1 DEF FailureMoves, AgreeInv
<1>3. Halted' \/ Reported' => Root \in failed'
  <2>1. Halted' => Root \in failed'
    BY <1>1 DEF FailureMoves, AgreeInv
  <2>2. ASSUME NEW g \in Groups, Case(g)' PROVE Root \in failed'
    BY <1>1, <2>2 DEF FailureMoves, AgreeInv, Reported
  <2>3. ASSUME NEW i \in Specs, status'[i] = "fail" PROVE Root \in failed'
    <3>1. CASE status[i] = "fail"
      BY <1>1, <3>1 DEF AgreeInv, Reported
    <3>2. CASE status[i] # "fail"
      <4>1. Root \in failed' \/ batch[i] = "fail"
        BY <2>3, <3>2, StatusMoves DEF MovesStatus, FailsAt
      <4> QED BY <1>1, <4>1 DEF AgreeInv
    <3> QED BY <3>1, <3>2
  <2> QED BY <2>1, <2>2, <2>3 DEF Reported
<1>4. (\A g \in accFailed' : Root \in failed') /\ \A i \in Specs : batch'[i] = "fail" => Root \in failed'
  BY <1>1 DEF FailureMoves, AgreeInv
<1>5. Root \in failed' => Halted' \/ Reported' \/ Owed'
  <2>1. SUFFICES ASSUME Root \in failed PROVE Halted' \/ Reported' \/ Owed'
    BY <1>1 DEF FailureMoves
  <2>2. CASE Halted
    BY <1>1, <2>2 DEF Halted, Remembers
  <2>3. ASSUME NEW g \in Groups, Case(g) PROVE Reported'
    BY <1>1, <2>3 DEF Remembers, Reported
  <2>4. ASSUME NEW i \in Specs, status[i] = "fail" PROVE Reported'
    <3>1. i \in Int /\ pos \in Int
      BY SizeAssumption DEF TypeOK, Specs, SizeAssumption
    <3>2. i < pos
      BY <2>4, <3>1 DEF AheadInv
    <3>3. status'[i] = "fail"
      BY <2>4, <3>2, NextAdvances DEF Advances
    <3> QED BY <3>3 DEF Reported
  <2>5. ASSUME NEW g \in Groups,
               (phase[g] = "before" /\ g \in failed) \/ (phase[g] = "after" /\ g \in accFailed)
        PROVE  Reported' \/ Owed'
    BY <2>5, OwedEnds DEF Reported
  <2>6. ASSUME NEW i \in Specs, batch[i] \in {"fail", "park"}, pos <= i
        PROVE  Halted' \/ Reported' \/ Owed'
    <3>1. /\ batch'[i] = batch[i]
          /\ pos' = pos \/ (batch[i] = "fail" /\ status'[i] = "fail") \/ (batch[i] = "park" /\ stopped')
      BY <2>6, PendingEnds
    <3>2. pos' = pos => Owed'
      BY <2>6, <3>1 DEF Owed
    <3>3. status'[i] = "fail" => Reported'
      BY DEF Reported
    <3>4. stopped' => Halted'
      BY DEF Halted
    <3> QED BY <3>1, <3>2, <3>3, <3>4
  <2> QED BY <2>1, <2>2, <2>3, <2>4, <2>5, <2>6 DEF AgreeInv, Reported, Owed
<1>6. \A i \in late' : stopped' \/ (batch'[i] = "park" /\ pos' <= i)
  <2>1. SUFFICES ASSUME NEW i \in late PROVE stopped' \/ (batch'[i] = "park" /\ pos' <= i)
    BY <1>1 DEF FailureMoves
  <2>2. CASE stopped
    BY <1>1, <2>2 DEF Remembers
  <2>3. CASE batch[i] = "park" /\ pos <= i
    <3>1. i \in Specs
      BY DEF TypeOK
    <3> QED BY <2>3, <3>1, PendingEnds
  <2> QED BY <2>2, <2>3 DEF AgreeInv
<1>7. suite' = "finished" => ~Halted' /\ phase'[Root] \in {"drain", "done"} /\ pos' > NSpecs
  <2>1. SUFFICES ASSUME suite' = "finished"
                 PROVE  ~Halted' /\ phase'[Root] \in {"drain", "done"} /\ pos' > NSpecs
    OBVIOUS
  <2>2. Root \in Scopes /\ phase \in [Scopes -> Phases]
    BY DEF TypeOK, Scopes
  <2>3. CASE EndSuite /\ ~Halted /\ pos > NSpecs
    BY <2>2, <2>3 DEF EndSuite, Halted
  <2>4. CASE suite = "finished"
    <3>1. FinishTest \/ UNCHANGED vars
      BY <2>4, FinishedIsStill
    <3>2. ~Halted /\ phase[Root] \in {"drain", "done"} /\ pos > NSpecs
      BY <2>4 DEF AgreeInv
    <3> QED BY <2>2, <3>1, <3>2 DEF FinishTest, vars, Halted
  <2> QED BY <2>1, <2>3, <2>4, SuiteMoves
<1> QED BY <1>2, <1>3, <1>4, <1>5, <1>6, <1>7 DEF AgreeInv

LEMMA AgreeCorrect == Spec => [](TypeOK /\ CursorInv /\ WalkInv /\ AheadInv /\ AgreeInv)
<1> DEFINE IInv == TypeOK /\ CursorInv /\ WalkInv /\ BatchInv /\ AheadInv /\ AgreeInv
<1>1. Init => IInv
  BY TypeInit, CursorInit, WalkInit, BatchInit, AheadInit, AgreeInit
<1>2. IInv /\ [Next]_vars => IInv'
  BY TypeNext, CursorNext, WalkNext, BatchNext, AheadNext, AgreeNext
<1> QED BY <1>1, <1>2, PTL DEF Spec

\* For every plan, driver and outcome, a run that emits SuiteFinished has a failed case exactly when
\* its test failed, and one that parked or unwound fails its test and emits no SuiteFinished.
THEOREM ReportsAgreeWithTheTest == Spec => []FailureAgreement
<1>1. TypeOK /\ CursorInv /\ WalkInv /\ AheadInv /\ AgreeInv => FailureAgreement
  <2> SUFFICES ASSUME TypeOK, CursorInv, WalkInv, AheadInv, AgreeInv PROVE FailureAgreement
    OBVIOUS
  <2>1. ASSUME suite = "finished" PROVE ~Halted /\ pos > NSpecs /\ \A i \in Specs : ~(pos <= i)
    BY <2>1, SizeAssumption DEF AgreeInv, TypeOK, Specs, SizeAssumption
  <2>2. ASSUME suite = "finished" PROVE ~Owed
    <3>1. \A g \in Groups : phase[g] # "before"
      BY <2>1, <2>2, RangeTypes DEF CursorInv
    <3>2. \A g \in Groups : phase[g] # "after"
      <4>1. at \notin Groups /\ \A g \in Groups : park[g] = "no"
        BY <2>1, <2>2 DEF AgreeInv, WalkInv, Halted
      <4> QED BY <4>1 DEF WalkInv, Active, Inside
    <3> QED BY <2>1, <2>2, <3>1, <3>2 DEF Owed
  <2>3. suite = "finished" => (Root \in failed <=> Reported)
    BY <2>1, <2>2 DEF AgreeInv
  <2>4. Halted \/ (\E i \in Specs : status[i] = "open") => Root \in failed /\ suite # "finished"
    BY DEF AheadInv, AgreeInv
  <2>5. suite = "finished" => late = {}
    BY <2>1 DEF AgreeInv, Halted, TypeOK
  <2> QED BY <2>3, <2>4, <2>5 DEF FailureAgreement, Reported, Case
<1> QED BY <1>1, AgreeCorrect, PTL

-----------------------------------------------------------------------------
(* FailFast.                                                               *)

\* While the walk goes on, the active groups are the one it is in and those around it:
LEMMA ActiveIsInside ==
  ASSUME WalkInv, NEW s, Walking(s), NEW g \in Groups, Active(g)
  PROVE  s \in Groups /\ (g = s \/ g \in Above(s))
  BY DEF WalkInv, Walking, Halted, Inside

\* the groups around the one it enters,
LEMMA EntersFrom ==
  ASSUME WalkInv, NEW g \in Groups, Walking(Parent(g))
  PROVE  /\ \A h \in Groups : Active(h) => h \in Above(g)
         /\ \A h \in Above(g) : phase[h] = "body"
<1>1. Root \notin Groups
  BY DEF Root, Groups
<1>2. ASSUME NEW h \in Groups, Active(h) PROVE h \in Above(g)
  BY <1>1, <1>2, ActiveIsInside, ParentAbove
<1>3. \A h \in Above(g) : phase[h] = "body"
  BY <1>1, ParentAbove DEF WalkInv, Walking
<1> QED BY <1>2, <1>3

\* and the groups around the spec it starts.
LEMMA StartsInside ==
  ASSUME WalkInv, NEW i \in Specs, Walking(ScopeOf(i)), NEW g \in Groups, Active(g)
  PROVE  Contains(g, i)
<1>1. Root \notin Groups
  BY DEF Root, Groups
<1>2. g \in Around(i)
  BY <1>1, ActiveIsInside, ScopeAround
<1> QED BY <1>2 DEF Around

\* The cursor does not leave a group whose hooks or specs are still to run.
LEMMA CursorStaysInside ==
  ASSUME TypeOK, WalkInv, ChainInv, [Next]_vars, NEW g \in Groups, Active(g)
  PROVE  pos' <= End[g] + 1
<1>1. pos \in Int /\ End[g] \in Int /\ Start[g] \in Int /\ pos <= End[g] + 1
  BY RangeTypes, SizeAssumption DEF ChainInv, TypeOK, SizeAssumption
<1>2. pos' = pos => pos' <= End[g] + 1
  BY <1>1
<1>3. CASE SuiteNext
  <2>1. CASE SkipUnit
    <3>1. Walking(Root) /\ Root \notin Groups
      BY <2>1 DEF SkipUnit, SkipUnselected, Root, Groups
    <3> QED BY <3>1, ActiveIsInside
  <2>2. CASE StaySilent \/ StartSuite \/ EndSuite \/ FinishTest
    BY <1>2, <2>2 DEF StaySilent, StartSuite, EndSuite, FinishTest
  <2> QED BY <1>3, <2>1, <2>2 DEF SuiteNext
<1>4. ASSUME NEW s \in Scopes, CutRange(s) PROVE pos' <= End[g] + 1
  <2>1. Walking(s) /\ pos' = Last(s) + 1
    BY <1>4 DEF CutRange
  <2>2. s \in Groups /\ (g = s \/ g \in Above(s)) /\ s # Root
    BY <2>1, ActiveIsInside DEF Root, Groups
  <2>3. End[s] \in Int /\ End[s] <= End[g] /\ Last(s) = End[s]
    BY <1>1, <2>2, RangeTypes DEF Above, Encloses, Last
  <2> QED BY <1>1, <2>1, <2>3
<1>5. CASE SpecNext
  <2>1. ASSUME NEW o, RunSpec(o) PROVE pos' <= End[g] + 1
    <3>1. pos \in Specs /\ Walking(ScopeOf(pos)) /\ pos' = pos + 1
      BY <2>1 DEF RunSpec, SpecIsNext, MayStart
    <3> QED BY <1>1, <3>1, StartsInside DEF Contains
  <2>2. CASE SpecParks \/ SpecExits
    BY <1>2, <2>2 DEF SpecParks, SpecExits
  <2>3. ASSUME NEW i, NEW o, LateBodyEnds(i, o) \/ BatchSpecEnds(i, o) PROVE pos' <= End[g] + 1
    BY <1>2, <2>3 DEF LateBodyEnds, BatchSpecEnds
  <2>4. ASSUME NEW b \in Batches, LaunchBatch(b) PROVE pos' <= End[g] + 1
    BY <1>2, <2>4 DEF LaunchBatch
  <2>5. ASSUME NEW b \in Batches, CollectBatch(b) PROVE pos' <= End[g] + 1
    <3>1. Walking(ScopeOf(b[1])) /\ pos' = b[2] + 1
      BY <2>5 DEF CollectBatch
    <3>2. b[1] \in Specs /\ b[2] \in Specs /\ b[1] \in Int /\ b[2] \in Int /\ b[1] <= b[2]
      BY BatchRange, SizeAssumption DEF Specs, SizeAssumption
    <3>3. Contains(g, b[1])
      BY <3>1, <3>2, StartsInside
    <3>4. g \in Around(b[2])
      BY <3>2, <3>3, BatchTogether DEF InBatch, Around
    <3> QED BY <1>1, <3>1, <3>2, <3>4 DEF Around, Contains
  <2> QED BY <1>5, <2>1, <2>2, <2>3, <2>4, <2>5 DEF SpecNext
<1>6. ASSUME NEW h \in Groups, GroupNext(h) PROVE pos' <= End[g] + 1
  <2>1. CASE FilterGroup(h)
    <3>1. Walking(Parent(h)) /\ pos' = End[h] + 1
      BY <2>1 DEF FilterGroup, MayStart
    <3>2. g \in Above(h)
      BY <3>1, EntersFrom
    <3> QED BY <1>1, <3>1, <3>2, RangeTypes DEF Above, Encloses
  <2>2. ASSUME phase[h] = "before", SuppressGroup(h) PROVE pos' <= End[g] + 1
    <3>1. pos' = End[h] + 1
      BY <2>2 DEF SuppressGroup
    <3>2. g = h \/ Encloses(g, h)
      BY <2>2 DEF ChainInv, Active, Nested, Above
    <3> QED BY <1>1, <3>1, <3>2, RangeTypes DEF Encloses
  <2>3. ASSUME NEW o, BeforeAllFails(h, o) \/ BeforeAllSkips(h) PROVE pos' <= End[g] + 1
    BY <2>2, <2>3 DEF BeforeAllFails, BeforeAllSkips, HookMayRun
  <2>4. CASE \/ EnterGroup(h) \/ BeforeAllsDone(h) \/ HookParks(h) \/ HookResumes(h) \/ LeaveBody(h)
             \/ BeforeAllSkips(h)
    BY <1>2, <2>3, <2>4 DEF EnterGroup, BeforeAllsDone, HookParks, HookResumes, LeaveBody
  <2>5. ASSUME NEW o, BeforeAllReturns(h, o) \/ AfterAll(h, o) PROVE pos' <= End[g] + 1
    BY <1>2, <2>5 DEF BeforeAllReturns, AfterAll
  <2>6. ASSUME NEW c, FinishGroup(h, c) PROVE pos' <= End[g] + 1
    BY <1>2, <2>6 DEF FinishGroup
  <2> QED BY <1>6, <2>1, <2>3, <2>4, <2>5, <2>6 DEF GroupNext
<1>7. CASE UNCHANGED vars
  BY <1>2, <1>7 DEF vars
<1> QED BY <1>3, <1>4, <1>5, <1>6, <1>7 DEF Next

LEMMA ChainInit == Init => ChainInv
<1> SUFFICES ASSUME Init PROVE ChainInv
  OBVIOUS
<1>1. \A g \in Groups : phase[g] = "idle"
  BY DEF Init, Scopes, Groups, Root
<1> QED BY <1>1 DEF ChainInv, Active

LEMMA ChainNext ==
  TypeOK /\ CursorInv /\ WalkInv /\ BatchInv /\ AheadInv /\ ChainInv /\ [Next]_vars => ChainInv'
<1> SUFFICES ASSUME TypeOK, CursorInv, WalkInv, BatchInv, AheadInv, ChainInv, [Next]_vars
             PROVE  ChainInv'
  OBVIOUS
<1>1. TypeOK' /\ \A g \in Groups : Above(g) \subseteq Groups /\ g \notin Above(g)
  BY TypeNext DEF Above, Encloses
<1>2. ASSUME NEW g \in Groups, Active(g)', ~EnterGroup(g) PROVE Active(g)
  <2>1. phase[g] \in Phases /\ phase[g] \notin {"idle", "done"}
    BY <1>2, PhaseMoves DEF Active, TypeOK, Scopes
  <2> QED BY <2>1 DEF Phases, Active
<1>3. ASSUME NEW g \in Groups, EnterGroup(g)
      PROVE  /\ \A h \in Groups : Active(h) => h \in Above(g)
             /\ \A h \in Above(g) : phase[h] = "body"
             /\ \A h \in Groups : h # g => phase'[h] = phase[h] /\ ~EnterGroup(h)
             /\ phase[g] = "idle" /\ pos' = pos /\ pos = Start[g] /\ ~Halted' /\ status' = status
  <2>1. Walking(Parent(g))
    BY <1>3 DEF EnterGroup, MayStart
  <2>2. ASSUME NEW h \in Groups, h # g PROVE phase'[h] = phase[h]
    BY <1>3, <2>2 DEF EnterGroup, TypeOK, Scopes
  <2>3. \A h \in Groups : h # g => ~EnterGroup(h)
    <3>1. at' = g
      BY <1>3 DEF EnterGroup
    <3> QED BY <3>1 DEF EnterGroup
  <2>4. phase[g] = "idle" /\ pos' = pos /\ pos = Start[g] /\ ~Halted' /\ status' = status
    BY <1>3, <2>1 DEF EnterGroup, Walking, Halted
  <2> QED BY <2>1, <2>2, <2>3, <2>4, EntersFrom
<1>4. ASSUME NEW g \in Groups, NEW h \in Groups, Active(g)', Active(h)' PROVE Nested(g, h)
  <2>1. CASE Active(g) /\ Active(h)
    BY <2>1 DEF ChainInv
  <2>2. CASE EnterGroup(g)
    BY <1>2, <1>3, <1>4, <2>2 DEF Nested, Above
  <2>3. CASE EnterGroup(h)
    BY <1>2, <1>3, <1>4, <2>3 DEF Nested, Above
  <2> QED BY <1>2, <1>4, <2>1, <2>2, <2>3
<1>5. ASSUME NEW g \in Groups, phase'[g] # "idle", NEW h \in Above(g)
      PROVE  phase'[h] \notin {"idle", "before"}
  <2>1. CASE EnterGroup(g)
    <3>1. phase[h] = "body" /\ h \in Groups /\ h # g
      BY <1>1, <1>3, <2>1
    <3> QED BY <1>3, <2>1, <3>1
  <2>2. CASE ~EnterGroup(g)
    <3>1. phase[g] # "idle" /\ h \in Groups
      BY <1>1, <1>5, <2>2, PhaseMoves
    <3>2. phase[h] \notin {"idle", "before"}
      BY <3>1 DEF ChainInv
    <3>3. ~EnterGroup(h)
      BY <3>2 DEF EnterGroup
    <3> QED BY <3>1, <3>2, <3>3, PhaseMoves
  <2> QED BY <2>1, <2>2
<1>6. ASSUME NEW g \in Groups, Active(g)' PROVE pos' <= End[g] + 1
  <2>1. CASE EnterGroup(g)
    BY <1>3, <2>1, RangeTypes
  <2> QED BY <1>2, <1>6, <2>1, CursorStaysInside
<1>7. ASSUME NEW g \in Groups, Active(g)', pos' \in Specs, status'[pos'] = "open" PROVE pos' <= End[g]
  <2>1. pos \in Int /\ pos' \in Int /\ pos <= pos'
    BY <1>1, NextAdvances, SizeAssumption DEF TypeOK, Advances, SizeAssumption
  <2>2. MovesStatus(pos')
    BY <1>7, StatusMoves
  <2>3. CASE status[pos'] = "open"
    <3>1. Halted /\ pos' = pos
      BY <1>7, <2>1, <2>3 DEF AheadInv
    <3>2. ~EnterGroup(g)
      BY <3>1 DEF EnterGroup, MayStart, Walking
    <3>3. Active(g)
      BY <1>2, <1>7, <3>2
    <3> QED BY <1>7, <2>3, <3>1, <3>3 DEF ChainInv
  <2>4. CASE status[pos'] # "open"
    <3>1. pos' = pos /\ Halted' /\ Walking(at) /\ at = ScopeOf(pos)
      BY <1>7, <2>1, <2>2, <2>4 DEF MovesStatus
    <3>2. Active(g)
      BY <1>2, <1>3, <1>7, <3>1
    <3>3. Contains(g, pos)
      BY <1>7, <3>1, <3>2, StartsInside
    <3> QED BY <3>1, <3>3 DEF Contains
  <2> QED BY <2>3, <2>4
<1> QED BY <1>4, <1>5, <1>6, <1>7 DEF ChainInv

\* What a step that makes a case does.
CaseMade(g) ==
  /\ mode.failFast => failFastStopped'
  /\ phase[g] \in {"before", "after", "drain"}
  /\ phase[g] = "before" => phase'[g] # "before"
  /\ \A h \in Groups : h # g => phase'[h] = phase[h]
  /\ \A j \in Specs : End[g] < j => status'[j] = status[j]

\* A case is made by a group that is in its hooks or cleanups, and cuts what comes after it.
LEMMA CaseMoves ==
  ASSUME TypeOK, [Next]_vars, NEW g \in Groups, Case(g)', ~Case(g)
  PROVE  CaseMade(g)
<1>1. /\ phase \in [Scopes -> Phases] /\ g \in Scopes /\ Groups \subseteq Scopes
      /\ beforeCases \in [Groups -> Nat] /\ afterCases \in [Groups -> Nat]
  BY DEF TypeOK, Scopes
<1>2. beforeCases'[g] = beforeCases[g] /\ afterCases'[g] = afterCases[g] => FALSE
  BY DEF Case
<1>3. CASE GroupNext(g)
  <2>1. CASE \/ EnterGroup(g) \/ FilterGroup(g) \/ BeforeAllsDone(g) \/ BeforeAllSkips(g)
             \/ HookParks(g) \/ HookResumes(g) \/ LeaveBody(g)
    BY <1>2, <2>1
       DEF EnterGroup, FilterGroup, BeforeAllsDone, BeforeAllSkips, HookParks, HookResumes, LeaveBody
  <2>2. ASSUME NEW o, BeforeAllReturns(g, o) PROVE FALSE
    BY <1>2, <2>2 DEF BeforeAllReturns
  <2>3. ASSUME NEW o, BeforeAllFails(g, o) PROVE CaseMade(g)
    <3>1. phase[g] = "before" /\ SuppressGroup(g) /\ ToAfter(g) /\ MarkFailFast(TRUE)
      BY <2>3 DEF BeforeAllFails, HookMayRun, SuppressGroup
    <3>2. phase'[g] # "before" /\ \A h \in Groups : h # g => phase'[h] = phase[h]
      BY <1>1, <3>1, ToAfterMoves
    <3>3. \A j \in Specs : End[g] < j => j \notin Start[g]..End[g]
      BY RangeTypes, SizeAssumption DEF Specs, SizeAssumption
    <3>4. \A j \in Specs : End[g] < j => status'[j] = status[j]
      BY <3>1, <3>3 DEF SuppressGroup, Report
    <3> QED BY <3>1, <3>2, <3>4 DEF CaseMade, MarkFailFast
  <2>4. ASSUME NEW o, AfterAll(g, o) PROVE CaseMade(g)
    <3>1. LastAfterAll(g) /\ (CountsAsFailed(g, o) \/ g \in accFailed)
      BY <1>2, <2>4 DEF AfterAll
    <3>2. /\ phase[g] = "after" /\ phase' = [phase EXCEPT ![g] = "drain"] /\ status' = status
          /\ mode.failFast => failFastStopped'
      BY <2>4, <3>1 DEF AfterAll, HookMayRun, MarkFailFast
    <3>3. \A h \in Groups : h # g => phase'[h] = phase[h]
      BY <1>1, <3>2
    <3> QED BY <3>2, <3>3 DEF CaseMade
  <2>5. ASSUME NEW c, FinishGroup(g, c) PROVE CaseMade(g)
    <3>1. CleanupCase(g, c)
      BY <1>2, <2>5 DEF FinishGroup
    <3>2. /\ phase[g] = "drain" /\ phase' = [phase EXCEPT ![g] = "done"] /\ status' = status
          /\ mode.failFast => failFastStopped'
      BY <2>5, <3>1 DEF FinishGroup, MarkFailFast
    <3>3. \A h \in Groups : h # g => phase'[h] = phase[h]
      BY <1>1, <3>2
    <3> QED BY <3>2, <3>3 DEF CaseMade
  <2> QED BY <1>3, <2>1, <2>2, <2>3, <2>4, <2>5 DEF GroupNext
<1>4. ASSUME NEW h \in Groups, h # g, GroupNext(h) PROVE FALSE
  BY <1>2, <1>4, OtherGroupKeeps DEF Keeps
<1>5. CASE SuiteNext \/ (\E s \in Scopes : CutRange(s)) \/ SpecNext \/ UNCHANGED vars
  BY <1>2, <1>5, OthersKeep DEF Keeps
<1> QED BY <1>3, <1>4, <1>5 DEF Next

\* A group in its BeforeAlls was in them before the step, or is entered by it.
LEMMA BeforeMoves ==
  ASSUME TypeOK, CursorInv, [Next]_vars, NEW g \in Groups, phase'[g] = "before"
  PROVE  phase[g] = "before" \/ (~failFastStopped /\ UNCHANGED <<status, beforeCases, afterCases>>)
<1>1. CASE Settles
  BY <1>1 DEF Settles
<1>2. ASSUME NEW h \in Groups, EnterGroup(h)
      PROVE  ~failFastStopped /\ UNCHANGED <<status, beforeCases, afterCases>>
  BY <1>2 DEF EnterGroup, MayStart
<1> QED BY <1>1, <1>2, NextSettles

LEMMA CutInit == Init => CutInv /\ FailFastCutsTheRest
<1> SUFFICES ASSUME Init PROVE CutInv /\ FailFastCutsTheRest
  OBVIOUS
<1>1. ~Reported /\ \A g \in Groups : phase[g] # "before"
  BY DEF Init, Reported, Case, Scopes, Groups, Root
<1>2. \A i \in Specs : status[i] = "none"
  BY DEF Init
<1> QED BY <1>1, <1>2 DEF CutInv, FailFastCutsTheRest

LEMMA CutNext ==
  TypeOK /\ CursorInv /\ BatchInv /\ ChainInv /\ CutInv /\ [Next]_vars => CutInv'
<1> SUFFICES ASSUME TypeOK, CursorInv, BatchInv, ChainInv, CutInv, [Next]_vars, mode.failFast
             PROVE  /\ Reported' => failFastStopped'
                    /\ \A g \in Groups : phase'[g] = "before" =>
                         /\ \A i \in Specs : status'[i] # "fail"
                         /\ \A h \in Groups : Case(h)' => End[g] <= End[h]
  BY SuiteMoves DEF CutInv
<1>1. ASSUME NEW i \in Specs, status'[i] = "fail", status[i] # "fail"
      PROVE  failFastStopped' /\ Walking(at)
  BY <1>1, StatusMoves DEF MovesStatus, FailsAt
<1>2. Reported' => failFastStopped'
  <2>1. Reported => failFastStopped'
    BY NextRemembers DEF CutInv, Remembers
  <2> QED BY <1>1, <2>1, CaseMoves DEF Reported, CaseMade
<1>3. ASSUME NEW g \in Groups, phase'[g] = "before"
      PROVE  /\ \A i \in Specs : status'[i] # "fail"
             /\ \A h \in Groups : Case(h)' => End[g] <= End[h]
  <2>1. CASE phase[g] = "before"
    <3>1. \A i \in Specs : status'[i] # "fail"
      BY <1>1, <2>1, WalkingIsPastBefore DEF CutInv
    <3>2. ASSUME NEW h \in Groups, Case(h)', ~Case(h) PROVE End[g] <= End[h]
      <4>1. CaseMade(h)
        BY <3>2, CaseMoves
      <4>2. h # g /\ Active(h) /\ Active(g)
        BY <1>3, <2>1, <4>1 DEF CaseMade, Active
      <4>3. Encloses(h, g)
        BY <2>1, <4>2 DEF ChainInv, Nested, Above, Active
      <4> QED BY <4>3 DEF Encloses
    <3> QED BY <2>1, <3>1, <3>2 DEF CutInv
  <2>2. CASE ~failFastStopped /\ UNCHANGED <<status, beforeCases, afterCases>>
    BY <2>2 DEF CutInv, Reported, Case
  <2> QED BY <1>3, <2>1, <2>2, BeforeMoves
<1> QED BY <1>2, <1>3

LEMMA CutsTheRestNext ==
  TypeOK /\ CursorInv /\ BatchInv /\ AheadInv /\ ChainInv /\ CutInv /\ FailFastCutsTheRest /\ [Next]_vars
    => FailFastCutsTheRest'
<1> DEFINE Cut(j) == status'[j] \in {"none", "unstarted"}
<1> SUFFICES ASSUME TypeOK, CursorInv, BatchInv, AheadInv, ChainInv, CutInv, FailFastCutsTheRest,
                    [Next]_vars, mode.failFast
             PROVE  /\ \A i, j \in Specs : status'[i] = "fail" /\ i < j /\ ~SameBatch(i, j) => Cut(j)
                    /\ \A g \in Groups, j \in Specs : Case(g)' /\ End[g] < j => Cut(j)
  BY SuiteMoves DEF FailFastCutsTheRest, SameBatch, Case
<1>1. pos \in Int /\ \A i \in Specs : i \in Int
  BY SizeAssumption DEF TypeOK, Specs, SizeAssumption
<1>2. ASSUME NEW j \in Specs, status[j] \in {"none", "unstarted"}, failFastStopped, ~Cut(j)
      PROVE  \E h \in Groups : phase[h] = "before" /\ Contains(h, j)
  BY <1>2, StatusMoves DEF MovesStatus
<1>3. ASSUME NEW i \in Specs, NEW j \in Specs, status'[i] = "fail", i < j, ~SameBatch(i, j) PROVE Cut(j)
  <2>1. CASE status[i] = "fail"
    <3>1. status[j] \in {"none", "unstarted"} /\ failFastStopped
      BY <1>3, <2>1 DEF FailFastCutsTheRest, SameBatch, CutInv, Reported
    <3>2. \A h \in Groups : phase[h] # "before"
      BY <2>1 DEF CutInv
    <3> QED BY <1>2, <3>1, <3>2
  <2>2. CASE status[i] # "fail"
    <3>1. pos <= i /\ i < pos' /\ FailsAt(i)
      BY <1>3, <2>2, StatusMoves DEF MovesStatus
    <3>2. ~(j < pos')
      BY <1>1, <1>3, <3>1 DEF FailsAt
    <3>3. status[j] = "none" /\ j # pos
      BY <1>1, <1>3, <3>1 DEF AheadInv
    <3> QED BY <3>2, <3>3, StatusMoves DEF MovesStatus
  <2> QED BY <2>1, <2>2
<1>4. ASSUME NEW g \in Groups, NEW j \in Specs, Case(g)', End[g] < j PROVE Cut(j)
  <2>1. CASE Case(g)
    <3>1. status[j] \in {"none", "unstarted"} /\ failFastStopped
      BY <1>4, <2>1 DEF FailFastCutsTheRest, CutInv, Reported, Case
    <3>2. ASSUME NEW h \in Groups, phase[h] = "before" PROVE ~Contains(h, j)
      <4>1. End[h] <= End[g]
        BY <2>1, <3>2 DEF CutInv
      <4> QED BY <1>1, <1>4, <4>1, RangeTypes DEF Contains
    <3> QED BY <1>2, <3>1, <3>2
  <2>2. CASE ~Case(g)
    <3>1. CaseMade(g)
      BY <1>4, <2>2, CaseMoves
    <3>2. status'[j] = status[j] /\ Active(g)
      BY <1>4, <3>1 DEF CaseMade, Active
    <3>3. pos <= j
      <4>1. pos <= End[g] + 1
        BY <3>2 DEF ChainInv
      <4> QED BY <1>1, <1>4, <4>1, RangeTypes
    <3>4. ~(j = pos /\ status[j] = "open")
      BY <1>1, <1>4, <3>2, RangeTypes DEF ChainInv
    <3> QED BY <3>2, <3>3, <3>4 DEF AheadInv
  <2> QED BY <2>1, <2>2
<1> QED BY <1>3, <1>4

\* H9, for every plan: with FailFast nothing starts after a failed spec or hook case, except in the
\* batch that was in flight.
THEOREM FailFastAlwaysCutsTheRest == Spec => []FailFastCutsTheRest
<1> DEFINE IInv == /\ TypeOK /\ CursorInv /\ WalkInv /\ BatchInv /\ AheadInv /\ ChainInv
                   /\ CutInv /\ FailFastCutsTheRest
<1>1. Init => IInv
  BY TypeInit, CursorInit, WalkInit, BatchInit, AheadInit, ChainInit, CutInit
<1>2. IInv /\ [Next]_vars => IInv'
  BY TypeNext, CursorNext, WalkNext, BatchNext, AheadNext, ChainNext, CutNext, CutsTheRestNext
<1> QED BY <1>1, <1>2, PTL DEF Spec
=============================================================================

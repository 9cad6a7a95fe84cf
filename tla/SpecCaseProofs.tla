---------------------------- MODULE SpecCaseProofs ----------------------------
(***************************************************************************)
(* Proofs about SpecCase, for any number of specs, hooks and tasks, either *)
(* backend and any ways in which user code may end.                        *)
(***************************************************************************)
EXTENDS SpecCase, SequenceTheorems, FiniteSetTheorems, TLAPS

GoState(n) ==
  [used : BOOLEAN, wg : 0..Cardinality(Tasks), rec : 0..n, panic : 0..n,
   panicReported : BOOLEAN, replayed : BOOLEAN, closed : BOOLEAN,
   list : Seq(1..MaxCleanups), cleanupsDone : BOOLEAN, pending : Seq(0..n)]
ReportRecord(n) ==
  [failed : BOOLEAN, skipped : BOOLEAN, filtered : BOOLEAN, message : 0..n,
   output : BOOLEAN, how : {"filtered", "returned", "exited", "abandoned"}]
TaskRecord == [state : {"new", "running", "done"}, of : 0..NCases, wrapper : 0..NCases, stage : 0..3]

\* TypeOK in parts.
ControlType ==
  /\ case \in 1..(NCases + 1)
  /\ at \in {"start", "body", "settle", "after", "settleLast", "drain", "cleanup", "end"}
  /\ hook \in 0..NAfter /\ how \in {"returned", "exited", "abandoned"}
IdType(n) ==
  /\ message \in 0..n /\ failure \in [failed : BOOLEAN, message : 0..n]
  /\ gs \in GoState(n) /\ told \in Seq((0..n) \X Cases) /\ reports \in Seq(ReportRecord(n))
OtherType ==
  /\ tasks \in [Tasks -> TaskRecord]
  /\ bound \in [Cases -> 0..NCases] /\ tFailed \subseteq Cases /\ tSkipped \subseteq Cases
  /\ cleanups \in Seq(Cases) /\ ran \in Seq(1..MaxCleanups)
CountOK == gs.wg = Cardinality({t \in Tasks : Running(t)})

\* Where a case and its tasks are.  A subtest holds its wrapper until it is reported.
PlaceInv ==
  /\ at # "start" => case \in Cases
  /\ at \in {"body", "settle"} => hook = 0
  /\ at = "after" => hook < NAfter
  /\ \A t \in Tasks : Running(t) => tasks[t].of \in 1..case /\ (OnT => tasks[t].wrapper \in Cases)
  /\ \A w \in Cases : bound[w] # 0 => bound[w] = case /\ at # "start"
  /\ OnT /\ at # "start" => \E w \in Cases : bound[w] = case

TypeInv == ControlType /\ log \in Seq(Failures) /\ IdType(Len(log)) /\ OtherType /\ CountOK /\ PlaceInv

\* A Goexit in an AfterEach hook gave up this case or one before it.
Abandoned(c) == \E d \in DOMAIN reports : d <= c /\ reports[d].how = "abandoned"
Quiet        == \A t \in Tasks : ~Running(t)
Drained      == at \in {"drain", "cleanup"} \/ (at = "end" /\ how # "abandoned")

\* A case settles when no task runs; only an abandoned case leaves tasks behind.
TaskInv ==
  /\ Len(reports) = case - 1
  /\ \A t \in Tasks : Running(t) =>
       /\ tasks[t].of < case => Abandoned(tasks[t].of)
       /\ at = "start" => tasks[t].of < case
       /\ at = "after" => tasks[t].stage = 2
  /\ Drained => Quiet
  /\ how = "abandoned" => at \in {"start", "end"}
  /\ ~gs.used => gs.list = <<>>
  /\ at = "cleanup" => gs.closed
  /\ at = "drain" => gs.closed \/ gs.list = <<>>

\* The cleanups of the current case that have not run are on the list, once.
CleanupInv ==
  /\ \A i, j \in DOMAIN ran : ran[i] = ran[j] => i = j
  /\ \A i, j \in DOMAIN gs.list : gs.list[i] = gs.list[j] => i = j
  /\ \A i \in DOMAIN ran : ran[i] <= Len(cleanups)
  /\ \A i \in DOMAIN gs.list : gs.list[i] <= Len(cleanups)
  /\ \A i \in DOMAIN ran, j \in DOMAIN gs.list : ran[i] # gs.list[j]
  /\ \A i \in DOMAIN cleanups :
       /\ cleanups[i] <= case /\ (at = "start" => cleanups[i] < case)
       /\ \/ \E j \in DOMAIN ran : ran[j] = i
          \/ cleanups[i] = case /\ \E j \in DOMAIN gs.list : gs.list[j] = i
          \/ cleanups[i] < case /\ Abandoned(cleanups[i])
  /\ at = "end" /\ how # "abandoned" => gs.list = <<>>

Clean == \A d \in DOMAIN reports : reports[d].how # "abandoned"
Own(n) == n = 0 \/ n \in FailuresOf(case)
Kept == failure.failed \/ (OnT /\ case \in tFailed) \/ gs.rec # 0 \/ gs.panic # 0 \/ gs.pending # <<>>

\* What failed, and the tests that did, are not of later cases; a wrapper stays with its case's tasks.
PastInv ==
  /\ \A i \in DOMAIN log : log[i].of <= case /\ (at = "start" => log[i].of < case)
  /\ \A c \in tFailed : c <= case /\ (at = "start" => c < case)
  /\ \A t \in Tasks : Running(t) /\ tasks[t].of = case /\ OnT => bound[tasks[t].wrapper] = case

\* While no case was abandoned, the Context holds a failure exactly when the current case has one.
NowOK ==
  /\ Kept <=> FailuresOf(case) # {}
  /\ Own(message) /\ Own(failure.message) /\ Own(gs.rec) /\ Own(gs.panic)
  /\ \A i \in DOMAIN gs.pending : gs.pending[i] \in FailuresOf(case)
  /\ gs.panicReported => failure.failed
  /\ Drained /\ (gs.rec # 0 \/ gs.panic # 0) => failure.failed
  /\ at = "end" /\ how # "abandoned" => gs.pending = <<>>
ChargeInv == PastInv /\ ChargedToItsSpec /\ (Clean /\ at # "start" => NowOK)

\* What is still to be delivered has not been, and is listed once.
Elems(s)    == {s[i] : i \in DOMAIN s}
Distinct(s) == \A i, j \in DOMAIN s : s[i] = s[j] => i = j
Told        == {told[i][1] : i \in DOMAIN told}
DueInv ==
  /\ \A i, j \in DOMAIN told : told[i][1] = told[j][1] => i = j
  /\ gs.panic # 0 /\ ~gs.panicReported => gs.panic \notin Told
  /\ ~OnT =>
       /\ Distinct(gs.pending) /\ Elems(gs.pending) \cap (Told \cup {0, gs.rec, gs.panic}) = {}
       /\ gs.rec # 0 => (gs.replayed \/ gs.rec \notin Told) /\ gs.rec # gs.panic

\* An Errorf is delivered to its case, or about to be while the case runs.
ErrorfOK(f) ==
  \/ Abandoned(log[f].of)
  \/ \E i \in DOMAIN told : told[i] = <<f, log[f].of>>
  \/ ~OnT /\ log[f].of = case /\ at # "start" /\ f \in Elems(gs.pending)
DeliverInv == DueInv /\ \A f \in DOMAIN log : log[f].kind = "errorf" => ErrorfOK(f)

-----------------------------------------------------------------------------
(* Sequences, and the count of the running tasks.                          *)

LEMMA Appended ==
  ASSUME NEW S, NEW s \in Seq(S), NEW x \in S
  PROVE  /\ Append(s, x) \in Seq(S)
         /\ Len(s) \in Nat /\ DOMAIN s = 1..Len(s)
         /\ Len(Append(s, x)) = Len(s) + 1 /\ DOMAIN Append(s, x) = 1..(Len(s) + 1)
         /\ \A i \in 1..Len(s) : Append(s, x)[i] = s[i]
         /\ Append(s, x)[Len(s) + 1] = x
<1>1. Append(s, x) \in Seq(S) /\ Len(Append(s, x)) = Len(s) + 1
  OBVIOUS
<1>2. Len(s) \in Nat /\ DOMAIN s = 1..Len(s) /\ DOMAIN Append(s, x) = 1..(Len(s) + 1)
  BY <1>1, LenProperties
<1> QED BY <1>1, <1>2

LEMMA Typing == TypeOK <=> ControlType /\ log \in Seq(Failures) /\ IdType(Len(log)) /\ OtherType /\ CountOK
  BY DEF TypeOK, ControlType, IdType, OtherType, CountOK, Ids, GoState, ReportRecord, TaskRecord

\* What is typed by the failures so far is typed by more.
LEMMA IdsGrow ==
  ASSUME NEW n \in Nat, IdType(n)
  PROVE  IdType(n + 1)
<1>1. 0..n \subseteq 0..(n + 1)
  OBVIOUS
<1>2. gs \in GoState(n + 1)
  <2>1. gs \in GoState(n)
    BY DEF IdType
  <2>2. gs.pending \in Seq(0..(n + 1))
    BY <1>1, <2>1, SeqMonotonic DEF GoState
  <2> QED BY <1>1, <2>1, <2>2 DEF GoState
<1>3. told \in Seq((0..(n + 1)) \X Cases)
  BY <1>1, SeqMonotonic DEF IdType
<1>4. reports \in Seq(ReportRecord(n + 1))
  <2>1. ReportRecord(n) \subseteq ReportRecord(n + 1)
    BY <1>1 DEF ReportRecord
  <2> QED BY <2>1, SeqMonotonic DEF IdType
<1> QED BY <1>1, <1>2, <1>3, <1>4 DEF IdType

LEMMA LogGrows ==
  ASSUME TypeInv, NEW f \in Failures, log' = Append(log, f)
  PROVE  /\ Len(log) \in Nat /\ NewId = Len(log) + 1 /\ NewId \in 1..NewId /\ NewId \in 0..NewId
         /\ Len(log') = NewId /\ log' \in Seq(Failures)
         /\ DOMAIN log = 1..Len(log) /\ DOMAIN log' = 1..NewId
         /\ \A i \in 1..Len(log) : log'[i] = log[i]
         /\ log'[NewId] = f
         /\ IdType(NewId)
<1>1. log \in Seq(Failures)
  BY DEF TypeInv
<1>2. Len(log) \in Nat
  BY <1>1
<1> QED BY <1>1, <1>2, Appended, IdsGrow DEF TypeInv, NewId

LEMMA CountType ==
  ASSUME OtherType
  PROVE  /\ IsFiniteSet({t \in Tasks : Running(t)})
         /\ Cardinality({t \in Tasks : Running(t)}) \in 0..Cardinality(Tasks)
<1>1. IsFiniteSet(Tasks)
  BY CaseAssumption
<1> QED BY <1>1, FS_Subset, FS_CardinalityType

LEMMA OneMore ==
  ASSUME OtherType, CountOK, NEW t \in Tasks, ~Running(t), OtherType',
         \A u \in Tasks : Running(u)' <=> Running(u) \/ u = t, gs'.wg = gs.wg + 1
  PROVE  CountOK' /\ gs'.wg \in 0..Cardinality(Tasks)
<1> DEFINE R == {u \in Tasks : Running(u)}
<1>1. IsFiniteSet(R) /\ Cardinality(R) = gs.wg
  BY CountType DEF CountOK
<1>2. {u \in Tasks : Running(u)}' = R \cup {t}
  OBVIOUS
<1>3. Cardinality(R \cup {t}) = gs.wg + 1
  BY <1>1, FS_AddElement
<1>4. CountOK'
  BY <1>2, <1>3 DEF CountOK
<1>5. Cardinality(R \cup {t}) \in 0..Cardinality(Tasks)
  BY CaseAssumption, FS_Subset, FS_CardinalityType
<1> QED BY <1>3, <1>4, <1>5

LEMMA OneLess ==
  ASSUME OtherType, CountOK, NEW t \in Tasks, Running(t), OtherType',
         \A u \in Tasks : Running(u)' <=> Running(u) /\ u # t, gs'.wg = gs.wg - 1
  PROVE  CountOK' /\ gs'.wg \in 0..Cardinality(Tasks)
<1> DEFINE R == {u \in Tasks : Running(u)}
<1>1. IsFiniteSet(R) /\ Cardinality(R) = gs.wg
  BY CountType DEF CountOK
<1>2. {u \in Tasks : Running(u)}' = R \ {t}
  OBVIOUS
<1>3. Cardinality(R \ {t}) = gs.wg - 1
  BY <1>1, FS_RemoveElement
<1>4. CountOK'
  BY <1>2, <1>3 DEF CountOK
<1>5. Cardinality(R \ {t}) \in 0..Cardinality(Tasks)
  BY CaseAssumption, FS_Subset, FS_CardinalityType
<1> QED BY <1>3, <1>4, <1>5

LEMMA NoneRuns ==
  ASSUME OtherType, CountOK, TasksDone
  PROVE  Quiet
<1>1. IsFiniteSet({t \in Tasks : Running(t)})
  BY CountType
<1>2. {t \in Tasks : Running(t)} = {}
  BY <1>1, FS_EmptySet DEF CountOK, TasksDone
<1> QED BY <1>2 DEF Quiet

-----------------------------------------------------------------------------
(* Types.                                                                  *)

LEMMA InitType == Init => TypeInv
<1> SUFFICES ASSUME Init PROVE TypeInv
  OBVIOUS
<1>1. Len(log) = 0 /\ log \in Seq(Failures)
  BY DEF Init
<1>2. ControlType
  BY CaseAssumption DEF ControlType, Init
<1>3. Cardinality({t \in Tasks : Running(t)}) = 0
  <2>1. {t \in Tasks : Running(t)} = {}
    BY DEF Init, Running
  <2> QED BY <2>1, FS_EmptySet
<1>4. Cardinality(Tasks) \in Nat
  BY CaseAssumption, FS_CardinalityType
<1>5. IdType(Len(log))
  BY <1>1, <1>4 DEF IdType, Init, NoFailure, FreshState, GoState
<1>6. OtherType
  BY CaseAssumption DEF OtherType, Init, TaskRecord, Cases
<1>7. CountOK
  BY <1>3 DEF CountOK, Init, FreshState
<1>8. PlaceInv
  BY DEF PlaceInv, Init, Running
<1> QED BY <1>1, <1>2, <1>5, <1>6, <1>7, <1>8 DEF TypeInv

LEMMA RecycledType ==
  ASSUME NEW n \in Nat, gs \in GoState(n)
  PROVE  /\ Recycled(gs) \in GoState(n) /\ Recycled(gs).wg = gs.wg /\ Recycled(gs).used = gs.used
         /\ Recycled(gs).rec = 0 /\ Recycled(gs).panic = 0 /\ Recycled(gs).pending = <<>>
         /\ Recycled(gs).list = <<>> /\ ~Recycled(gs).panicReported /\ ~Recycled(gs).replayed
<1>1. gs.used \in BOOLEAN /\ gs.wg \in 0..Cardinality(Tasks)
  BY DEF GoState
<1>2. FreshState \in GoState(n)
  <2>1. <<>> \in Seq(1..MaxCleanups) /\ <<>> \in Seq(0..n) /\ 0 \in 0..n
    OBVIOUS
  <2>2. 0 \in 0..Cardinality(Tasks)
    BY CaseAssumption, FS_CardinalityType
  <2> QED BY <2>1, <2>2 DEF FreshState, GoState
<1>3. /\ FreshState.rec = 0 /\ FreshState.panic = 0 /\ FreshState.pending = <<>> /\ FreshState.list = <<>>
      /\ ~FreshState.panicReported /\ ~FreshState.replayed
  BY DEF FreshState
<1> QED BY <1>1, <1>2, <1>3 DEF GoState, Recycled

LEMMA StartCaseType == TypeInv /\ StartCase => TypeInv'
<1> SUFFICES ASSUME TypeInv, StartCase PROVE TypeInv'
  OBVIOUS
<1> USE DEF TypeInv, StartCase
<1>1. log' = log /\ Len(log) \in Nat /\ reports' = reports /\ tasks' = tasks
  BY DEF history
<1>2. gs' \in GoState(Len(log)) /\ gs'.wg = gs.wg
  BY <1>1, RecycledType DEF IdType
<1>3. ControlType'
  BY CaseAssumption DEF ControlType
<1>4. IdType(Len(log))'
  BY <1>1, <1>2 DEF IdType, NoFailure
<1>5. OtherType'
  <2>1. bound' \in [Cases -> 0..NCases]
    <3>1. CASE OnT
      <4>1. PICK w \in 1..case : bound' = [bound EXCEPT ![w] = case]
        BY <3>1
      <4> QED BY <4>1, CaseAssumption DEF OtherType, Cases
    <3> QED BY <3>1 DEF OtherType
  <2> QED BY <2>1 DEF OtherType, history
<1>6. CountOK'
  BY <1>1, <1>2 DEF CountOK, Running
<1>7. PlaceInv'
  <2>1. \A w \in Cases : bound[w] = 0
    BY DEF PlaceInv
  <2>2. /\ \A w \in Cases : bound'[w] # 0 => bound'[w] = case
        /\ OnT => \E w \in Cases : bound'[w] = case
    <3>1. CASE OnT
      <4>1. PICK w \in 1..case : bound' = [bound EXCEPT ![w] = case]
        BY <3>1
      <4>2. w \in Cases
        BY CaseAssumption, <4>1 DEF Cases
      <4> QED BY <2>1, <4>1, <4>2 DEF OtherType
    <3> QED BY <3>1, <2>1
  <2> QED BY <1>1, <2>2 DEF PlaceInv, Running
<1> QED BY <1>1, <1>3, <1>4, <1>5, <1>6, <1>7

\* A case that ends, filtered or reported, leaves a recycled Context.
LEMMA NextCaseType ==
  ASSUME TypeInv, case \in Cases, case' = case + 1, at' = "start", UNCHANGED <<hook, how, message>>,
         failure' = NoFailure, gs' = Recycled(gs), UNCHANGED <<tasks, tFailed, tSkipped, told, history>>,
         NEW r \in ReportRecord(Len(log)), reports' = Append(reports, r),
         bound' \in [Cases -> 0..NCases], \A w \in Cases : bound'[w] = 0
  PROVE  TypeInv'
<1> USE DEF TypeInv
<1>1. log' = log /\ Len(log) \in Nat
  BY DEF history
<1>2. gs' \in GoState(Len(log)) /\ gs'.wg = gs.wg
  BY <1>1, RecycledType DEF IdType
<1>3. ControlType'
  BY CaseAssumption DEF ControlType, Cases
<1>4. IdType(Len(log))'
  BY <1>1, <1>2 DEF IdType, NoFailure
<1>5. OtherType'
  BY DEF OtherType, history
<1>6. CountOK'
  BY <1>2 DEF CountOK, Running
<1>7. PlaceInv'
  BY DEF PlaceInv, Running, ControlType
<1> QED BY <1>1, <1>3, <1>4, <1>5, <1>6, <1>7

LEMMA FilterCaseType == TypeInv /\ FilterCase => TypeInv'
<1> SUFFICES ASSUME TypeInv, FilterCase PROVE TypeInv'
  OBVIOUS
<1> DEFINE r == [failed |-> FALSE, skipped |-> FALSE, filtered |-> TRUE,
                 message |-> 0, output |-> FALSE, how |-> "filtered"]
<1>1. r \in ReportRecord(Len(log))
  <2>1. Len(log) \in Nat
    BY DEF TypeInv
  <2> QED BY <2>1 DEF ReportRecord
<1>2. bound' = bound /\ \A w \in Cases : bound[w] = 0
  BY DEF TypeInv, PlaceInv, FilterCase, testing
<1> QED BY <1>1, <1>2, NextCaseType DEF FilterCase, testing, TypeInv, OtherType

LEMMA EndCaseType == TypeInv /\ EndCase => TypeInv'
<1> SUFFICES ASSUME TypeInv, EndCase PROVE TypeInv'
  OBVIOUS
<1> DEFINE panic == IF how = "returned" THEN message ELSE 0
           r == [failed |-> Failed, skipped |-> OnT /\ case \in tSkipped /\ ~Failed, filtered |-> FALSE,
                 message |-> IF panic # 0 \/ ~Failed THEN panic ELSE failure.message,
                 output |-> panic # 0, how |-> how]
<1>1. r \in ReportRecord(Len(log))
  <2>1. message \in 0..Len(log) /\ failure.message \in 0..Len(log) /\ failure.failed \in BOOLEAN
    BY DEF TypeInv, IdType
  <2>2. Failed \in BOOLEAN /\ (OnT /\ case \in tSkipped /\ ~Failed) \in BOOLEAN
    BY <2>1 DEF Failed
  <2>3. Len(log) \in Nat /\ how \in {"returned", "exited", "abandoned"}
    BY DEF TypeInv, ControlType
  <2> QED BY <2>1, <2>2, <2>3 DEF ReportRecord
<1>2. bound' \in [Cases -> 0..NCases] /\ \A w \in Cases : bound'[w] = 0
  <2>1. bound' = [w \in Cases |-> IF bound[w] = case THEN 0 ELSE bound[w]]
    BY DEF EndCase
  <2> QED BY <2>1, CaseAssumption DEF TypeInv, OtherType, PlaceInv
<1>3. case \in Cases
  BY DEF EndCase, TypeInv, PlaceInv
<1> QED BY <1>1, <1>2, <1>3, NextCaseType DEF EndCase

LEMMA SpecGoType == ASSUME TypeInv, NEW t \in Tasks, SpecGo(t) PROVE TypeInv'
<1> USE DEF TypeInv, SpecGo, testing, history
<1>1. Wrapper \in Cases \/ ~OnT
  BY DEF PlaceInv, Wrapper, InUserCode
<1>2. case \in Cases /\ case \in 1..NCases
  BY DEF PlaceInv, InUserCode, Cases
<1>3. OtherType'
  <2>1. Stage \in 0..3 /\ NCases \in Nat
    BY CaseAssumption DEF Stage
  <2>2. [state |-> "running", of |-> case, stage |-> Stage, wrapper |-> IF OnT THEN Wrapper ELSE 0] \in TaskRecord
    BY <1>1, <1>2, <2>1 DEF TaskRecord, Cases
  <2>3. tasks' \in [Tasks -> TaskRecord]
    BY <2>2 DEF OtherType
  <2> QED BY <2>3 DEF OtherType
<1>4. \A u \in Tasks : Running(u)' <=> Running(u) \/ u = t
  BY DEF Running, OtherType
<1>5. gs'.wg = gs.wg + 1
  BY DEF IdType, GoState
<1>6. CountOK' /\ gs'.wg \in 0..Cardinality(Tasks)
  BY <1>3, <1>4, <1>5, OneMore DEF Running
<1>7. IdType(Len(log))'
  BY <1>5, <1>6 DEF IdType, GoState
<1>8. PlaceInv'
  <2>1. /\ tasks'[t].of = case /\ (OnT => tasks'[t].wrapper \in Cases)
        /\ \A u \in Tasks : u # t => tasks'[u] = tasks[u]
    BY <1>1 DEF OtherType
  <2>2. \A u \in Tasks : Running(u)' => tasks'[u].of \in 1..case /\ (OnT => tasks'[u].wrapper \in Cases)
    BY <1>2, <1>4, <2>1 DEF PlaceInv, Cases
  <2> QED BY <2>2 DEF PlaceInv
<1> QED BY <1>3, <1>6, <1>7, <1>8 DEF ControlType

LEMMA TaskGoType == ASSUME TypeInv, NEW u \in Tasks, NEW t \in Tasks, TaskGo(u, t) PROVE TypeInv'
<1> USE DEF TypeInv, TaskGo, testing, history
<1>1. Stage \in 0..3
  BY DEF Stage
<1>2. tasks'[t] = [tasks[u] EXCEPT !.stage = Stage] /\ \A v \in Tasks : v # t => tasks'[v] = tasks[v]
  BY DEF OtherType
<1>3. /\ tasks[u] \in TaskRecord /\ tasks'[t] \in TaskRecord
      /\ tasks'[t].state = tasks[u].state /\ tasks'[t].of = tasks[u].of /\ tasks'[t].wrapper = tasks[u].wrapper
  <2>1. tasks[u] \in TaskRecord
    BY DEF OtherType
  <2> QED BY <1>1, <1>2, <2>1 DEF TaskRecord
<1>4. OtherType'
  BY <1>2, <1>3 DEF OtherType
<1>5. \A v \in Tasks : Running(v)' <=> Running(v) \/ v = t
  BY <1>2, <1>3 DEF Running
<1>6. gs'.wg = gs.wg + 1
  BY DEF IdType, GoState
<1>7. CountOK' /\ gs'.wg \in 0..Cardinality(Tasks)
  BY <1>4, <1>5, <1>6, OneMore DEF Running
<1>8. IdType(Len(log))'
  BY <1>6, <1>7 DEF IdType, GoState
<1>9. PlaceInv'
  BY <1>2, <1>3, <1>5 DEF PlaceInv, Running
<1> QED BY <1>4, <1>7, <1>8, <1>9 DEF ControlType

LEMMA RegisterType == ASSUME TypeInv, NEW c \in Cases, Register(c) PROVE TypeInv'
<1> USE DEF TypeInv, Register, testing
<1>1. Len(cleanups) \in Nat /\ Len(cleanups) + 1 \in 1..MaxCleanups
  BY CaseAssumption DEF OtherType
<1>2. cleanups' \in Seq(Cases)
  BY DEF OtherType
<1>3. Append(gs.list, Len(cleanups) + 1) \in Seq(1..MaxCleanups)
  BY <1>1 DEF IdType, GoState
<1>4. IdType(Len(log))' /\ gs'.wg = gs.wg
  BY <1>3 DEF IdType, GoState
<1>5. OtherType' /\ CountOK'
  BY <1>2, <1>4 DEF OtherType, CountOK, Running
<1>6. PlaceInv'
  BY DEF PlaceInv, Running
<1> QED BY <1>4, <1>5, <1>6 DEF ControlType

LEMMA QueueType ==
  ASSUME TypeInv, NEW c \in Cases, NEW by \in {"spec", "task"}, NEW to, OnT => to \in Cases, Queue(c, by, to)
  PROVE  TypeInv'
<1> USE DEF Queue
<1>1. Failure("errorf", c, by) \in Failures
  BY DEF Failures, Failure, Stage
<1>2. /\ Len(log') = NewId /\ log' \in Seq(Failures) /\ NewId \in 0..NewId /\ IdType(NewId)
  BY <1>1, LogGrows
<1>3. gs' \in GoState(NewId) /\ gs'.wg = gs.wg
  <2>1. gs \in GoState(NewId)
    BY <1>2 DEF IdType
  <2>2. Append(gs.pending, NewId) \in Seq(0..NewId)
    BY <1>2, <2>1 DEF GoState
  <2> QED BY <2>1, <2>2 DEF GoState
<1>4. told' \in Seq((0..NewId) \X Cases)
  BY <1>2 DEF IdType
<1>5. IdType(Len(log))'
  BY <1>2, <1>3, <1>4 DEF IdType
<1>6. OtherType'
  BY DEF OtherType, TypeInv
<1>7. CountOK' /\ PlaceInv' /\ ControlType'
  BY <1>3 DEF CountOK, PlaceInv, ControlType, Running, TypeInv
<1> QED BY <1>2, <1>5, <1>6, <1>7 DEF TypeInv

LEMMA EarlyErrorfType == TypeInv /\ EarlyErrorf => TypeInv'
<1> SUFFICES ASSUME TypeInv, EarlyErrorf PROVE TypeInv'
  OBVIOUS
<1> USE DEF EarlyErrorf
<1>1. case \in Cases
  BY DEF TypeInv, PlaceInv, InUserCode
<1>2. Failure("early", case, "spec") \in Failures
  BY <1>1 DEF Failures, Failure, Stage
<1>3. /\ Len(log') = NewId /\ log' \in Seq(Failures) /\ NewId \in 0..NewId /\ IdType(NewId)
  BY <1>2, LogGrows
<1>4. IdType(Len(log))'
  BY <1>1, <1>3 DEF IdType
<1>5. OtherType'
  BY <1>1 DEF OtherType, TypeInv
<1>6. CountOK' /\ PlaceInv' /\ ControlType'
  BY DEF CountOK, PlaceInv, ControlType, Running, TypeInv
<1> QED BY <1>3, <1>4, <1>5, <1>6 DEF TypeInv

LEMMA TaskEndsType ==
  ASSUME TypeInv, NEW t \in Tasks, NEW out \in Endings, TaskEnds(t, out)
  PROVE  TypeInv'
<1> DEFINE lost == \/ OnT /\ out = "fatal" /\ ~Reaches(t)
                   \/ OnT /\ out \in {"error", "failnow"} /\ tasks[t].of # case
           panicked == out = "panic" \/ lost
           failing  == out \notin {"ok", "skip"}
           reported == OnT /\ failing /\ ~panicked
           f == Failure(IF panicked THEN "panic" ELSE out, tasks[t].of, "task")
<1> USE DEF TaskEnds
<1>1. Running(t) /\ tasks[t].of \in Cases /\ (OnT => tasks[t].wrapper \in Cases)
  BY DEF TypeInv, PlaceInv, OtherType, TaskRecord, Cases
<1>2. tasks' = [tasks EXCEPT ![t].state = "done"]
  OBVIOUS
<1>3. f \in Failures
  <2>1. (IF panicked THEN "panic" ELSE out) \in Endings
    BY DEF Endings
  <2>2. Stage \in 1..3
    BY DEF Stage
  <2> QED BY <1>1, <2>1, <2>2 DEF Failures, Failure
<1>4. IdType(NewId) /\ NewId \in 0..NewId /\ IdType(Len(log)) /\ log \in Seq(Failures)
  BY IdsGrow DEF TypeInv, NewId
<1>5. (failing => Len(log') = NewId) /\ (~failing => log' = log) /\ log' \in Seq(Failures)
  BY <1>3, <1>4, LogGrows
<1>6. (out = "fatal" => failing) /\ (panicked => failing)
  OBVIOUS
<1>7. gs'.wg = gs.wg - 1
  BY <1>4 DEF CountDown, IdType, GoState
<1>8. OtherType'
  <2>1. tasks' \in [Tasks -> TaskRecord]
    BY <1>2 DEF TypeInv, OtherType, TaskRecord
  <2>2. OnT /\ reported => ReportsTo(t) \in Cases \/ out # "fatal"
    BY <1>1 DEF ReportsTo, Reaches, TypeInv, OtherType, Cases
  <2>3. tFailed' \subseteq Cases /\ tSkipped' \subseteq Cases
    BY <1>1, <2>2 DEF TypeInv, OtherType
  <2> QED BY <2>1, <2>3 DEF TypeInv, OtherType
<1>9. CountOK' /\ gs'.wg \in 0..Cardinality(Tasks)
  <2>1. \A u \in Tasks : Running(u)' <=> Running(u) /\ u # t
    BY <1>2 DEF Running, TypeInv, OtherType, TaskRecord
  <2> QED BY <1>1, <1>7, <1>8, <2>1, OneLess DEF TypeInv
<1>10. IdType(Len(log))'
  <2>1. CASE failing
    <3>1. gs' \in GoState(NewId)
      <4>1. gs \in GoState(NewId)
        BY <1>4 DEF IdType
      <4> QED BY <1>4, <1>9, <4>1 DEF GoState
    <3>2. told' \in Seq((0..NewId) \X Cases)
      <4>1. CASE reported /\ out = "fatal"
        <5>1. ReportsTo(t) \in Cases
          BY <1>1, <4>1 DEF ReportsTo, Reaches, TypeInv, OtherType, Cases
        <5>2. told' = Append(told, <<NewId, ReportsTo(t)>>)
          BY <4>1
        <5>3. <<NewId, ReportsTo(t)>> \in (0..NewId) \X Cases
          BY <1>4, <5>1
        <5> QED BY <1>4, <5>2, <5>3 DEF IdType
      <4> QED BY <1>4, <4>1 DEF IdType
    <3> QED BY <1>4, <1>5, <2>1, <3>1, <3>2 DEF IdType
  <2>2. CASE ~failing
    <3>1. gs' \in GoState(Len(log))
      <4>1. gs \in GoState(Len(log))
        BY <1>4 DEF IdType
      <4> QED BY <1>6, <1>9, <2>2, <4>1 DEF GoState
    <3> QED BY <1>4, <1>5, <2>2, <3>1 DEF IdType
  <2> QED BY <2>1, <2>2
<1>11. PlaceInv'
  BY <1>2 DEF TypeInv, PlaceInv, Running, OtherType, TaskRecord
<1>12. ControlType'
  BY DEF TypeInv, ControlType
<1> QED BY <1>5, <1>8, <1>9, <1>10, <1>11, <1>12 DEF TypeInv

\* The end of a body, a hook or a cleanup.
LEMMA LeavesType ==
  ASSUME TypeInv, NEW out \in Endings, InUserCode, Leaves(out)
  PROVE  /\ log' \in Seq(Failures) /\ IdType(Len(log))' /\ OtherType' /\ CountOK'
         /\ UNCHANGED <<case, tasks, bound>>
<1> DEFINE failing == out \notin {"ok", "skip"}
<1> USE DEF Leaves
<1>1. case \in Cases
  BY DEF TypeInv, PlaceInv, InUserCode
<1>2. Failure(out, case, "spec") \in Failures
  <2>1. Stage \in 1..3
    BY DEF Stage
  <2> QED BY <1>1, <2>1 DEF Failures, Failure
<1>3. IdType(NewId) /\ NewId \in 0..NewId /\ IdType(Len(log)) /\ log \in Seq(Failures)
  BY IdsGrow DEF TypeInv, NewId
<1>4. (failing => Len(log') = NewId) /\ (~failing => log' = log) /\ log' \in Seq(Failures)
  BY <1>2, <1>3, LogGrows
<1>5. IdType(Len(log))'
  <2>1. CASE failing
    <3>1. told' \in Seq((0..NewId) \X Cases)
      BY <1>1, <1>3 DEF IdType
    <3>2. message' \in 0..NewId /\ failure' \in [failed : BOOLEAN, message : 0..NewId]
      BY <1>3 DEF IdType
    <3> QED BY <1>3, <1>4, <2>1, <3>1, <3>2 DEF IdType
  <2>2. CASE ~failing
    <3>1. message' = message /\ failure' = failure /\ told' = told
      BY <2>2
    <3> QED BY <1>3, <1>4, <2>2, <3>1 DEF IdType
  <2> QED BY <2>1, <2>2
<1>6. OtherType'
  BY <1>1 DEF OtherType, TypeInv
<1> QED BY <1>4, <1>5, <1>6 DEF CountOK, Running, TypeInv

LEMMA UserCodeEndsType ==
  ASSUME TypeInv, NEW out \in Endings, BodyEnds(out) \/ HookEnds(out) \/ CleanupEnds(out)
  PROVE  TypeInv'
<1>1. InUserCode /\ Leaves(out)
  BY DEF InUserCode, BodyEnds, HookEnds, CleanupEnds
<1>2. ControlType'
  BY <1>1, CaseAssumption DEF TypeInv, ControlType, PlaceInv, BodyEnds, HookEnds, CleanupEnds, AfterCleanup, Leaves
<1>3. PlaceInv'
  <2>1. /\ at' # "start" /\ at # "start" /\ UNCHANGED <<case, tasks, bound>>
        /\ (at' \in {"body", "settle"} => hook' = 0) /\ (at' = "after" => hook' < NAfter)
    BY <1>1 DEF TypeInv, PlaceInv, BodyEnds, HookEnds, CleanupEnds, AfterCleanup, Leaves
  <2> QED BY <2>1 DEF TypeInv, PlaceInv, Running
<1> QED BY <1>1, <1>2, <1>3, LeavesType DEF TypeInv

\* The settle points.
LEMMA FoldedType ==
  ASSUME NEW n \in Nat, IdType(n)
  PROVE  Folded \in [failed : BOOLEAN, message : 0..n]
<1>1. gs.rec \in 0..n /\ gs.pending \in Seq(0..n) /\ failure \in [failed : BOOLEAN, message : 0..n]
  BY DEF IdType, GoState
<1>2. gs.pending # <<>> => Head(gs.pending) \in 0..n
  BY <1>1
<1> QED BY <1>1, <1>2 DEF Folded

\* What a settle point delivers.
Delivers(first) == (IF OnT THEN <<>> ELSE Replays) \o (IF first THEN <<gs.panic>> ELSE <<>>)
LEMMA DeliversType ==
  ASSUME NEW n \in Nat, IdType(n), NEW first \in BOOLEAN
  PROVE  Delivers(first) \in Seq(0..n)
<1>1. gs.panic \in 0..n /\ gs.rec \in 0..n /\ gs.pending \in Seq(0..n)
  BY DEF IdType, GoState
<1>2. \A r \in 0..n : <<r>> \in Seq(0..n)
  OBVIOUS
<1>3. <<>> \in Seq(0..n) /\ <<gs.rec>> \in Seq(0..n) /\ <<gs.panic>> \in Seq(0..n)
  BY <1>1, <1>2
<1>4. \A s, t \in Seq(0..n) : s \o t \in Seq(0..n)
  OBVIOUS
<1>5. Replays \in Seq(0..n)
  BY <1>1, <1>3, <1>4, Zenon DEF Replays
<1> QED BY <1>3, <1>4, <1>5, Zenon DEF Delivers

LEMMA DeliveryType ==
  ASSUME NEW n \in Nat, NEW s \in Seq(0..n), NEW c \in Cases
  PROVE  [i \in DOMAIN s |-> <<s[i], c>>] \in Seq((0..n) \X Cases)
<1>1. Len(s) \in Nat /\ DOMAIN s = 1..Len(s) /\ \A i \in 1..Len(s) : s[i] \in 0..n
  OBVIOUS
<1> QED BY <1>1

LEMMA FoldType ==
  ASSUME TypeInv, NEW state \in GoState(Len(log)), state.wg = gs.wg, NEW report \in BOOLEAN, Fold(state, report),
         case \in Cases
  PROVE  IdType(Len(log))' /\ OtherType' /\ CountOK' /\ UNCHANGED <<case, hook, how, tasks, bound, log>>
<1> DEFINE n == Len(log)
           first == report /\ gs.panic # 0 /\ ~gs.panicReported
           new == Delivers(first)
<1>1. log \in Seq(Failures) /\ n \in Nat /\ IdType(n) /\ log' = log
  BY DEF TypeInv, history, Fold
<1>2. gs \in GoState(n) /\ gs.panic \in 0..n /\ gs.rec \in 0..n /\ gs.pending \in Seq(0..n)
  BY <1>1 DEF IdType, GoState
<1>3. first \in BOOLEAN /\ new \in Seq(0..n)
  BY <1>1, DeliversType
<1>4. gs' \in GoState(n) /\ gs'.wg = gs.wg
  <2>1. <<>> \in Seq(0..n)
    OBVIOUS
  <2>2. gs' = [state EXCEPT !.pending = <<>>, !.replayed = @ \/ gs.rec # 0, !.panicReported = @ \/ first]
    BY DEF Fold
  <2> QED BY <1>2, <2>1, <2>2 DEF GoState
<1>5. told' \in Seq((0..n) \X Cases)
  <2> DEFINE add == [i \in DOMAIN new |-> <<new[i], case>>]
  <2>1. add \in Seq((0..n) \X Cases)
    BY <1>1, <1>3, DeliveryType
  <2>2. told' = told \o add
    BY DEF Fold, Delivers
  <2> HIDE DEF add
  <2> QED BY <1>1, <2>1, <2>2, ConcatProperties DEF IdType
<1>6. Folded \in [failed : BOOLEAN, message : 0..n]
  BY <1>1, FoldedType
<1>7. failure' \in [failed : BOOLEAN, message : 0..n] /\ message' \in 0..n
  BY <1>1, <1>2, <1>6 DEF IdType, Fold
<1>8. IdType(Len(log))'
  BY <1>1, <1>4, <1>5, <1>7 DEF IdType, Fold
<1>9. OtherType'
  BY DEF TypeInv, OtherType, history, Fold
<1> QED BY <1>1, <1>4, <1>8, <1>9 DEF CountOK, Running, TypeInv, Fold

LEMMA SettlingType ==
  ASSUME TypeInv, Settle \/ SettleLast \/ DrainDone
  PROVE  TypeInv'
<1>1. gs \in GoState(Len(log)) /\ case \in Cases
  BY DEF TypeInv, IdType, PlaceInv, Settle, SettleLast, DrainDone
<1>2. /\ [gs EXCEPT !.closed = gs.used] \in GoState(Len(log)) /\ [gs EXCEPT !.closed = gs.used].wg = gs.wg
      /\ [gs EXCEPT !.cleanupsDone = gs.used] \in GoState(Len(log))
      /\ [gs EXCEPT !.cleanupsDone = gs.used].wg = gs.wg
  BY <1>1 DEF GoState
<1>3. IdType(Len(log))' /\ OtherType' /\ CountOK' /\ UNCHANGED <<case, hook, how, tasks, bound, log>>
  <2>1. CASE Settle
    BY <1>1, <2>1, FoldType DEF Settle
  <2>2. CASE SettleLast
    BY <1>1, <1>2, <2>2, FoldType DEF SettleLast
  <2>3. CASE DrainDone
    BY <1>1, <1>2, <2>3, FoldType DEF DrainDone
  <2> QED BY <2>1, <2>2, <2>3
<1>4. at' \in {"after", "settleLast", "drain", "end"} /\ at # "start" /\ (at' = "after" => hook = 0 /\ NAfter # 0)
  BY DEF Settle, SettleLast, DrainDone, TypeInv, PlaceInv
<1>5. ControlType' /\ PlaceInv'
  BY <1>3, <1>4, CaseAssumption DEF TypeInv, ControlType, PlaceInv, Running
<1> QED BY <1>3, <1>5 DEF TypeInv

LEMMA PopCleanupType == TypeInv /\ PopCleanup => TypeInv'
<1> SUFFICES ASSUME TypeInv, PopCleanup PROVE TypeInv'
  OBVIOUS
<1> USE DEF TypeInv, PopCleanup, testing
<1>1. gs \in GoState(Len(log)) /\ gs.list \in Seq(1..MaxCleanups) /\ gs.list # <<>>
  BY DEF IdType, GoState
<1>2. /\ Len(gs.list) \in Nat /\ gs.list[Len(gs.list)] \in 1..MaxCleanups
      /\ SubSeq(gs.list, 1, Len(gs.list) - 1) \in Seq(1..MaxCleanups)
  <2>1. Len(gs.list) \in Nat \ {0} /\ \A i \in 1..Len(gs.list) : gs.list[i] \in 1..MaxCleanups
    BY <1>1, EmptySeq, ElementOfSeq
  <2> HIDE DEF PopCleanup, TypeInv
  <2> QED BY <2>1, SubSeqProperties
<1>3. gs' \in GoState(Len(log)) /\ gs'.wg = gs.wg
  BY <1>1, <1>2 DEF GoState
<1>4. IdType(Len(log))'
  BY <1>3 DEF IdType
<1>5. OtherType'
  BY <1>2 DEF OtherType
<1> QED BY <1>3, <1>4, <1>5 DEF ControlType, CountOK, PlaceInv, Running

\* How user code may end on the backend.
Ways == {out \in Endings : OnT \/ out \in {"ok", "fatal", "panic"}}

LEMMA SomeStep ==
  ASSUME [Next]_vars
  PROVE  \/ UNCHANGED vars
         \/ StartCase \/ FilterCase \/ EarlyErrorf \/ SpecErrorf \/ PopCleanup \/ EndCase
         \/ Settle \/ SettleLast \/ DrainDone
         \/ \E t \in Tasks : SpecGo(t)
         \/ \E t, u \in Tasks : TaskGo(t, u)
         \/ SpecCleanup \/ \E t \in Tasks : TaskCleanup(t)
         \/ \E t \in Tasks : TaskErrorf(t)
         \/ \E t \in Tasks, out \in Ways : TaskEnds(t, out)
         \/ \E out \in Ways : BodyEnds(out) \/ HookEnds(out) \/ CleanupEnds(out)
<1>1. BodyEndings \subseteq Ways /\ HookEndings \subseteq Ways /\ CleanupEndings \subseteq Ways /\ TaskEndings \subseteq Ways
  BY CaseAssumption DEF Ways
<1>2. CASE SpecStep
  BY <1>1, <1>2 DEF SpecStep
<1>3. ASSUME NEW t \in Tasks, TaskStep(t)
      PROVE  \/ \E u \in Tasks : TaskGo(t, u) \/ TaskCleanup(t) \/ TaskErrorf(t)
             \/ \E out \in Ways : TaskEnds(t, out)
  BY <1>1, <1>3 DEF TaskStep
<1> QED BY <1>2, <1>3 DEF Next

\* Whom a task or the spec goroutine registers a cleanup for or reports to.
LEMMA TaskIsOfCase ==
  ASSUME TypeInv, NEW t \in Tasks, Running(t)
  PROVE  /\ tasks[t].of \in Cases /\ tasks[t].of <= case /\ case \in Nat
         /\ OnT => tasks[t].wrapper \in Cases /\ (Reaches(t) => ReportsTo(t) = case /\ case \in Cases)
<1>1. tasks[t].of \in 1..case /\ tasks[t].of \in 0..NCases /\ (OnT => tasks[t].wrapper \in Cases)
  BY DEF TypeInv, PlaceInv, OtherType, TaskRecord
<1>2. case \in 1..(NCases + 1)
  BY DEF TypeInv, ControlType
<1>3. OnT /\ Reaches(t) => ReportsTo(t) = case /\ case \in Cases
  BY <1>1 DEF ReportsTo, Reaches, TypeInv, PlaceInv
<1> QED BY <1>1, <1>2, <1>3, CaseAssumption DEF Cases

LEMMA NextType == TypeInv /\ [Next]_vars => TypeInv'
<1> SUFFICES ASSUME TypeInv, [Next]_vars PROVE TypeInv'
  OBVIOUS
<1>1. CASE UNCHANGED vars
  BY <1>1 DEF vars, testing, history, TypeInv, ControlType, IdType, OtherType, CountOK, PlaceInv, Running
<1>2. CASE StartCase \/ FilterCase \/ EndCase
  BY <1>2, StartCaseType, FilterCaseType, EndCaseType
<1>3. CASE EarlyErrorf \/ PopCleanup
  BY <1>3, EarlyErrorfType, PopCleanupType
<1>4. CASE Settle \/ SettleLast \/ DrainDone
  BY <1>4, SettlingType
<1>5. ASSUME NEW t \in Tasks, NEW u \in Tasks, SpecGo(t) \/ TaskGo(u, t) PROVE TypeInv'
  BY <1>5, SpecGoType, TaskGoType
<1>6. CASE SpecCleanup \/ \E t \in Tasks : TaskCleanup(t)
  <2>1. CASE SpecCleanup
    <3>1. case \in Cases
      BY <2>1 DEF SpecCleanup, InUserCode, TypeInv, PlaceInv
    <3> QED BY <2>1, <3>1, RegisterType DEF SpecCleanup
  <2>2. ASSUME NEW t \in Tasks, TaskCleanup(t) PROVE TypeInv'
    BY <2>2, TaskIsOfCase, RegisterType DEF TaskCleanup
  <2> QED BY <1>6, <2>1, <2>2
<1>7. CASE SpecErrorf
  <2>1. case \in Cases
    BY <1>7 DEF SpecErrorf, InUserCode, TypeInv, PlaceInv
  <2> QED BY <1>7, <2>1, QueueType DEF SpecErrorf
<1>8. ASSUME NEW t \in Tasks, TaskErrorf(t) PROVE TypeInv'
  <2>1. Running(t) /\ Reaches(t) /\ Queue(tasks[t].of, "task", ReportsTo(t))
    BY <1>8 DEF TaskErrorf
  <2> QED BY <2>1, TaskIsOfCase, QueueType
<1>9. ASSUME NEW t \in Tasks, NEW out \in Ways, TaskEnds(t, out) PROVE TypeInv'
  BY <1>9, TaskEndsType DEF Ways
<1>10. ASSUME NEW out \in Ways, BodyEnds(out) \/ HookEnds(out) \/ CleanupEnds(out) PROVE TypeInv'
  BY <1>10, UserCodeEndsType DEF Ways
<1> QED BY SomeStep, <1>1, <1>2, <1>3, <1>4, <1>5, <1>6, <1>7, <1>8, <1>9, <1>10

\* The Context, its goState and the histories have their types: no task counter below zero, no
\* reference to a failure, a cleanup or a test that does not exist.
THEOREM TypeCorrect == Spec => []TypeOK
<1>1. TypeInv => TypeOK
  BY Typing DEF TypeInv
<1> QED BY <1>1, InitType, NextType, PTL DEF Spec

-----------------------------------------------------------------------------
(* Tasks.                                                                  *)

LEMMA InitTask == Init => TaskInv
  BY DEF Init, TaskInv, Running, Drained, FreshState, Abandoned

\* What TaskInv needs of a step inside a case.
LEMMA TaskSteady ==
  ASSUME TaskInv, UNCHANGED <<case, at, how, reports>>,
         gs'.used = gs.used, gs'.list = gs.list, gs'.closed = gs.closed,
         \A t \in Tasks : Running(t)' => Running(t) /\ tasks'[t].of = tasks[t].of /\ tasks'[t].stage = tasks[t].stage
  PROVE  TaskInv'
<1>1. \A c : Abandoned(c)' <=> Abandoned(c)
  BY DEF Abandoned
<1>2. Quiet => Quiet'
  BY DEF Quiet
<1> QED BY <1>1, <1>2 DEF TaskInv, Drained

LEMMA ReportAppended ==
  ASSUME TypeInv, TaskInv, NEW r \in ReportRecord(Len(log)), reports' = Append(reports, r)
  PROVE  /\ case \in Nat /\ Len(reports) = case - 1 /\ DOMAIN reports = 1..(case - 1)
         /\ Len(reports') = case /\ DOMAIN reports' = 1..case
         /\ \A d \in 1..(case - 1) : reports'[d] = reports[d]
         /\ reports'[case] = r
         /\ \A c : Abandoned(c) => Abandoned(c)'
<1>1. reports \in Seq(ReportRecord(Len(log))) /\ case \in Nat
  BY DEF TypeInv, IdType, ControlType
<1>2. Len(reports) = case - 1
  BY DEF TaskInv
<1>3. /\ DOMAIN reports = 1..(case - 1) /\ Len(reports') = case /\ DOMAIN reports' = 1..case
      /\ \A d \in 1..(case - 1) : reports'[d] = reports[d]
      /\ reports'[case] = r
  <2>1. Len(reports) + 1 = case
    BY <1>1, <1>2
  <2> QED BY <1>1, <1>2, <2>1, Appended
<1> QED BY <1>1, <1>2, <1>3 DEF Abandoned

\* The records that FilterCase and EndCase append.
Filtered == [failed |-> FALSE, skipped |-> FALSE, filtered |-> TRUE, message |-> 0, output |-> FALSE,
             how |-> "filtered"]
Finished ==
  LET panic == IF how = "returned" THEN message ELSE 0 IN
  [failed |-> Failed, skipped |-> OnT /\ case \in tSkipped /\ ~Failed, filtered |-> FALSE,
   message |-> IF panic # 0 \/ ~Failed THEN panic ELSE failure.message,
   output |-> panic # 0, how |-> how]

LEMMA CaseReported ==
  ASSUME TypeInv, FilterCase \/ EndCase
  PROVE  /\ Filtered \in ReportRecord(Len(log)) /\ Finished \in ReportRecord(Len(log))
         /\ reports' = Append(reports, IF at = "start" THEN Filtered ELSE Finished)
         /\ case \in Cases /\ case' = case + 1 /\ at' = "start" /\ at \in {"start", "end"}
         /\ gs' = Recycled(gs) /\ failure' = NoFailure /\ UNCHANGED <<how, tasks, tFailed, told, history>>
<1>1. Len(log) \in Nat
  BY DEF TypeInv
<1>2. Filtered \in ReportRecord(Len(log))
  BY <1>1 DEF Filtered, ReportRecord
<1>3. Finished \in ReportRecord(Len(log))
  <2>1. message \in 0..Len(log) /\ failure.message \in 0..Len(log) /\ failure.failed \in BOOLEAN
    BY DEF TypeInv, IdType
  <2>2. Failed \in BOOLEAN /\ (OnT /\ case \in tSkipped /\ ~Failed) \in BOOLEAN
    BY <2>1 DEF Failed
  <2>3. how \in {"returned", "exited", "abandoned"}
    BY DEF TypeInv, ControlType
  <2> QED BY <1>1, <2>1, <2>2, <2>3 DEF ReportRecord, Finished
<1>4. reports' = Append(reports, IF at = "start" THEN Filtered ELSE Finished)
  BY DEF FilterCase, EndCase, Filtered, Finished
<1>5. case \in Cases
  BY DEF FilterCase, EndCase, TypeInv, PlaceInv
<1> QED BY <1>2, <1>3, <1>4, <1>5 DEF FilterCase, EndCase, testing

LEMMA NextCaseTask == ASSUME TypeInv, TaskInv, FilterCase \/ EndCase PROVE TaskInv'
<1> DEFINE r == IF at = "start" THEN Filtered ELSE Finished
<1>1. r \in ReportRecord(Len(log)) /\ reports' = Append(reports, r)
  BY CaseReported
<1>2. case \in Nat /\ case' = case + 1 /\ at' = "start" /\ UNCHANGED <<how, tasks>> /\ gs'.list = <<>>
  <2>1. gs \in GoState(Len(log)) /\ Len(log) \in Nat
    BY DEF TypeInv, IdType
  <2> QED BY <2>1, CaseReported, RecycledType DEF TypeInv, ControlType
<1>3. Len(reports') = case' - 1 /\ \A c : Abandoned(c) => Abandoned(c)'
  BY <1>1, <1>2, ReportAppended
<1>4. ASSUME NEW t \in Tasks, Running(t)' PROVE tasks[t].of < case' /\ Abandoned(tasks[t].of)'
  <2>1. Running(t) /\ tasks[t].of \in 1..case
    BY <1>2, <1>4 DEF Running, TypeInv, PlaceInv
  <2>2. CASE tasks[t].of < case
    BY <1>2, <1>3, <2>1, <2>2 DEF TaskInv
  <2>3. CASE tasks[t].of = case
    <3>1. at = "end" /\ how = "abandoned"
      BY <2>1, <2>3, CaseReported DEF TaskInv, Drained, Quiet
    <3>2. reports'[case].how = "abandoned" /\ case \in DOMAIN reports'
      BY <1>1, <1>2, <3>1, ReportAppended DEF Finished, TypeInv, PlaceInv, Cases
    <3> QED BY <1>2, <2>3, <3>2 DEF Abandoned
  <2> QED BY <1>2, <2>1, <2>2, <2>3
<1> QED BY <1>2, <1>3, <1>4 DEF TaskInv, Drained

LEMMA StartCaseTask == ASSUME TypeInv, TaskInv, StartCase PROVE TaskInv'
<1>1. gs'.list = <<>> /\ at' = "body" /\ how' = "returned" /\ UNCHANGED <<case, tasks, reports>>
  <2>1. gs \in GoState(Len(log)) /\ Len(log) \in Nat
    BY DEF TypeInv, IdType
  <2> QED BY <2>1, RecycledType DEF StartCase
<1>2. \A c : Abandoned(c)' <=> Abandoned(c)
  BY <1>1 DEF Abandoned
<1> QED BY <1>1, <1>2 DEF TaskInv, Drained, Running

LEMMA SpecGoTask == ASSUME TypeInv, TaskInv, NEW t \in Tasks, SpecGo(t) PROVE TaskInv'
<1>1. /\ tasks'[t].of = case /\ tasks'[t].stage = Stage /\ tasks'[t].state = "running"
      /\ \A u \in Tasks : u # t => tasks'[u] = tasks[u]
  BY DEF SpecGo, TypeInv, OtherType
<1>2. /\ gs'.used /\ gs'.list = gs.list /\ gs'.closed = gs.closed
      /\ UNCHANGED <<case, at, how, reports>> /\ case \in Nat
  BY DEF SpecGo, TypeInv, IdType, GoState, ControlType
<1>3. at \in {"body", "after"}
  BY DEF SpecGo, InUserCode, TaskInv
<1>4. \A c : Abandoned(c)' <=> Abandoned(c)
  BY <1>2 DEF Abandoned
<1>5. \A u \in Tasks : u # t => (Running(u)' <=> Running(u))
  BY <1>1 DEF Running
<1>6. at = "after" => Stage = 2
  BY DEF Stage
<1> QED BY <1>1, <1>2, <1>3, <1>4, <1>5, <1>6 DEF TaskInv, Drained

LEMMA TaskGoTask == ASSUME TypeInv, TaskInv, NEW u \in Tasks, NEW t \in Tasks, TaskGo(u, t) PROVE TaskInv'
<1>1. /\ tasks'[t].of = tasks[u].of /\ tasks'[t].stage = Stage /\ Running(t)'
      /\ \A v \in Tasks : v # t => tasks'[v] = tasks[v] /\ (Running(v)' <=> Running(v))
  BY DEF TaskGo, TypeInv, OtherType, Running, TaskRecord
<1>2. /\ gs'.used = gs.used /\ gs'.list = gs.list /\ gs'.closed = gs.closed
      /\ UNCHANGED <<case, at, how, reports>> /\ case \in Nat
  BY DEF TaskGo, TypeInv, IdType, GoState, ControlType
<1>3. Running(u) /\ ~Drained
  BY DEF TaskGo, TaskInv, Quiet
<1>4. \A c : Abandoned(c)' <=> Abandoned(c)
  BY <1>2 DEF Abandoned
<1>5. at = "after" => Stage = 2
  BY DEF Stage
<1>6. ~Drained'
  BY <1>2, <1>3 DEF Drained
<1> QED BY <1>1, <1>2, <1>3, <1>4, <1>5, <1>6 DEF TaskInv

LEMMA RegisterTask ==
  ASSUME TypeInv, TaskInv, NEW c, Register(c), InUserCode \/ ~Quiet
  PROVE  TaskInv'
<1>1. /\ gs'.used /\ gs'.closed = gs.closed /\ UNCHANGED <<case, at, how, reports, tasks>>
  BY DEF Register, TypeInv, IdType, GoState
<1>2. at # "drain"
  BY DEF InUserCode, TaskInv, Drained
<1>3. \A d : Abandoned(d)' <=> Abandoned(d)
  BY <1>1 DEF Abandoned
<1> QED BY <1>1, <1>2, <1>3 DEF TaskInv, Drained, Quiet, Running

LEMMA UserCodeEndsTask ==
  ASSUME TypeInv, TaskInv, NEW out, BodyEnds(out) \/ HookEnds(out) \/ CleanupEnds(out)
  PROVE  TaskInv'
<1>1. UNCHANGED <<case, gs, tasks, reports>>
  BY DEF BodyEnds, HookEnds, CleanupEnds, Leaves
<1>2. \A c : Abandoned(c)' <=> Abandoned(c)
  BY <1>1 DEF Abandoned
<1>3. /\ (at' = "after" => at = "after") /\ at' \notin {"start", "cleanup"} /\ at # "start"
      /\ (at' = "drain" => at = "cleanup") /\ (at' = "end" => how' = "abandoned")
      /\ (how' = "abandoned" => at' = "end")
  <2>1. how # "abandoned"
    BY DEF BodyEnds, HookEnds, CleanupEnds, TaskInv
  <2>2. CASE BodyEnds(out)
    BY <2>1, <2>2 DEF BodyEnds
  <2>3. CASE HookEnds(out)
    <3>1. CASE Exits(out)
      BY <2>3, <3>1 DEF HookEnds
    <3>2. CASE ~Exits(out)
      <4>1. at' \in {"after", "settleLast"} /\ at = "after" /\ how' = how
        BY <2>3, <3>2 DEF HookEnds
      <4> QED BY <2>1, <4>1
    <3> QED BY <3>1, <3>2
  <2>4. CASE CleanupEnds(out)
    BY <2>1, <2>4 DEF CleanupEnds, AfterCleanup
  <2> QED BY <2>2, <2>3, <2>4
<1> QED BY <1>1, <1>2, <1>3 DEF TaskInv, Drained, Quiet, Running

LEMMA FoldKeeps ==
  ASSUME TypeInv, NEW state \in GoState(Len(log)), NEW report \in BOOLEAN, Fold(state, report)
  PROVE  /\ gs'.used = state.used /\ gs'.list = state.list /\ gs'.closed = state.closed /\ gs'.wg = state.wg
         /\ gs'.rec = state.rec /\ gs'.panic = state.panic /\ gs'.pending = <<>>
  BY DEF Fold, GoState

LEMMA SettlingTask == ASSUME TypeInv, TaskInv, Settle \/ SettleLast \/ DrainDone PROVE TaskInv'
<1>1. gs \in GoState(Len(log))
  BY DEF TypeInv, IdType
<1> DEFINE s1 == [gs EXCEPT !.closed = gs.used]
           s2 == [gs EXCEPT !.cleanupsDone = gs.used]
<1>2. /\ s1 \in GoState(Len(log)) /\ s1.closed = gs.used /\ s1.used = gs.used /\ s1.list = gs.list
      /\ s2 \in GoState(Len(log)) /\ s2.closed = gs.closed /\ s2.used = gs.used /\ s2.list = gs.list
  BY <1>1 DEF GoState
<1>3. UNCHANGED <<case, how, tasks, reports>>
  BY DEF Settle, SettleLast, DrainDone, Fold
<1>4. (\A c : Abandoned(c)' <=> Abandoned(c)) /\ (Quiet' <=> Quiet)
  BY <1>3 DEF Abandoned, Quiet, Running
<1>5. CASE Settle
  <2>1. gs'.used = gs.used /\ gs'.list = gs.list
    BY <1>1, <1>5, FoldKeeps DEF Settle
  <2>2. Quiet
    BY <1>5, NoneRuns DEF Settle, TypeInv
  <2>3. at' \in {"after", "settleLast"} /\ at = "settle"
    BY <1>5 DEF Settle
  <2> QED BY <1>3, <1>4, <2>1, <2>2, <2>3 DEF TaskInv, Drained, Quiet, Running
<1>6. CASE SettleLast
  <2>1. gs'.used = gs.used /\ gs'.list = gs.list /\ gs'.closed = gs.used
    BY <1>2, <1>6, FoldKeeps DEF SettleLast
  <2>2. Quiet
    BY <1>6, NoneRuns DEF SettleLast, TypeInv
  <2>3. at' = "drain" /\ at = "settleLast"
    BY <1>6 DEF SettleLast
  <2> QED BY <1>3, <1>4, <2>1, <2>2, <2>3 DEF TaskInv, Drained, Quiet, Running
<1>7. CASE DrainDone
  <2>1. gs'.used = gs.used /\ gs'.list = gs.list
    BY <1>2, <1>7, FoldKeeps DEF DrainDone
  <2>2. at' = "end" /\ at = "drain"
    BY <1>7 DEF DrainDone
  <2> QED BY <1>3, <1>4, <2>1, <2>2 DEF TaskInv, Drained, Quiet, Running
<1> QED BY <1>5, <1>6, <1>7

LEMMA PopCleanupTask == ASSUME TypeInv, TaskInv, PopCleanup PROVE TaskInv'
<1>1. gs'.used = gs.used /\ gs'.closed = gs.closed /\ gs.closed /\ gs.list # <<>> /\ gs.used
  BY DEF PopCleanup, TypeInv, IdType, GoState, TaskInv
<1>2. UNCHANGED <<case, how, tasks, reports>> /\ at = "drain" /\ at' = "cleanup"
  BY DEF PopCleanup
<1>3. (\A c : Abandoned(c)' <=> Abandoned(c)) /\ (Quiet' <=> Quiet)
  BY <1>2 DEF Abandoned, Quiet, Running
<1> QED BY <1>1, <1>2, <1>3 DEF TaskInv, Drained, Quiet, Running

LEMMA NextTask == TypeInv /\ TaskInv /\ [Next]_vars => TaskInv'
<1> SUFFICES ASSUME TypeInv, TaskInv, [Next]_vars PROVE TaskInv'
  OBVIOUS
<1>1. CASE UNCHANGED vars
  BY <1>1, TaskSteady DEF vars, Running
<1>2. CASE FilterCase \/ EndCase \/ StartCase
  BY <1>2, NextCaseTask, StartCaseTask
<1>3. CASE PopCleanup \/ Settle \/ SettleLast \/ DrainDone
  BY <1>3, PopCleanupTask, SettlingTask
<1>4. CASE EarlyErrorf
  BY <1>4, TaskSteady DEF EarlyErrorf, Running
<1>5. CASE SpecErrorf \/ \E t \in Tasks : TaskErrorf(t)
  <2>1. PICK c, by, to : Queue(c, by, to)
    BY <1>5 DEF SpecErrorf, TaskErrorf
  <2> QED BY <2>1, TaskSteady DEF Queue, Running, TypeInv, IdType, GoState
<1>6. ASSUME NEW t \in Tasks, NEW u \in Tasks, SpecGo(t) \/ TaskGo(u, t) PROVE TaskInv'
  BY <1>6, SpecGoTask, TaskGoTask
<1>7. CASE SpecCleanup \/ \E t \in Tasks : TaskCleanup(t)
  BY <1>7, RegisterTask DEF SpecCleanup, TaskCleanup, Quiet
<1>8. ASSUME NEW t \in Tasks, NEW out \in Ways, TaskEnds(t, out) PROVE TaskInv'
  <2>1. gs'.used = gs.used /\ gs'.list = gs.list /\ gs'.closed = gs.closed
    BY <1>8 DEF TaskEnds, TypeInv, IdType, GoState
  <2>2. \A u \in Tasks : Running(u)' => Running(u) /\ tasks'[u].of = tasks[u].of /\ tasks'[u].stage = tasks[u].stage
    BY <1>8 DEF TaskEnds, TypeInv, OtherType, TaskRecord, Running
  <2> QED BY <1>8, <2>1, <2>2, TaskSteady DEF TaskEnds
<1>9. ASSUME NEW out \in Ways, BodyEnds(out) \/ HookEnds(out) \/ CleanupEnds(out) PROVE TaskInv'
  BY <1>9, UserCodeEndsTask
<1> QED BY SomeStep, <1>1, <1>2, <1>3, <1>4, <1>5, <1>6, <1>7, <1>8, <1>9

-----------------------------------------------------------------------------
(* Cleanups.                                                               *)

LEMMA InitCleanup == Init => CleanupInv
  BY DEF Init, CleanupInv, FreshState

LEMMA CleanupSteady ==
  ASSUME CleanupInv, UNCHANGED <<case, at, how, reports, cleanups, ran>>, gs'.list = gs.list
  PROVE  CleanupInv'
<1>1. \A c : Abandoned(c)' <=> Abandoned(c)
  BY DEF Abandoned
<1> QED BY <1>1 DEF CleanupInv

LEMMA ListTypes ==
  ASSUME TypeInv
  PROVE  /\ gs.list \in Seq(1..MaxCleanups) /\ ran \in Seq(1..MaxCleanups) /\ cleanups \in Seq(Cases)
         /\ Len(cleanups) \in Nat /\ DOMAIN cleanups = 1..Len(cleanups)
         /\ Len(gs.list) \in Nat /\ DOMAIN gs.list = 1..Len(gs.list)
         /\ Len(ran) \in Nat /\ DOMAIN ran = 1..Len(ran)
         /\ case \in Nat
         /\ \A i \in DOMAIN gs.list : gs.list[i] \in Nat
         /\ \A i \in DOMAIN ran : ran[i] \in Nat
         /\ \A i \in DOMAIN cleanups : cleanups[i] \in Nat
<1>1. gs.list \in Seq(1..MaxCleanups) /\ ran \in Seq(1..MaxCleanups) /\ cleanups \in Seq(Cases) /\ case \in Nat
  BY DEF TypeInv, IdType, GoState, OtherType, ControlType
<1>2. Len(cleanups) \in Nat /\ Len(gs.list) \in Nat /\ Len(ran) \in Nat
  BY <1>1
<1>3. DOMAIN cleanups = 1..Len(cleanups) /\ DOMAIN gs.list = 1..Len(gs.list) /\ DOMAIN ran = 1..Len(ran)
  BY <1>1, LenProperties
<1>4. /\ \A i \in 1..Len(gs.list) : gs.list[i] \in 1..MaxCleanups
      /\ \A i \in 1..Len(ran) : ran[i] \in 1..MaxCleanups
      /\ \A i \in 1..Len(cleanups) : cleanups[i] \in Cases
  BY <1>1, ElementOfSeq
<1> QED BY <1>1, <1>2, <1>3, <1>4 DEF Cases

\* What is dropped with the list when a case ends is of abandoned cases.
LEMMA NextCaseCleanup == ASSUME TypeInv, TaskInv, CleanupInv, FilterCase \/ EndCase PROVE CleanupInv'
<1> DEFINE r == IF at = "start" THEN Filtered ELSE Finished
<1>1. r \in ReportRecord(Len(log)) /\ reports' = Append(reports, r)
  BY CaseReported
<1>2. case \in Nat \ {0} /\ case' = case + 1 /\ at' = "start" /\ gs'.list = <<>> /\ UNCHANGED <<cleanups, ran>>
  <2>1. gs \in GoState(Len(log)) /\ Len(log) \in Nat
    BY DEF TypeInv, IdType
  <2> QED BY <2>1, CaseReported, RecycledType DEF TypeInv, ControlType, history
<1>3. ASSUME NEW i \in DOMAIN cleanups, ~\E j \in DOMAIN ran : ran[j] = i, NEW c, c = cleanups[i]
      PROVE  Abandoned(c)'
  <2>1. CASE c < case
    <3>1. Abandoned(c)
      BY <1>3, <2>1, ListTypes DEF CleanupInv
    <3> QED BY <3>1, <1>1, ReportAppended
  <2>2. CASE ~(c < case)
    <3>1. c = case /\ gs.list # <<>> /\ at # "start"
      BY <1>3, <2>2, ListTypes DEF CleanupInv
    <3>2. at = "end" /\ how = "abandoned"
      BY <3>1, CaseReported DEF CleanupInv
    <3>3. reports'[case].how = "abandoned" /\ case \in DOMAIN reports'
      BY <1>1, <1>2, <3>2, ReportAppended DEF Finished
    <3> QED BY <1>2, <3>1, <3>3 DEF Abandoned
  <2> QED BY <2>1, <2>2
<1>4. \A i \in DOMAIN cleanups : cleanups[i] \in Nat /\ cleanups[i] < case'
  BY <1>2, ListTypes DEF CleanupInv
<1> QED BY <1>2, <1>3, <1>4, ListTypes DEF CleanupInv

LEMMA StartCaseCleanup == ASSUME TypeInv, TaskInv, CleanupInv, StartCase PROVE CleanupInv'
<1>1. gs'.list = <<>> /\ at = "start" /\ at' = "body" /\ UNCHANGED <<case, reports, cleanups, ran>>
  <2>1. gs \in GoState(Len(log)) /\ Len(log) \in Nat
    BY DEF TypeInv, IdType
  <2> QED BY <2>1, RecycledType DEF StartCase, history
<1>2. \A c : Abandoned(c)' <=> Abandoned(c)
  BY <1>1 DEF Abandoned
<1>3. \A i \in DOMAIN cleanups : cleanups[i] < case /\ cleanups[i] # case
  BY <1>1, ListTypes DEF CleanupInv
<1> QED BY <1>1, <1>2, <1>3, ListTypes DEF CleanupInv

LEMMA RegisterCleanup ==
  ASSUME TypeInv, TaskInv, CleanupInv, NEW c \in Cases, Register(c), InUserCode \/ ~Quiet,
         c <= case, c < case => Abandoned(c), c = case => at # "start"
  PROVE  CleanupInv'
<1> DEFINE n == Len(cleanups) + 1
<1>1. /\ cleanups' = Append(cleanups, c) /\ gs'.list = Append(gs.list, n) /\ n \in 1..MaxCleanups
      /\ UNCHANGED <<case, at, how, reports, ran>>
  <2>1. gs \in GoState(Len(log)) /\ MaxCleanups \in Nat
    BY CaseAssumption DEF TypeInv, IdType
  <2>2. cleanups' = Append(cleanups, c) /\ UNCHANGED <<case, at, how, reports, ran>> /\ Len(cleanups) < MaxCleanups
    BY DEF Register
  <2>3. gs'.list = Append(gs.list, n)
    BY <2>1 DEF Register, GoState
  <2>4. Len(cleanups) \in Nat
    BY ListTypes
  <2> QED BY <2>1, <2>2, <2>3, <2>4
<1>0. /\ Len(cleanups) \in Nat /\ DOMAIN cleanups = 1..Len(cleanups)
      /\ Len(gs.list) \in Nat /\ DOMAIN gs.list = 1..Len(gs.list) /\ case \in Nat
      /\ \A i \in DOMAIN gs.list : gs.list[i] \in Nat
      /\ \A i \in DOMAIN ran : ran[i] \in Nat
  BY ListTypes
<1>2. /\ DOMAIN cleanups' = 1..n /\ cleanups'[n] = c /\ Len(cleanups') = n
      /\ \A i \in 1..Len(cleanups) : cleanups'[i] = cleanups[i]
  BY <1>1, ListTypes, Appended
<1>3. /\ DOMAIN gs'.list = 1..(Len(gs.list) + 1) /\ gs'.list[Len(gs.list) + 1] = n
      /\ \A i \in 1..Len(gs.list) : gs'.list[i] = gs.list[i]
      /\ Len(gs.list) + 1 \in DOMAIN gs'.list
  BY <1>1, ListTypes, Appended
<1>4. \A d : Abandoned(d)' <=> Abandoned(d)
  BY <1>1 DEF Abandoned
<1>5. ~(at = "end" /\ how # "abandoned")
  BY DEF InUserCode, TaskInv, Drained
<1>6. \A i \in DOMAIN cleanups' :
        /\ cleanups'[i] <= case' /\ (at' = "start" => cleanups'[i] < case')
        /\ \/ \E j \in DOMAIN ran' : ran'[j] = i
           \/ cleanups'[i] = case' /\ \E j \in DOMAIN gs'.list : gs'.list[j] = i
           \/ cleanups'[i] < case' /\ Abandoned(cleanups[i])'
  <2>1. TAKE i \in DOMAIN cleanups'
  <2>2. CASE i = n
    <3>1. cleanups'[i] = c /\ c \in Nat /\ (c < case \/ c = case)
      BY <1>0, <1>2, <2>2 DEF Cases
    <3>2. \E j \in DOMAIN gs'.list : gs'.list[j] = i
      BY <1>3, <2>2
    <3>3. CASE c < case
      BY <1>1, <3>1, <3>3 DEF Abandoned
    <3>4. CASE c = case
      BY <1>1, <1>0, <3>1, <3>2, <3>4
    <3> QED BY <3>1, <3>3, <3>4
  <2>3. CASE i # n
    <3>1. i \in DOMAIN cleanups /\ cleanups'[i] = cleanups[i]
      BY <1>0, <1>2, <2>1, <2>3
    <3>2. \A j \in DOMAIN gs.list : j \in DOMAIN gs'.list /\ gs'.list[j] = gs.list[j]
      BY <1>0, <1>3
    <3>3. /\ cleanups[i] <= case /\ (at = "start" => cleanups[i] < case)
          /\ \/ \E j \in DOMAIN ran : ran[j] = i
             \/ cleanups[i] = case /\ \E j \in DOMAIN gs.list : gs.list[j] = i
             \/ cleanups[i] < case /\ Abandoned(cleanups[i])
      BY <3>1 DEF CleanupInv
    <3> QED BY <1>1, <3>1, <3>2, <3>3 DEF Abandoned
  <2> QED BY <2>2, <2>3
<1>7. \A i \in DOMAIN gs'.list :
        IF i = Len(gs.list) + 1 THEN gs'.list[i] = n ELSE i \in DOMAIN gs.list /\ gs'.list[i] = gs.list[i]
  BY <1>0, <1>3
<1>8. /\ \A i \in DOMAIN ran : ran[i] < n
      /\ \A i \in DOMAIN gs.list : gs.list[i] < n
  BY <1>0 DEF CleanupInv
<1>9. \A i, j \in DOMAIN gs'.list : gs'.list[i] = gs'.list[j] => i = j
  BY <1>0, <1>7, <1>8 DEF CleanupInv
<1>10. /\ \A i \in DOMAIN ran : ran[i] <= n
       /\ \A i \in DOMAIN gs'.list : gs'.list[i] <= n
       /\ \A i \in DOMAIN ran, j \in DOMAIN gs'.list : ran[i] # gs'.list[j]
  BY <1>0, <1>7, <1>8 DEF CleanupInv
<1> QED BY <1>1, <1>2, <1>5, <1>6, <1>9, <1>10 DEF CleanupInv

LEMMA PopCleanupCleanup == ASSUME TypeInv, TaskInv, CleanupInv, PopCleanup PROVE CleanupInv'
<1> DEFINE n == Len(gs.list)
           c == gs.list[n]
<1>0. /\ gs.list \in Seq(1..MaxCleanups) /\ gs.list # <<>> /\ DOMAIN gs.list = 1..n
      /\ Len(ran) \in Nat /\ DOMAIN ran = 1..Len(ran)
  BY ListTypes DEF PopCleanup
<1>1. n \in Nat \ {0} /\ c \in 1..MaxCleanups /\ n \in DOMAIN gs.list
  <2>1. n \in Nat \ {0}
    BY <1>0, EmptySeq
  <2>2. n \in 1..n
    BY <2>1
  <2> QED BY <1>0, <2>1, <2>2, ElementOfSeq
<1>2. ran' = Append(ran, c) /\ gs'.list = SubSeq(gs.list, 1, n - 1)
  BY DEF PopCleanup, TypeInv, IdType, GoState
<1>3. /\ DOMAIN ran' = 1..(Len(ran) + 1) /\ ran'[Len(ran) + 1] = c
      /\ \A i \in 1..Len(ran) : ran'[i] = ran[i]
  BY <1>1, <1>2, ListTypes, Appended
<1>4. DOMAIN gs'.list = 1..(n - 1) /\ \A i \in 1..(n - 1) : gs'.list[i] = gs.list[i]
  BY <1>1, <1>2, ListTypes
<1>5. UNCHANGED <<case, reports, cleanups>> /\ at = "drain" /\ at' = "cleanup"
  BY DEF PopCleanup
<1>6. \A d : Abandoned(d)' <=> Abandoned(d)
  BY <1>5 DEF Abandoned
<1>7. \A i \in DOMAIN cleanups :
        /\ cleanups[i] <= case
        /\ \/ \E j \in DOMAIN ran' : ran'[j] = i
           \/ cleanups[i] = case /\ \E j \in DOMAIN gs'.list : gs'.list[j] = i
           \/ cleanups[i] < case /\ Abandoned(cleanups[i])
  <2>1. TAKE i \in DOMAIN cleanups
  <2>2. \A j \in DOMAIN ran : j \in DOMAIN ran' /\ ran'[j] = ran[j]
    BY <1>3, <1>0
  <2>3. \A j \in DOMAIN gs.list : j = n \/ (j \in DOMAIN gs'.list /\ gs'.list[j] = gs.list[j])
    BY <1>1, <1>4, <1>0
  <2>4. Len(ran) + 1 \in DOMAIN ran'
    BY <1>3, <1>0
  <2> QED BY <1>3, <2>2, <2>3, <2>4 DEF CleanupInv
<1>8. \A i \in DOMAIN ran' : IF i = Len(ran) + 1 THEN ran'[i] = c ELSE i \in DOMAIN ran /\ ran'[i] = ran[i]
  BY <1>3, <1>0
<1>9. \A i \in DOMAIN gs'.list : i \in DOMAIN gs.list /\ i # n /\ gs'.list[i] = gs.list[i]
  BY <1>1, <1>4, <1>0
<1>10. c \notin {ran[i] : i \in DOMAIN ran} /\ c <= Len(cleanups)
  BY <1>1 DEF CleanupInv
<1>11. /\ \A i, j \in DOMAIN ran' : ran'[i] = ran'[j] => i = j
       /\ \A i, j \in DOMAIN gs'.list : gs'.list[i] = gs'.list[j] => i = j
  BY <1>8, <1>9, <1>10 DEF CleanupInv
<1>12. /\ \A i \in DOMAIN ran' : ran'[i] <= Len(cleanups)
       /\ \A i \in DOMAIN gs'.list : gs'.list[i] <= Len(cleanups)
  BY <1>8, <1>9, <1>10 DEF CleanupInv
<1>13. \A i \in DOMAIN ran', j \in DOMAIN gs'.list : ran'[i] # gs'.list[j]
  BY <1>1, <1>8, <1>9 DEF CleanupInv
<1> QED BY <1>5, <1>6, <1>7, <1>11, <1>12, <1>13 DEF CleanupInv

LEMMA UserCodeEndsCleanup ==
  ASSUME TypeInv, TaskInv, CleanupInv, NEW out, BodyEnds(out) \/ HookEnds(out) \/ CleanupEnds(out), TaskInv'
  PROVE  CleanupInv'
<1>1. UNCHANGED <<case, gs, reports, cleanups, ran>> /\ at # "start" /\ at' # "start"
  BY DEF BodyEnds, HookEnds, CleanupEnds, AfterCleanup, Leaves
<1>2. at' = "end" => how' = "abandoned"
  <2>1. ASSUME HookEnds(out), ~Exits(out) PROVE at' # "end"
    BY <2>1 DEF HookEnds
  <2> QED BY <2>1 DEF BodyEnds, HookEnds, CleanupEnds, AfterCleanup
<1>3. \A d : Abandoned(d)' <=> Abandoned(d)
  BY <1>1 DEF Abandoned
<1> QED BY <1>1, <1>2, <1>3 DEF CleanupInv

LEMMA SettlingCleanup == ASSUME TypeInv, TaskInv, CleanupInv, Settle \/ SettleLast \/ DrainDone PROVE CleanupInv'
<1>1. gs \in GoState(Len(log))
  BY DEF TypeInv, IdType
<1>2. UNCHANGED <<case, reports, cleanups, ran>> /\ at # "start" /\ at' # "start"
  BY DEF Settle, SettleLast, DrainDone, Fold, history
<1>3. /\ [gs EXCEPT !.closed = gs.used] \in GoState(Len(log)) /\ [gs EXCEPT !.closed = gs.used].list = gs.list
      /\ [gs EXCEPT !.cleanupsDone = gs.used] \in GoState(Len(log))
      /\ [gs EXCEPT !.cleanupsDone = gs.used].list = gs.list
  BY <1>1 DEF GoState
<1>4. gs'.list = gs.list
  <2>1. CASE Settle
    BY <1>1, <2>1, FoldKeeps DEF Settle
  <2>2. CASE SettleLast
    BY <1>3, <2>2, FoldKeeps DEF SettleLast
  <2>3. CASE DrainDone
    BY <1>3, <2>3, FoldKeeps DEF DrainDone
  <2> QED BY <2>1, <2>2, <2>3
<1>5. at' = "end" => gs.list = <<>>
  BY DEF Settle, SettleLast, DrainDone
<1>6. \A d : Abandoned(d)' <=> Abandoned(d)
  BY <1>2 DEF Abandoned
<1> QED BY <1>2, <1>4, <1>5, <1>6 DEF CleanupInv

LEMMA StrayOrOwn ==
  ASSUME TypeInv, TaskInv, NEW t \in Tasks, Running(t)
  PROVE  /\ tasks[t].of \in Cases /\ tasks[t].of <= case
         /\ tasks[t].of < case => Abandoned(tasks[t].of)
         /\ tasks[t].of = case => at # "start"
         /\ ~Quiet
<1>1. tasks[t].of \in Cases /\ tasks[t].of <= case /\ case \in Nat
  BY TaskIsOfCase
<1> QED BY <1>1 DEF TaskInv, Quiet, Cases

LEMMA NextCleanup == TypeInv /\ TaskInv /\ TaskInv' /\ CleanupInv /\ [Next]_vars => CleanupInv'
<1> SUFFICES ASSUME TypeInv, TaskInv, TaskInv', CleanupInv, [Next]_vars PROVE CleanupInv'
  OBVIOUS
<1>1. CASE UNCHANGED vars
  BY <1>1, CleanupSteady DEF vars, history
<1>2. CASE FilterCase \/ EndCase \/ StartCase
  BY <1>2, NextCaseCleanup, StartCaseCleanup
<1>3. CASE PopCleanup \/ Settle \/ SettleLast \/ DrainDone
  BY <1>3, PopCleanupCleanup, SettlingCleanup
<1>4. CASE EarlyErrorf
  BY <1>4, CleanupSteady DEF EarlyErrorf
<1>5. CASE SpecErrorf \/ \E t \in Tasks : TaskErrorf(t)
  <2>1. PICK c, by, to : Queue(c, by, to)
    BY <1>5 DEF SpecErrorf, TaskErrorf
  <2> QED BY <2>1, CleanupSteady DEF Queue, TypeInv, IdType, GoState
<1>6. ASSUME NEW t \in Tasks, NEW u \in Tasks, SpecGo(t) \/ TaskGo(u, t) PROVE CleanupInv'
  <2>1. gs'.list = gs.list /\ UNCHANGED <<case, at, how, reports, cleanups, ran>>
    BY <1>6 DEF SpecGo, TaskGo, TypeInv, IdType, GoState, history
  <2> QED BY <2>1, CleanupSteady
<1>7. CASE SpecCleanup
  <2>1. InUserCode /\ Register(case) /\ case \in Cases /\ at # "start"
    BY <1>7 DEF SpecCleanup, InUserCode, TypeInv, PlaceInv
  <2> QED BY <2>1, RegisterCleanup DEF Cases
<1>8. ASSUME NEW t \in Tasks, TaskCleanup(t) PROVE CleanupInv'
  BY <1>8, StrayOrOwn, RegisterCleanup DEF TaskCleanup
<1>9. ASSUME NEW t \in Tasks, NEW out \in Ways, TaskEnds(t, out) PROVE CleanupInv'
  <2>1. gs'.list = gs.list /\ UNCHANGED <<case, at, how, reports, cleanups, ran>>
    BY <1>9 DEF TaskEnds, TypeInv, IdType, GoState
  <2> QED BY <2>1, CleanupSteady
<1>10. ASSUME NEW out \in Ways, BodyEnds(out) \/ HookEnds(out) \/ CleanupEnds(out) PROVE CleanupInv'
  BY <1>10, UserCodeEndsCleanup
<1> QED BY SomeStep, <1>1, <1>2, <1>3, <1>4, <1>5, <1>6, <1>7, <1>8, <1>9, <1>10

\* AfterEach hooks wait for the tasks of the body, cleanups for all tasks; a reported case that was not
\* abandoned has no task left, and its cleanups have run, each once.
THEOREM SettlesInOrder == Spec => []SettledInOrder
<1>1. TypeInv /\ TaskInv /\ CleanupInv => SettledInOrder
  <2> SUFFICES ASSUME TypeInv, TaskInv, CleanupInv PROVE SettledInOrder
    OBVIOUS
  <2>1. \A c : Intact(c) => c \in Nat /\ c < case /\ ~Abandoned(c)
    <3>1. reports \in Seq(ReportRecord(Len(log))) /\ case \in Nat /\ Len(reports) = case - 1
      BY DEF TypeInv, IdType, ControlType, TaskInv
    <3>2. DOMAIN reports = 1..(case - 1)
      BY <3>1, LenProperties
    <3> QED BY <3>1, <3>2 DEF Intact, Abandoned
  <2>2. TasksAwaited
    <3> SUFFICES ASSUME NEW t \in Tasks, Running(t)
                 PROVE  /\ at = "after" /\ tasks[t].of = case => tasks[t].stage = 2
                        /\ at = "cleanup" => tasks[t].of # case
                        /\ ~Intact(tasks[t].of)
      BY DEF TasksAwaited
    <3>1. ~Drained
      BY DEF TaskInv, Quiet
    <3> QED BY <2>1, <3>1, StrayOrOwn DEF TaskInv, Drained
  <2>3. CleanupsRun
    <3>1. ASSUME NEW c \in Cases, Intact(c), NEW i \in DOMAIN cleanups, cleanups[i] = c
          PROVE  \E j \in DOMAIN ran : ran[j] = i
      <4>1. c \in Nat /\ c < case /\ ~Abandoned(c) /\ case \in Nat
        BY <2>1, <3>1, ListTypes
      <4> QED BY <3>1, <4>1 DEF CleanupInv
    <3> QED BY <3>1 DEF CleanupsRun, CleanupInv
  <2> QED BY <2>2, <2>3 DEF SettledInOrder
<1> QED BY <1>1, InitType, NextType, InitTask, NextTask, InitCleanup, NextCleanup, PTL DEF Spec

-----------------------------------------------------------------------------
(* Failures and what the Context keeps of them.                            *)

LEMMA InitCharge == Init => ChargeInv
<1> SUFFICES ASSUME Init PROVE ChargeInv
  OBVIOUS
<1>1. PastInv
  BY DEF Init, PastInv, Running
<1>2. ChargedToItsSpec
  BY DEF Init, ChargedToItsSpec, Intact
<1> QED BY <1>1, <1>2 DEF ChargeInv, Init

\* A new failure is one of its case's.
LEMMA OneMoreFailure ==
  ASSUME TypeInv, NEW f \in Failures, log' = Append(log, f)
  PROVE  /\ \A c : FailuresOf(c)' = IF f.of = c THEN FailuresOf(c) \cup {NewId} ELSE FailuresOf(c)
         /\ \A c : 0 \notin FailuresOf(c) /\ NewId \notin FailuresOf(c)
         /\ NewId \in Nat \ {0}
         /\ \A i \in DOMAIN log' : (i \in DOMAIN log /\ log'[i] = log[i]) \/ (i = NewId /\ log'[i] = f)
<1>1. /\ Len(log) \in Nat /\ NewId = Len(log) + 1 /\ DOMAIN log = 1..Len(log) /\ DOMAIN log' = 1..NewId
      /\ \A i \in 1..Len(log) : log'[i] = log[i]
      /\ log'[NewId] = f
  BY LogGrows
<1>2. \A i : i \in 1..NewId <=> i \in 1..Len(log) \/ i = NewId
  BY <1>1
<1>3. ASSUME NEW c
      PROVE  FailuresOf(c)' = IF f.of = c THEN FailuresOf(c) \cup {NewId} ELSE FailuresOf(c)
  BY <1>1, <1>2 DEF FailuresOf
<1>4. \A c : 0 \notin FailuresOf(c) /\ NewId \notin FailuresOf(c)
  BY <1>1 DEF FailuresOf
<1>5. \A i \in DOMAIN log' : (i \in DOMAIN log /\ log'[i] = log[i]) \/ (i = NewId /\ log'[i] = f)
  BY <1>1, <1>2
<1>6. NewId \in Nat \ {0}
  BY <1>1
<1> QED BY <1>3, <1>4, <1>5, <1>6

LEMMA IntactCase ==
  ASSUME TypeInv, TaskInv, NEW c, Intact(c)
  PROVE  c \in Nat /\ c < case /\ ~Abandoned(c) /\ c \in DOMAIN reports
<1>1. reports \in Seq(ReportRecord(Len(log))) /\ case \in Nat /\ Len(reports) = case - 1
  BY DEF TypeInv, IdType, ControlType, TaskInv
<1>2. DOMAIN reports = 1..(case - 1)
  BY <1>1, LenProperties
<1> QED BY <1>1, <1>2 DEF Intact, Abandoned

\* No failure of a reported case that was not abandoned is added later.
LEMMA PastKept ==
  ASSUME TypeInv, TaskInv, ChargedToItsSpec, reports' = reports,
         \A c : Intact(c) => FailuresOf(c)' = FailuresOf(c)
  PROVE  ChargedToItsSpec'
<1> SUFFICES ASSUME NEW c \in Cases, Intact(c)'
             PROVE  /\ reports'[c].failed <=> FailuresOf(c)' # {}
                    /\ reports'[c].message # 0 => reports'[c].message \in FailuresOf(c)'
  BY DEF ChargedToItsSpec
<1>1. Intact(c)
  BY DEF Intact
<1>2. FailuresOf(c)' = FailuresOf(c)
  BY <1>1
<1> QED BY <1>1, <1>2 DEF ChargedToItsSpec

LEMMA PastKeptByNew ==
  ASSUME TypeInv, TaskInv, ChargedToItsSpec, reports' = reports, NEW f \in Failures,
         log' = Append(log, f), f.of = case \/ Abandoned(f.of)
  PROVE  ChargedToItsSpec'
<1>1. ASSUME NEW c, Intact(c) PROVE f.of # c
  BY <1>1, IntactCase
<1> QED BY <1>1, OneMoreFailure, PastKept

\* A step that adds no failure.
LEMMA NowSteady ==
  ASSUME NowOK, UNCHANGED <<case, log, failure, message, tFailed>>,
         gs'.rec = gs.rec, gs'.panic = gs.panic, gs'.pending = gs.pending, gs'.panicReported = gs.panicReported,
         Drained' => Drained, at' = "end" /\ how' # "abandoned" => at = "end" /\ how # "abandoned"
  PROVE  NowOK'
<1>1. FailuresOf(case)' = FailuresOf(case)
  BY DEF FailuresOf
<1>2. \A n : Own(n)' <=> Own(n)
  BY <1>1 DEF Own
<1>3. Kept' <=> Kept
  BY DEF Kept
<1> QED BY <1>1, <1>2, <1>3 DEF NowOK, Own

LEMMA CleanStays ==
  ASSUME reports' = reports
  PROVE  /\ Clean' <=> Clean
         /\ \A c : Abandoned(c)' <=> Abandoned(c)
         /\ \A c : Clean => ~Abandoned(c)
  BY DEF Clean, Abandoned

LEMMA ChargeSteady ==
  ASSUME TypeInv, TaskInv, ChargeInv, UNCHANGED <<case, log, failure, message, tFailed, bound, reports>>,
         gs'.rec = gs.rec, gs'.panic = gs.panic, gs'.pending = gs.pending, gs'.panicReported = gs.panicReported,
         at' = "start" <=> at = "start",
         Drained' => Drained, at' = "end" /\ how' # "abandoned" => at = "end" /\ how # "abandoned",
         \A t \in Tasks : Running(t)' /\ tasks'[t].of = case /\ OnT => bound[tasks'[t].wrapper] = case
  PROVE  ChargeInv'
<1>1. ChargedToItsSpec'
  <2>1. \A c : FailuresOf(c)' = FailuresOf(c)
    BY DEF FailuresOf
  <2> QED BY <2>1, PastKept DEF ChargeInv
<1>2. PastInv'
  BY DEF PastInv, ChargeInv
<1>3. Clean' /\ at' # "start" => NowOK'
  BY CleanStays, NowSteady DEF ChargeInv
<1> QED BY <1>1, <1>2, <1>3 DEF ChargeInv

LEMMA StartCaseCharge == ASSUME TypeInv, TaskInv, ChargeInv, StartCase PROVE ChargeInv'
<1>1. /\ at = "start" /\ at' = "body" /\ message' = 0 /\ failure' = NoFailure
      /\ UNCHANGED <<case, tasks, tFailed, log, reports>>
      /\ gs'.rec = 0 /\ gs'.panic = 0 /\ gs'.pending = <<>> /\ ~gs'.panicReported
  <2>1. gs \in GoState(Len(log)) /\ Len(log) \in Nat
    BY DEF TypeInv, IdType
  <2> QED BY <2>1, RecycledType DEF StartCase, history
<1>2. case \in Nat /\ FailuresOf(case) = {} /\ case \notin tFailed
  <2>1. case \in Nat
    BY DEF TypeInv, ControlType
  <2>2. \A i \in DOMAIN log : log[i].of \in Nat /\ log[i].of < case
    <3>1. log \in Seq(Failures)
      BY DEF TypeInv
    <3>2. \A i \in DOMAIN log : log[i] \in Failures
      BY <3>1
    <3> QED BY <1>1, <3>2 DEF ChargeInv, PastInv, Failures, Cases
  <2> QED BY <1>1, <2>1, <2>2 DEF FailuresOf, ChargeInv, PastInv
<1>3. ChargedToItsSpec'
  <2>1. \A c : FailuresOf(c)' = FailuresOf(c)
    BY <1>1 DEF FailuresOf
  <2> QED BY <1>1, <2>1, PastKept DEF ChargeInv
<1>4. PastInv'
  <2>1. \A t \in Tasks : Running(t) => tasks[t].of # case
    BY <1>1, <1>2, StrayOrOwn
  <2> QED BY <1>1, <1>2, <2>1 DEF PastInv, ChargeInv, Running
<1>5. NowOK'
  <2>1. FailuresOf(case)' = {}
    BY <1>1, <1>2 DEF FailuresOf
  <2>2. ~Kept'
    BY <1>1, <1>2 DEF Kept, NoFailure
  <2> QED BY <1>1, <2>1, <2>2 DEF NowOK, Own, NoFailure, Drained
<1> QED BY <1>3, <1>4, <1>5 DEF ChargeInv

LEMMA NextCaseCharge == ASSUME TypeInv, TaskInv, ChargeInv, FilterCase \/ EndCase PROVE ChargeInv'
<1> DEFINE r == IF at = "start" THEN Filtered ELSE Finished
<1>1. /\ r \in ReportRecord(Len(log)) /\ reports' = Append(reports, r) /\ case \in Nat /\ case \in Cases
      /\ case' = case + 1 /\ at' = "start" /\ at \in {"start", "end"} /\ UNCHANGED <<tasks, tFailed, log>>
  BY CaseReported DEF history, TypeInv, ControlType
<1>2. \A c : FailuresOf(c)' = FailuresOf(c)
  BY <1>1 DEF FailuresOf
<1>3. \A i \in DOMAIN log : log[i].of \in Nat /\ log[i].of <= case /\ (at = "start" => log[i].of < case)
  <2>1. log \in Seq(Failures)
    BY DEF TypeInv
  <2>2. \A i \in DOMAIN log : log[i] \in Failures
    BY <2>1
  <2> QED BY <2>2 DEF ChargeInv, PastInv, Failures, Cases
<1>4. PastInv'
  <2>1. \A c \in tFailed : c \in Nat /\ c <= case
    BY DEF ChargeInv, PastInv, TypeInv, OtherType, Cases
  <2>2. \A t \in Tasks : Running(t) => tasks[t].of \in Nat /\ tasks[t].of <= case
    BY TaskIsOfCase DEF Cases
  <2>3. \A t \in Tasks : Running(t)' => tasks'[t].of # case'
    BY <1>1, <2>2 DEF Running
  <2> QED BY <1>1, <1>3, <2>1, <2>3 DEF PastInv
<1>5. ASSUME NEW c \in Cases, Intact(c)'
      PROVE  /\ reports'[c].failed <=> FailuresOf(c) # {}
             /\ reports'[c].message # 0 => reports'[c].message \in FailuresOf(c)
  <2>1. /\ DOMAIN reports' = 1..case /\ reports'[case] = r /\ DOMAIN reports = 1..(case - 1)
        /\ \A d \in 1..(case - 1) : reports'[d] = reports[d]
    BY <1>1, ReportAppended
  <2>2. c \in 1..case /\ \A d \in 1..c : reports'[d].how # "abandoned"
    BY <1>5, <2>1 DEF Intact
  <2>3. CASE c # case
    <3>1. c \in DOMAIN reports /\ reports'[c] = reports[c] /\ Intact(c)
      BY <1>1, <2>1, <2>2, <2>3 DEF Intact
    <3> QED BY <3>1 DEF ChargeInv, ChargedToItsSpec
  <2>4. CASE c = case
    <3>1. Clean /\ r.how # "abandoned"
      BY <1>1, <2>1, <2>2, <2>4 DEF Clean
    <3>2. CASE at = "start"
      <4>1. FailuresOf(case) = {}
        BY <1>1, <1>3, <3>2 DEF FailuresOf
      <4> QED BY <2>1, <2>4, <3>2, <4>1 DEF Filtered
    <3>3. CASE at = "end"
      <4>1. NowOK /\ how # "abandoned" /\ Drained
        BY <3>1, <3>3 DEF ChargeInv, Finished, Drained
      <4>2. Failed <=> FailuresOf(case) # {}
        BY <3>3, <4>1 DEF NowOK, Kept, Failed
      <4>3. Own(message) /\ Own(failure.message)
        BY <4>1 DEF NowOK
      <4>4. /\ r.failed = Failed
            /\ r.message \in {0, message, failure.message}
        BY <3>3 DEF Finished
      <4> QED BY <2>1, <2>4, <4>2, <4>3, <4>4 DEF Own
    <3> QED BY <1>1, <3>2, <3>3
  <2> QED BY <2>3, <2>4
<1>6. ChargedToItsSpec'
  BY <1>2, <1>5 DEF ChargedToItsSpec
<1> QED BY <1>1, <1>4, <1>6 DEF ChargeInv

\* A step of the current case, or of a task of an abandoned one, that adds failure f.
LEMMA PastGrows ==
  ASSUME TypeInv, TaskInv, ChargeInv, NEW f \in Failures, log' = Append(log, f),
         f.of <= case, f.of = case \/ Abandoned(f.of), f.of = case => at # "start",
         UNCHANGED <<case, bound, reports>>, at' = "start" <=> at = "start",
         tFailed' \subseteq tFailed \cup {case}, at = "start" => tFailed' = tFailed,
         \A t \in Tasks : Running(t)' =>
            Running(t) /\ tasks'[t].of = tasks[t].of /\ tasks'[t].wrapper = tasks[t].wrapper
  PROVE  PastInv' /\ ChargedToItsSpec'
<1>1. case \in Nat /\ f.of \in Nat
  BY DEF TypeInv, ControlType, Failures, Cases
<1>2. \A i \in DOMAIN log' : (i \in DOMAIN log /\ log'[i] = log[i]) \/ (i = NewId /\ log'[i] = f)
  BY OneMoreFailure
<1>3. \A i \in DOMAIN log' : log'[i].of <= case /\ (at = "start" => log'[i].of < case)
  BY <1>1, <1>2 DEF ChargeInv, PastInv
<1>4. \A c \in tFailed' : c <= case /\ (at = "start" => c < case)
  BY <1>1 DEF ChargeInv, PastInv
<1>5. PastInv'
  BY <1>3, <1>4 DEF ChargeInv, PastInv
<1> QED BY <1>5, PastKeptByNew DEF ChargeInv

\* While no case was abandoned such a failure is of the current case.
LEMMA NowGrows ==
  ASSUME TypeInv, TaskInv, NowOK, NEW f \in Failures, log' = Append(log, f), f.of = case, case' = case,
         message' \in {message, NewId}, failure'.message \in {failure.message, NewId},
         failure.failed => failure'.failed,
         gs'.rec \in {gs.rec, NewId}, gs'.panic \in {gs.panic, NewId}, gs'.panicReported = gs.panicReported,
         \A i \in DOMAIN gs'.pending :
            gs'.pending[i] = NewId \/ (i \in DOMAIN gs.pending /\ gs'.pending[i] = gs.pending[i]),
         Kept',
         (gs'.rec = gs.rec /\ gs'.panic = gs.panic) \/ ~Drained',
         Drained' => Drained, ~(at' = "end" /\ how' # "abandoned")
  PROVE  NowOK'
<1>1. FailuresOf(case)' = FailuresOf(case) \cup {NewId}
  BY OneMoreFailure
<1>2. \A n : Own(n) \/ n = NewId => Own(n)'
  BY <1>1 DEF Own
<1>3. Own(message)' /\ Own(failure.message)' /\ Own(gs.rec)' /\ Own(gs.panic)'
  <2>1. \A n : (n = 0 \/ n \in FailuresOf(case)) \/ n = NewId => n = 0 \/ n \in FailuresOf(case)'
    BY <1>1
  <2> QED BY <2>1 DEF NowOK, Own
<1>4. \A i \in DOMAIN gs'.pending : gs'.pending[i] \in FailuresOf(case)'
  BY <1>1 DEF NowOK
<1>5. gs'.panicReported => failure'.failed
  BY DEF NowOK
<1>6. Drained' /\ (gs'.rec # 0 \/ gs'.panic # 0) => failure'.failed
  BY DEF NowOK
<1> QED BY <1>1, <1>3, <1>4, <1>5, <1>6 DEF NowOK

LEMMA EarlyErrorfCharge == ASSUME TypeInv, TaskInv, ChargeInv, EarlyErrorf PROVE ChargeInv'
<1> DEFINE f == Failure("early", case, "spec")
<1>1. case \in Cases /\ at \in {"body", "after", "cleanup"} /\ f \in Failures /\ f.of = case /\ log' = Append(log, f)
  <2>1. case \in Cases /\ at \in {"body", "after", "cleanup"}
    BY DEF TypeInv, PlaceInv, InUserCode, EarlyErrorf
  <2> QED BY <2>1 DEF EarlyErrorf, Failures, Failure, Stage
<1>2. UNCHANGED <<case, at, how, bound, reports, tasks, gs, message>> /\ tFailed' \subseteq tFailed \cup {case}
  BY DEF EarlyErrorf
<1>3. failure'.failed /\ failure'.message \in {failure.message, NewId}
  BY DEF EarlyErrorf
<1>4. PastInv' /\ ChargedToItsSpec'
  BY <1>1, <1>2, PastGrows DEF Cases, Running
<1>5. ASSUME NowOK PROVE NowOK'
  <2>1. Kept' /\ (Drained' <=> Drained)
    BY <1>2, <1>3 DEF Kept, Drained
  <2> QED BY <1>1, <1>2, <1>3, <1>5, <2>1, NowGrows
<1> QED BY <1>1, <1>2, <1>4, <1>5, CleanStays DEF ChargeInv

LEMMA QueueCharge ==
  ASSUME TypeInv, TaskInv, ChargeInv, NEW c \in Cases, NEW by \in {"spec", "task"}, NEW to, Queue(c, by, to),
         c <= case, c = case \/ Abandoned(c), c = case => at # "start",
         OnT => to = case /\ at # "start", InUserCode \/ ~Quiet
  PROVE  ChargeInv'
<1> DEFINE f == Failure("errorf", c, by)
<1>1. f \in Failures /\ f.of = c /\ log' = Append(log, f)
  BY DEF Queue, Failures, Failure, Stage
<1>2. /\ UNCHANGED <<case, at, how, bound, reports, tasks, failure, message>>
      /\ tFailed' \subseteq tFailed \cup {case} /\ (at = "start" => tFailed' = tFailed)
  BY DEF Queue
<1>3. /\ gs \in GoState(Len(log)) /\ Len(log) \in Nat /\ gs.pending \in Seq(0..Len(log))
  BY DEF TypeInv, IdType, GoState
<1>4. /\ gs'.rec = gs.rec /\ gs'.panic = gs.panic /\ gs'.panicReported = gs.panicReported
      /\ gs'.pending = Append(gs.pending, NewId)
  BY <1>3 DEF Queue, GoState
<1>5. PastInv' /\ ChargedToItsSpec'
  BY <1>1, <1>2, PastGrows DEF Cases, Running
<1>6. ASSUME NowOK, Clean PROVE NowOK'
  <2>1. c = case
    BY <1>2, <1>6, CleanStays
  <2>2. gs.pending \in Seq(Nat) /\ NewId \in Nat
    BY <1>3, SeqMonotonic DEF NewId
  <2>3. /\ gs'.pending # <<>>
        /\ \A i \in DOMAIN gs'.pending :
             gs'.pending[i] = NewId \/ (i \in DOMAIN gs.pending /\ gs'.pending[i] = gs.pending[i])
    <3>1. /\ DOMAIN gs.pending = 1..Len(gs.pending) /\ Len(gs.pending) \in Nat
          /\ DOMAIN gs'.pending = 1..(Len(gs.pending) + 1) /\ gs'.pending[Len(gs.pending) + 1] = NewId
          /\ \A i \in 1..Len(gs.pending) : gs'.pending[i] = gs.pending[i]
          /\ Len(gs'.pending) = Len(gs.pending) + 1
      BY <1>4, <2>2, Appended
    <3> QED BY <3>1
  <2>4. Kept' /\ (Drained' <=> Drained)
    BY <1>2, <2>3 DEF Kept, Drained
  <2>5. ~(at = "end" /\ how # "abandoned")
    BY DEF InUserCode, TaskInv, Drained
  <2> QED BY <1>1, <1>2, <1>4, <1>6, <2>1, <2>3, <2>4, <2>5, NowGrows
<1> QED BY <1>2, <1>5, <1>6, CleanStays DEF ChargeInv

LEMMA TaskEndsCharge ==
  ASSUME TypeInv, TaskInv, ChargeInv, NEW t \in Tasks, NEW out \in Ways, TaskEnds(t, out)
  PROVE  ChargeInv'
<1> DEFINE c == tasks[t].of
           lost == \/ OnT /\ out = "fatal" /\ ~Reaches(t)
                   \/ OnT /\ out \in {"error", "failnow"} /\ c # case
           panicked == out = "panic" \/ lost
           failing  == out \notin {"ok", "skip"}
           reported == OnT /\ failing /\ ~panicked
           f == Failure(IF panicked THEN "panic" ELSE out, c, "task")
<1>1. /\ Running(t) /\ ~Quiet /\ ~Drained /\ c \in Cases /\ c <= case /\ (c < case => Abandoned(c))
      /\ (c = case => at # "start") /\ case \in Nat
  BY StrayOrOwn, TaskIsOfCase DEF TaskInv, TaskEnds
<1>2. /\ UNCHANGED <<case, at, how, bound, reports, failure, message>>
      /\ tasks' = [tasks EXCEPT ![t].state = "done"]
      /\ (failing => log' = Append(log, f)) /\ (~failing => log' = log)
      /\ tFailed' = IF reported THEN tFailed \cup {IF out = "fatal" THEN ReportsTo(t) ELSE c} ELSE tFailed
  BY DEF TaskEnds
<1>3. /\ gs'.rec = IF out = "fatal" /\ gs.rec = 0 THEN NewId ELSE gs.rec
      /\ gs'.panic = IF panicked /\ gs.panic = 0 THEN NewId ELSE gs.panic
      /\ gs'.pending = gs.pending /\ gs'.panicReported = gs.panicReported
  BY DEF TaskEnds, TypeInv, IdType, GoState
<1>4. \A u \in Tasks : Running(u)' =>
            Running(u) /\ tasks'[u].of = tasks[u].of /\ tasks'[u].wrapper = tasks[u].wrapper
  BY <1>2 DEF TypeInv, OtherType, TaskRecord, Running
<1>5. c = case \/ (c < case /\ Abandoned(c))
  BY <1>1 DEF Cases
<1>6. f \in Failures /\ f.of = c
  <2>1. (IF panicked THEN "panic" ELSE out) \in Endings /\ Stage \in 1..3
    BY DEF Ways, Endings, Stage
  <2> QED BY <1>1, <2>1 DEF Failures, Failure
<1>7. tFailed' \subseteq tFailed \cup {case} /\ (at = "start" => tFailed' = tFailed)
  <2>1. CASE reported
    <3>1. out = "fatal" => ReportsTo(t) = case /\ at # "start"
      BY <1>1, <2>1, TaskIsOfCase DEF Reaches, TypeInv, PlaceInv
    <3>2. out # "fatal" => c = case
      BY <2>1 DEF Ways, Endings
    <3> QED BY <1>1, <1>2, <3>1, <3>2
  <2> QED BY <1>2, <2>1
<1>8. CASE failing
  <2>1. PastInv' /\ ChargedToItsSpec'
    BY <1>1, <1>2, <1>4, <1>5, <1>6, <1>7, <1>8, PastGrows
  <2>2. ASSUME NowOK, Clean PROVE NowOK'
    <3>1. c = case
      BY <1>5, <2>2, CleanStays, <1>2
    <3>2. NewId # 0
      BY <1>2, <1>6, <1>8, OneMoreFailure
    <3>3. Kept'
      <4>1. CASE out = "fatal" \/ panicked
        BY <1>3, <3>2, <4>1 DEF Kept
      <4>2. CASE ~(out = "fatal" \/ panicked)
        <5>1. OnT /\ reported
          BY <1>8, <4>2 DEF Ways
        <5> QED BY <1>2, <3>1, <4>2, <5>1 DEF Kept
      <4> QED BY <4>1, <4>2
    <3>4. ~Drained' /\ ~(at' = "end" /\ how' # "abandoned")
      BY <1>1, <1>2 DEF Drained
    <3>5. f.of = case /\ log' = Append(log, f)
      BY <1>2, <1>6, <1>8, <3>1
    <3> HIDE DEF f, panicked
    <3> QED BY <1>2, <1>3, <1>6, <2>2, <3>3, <3>4, <3>5, NowGrows
  <2> QED BY <1>2, <2>1, <2>2, CleanStays DEF ChargeInv
<1>9. CASE ~failing
  <2>1. ~panicked /\ out # "fatal"
    BY <1>9
  <2>2. UNCHANGED <<case, log, failure, message, tFailed, bound, reports>>
    BY <1>2, <1>9
  <2>3. \A u \in Tasks : Running(u)' /\ tasks'[u].of = case /\ OnT => bound[tasks'[u].wrapper] = case
    BY <1>4 DEF ChargeInv, PastInv
  <2> QED BY <1>2, <1>3, <2>1, <2>2, <2>3, ChargeSteady DEF Drained
<1> QED BY <1>8, <1>9

LEMMA UserCodeEndsCharge ==
  ASSUME TypeInv, TaskInv, ChargeInv, NEW out \in Ways, BodyEnds(out) \/ HookEnds(out) \/ CleanupEnds(out)
  PROVE  ChargeInv'
<1> DEFINE f == Failure(out, case, "spec")
           failing == out \notin {"ok", "skip"}
<1>1. InUserCode /\ Leaves(out) /\ at \in {"body", "after", "cleanup"} /\ case \in Cases
  BY DEF InUserCode, BodyEnds, HookEnds, CleanupEnds, TypeInv, PlaceInv
<1>2. /\ UNCHANGED <<case, gs, tasks, bound, reports>>
      /\ (failing => log' = Append(log, f)) /\ (~failing => log' = log)
      /\ message' \in {message, NewId} /\ (~failing => message' = message)
      /\ tFailed' = IF OnT /\ failing THEN tFailed \cup {case} ELSE tFailed
  BY <1>1 DEF Leaves
<1>3. /\ failure'.message \in {failure.message, NewId} /\ (failure.failed => failure'.failed)
      /\ (out \in {"fatal", "panic"} => failure'.failed) /\ (~failing => failure' = failure)
  BY <1>1 DEF Leaves, TypeInv, IdType
<1>4. at' # "start" /\ (Drained' => Drained) /\ ~(at' = "end" /\ how' # "abandoned")
  <2>1. CASE BodyEnds(out)
    BY <2>1 DEF BodyEnds, Drained
  <2>2. CASE HookEnds(out)
    <3>1. CASE Exits(out)
      BY <2>2, <3>1 DEF HookEnds, Drained
    <3>2. CASE ~Exits(out)
      BY <2>2, <3>2 DEF HookEnds, Drained
    <3> QED BY <3>1, <3>2
  <2>3. CASE CleanupEnds(out)
    BY <2>3 DEF CleanupEnds, AfterCleanup, Drained
  <2> QED BY <2>1, <2>2, <2>3
<1>5. CASE failing
  <2>1. f \in Failures /\ f.of = case /\ log' = Append(log, f)
    <3>1. Stage \in 1..3
      BY DEF Stage
    <3> QED BY <1>1, <1>2, <1>5, <3>1 DEF Failures, Failure, Ways
  <2>2. PastInv' /\ ChargedToItsSpec'
    BY <1>1, <1>2, <1>4, <2>1, PastGrows DEF Cases, Running
  <2>3. ASSUME NowOK PROVE NowOK'
    <3>1. Kept'
      <4>1. CASE out \in {"fatal", "panic"}
        BY <1>3, <4>1 DEF Kept
      <4>2. CASE out \notin {"fatal", "panic"}
        BY <1>2, <1>5, <4>2 DEF Ways, Kept
      <4> QED BY <4>1, <4>2
    <3> QED BY <1>2, <1>3, <1>4, <2>1, <2>3, <3>1, NowGrows
  <2> QED BY <1>1, <1>2, <2>2, <2>3, CleanStays DEF ChargeInv
<1>6. CASE ~failing
  <2>1. UNCHANGED <<case, log, failure, message, tFailed, bound, reports, tasks, gs>>
    BY <1>2, <1>3, <1>6
  <2>2. \A u \in Tasks : Running(u)' /\ tasks'[u].of = case /\ OnT => bound[tasks'[u].wrapper] = case
    BY <2>1 DEF ChargeInv, PastInv, Running
  <2> QED BY <1>1, <1>4, <2>1, <2>2, ChargeSteady
<1> QED BY <1>5, <1>6

\* What a settle point makes of the failures that are kept.
LEMMA FoldedOK ==
  ASSUME TypeInv, NowOK
  PROVE  /\ Folded.failed <=> failure.failed \/ gs.rec # 0 \/ gs.pending # <<>>
         /\ Own(Folded.message)
         /\ Folded \in [failed : BOOLEAN, message : 0..Len(log)]
<1>1. gs.pending \in Seq(0..Len(log)) /\ failure \in [failed : BOOLEAN, message : 0..Len(log)] /\ Len(log) \in Nat
  BY DEF TypeInv, IdType, GoState
<1>2. gs.pending # <<>> => Head(gs.pending) = gs.pending[1] /\ 1 \in DOMAIN gs.pending
  BY <1>1
<1>3. gs.pending # <<>> => Own(Head(gs.pending))
  BY <1>2 DEF NowOK, Own
<1>4. Own(gs.rec) /\ Own(failure.message)
  BY DEF NowOK
<1>5. Folded \in [failed : BOOLEAN, message : 0..Len(log)]
  BY <1>1, FoldedType DEF TypeInv
<1>6. Folded.failed <=> failure.failed \/ gs.rec # 0 \/ gs.pending # <<>>
  BY <1>1 DEF Folded
<1>7. Folded.message \in {failure.message, gs.rec} \/ (gs.pending # <<>> /\ Folded.message = Head(gs.pending))
  BY <1>1 DEF Folded
<1> QED BY <1>3, <1>4, <1>5, <1>6, <1>7

LEMMA SettlingCharge == ASSUME TypeInv, TaskInv, ChargeInv, Settle \/ SettleLast \/ DrainDone PROVE ChargeInv'
<1> DEFINE report == at # "drain"
           first == report /\ gs.panic # 0 /\ ~gs.panicReported
           s0 == IF at = "settle" THEN gs
                 ELSE IF at = "settleLast" THEN [gs EXCEPT !.closed = gs.used]
                 ELSE [gs EXCEPT !.cleanupsDone = gs.used]
<1>1. Fold(s0, report)
  BY DEF Settle, SettleLast, DrainDone
<1>2. gs \in GoState(Len(log)) /\ at \in {"settle", "settleLast", "drain"} /\ case \in Cases
  BY DEF TypeInv, IdType, PlaceInv, Settle, SettleLast, DrainDone
<1>3. s0 \in GoState(Len(log)) /\ s0.rec = gs.rec /\ s0.panic = gs.panic /\ s0.panicReported = gs.panicReported
  BY <1>2 DEF GoState
<1>4. /\ gs'.rec = gs.rec /\ gs'.panic = gs.panic /\ gs'.pending = <<>>
      /\ gs'.panicReported = (gs.panicReported \/ first)
  <2> HIDE DEF s0
  <2> QED BY <1>1, <1>3 DEF Fold, GoState
<1>5. /\ UNCHANGED <<case, how, tasks, bound, log, reports>>
      /\ failure' = IF first THEN [Folded EXCEPT !.failed = TRUE] ELSE Folded
      /\ tFailed' = IF OnT /\ first THEN tFailed \cup {case} ELSE tFailed
      /\ message' \in {message, gs.panic}
  BY <1>1 DEF Fold, history
<1>6. at' \in {"after", "settleLast", "drain", "end"} /\ (Drained' => at \in {"settleLast", "drain"})
  BY DEF Settle, SettleLast, DrainDone, Drained
<1>7. \A c : FailuresOf(c)' = FailuresOf(c)
  BY <1>5 DEF FailuresOf
<1>8. ChargedToItsSpec'
  BY <1>5, <1>7, PastKept DEF ChargeInv
<1>9. PastInv'
  BY <1>2, <1>5, <1>6 DEF ChargeInv, PastInv, Running, Cases
<1>10. ASSUME NowOK PROVE NowOK'
  <2>1. /\ Folded.failed <=> failure.failed \/ gs.rec # 0 \/ gs.pending # <<>>
        /\ Own(Folded.message) /\ Folded \in [failed : BOOLEAN, message : 0..Len(log)]
    BY <1>10, FoldedOK
  <2>2. /\ failure'.failed <=> failure.failed \/ gs.rec # 0 \/ gs.pending # <<>> \/ first
        /\ failure'.message = Folded.message
    BY <1>5, <2>1
  <2>3. FailuresOf(case)' = FailuresOf(case)
    BY <1>5, <1>7
  <2>4. Kept' <=> Kept
    BY <1>4, <1>5, <2>2 DEF Kept
  <2>5. Own(message)' /\ Own(failure.message)' /\ Own(gs.rec)' /\ Own(gs.panic)'
    BY <1>4, <1>5, <1>10, <2>1, <2>2, <2>3 DEF NowOK, Own
  <2>6. gs'.panicReported => failure'.failed
    BY <1>4, <1>10, <2>2 DEF NowOK
  <2>7. Drained' /\ (gs'.rec # 0 \/ gs'.panic # 0) => failure'.failed
    <3>1. CASE at = "drain"
      BY <1>4, <1>10, <2>2, <3>1 DEF NowOK, Drained
    <3>2. CASE at = "settleLast"
      BY <1>4, <1>10, <2>2, <3>2 DEF NowOK
    <3> QED BY <1>6, <3>1, <3>2
  <2>8. \A i \in DOMAIN gs'.pending : gs'.pending[i] \in FailuresOf(case)'
    BY <1>4
  <2> QED BY <1>4, <1>10, <2>3, <2>4, <2>5, <2>6, <2>7, <2>8 DEF NowOK
<1>11. at # "start"
  BY <1>2
<1> QED BY <1>5, <1>8, <1>9, <1>10, <1>11, CleanStays DEF ChargeInv

LEMMA GoCharge ==
  ASSUME TypeInv, TaskInv, ChargeInv, NEW t \in Tasks, NEW u \in Tasks, SpecGo(t) \/ TaskGo(u, t)
  PROVE  ChargeInv'
<1>1. /\ UNCHANGED <<case, at, how, log, failure, message, tFailed, bound, reports>>
      /\ gs'.rec = gs.rec /\ gs'.panic = gs.panic /\ gs'.pending = gs.pending
      /\ gs'.panicReported = gs.panicReported
  BY DEF SpecGo, TaskGo, testing, history, TypeInv, IdType, GoState
<1>2. \A v \in Tasks : v # t => tasks'[v] = tasks[v] /\ (Running(v)' <=> Running(v))
  BY DEF SpecGo, TaskGo, TypeInv, OtherType, Running
<1>3. tasks'[t].of = case /\ OnT => bound[tasks'[t].wrapper] = case
  <2>1. CASE SpecGo(t)
    <3>1. OnT => bound[Wrapper] = case
      BY <2>1 DEF SpecGo, InUserCode, Wrapper, TypeInv, PlaceInv
    <3>2. OnT => tasks'[t].wrapper = Wrapper
      BY <2>1 DEF SpecGo, TypeInv, OtherType
    <3> QED BY <3>1, <3>2
  <2>2. CASE TaskGo(u, t)
    <3>1. Running(u) /\ tasks'[t].of = tasks[u].of /\ tasks'[t].wrapper = tasks[u].wrapper
      BY <2>2 DEF TaskGo, TypeInv, OtherType, TaskRecord
    <3> QED BY <3>1 DEF ChargeInv, PastInv
  <2> QED BY <2>1, <2>2
<1>4. \A v \in Tasks : Running(v)' /\ tasks'[v].of = case /\ OnT => bound[tasks'[v].wrapper] = case
  BY <1>2, <1>3 DEF ChargeInv, PastInv
<1> QED BY <1>1, <1>4, ChargeSteady DEF Drained

LEMMA NextCharge == TypeInv /\ TaskInv /\ ChargeInv /\ [Next]_vars => ChargeInv'
<1> SUFFICES ASSUME TypeInv, TaskInv, ChargeInv, [Next]_vars PROVE ChargeInv'
  OBVIOUS
<1>1. CASE UNCHANGED vars
  <2>1. UNCHANGED <<case, at, how, log, failure, message, tFailed, bound, reports, gs, tasks>>
    BY <1>1 DEF vars, testing, history
  <2>2. \A u \in Tasks : Running(u)' /\ tasks'[u].of = case /\ OnT => bound[tasks'[u].wrapper] = case
    BY <2>1 DEF ChargeInv, PastInv, Running
  <2> QED BY <2>1, <2>2, ChargeSteady DEF Drained
<1>2. CASE FilterCase \/ EndCase \/ StartCase
  BY <1>2, NextCaseCharge, StartCaseCharge
<1>3. CASE Settle \/ SettleLast \/ DrainDone
  BY <1>3, SettlingCharge
<1>4. CASE PopCleanup \/ \E c : Register(c)
  <2>1. /\ UNCHANGED <<case, how, log, failure, message, tFailed, bound, reports, tasks>>
        /\ gs'.rec = gs.rec /\ gs'.panic = gs.panic /\ gs'.pending = gs.pending
        /\ gs'.panicReported = gs.panicReported
        /\ at' = at \/ (at = "drain" /\ at' = "cleanup")
    BY <1>4 DEF PopCleanup, Register, testing, TypeInv, IdType, GoState
  <2>2. \A u \in Tasks : Running(u)' /\ tasks'[u].of = case /\ OnT => bound[tasks'[u].wrapper] = case
    BY <2>1 DEF ChargeInv, PastInv, Running
  <2> QED BY <2>1, <2>2, ChargeSteady DEF Drained
<1>5. CASE EarlyErrorf
  BY <1>5, EarlyErrorfCharge
<1>6. CASE SpecErrorf
  <2>1. case \in Cases /\ case \in Nat /\ at # "start" /\ InUserCode /\ Queue(case, "spec", case)
    BY <1>6 DEF SpecErrorf, InUserCode, TypeInv, PlaceInv, ControlType
  <2> QED BY <2>1, QueueCharge
<1>7. ASSUME NEW t \in Tasks, TaskErrorf(t) PROVE ChargeInv'
  <2>1. Running(t) /\ Reaches(t) /\ Queue(tasks[t].of, "task", ReportsTo(t))
    BY <1>7 DEF TaskErrorf
  <2>2. OnT => ReportsTo(t) = case /\ at # "start"
    BY <2>1, TaskIsOfCase DEF Reaches, TypeInv, PlaceInv
  <2>3. tasks[t].of = case \/ Abandoned(tasks[t].of)
    BY <2>1, TaskIsOfCase, StrayOrOwn DEF Cases
  <2> QED BY <2>1, <2>2, <2>3, StrayOrOwn, QueueCharge
<1>8. ASSUME NEW t \in Tasks, NEW u \in Tasks, SpecGo(t) \/ TaskGo(u, t) PROVE ChargeInv'
  BY <1>8, GoCharge
<1>9. CASE SpecCleanup \/ \E t \in Tasks : TaskCleanup(t)
  BY <1>4, <1>9 DEF SpecCleanup, TaskCleanup
<1>10. ASSUME NEW t \in Tasks, NEW out \in Ways, TaskEnds(t, out) PROVE ChargeInv'
  BY <1>10, TaskEndsCharge
<1>11. ASSUME NEW out \in Ways, BodyEnds(out) \/ HookEnds(out) \/ CleanupEnds(out) PROVE ChargeInv'
  BY <1>11, UserCodeEndsCharge
<1> QED BY SomeStep, <1>1, <1>2, <1>3, <1>4, <1>5, <1>6, <1>7, <1>8, <1>9, <1>10, <1>11

\* A spec is reported failed exactly when something of it failed, with a message of its own: nothing
\* is lost in, or leaks out of, the Context that the pool hands from spec to spec.
THEOREM FailuresAreCharged == Spec => []ChargedToItsSpec
<1>1. ChargeInv => ChargedToItsSpec
  BY DEF ChargeInv
<1> QED BY <1>1, InitType, NextType, InitTask, NextTask, InitCharge, NextCharge, PTL DEF Spec

-----------------------------------------------------------------------------
(* What is delivered.                                                      *)

LEMMA InitDeliver == Init => DeliverInv
  BY DEF Init, DeliverInv, DueInv, Told, Elems, Distinct, FreshState

LEMMA Joined ==
  ASSUME NEW S, NEW s \in Seq(S), NEW t \in Seq(S)
  PROVE  /\ Elems(s \o t) = Elems(s) \cup Elems(t)
         /\ Distinct(s) /\ Distinct(t) /\ Elems(s) \cap Elems(t) = {} => Distinct(s \o t)
         /\ \A i \in DOMAIN s : i \in DOMAIN (s \o t) /\ (s \o t)[i] = s[i]
         /\ \A i \in DOMAIN t : Len(s) + i \in DOMAIN (s \o t) /\ (s \o t)[Len(s) + i] = t[i]
         /\ \A i \in DOMAIN (s \o t) : \/ i \in DOMAIN s /\ (s \o t)[i] = s[i]
                                       \/ i - Len(s) \in DOMAIN t /\ (s \o t)[i] = t[i - Len(s)] /\ i \in Nat
<1> DEFINE j == s \o t
<1>1. /\ Len(s) \in Nat /\ Len(t) \in Nat /\ DOMAIN s = 1..Len(s) /\ DOMAIN t = 1..Len(t)
      /\ Len(j) = Len(s) + Len(t) /\ j \in Seq(S)
      /\ \A i \in 1..(Len(s) + Len(t)) : j[i] = IF i <= Len(s) THEN s[i] ELSE t[i - Len(s)]
  BY ConcatProperties, LenProperties
<1>2. DOMAIN j = 1..(Len(s) + Len(t))
  BY <1>1, LenProperties
<1> HIDE DEF j
<1>3. /\ \A i \in DOMAIN s : i \in DOMAIN j /\ j[i] = s[i]
      /\ \A i \in DOMAIN t : Len(s) + i \in DOMAIN j /\ j[Len(s) + i] = t[i]
      /\ \A i \in DOMAIN j : \/ i \in DOMAIN s /\ j[i] = s[i]
                             \/ i - Len(s) \in DOMAIN t /\ j[i] = t[i - Len(s)] /\ i \in Nat
  BY <1>1, <1>2
<1>4. Elems(j) = Elems(s) \cup Elems(t)
  BY <1>3 DEF Elems
<1>5. ASSUME Distinct(s), Distinct(t), Elems(s) \cap Elems(t) = {} PROVE Distinct(j)
  <2> SUFFICES ASSUME NEW a \in DOMAIN j, NEW b \in DOMAIN j, j[a] = j[b] PROVE a = b
    BY DEF Distinct
  <2>1. a \in Nat /\ b \in Nat
    BY <1>1, <1>2
  <2>2. CASE a \in DOMAIN s /\ j[a] = s[a]
    <3>1. CASE b \in DOMAIN s /\ j[b] = s[b]
      <4>1. s[a] = s[b]
        BY <2>2, <3>1
      <4> QED BY <1>5, <2>2, <3>1, <4>1 DEF Distinct
    <3>2. CASE b - Len(s) \in DOMAIN t /\ j[b] = t[b - Len(s)]
      <4>1. s[a] \in Elems(s) /\ t[b - Len(s)] \in Elems(t) /\ s[a] = t[b - Len(s)]
        BY <2>2, <3>2 DEF Elems
      <4> QED BY <1>5, <4>1
    <3> QED BY <1>3, <3>1, <3>2
  <2>3. CASE a - Len(s) \in DOMAIN t /\ j[a] = t[a - Len(s)]
    <3>1. CASE b \in DOMAIN s /\ j[b] = s[b]
      <4>1. s[b] \in Elems(s) /\ t[a - Len(s)] \in Elems(t) /\ s[b] = t[a - Len(s)]
        BY <2>3, <3>1 DEF Elems
      <4> QED BY <1>5, <4>1
    <3>2. CASE b - Len(s) \in DOMAIN t /\ j[b] = t[b - Len(s)]
      <4>1. t[a - Len(s)] = t[b - Len(s)]
        BY <2>3, <3>2
      <4>2. a - Len(s) = b - Len(s)
        BY <1>5, <2>3, <3>2, <4>1 DEF Distinct
      <4> QED BY <1>1, <2>1, <4>2
    <3> QED BY <1>3, <3>1, <3>2
  <2> QED BY <1>3, <2>2, <2>3
<1> QED BY <1>3, <1>4, <1>5 DEF j

LEMMA Added ==
  ASSUME NEW S, NEW s \in Seq(S), NEW x \in S
  PROVE  /\ Elems(Append(s, x)) = Elems(s) \cup {x}
         /\ Distinct(s) /\ x \notin Elems(s) => Distinct(Append(s, x))
<1> DEFINE j == Append(s, x)
<1>1. /\ Len(s) \in Nat /\ DOMAIN s = 1..Len(s) /\ DOMAIN j = 1..(Len(s) + 1)
      /\ \A i \in 1..Len(s) : j[i] = s[i]
      /\ j[Len(s) + 1] = x
  BY Appended
<1> HIDE DEF j
<1>2. /\ \A i \in DOMAIN s : i \in DOMAIN j /\ j[i] = s[i]
      /\ \A i \in DOMAIN j : (i \in DOMAIN s /\ j[i] = s[i]) \/ (i = Len(s) + 1 /\ j[i] = x)
      /\ Len(s) + 1 \in DOMAIN j
  BY <1>1
<1>3. Elems(j) = Elems(s) \cup {x}
  BY <1>1, <1>2 DEF Elems
<1>4. Distinct(s) /\ x \notin Elems(s) => Distinct(j)
  BY <1>2 DEF Distinct, Elems
<1> QED BY <1>3, <1>4 DEF j

\* A failure that happens now has not been told, and is not among those that are kept.
LEMMA NewIsFresh ==
  ASSUME TypeInv
  PROVE  /\ NewId \in Nat \ {0} /\ NewId \notin Told /\ NewId \notin Elems(gs.pending)
         /\ NewId # gs.rec /\ NewId # gs.panic
         /\ told \in Seq(Nat \X Cases) /\ gs.pending \in Seq(Nat)
         /\ DOMAIN log = 1..Len(log)
<1>1. /\ log \in Seq(Failures) /\ Len(log) \in Nat /\ NewId = Len(log) + 1
      /\ told \in Seq((0..Len(log)) \X Cases) /\ gs.pending \in Seq(0..Len(log))
      /\ gs.rec \in 0..Len(log) /\ gs.panic \in 0..Len(log)
  BY DEF TypeInv, IdType, GoState, NewId
<1>2. 0..Len(log) \subseteq Nat /\ (0..Len(log)) \X Cases \subseteq Nat \X Cases
  BY <1>1
<1>3. told \in Seq(Nat \X Cases) /\ gs.pending \in Seq(Nat)
  BY <1>1, <1>2, SeqMonotonic
<1>4. \A i \in DOMAIN told : told[i][1] \in 0..Len(log)
  <2>1. \A i \in DOMAIN told : told[i] \in (0..Len(log)) \X Cases
    BY <1>1
  <2> QED BY <2>1
<1>5. \A i \in DOMAIN gs.pending : gs.pending[i] \in 0..Len(log)
  BY <1>1
<1>6. NewId \notin Told /\ NewId \notin Elems(gs.pending)
  BY <1>1, <1>4, <1>5 DEF Told, Elems
<1> QED BY <1>1, <1>3, <1>6

\* A delivery of the new failure.
LEMMA ToldNew ==
  ASSUME TypeInv, NEW c \in Cases, told' = Append(told, <<NewId, c>>), DueInv
  PROVE  /\ \A i, j \in DOMAIN told' : told'[i][1] = told'[j][1] => i = j
         /\ Told' = Told \cup {NewId}
         /\ \A i \in DOMAIN told : i \in DOMAIN told' /\ told'[i] = told[i]
         /\ \E i \in DOMAIN told' : told'[i] = <<NewId, c>>
<1>1. NewId \in Nat /\ NewId \notin Told /\ told \in Seq(Nat \X Cases)
  BY NewIsFresh
<1>2. /\ Len(told) \in Nat /\ DOMAIN told = 1..Len(told) /\ DOMAIN told' = 1..(Len(told) + 1)
      /\ \A i \in 1..Len(told) : told'[i] = told[i]
      /\ told'[Len(told) + 1] = <<NewId, c>>
  BY <1>1, Appended
<1>3. /\ \A i \in DOMAIN told : i \in DOMAIN told' /\ told'[i] = told[i]
      /\ \A i \in DOMAIN told' :
           (i \in DOMAIN told /\ told'[i] = told[i]) \/ (i = Len(told) + 1 /\ told'[i] = <<NewId, c>>)
      /\ Len(told) + 1 \in DOMAIN told'
  BY <1>2
<1>4. \A i \in DOMAIN told : told[i][1] # NewId
  BY <1>1 DEF Told
<1>5. <<NewId, c>>[1] = NewId
  OBVIOUS
<1>6. Told' = Told \cup {NewId}
  BY <1>2, <1>3, <1>5 DEF Told
<1>7. \A i, j \in DOMAIN told' : told'[i][1] = told'[j][1] => i = j
  BY <1>3, <1>4, <1>5 DEF DueInv
<1> QED BY <1>2, <1>3, <1>6, <1>7

\* What is delivered or queued stays so.
LEMMA ErrorfKept ==
  ASSUME TypeInv, DeliverInv, UNCHANGED <<case, reports>>, at # "start" => at' # "start",
         NEW f \in DOMAIN log, log'[f] = log[f], log[f].kind = "errorf",
         \A i \in DOMAIN told : i \in DOMAIN told' /\ told'[i] = told[i],
         Elems(gs.pending) \subseteq Elems(gs'.pending)
  PROVE  ErrorfOK(f)'
<1>1. Abandoned(log[f].of) => Abandoned(log[f].of)'
  BY DEF Abandoned
<1>2. ErrorfOK(f)
  BY DEF DeliverInv
<1> QED BY <1>1, <1>2 DEF ErrorfOK

LEMMA DeliverSteady ==
  ASSUME TypeInv, DeliverInv, UNCHANGED <<case, log, told, reports>>, at' = "start" <=> at = "start",
         gs'.rec = gs.rec, gs'.panic = gs.panic, gs'.pending = gs.pending,
         gs'.panicReported = gs.panicReported, gs'.replayed = gs.replayed
  PROVE  DeliverInv'
<1>1. DueInv'
  BY DEF DeliverInv, DueInv, Told
<1>2. \A f \in DOMAIN log : log[f].kind = "errorf" => ErrorfOK(f)'
  BY ErrorfKept
<1> QED BY <1>1, <1>2 DEF DeliverInv

LEMMA FreshDeliver ==
  ASSUME TypeInv, DeliverInv, UNCHANGED told, gs'.rec = 0, gs'.panic = 0, gs'.pending = <<>>
  PROVE  DueInv'
<1>1. Distinct(<<>>) /\ Elems(<<>>) = {}
  BY DEF Distinct, Elems
<1>2. \A i, j \in DOMAIN told : told[i][1] = told[j][1] => i = j
  BY DEF DeliverInv, DueInv
<1> QED BY <1>1, <1>2 DEF DueInv

LEMMA StartCaseDeliver == ASSUME TypeInv, TaskInv, ChargeInv, DeliverInv, StartCase PROVE DeliverInv'
<1>1. /\ at = "start" /\ UNCHANGED <<case, log, told, reports>>
      /\ gs'.rec = 0 /\ gs'.panic = 0 /\ gs'.pending = <<>>
  <2>1. gs \in GoState(Len(log)) /\ Len(log) \in Nat
    BY DEF TypeInv, IdType
  <2> QED BY <2>1, RecycledType DEF StartCase, history
<1>2. DueInv'
  BY <1>1, FreshDeliver
<1>3. ASSUME NEW f \in DOMAIN log, log[f].kind = "errorf" PROVE ErrorfOK(f)'
  <2>1. ErrorfOK(f)
    BY <1>3 DEF DeliverInv
  <2>2. Abandoned(log[f].of) => Abandoned(log[f].of)'
    BY <1>1 DEF Abandoned
  <2> QED BY <1>1, <2>1, <2>2 DEF ErrorfOK
<1> QED BY <1>1, <1>2, <1>3 DEF DeliverInv

LEMMA NextCaseDeliver ==
  ASSUME TypeInv, TaskInv, ChargeInv, DeliverInv, FilterCase \/ EndCase
  PROVE  DeliverInv'
<1> DEFINE r == IF at = "start" THEN Filtered ELSE Finished
<1>1. /\ r \in ReportRecord(Len(log)) /\ reports' = Append(reports, r) /\ case \in Nat /\ case \in Cases
      /\ at \in {"start", "end"} /\ UNCHANGED <<told, log>>
  BY CaseReported DEF history, TypeInv, ControlType
<1>2. gs'.rec = 0 /\ gs'.panic = 0 /\ gs'.pending = <<>>
  <2>1. gs \in GoState(Len(log)) /\ Len(log) \in Nat
    BY DEF TypeInv, IdType
  <2> QED BY <2>1, CaseReported, RecycledType
<1>3. DueInv'
  BY <1>1, <1>2, FreshDeliver
<1>4. ASSUME NEW f \in DOMAIN log, log[f].kind = "errorf" PROVE ErrorfOK(f)'
  <2> DEFINE c == log[f].of
  <2>1. Abandoned(c) => Abandoned(c)'
    <3>1. \A d : Abandoned(d) => Abandoned(d)'
      BY <1>1, ReportAppended
    <3> QED BY <1>1, <3>1 DEF Abandoned
  <2>2. CASE Abandoned(c) \/ \E i \in DOMAIN told : told[i] = <<f, c>>
    BY <1>1, <2>1, <2>2 DEF ErrorfOK
  <2>3. CASE c = case /\ at # "start" /\ f \in Elems(gs.pending)
    <3>1. gs.pending # <<>>
      BY <2>3 DEF Elems
    <3>2. CASE how = "abandoned"
      <4>1. reports'[case].how = "abandoned" /\ case \in DOMAIN reports'
        BY <1>1, <2>3, <3>2, ReportAppended DEF Finished, Cases
      <4> QED BY <1>1, <2>3, <4>1 DEF Abandoned, ErrorfOK
    <3>3. CASE how # "abandoned"
      <4>1. ~Clean
        BY <1>1, <2>3, <3>1, <3>3 DEF ChargeInv, NowOK
      <4>2. Abandoned(case)
        <5>1. DOMAIN reports = 1..(case - 1)
          BY <1>1, ReportAppended
        <5> QED BY <1>1, <4>1, <5>1 DEF Abandoned, Clean
      <4> QED BY <2>2, <2>3, <4>2
    <3> QED BY <3>2, <3>3
  <2>4. ErrorfOK(f)
    BY <1>4 DEF DeliverInv
  <2> QED BY <2>2, <2>3, <2>4 DEF ErrorfOK
<1> QED BY <1>1, <1>3, <1>4 DEF DeliverInv

\* A failure is added, and an Errorf among them is delivered or kept.
LEMMA LoggedDeliver ==
  ASSUME TypeInv, DeliverInv, UNCHANGED <<case, reports>>, at # "start" => at' # "start",
         NEW f \in Failures, log' = Append(log, f), DueInv',
         \A i \in DOMAIN told : i \in DOMAIN told' /\ told'[i] = told[i],
         Elems(gs.pending) \subseteq Elems(gs'.pending),
         f.kind = "errorf" => \/ Abandoned(f.of)
                              \/ \E i \in DOMAIN told' : told'[i] = <<NewId, f.of>>
                              \/ ~OnT /\ f.of = case /\ at' # "start" /\ NewId \in Elems(gs'.pending)
  PROVE  DeliverInv'
<1>1. \A n \in DOMAIN log' : (n \in DOMAIN log /\ log'[n] = log[n]) \/ (n = NewId /\ log'[n] = f)
  BY OneMoreFailure
<1>2. ASSUME NEW n \in DOMAIN log', log'[n].kind = "errorf" PROVE ErrorfOK(n)'
  <2>1. CASE n \in DOMAIN log /\ log'[n] = log[n]
    BY <1>2, <2>1, ErrorfKept
  <2>2. CASE n = NewId /\ log'[n] = f
    <3>1. Abandoned(f.of) => Abandoned(f.of)'
      BY DEF Abandoned
    <3>2. Abandoned(log'[n].of) <=> Abandoned(f.of)
      BY <2>2
    <3>3. Abandoned(f.of) => Abandoned(log[n].of)'
      BY <2>2 DEF Abandoned
    <3> QED BY <1>2, <2>2, <3>3 DEF ErrorfOK
  <2> QED BY <1>1, <2>1, <2>2
<1> QED BY <1>2 DEF DeliverInv

\* What is due stays due when the new failure is delivered at once.
LEMMA DueNew ==
  ASSUME TypeInv, DueInv, NEW c \in Cases, told' = told \/ told' = Append(told, <<NewId, c>>),
         gs'.panic = gs.panic, gs'.panicReported = gs.panicReported,
         ~OnT => gs'.rec = gs.rec /\ gs'.pending = gs.pending /\ gs'.replayed = gs.replayed
  PROVE  DueInv' /\ \A i \in DOMAIN told : i \in DOMAIN told' /\ told'[i] = told[i]
<1>1. CASE told' = told
  BY <1>1 DEF DueInv, Told
<1>2. CASE told' = Append(told, <<NewId, c>>)
  <2>1. /\ \A i, j \in DOMAIN told' : told'[i][1] = told'[j][1] => i = j
        /\ Told' = Told \cup {NewId}
        /\ \A i \in DOMAIN told : i \in DOMAIN told' /\ told'[i] = told[i]
    BY <1>2, ToldNew
  <2>2. NewId # gs.rec /\ NewId # gs.panic /\ NewId \notin Elems(gs.pending)
    BY NewIsFresh
  <2> QED BY <2>1, <2>2 DEF DueInv
<1> QED BY <1>1, <1>2

LEMMA EarlyErrorfDeliver == ASSUME TypeInv, DeliverInv, EarlyErrorf PROVE DeliverInv'
<1> DEFINE f == Failure("early", case, "spec")
<1>1. case \in Cases /\ f \in Failures /\ f.kind = "early"
  <2>1. case \in Cases /\ Stage \in 1..3
    BY DEF TypeInv, PlaceInv, InUserCode, EarlyErrorf, Stage
  <2> QED BY <2>1 DEF Failures, Failure
<1>2. /\ UNCHANGED <<case, at, reports, gs>> /\ log' = Append(log, f) /\ told' = Append(told, <<NewId, case>>)
  BY DEF EarlyErrorf
<1>3. DueInv' /\ \A i \in DOMAIN told : i \in DOMAIN told' /\ told'[i] = told[i]
  BY <1>1, <1>2, DueNew DEF DeliverInv
<1> HIDE DEF f
<1> QED BY <1>1, <1>2, <1>3, LoggedDeliver

LEMMA QueueDeliver ==
  ASSUME TypeInv, DeliverInv, NEW c \in Cases, NEW by \in {"spec", "task"}, NEW to, Queue(c, by, to),
         c = case \/ Abandoned(c), c = case => at # "start", OnT => to \in Cases /\ (c = case => to = c)
  PROVE  DeliverInv'
<1> DEFINE f == Failure("errorf", c, by)
<1>1. f \in Failures /\ f.of = c
  <2>1. Stage \in 1..3
    BY DEF Stage
  <2> QED BY <2>1 DEF Failures, Failure
<1>2. /\ UNCHANGED <<case, at, reports>> /\ log' = Append(log, f)
      /\ told' = IF OnT THEN Append(told, <<NewId, to>>) ELSE told
  BY DEF Queue
<1>3. /\ gs'.rec = gs.rec /\ gs'.panic = gs.panic /\ gs'.panicReported = gs.panicReported
      /\ gs'.replayed = gs.replayed /\ gs'.pending = Append(gs.pending, NewId)
  BY DEF Queue, TypeInv, IdType, GoState
<1>4. /\ NewId \in Nat \ {0} /\ NewId \notin Told /\ NewId \notin Elems(gs.pending)
      /\ NewId # gs.rec /\ NewId # gs.panic /\ gs.pending \in Seq(Nat)
  BY NewIsFresh
<1>5. /\ Elems(gs'.pending) = Elems(gs.pending) \cup {NewId}
      /\ Distinct(gs.pending) => Distinct(gs'.pending)
  BY <1>3, <1>4, Added
<1> HIDE DEF f
<1>6. CASE OnT
  <2>1. DueInv' /\ \A i \in DOMAIN told : i \in DOMAIN told' /\ told'[i] = told[i]
    BY <1>2, <1>3, <1>6, DueNew DEF DeliverInv
  <2>2. c = case => \E i \in DOMAIN told' : told'[i] = <<NewId, c>>
    BY <1>2, <1>6, ToldNew DEF DeliverInv
  <2> QED BY <1>1, <1>2, <1>5, <2>1, <2>2, LoggedDeliver
<1>7. CASE ~OnT
  <2>1. told' = told /\ Told' = Told
    BY <1>2, <1>7 DEF Told
  <2>2. DueInv'
    BY <1>3, <1>4, <1>5, <1>7, <2>1 DEF DeliverInv, DueInv
  <2> QED BY <1>1, <1>2, <1>5, <1>7, <2>1, <2>2, LoggedDeliver
<1> QED BY <1>6, <1>7

LEMMA TaskEndsDeliver ==
  ASSUME TypeInv, DeliverInv, NEW t \in Tasks, NEW out \in Ways, TaskEnds(t, out)
  PROVE  DeliverInv'
<1> DEFINE lost == \/ OnT /\ out = "fatal" /\ ~Reaches(t)
                   \/ OnT /\ out \in {"error", "failnow"} /\ tasks[t].of # case
           panicked == out = "panic" \/ lost
           failing  == out \notin {"ok", "skip"}
           reported == OnT /\ failing /\ ~panicked
           f == Failure(IF panicked THEN "panic" ELSE out, tasks[t].of, "task")
<1>1. Running(t) /\ tasks[t].of \in Cases /\ (OnT /\ Reaches(t) => ReportsTo(t) \in Cases)
  BY TaskIsOfCase DEF TaskEnds
<1>2. /\ UNCHANGED <<case, at, reports>>
      /\ (failing => log' = Append(log, f)) /\ (~failing => log' = log)
      /\ told' = IF reported /\ out = "fatal" THEN Append(told, <<NewId, ReportsTo(t)>>) ELSE told
  BY DEF TaskEnds
<1>3. /\ gs'.rec = IF out = "fatal" /\ gs.rec = 0 THEN NewId ELSE gs.rec
      /\ gs'.panic = IF panicked /\ gs.panic = 0 THEN NewId ELSE gs.panic
      /\ gs'.pending = gs.pending /\ gs'.panicReported = gs.panicReported /\ gs'.replayed = gs.replayed
  BY DEF TaskEnds, TypeInv, IdType, GoState
<1>4. f \in Failures /\ f.kind # "errorf"
  <2>1. (IF panicked THEN "panic" ELSE out) \in Endings /\ Stage \in 1..3
    BY DEF Ways, Endings, Stage
  <2>2. (IF panicked THEN "panic" ELSE out) # "errorf"
    BY DEF Ways, Endings
  <2> QED BY <1>1, <2>1, <2>2 DEF Failures, Failure
<1>5. DueInv' /\ \A i \in DOMAIN told : i \in DOMAIN told' /\ told'[i] = told[i]
  <2>1. CASE reported /\ out = "fatal"
    <3>1. Reaches(t) /\ OnT /\ ~panicked
      BY <2>1
    <3> QED BY <1>1, <1>2, <1>3, <2>1, <3>1, DueNew DEF DeliverInv
  <2>2. CASE ~(reported /\ out = "fatal")
    <3>1. told' = told /\ Told' = Told
      BY <1>2, <2>2 DEF Told
    <3>2. NewId \notin Told /\ NewId # 0 /\ NewId # gs.rec /\ NewId # gs.panic /\ NewId \notin Elems(gs.pending)
      BY NewIsFresh
    <3>3. ~OnT /\ panicked => out # "fatal"
      OBVIOUS
    <3> HIDE DEF panicked, reported
    <3> QED BY <1>3, <3>1, <3>2, <3>3 DEF DeliverInv, DueInv
  <2> QED BY <2>1, <2>2
<1> HIDE DEF f
<1>6. CASE failing
  BY <1>2, <1>3, <1>4, <1>5, <1>6, LoggedDeliver
<1>7. CASE ~failing
  <2>1. \A g \in DOMAIN log : log[g].kind = "errorf" => ErrorfOK(g)'
    BY <1>2, <1>3, <1>5, <1>7, ErrorfKept
  <2> QED BY <1>2, <1>5, <1>7, <2>1 DEF DeliverInv
<1> QED BY <1>6, <1>7

LEMMA UserCodeEndsDeliver ==
  ASSUME TypeInv, DeliverInv, NEW out \in Ways, BodyEnds(out) \/ HookEnds(out) \/ CleanupEnds(out)
  PROVE  DeliverInv'
<1> DEFINE f == Failure(out, case, "spec")
           failing == out \notin {"ok", "skip"}
<1>1. Leaves(out) /\ case \in Cases /\ at # "start"
  BY DEF BodyEnds, HookEnds, CleanupEnds, TypeInv, PlaceInv
<1>2. at' # "start"
  <2>1. HookEnds(out) => at' \in {"end", "after", "settleLast"}
    BY DEF HookEnds
  <2> QED BY <2>1 DEF BodyEnds, CleanupEnds, AfterCleanup
<1>3. /\ UNCHANGED <<case, reports, gs>>
      /\ (failing => log' = Append(log, f)) /\ (~failing => log' = log)
      /\ told' = told \/ told' = Append(told, <<NewId, case>>)
  BY <1>1 DEF Leaves
<1>4. f \in Failures /\ f.kind # "errorf"
  <2>1. Stage \in 1..3
    BY DEF Stage
  <2> QED BY <1>1, <2>1 DEF Failures, Failure, Ways, Endings
<1>5. DueInv' /\ \A i \in DOMAIN told : i \in DOMAIN told' /\ told'[i] = told[i]
  BY <1>1, <1>3, DueNew DEF DeliverInv
<1> HIDE DEF f
<1>6. CASE failing
  BY <1>2, <1>3, <1>4, <1>5, <1>6, LoggedDeliver
<1>7. CASE ~failing
  <2>1. \A g \in DOMAIN log : log[g].kind = "errorf" => ErrorfOK(g)'
    BY <1>2, <1>3, <1>5, <1>7, ErrorfKept
  <2> QED BY <1>3, <1>5, <1>7, <2>1 DEF DeliverInv
<1> QED BY <1>6, <1>7

\* What a settle point delivers is new to the backend, and lists every failure once.
LEMMA DeliversFresh ==
  ASSUME TypeInv, DueInv, NEW first \in BOOLEAN, first => gs.panic # 0 /\ ~gs.panicReported
  PROVE  LET new == Delivers(first) IN
         /\ new \in Seq(Nat) /\ Distinct(new) /\ Elems(new) \cap Told = {}
         /\ ~OnT => Elems(gs.pending) \subseteq Elems(new)
         /\ ~first => gs.panic = 0 \/ gs.panic \notin Elems(new)
<1> DEFINE R == IF gs.rec # 0 /\ ~gs.replayed THEN <<gs.rec>> ELSE <<>>
           P == IF first THEN <<gs.panic>> ELSE <<>>
<1>1. gs.rec \in Nat /\ gs.panic \in Nat /\ gs.pending \in Seq(Nat) /\ gs.panicReported \in BOOLEAN
  <2>1. gs \in GoState(Len(log)) /\ Len(log) \in Nat
    BY DEF TypeInv, IdType
  <2> QED BY <2>1, NewIsFresh DEF GoState
<1>2. \A x \in Nat : <<x>> \in Seq(Nat) /\ Elems(<<x>>) = {x} /\ Distinct(<<x>>)
  BY DEF Elems, Distinct
<1>3. <<>> \in Seq(Nat) /\ Elems(<<>>) = {} /\ Distinct(<<>>)
  BY DEF Elems, Distinct
<1>4. /\ R \in Seq(Nat) /\ Distinct(R)
      /\ Elems(R) = IF gs.rec # 0 /\ ~gs.replayed THEN {gs.rec} ELSE {}
  BY <1>1, <1>2, <1>3
<1>5. P \in Seq(Nat) /\ Distinct(P) /\ Elems(P) = IF first THEN {gs.panic} ELSE {}
  BY <1>1, <1>2, <1>3
<1> HIDE DEF R, P
<1>6. CASE OnT
  <2>1. Delivers(first) = <<>> \o P
    BY <1>6 DEF Delivers, P
  <2>2. /\ <<>> \o P \in Seq(Nat) /\ Distinct(<<>> \o P) /\ Elems(<<>> \o P) = Elems(P)
    BY <1>3, <1>5, Joined, ConcatProperties
  <2> QED BY <1>5, <1>6, <2>1, <2>2 DEF DueInv
<1>7. CASE ~OnT
  <2>1. Delivers(first) = (R \o gs.pending) \o P
    BY <1>7 DEF Delivers, Replays, P, R
  <2>2. /\ Distinct(gs.pending) /\ Elems(gs.pending) \cap (Told \cup {0, gs.rec, gs.panic}) = {}
        /\ gs.rec # 0 => (gs.replayed \/ gs.rec \notin Told) /\ gs.rec # gs.panic
        /\ gs.panic # 0 /\ ~gs.panicReported => gs.panic \notin Told
    BY <1>7 DEF DueInv
  <2>3. Elems(R) \cap Elems(gs.pending) = {}
    BY <1>4, <2>2
  <2>4. /\ R \o gs.pending \in Seq(Nat) /\ Distinct(R \o gs.pending)
        /\ Elems(R \o gs.pending) = Elems(R) \cup Elems(gs.pending)
    BY <1>1, <1>4, <2>2, <2>3, Joined, ConcatProperties
  <2>5. Elems(R \o gs.pending) \cap Elems(P) = {}
    BY <1>4, <1>5, <2>2, <2>4
  <2>6. /\ (R \o gs.pending) \o P \in Seq(Nat) /\ Distinct((R \o gs.pending) \o P)
        /\ Elems((R \o gs.pending) \o P) = Elems(R) \cup Elems(gs.pending) \cup Elems(P)
    <3> DEFINE Q == R \o gs.pending
    <3>1. Q \in Seq(Nat) /\ Distinct(Q) /\ Elems(Q) = Elems(R) \cup Elems(gs.pending) /\ Elems(Q) \cap Elems(P) = {}
      BY <2>4, <2>5
    <3> HIDE DEF Q
    <3>2. Q \o P \in Seq(Nat) /\ Distinct(Q \o P) /\ Elems(Q \o P) = Elems(Q) \cup Elems(P)
      BY <1>5, <3>1, Joined, ConcatProperties
    <3> QED BY <3>1, <3>2 DEF Q
  <2>7. (Elems(R) \cup Elems(gs.pending) \cup Elems(P)) \cap Told = {}
    BY <1>4, <1>5, <2>2
  <2>8. ~first => gs.panic = 0 \/ gs.panic \notin Elems(R) \cup Elems(gs.pending) \cup Elems(P)
    BY <1>4, <1>5, <2>2
  <2> QED BY <2>1, <2>6, <2>7, <2>8
<1> QED BY <1>6, <1>7

LEMMA ToldMore ==
  ASSUME TypeInv, DueInv, case \in Cases, NEW new \in Seq(Nat), Distinct(new), Elems(new) \cap Told = {},
         told' = told \o [i \in DOMAIN new |-> <<new[i], case>>]
  PROVE  /\ \A i, j \in DOMAIN told' : told'[i][1] = told'[j][1] => i = j
         /\ Told' = Told \cup Elems(new)
         /\ \A i \in DOMAIN told : i \in DOMAIN told' /\ told'[i] = told[i]
         /\ \A f \in Elems(new) : \E i \in DOMAIN told' : told'[i] = <<f, case>>
<1> DEFINE add == [i \in DOMAIN new |-> <<new[i], case>>]
<1>1. /\ add \in Seq(Nat \X Cases) /\ DOMAIN add = DOMAIN new
      /\ \A i \in DOMAIN new : add[i] = <<new[i], case>> /\ add[i][1] = new[i]
  <2>1. Len(new) \in Nat /\ DOMAIN new = 1..Len(new) /\ \A i \in 1..Len(new) : new[i] \in Nat
    OBVIOUS
  <2> QED BY <2>1
<1>2. told \in Seq(Nat \X Cases) /\ told' = told \o add /\ Len(told) \in Nat
  BY NewIsFresh, LenProperties
<1> HIDE DEF add
<1>3. /\ \A i \in DOMAIN told : i \in DOMAIN told' /\ told'[i] = told[i]
      /\ \A i \in DOMAIN add : Len(told) + i \in DOMAIN told' /\ told'[Len(told) + i] = add[i]
      /\ \A i \in DOMAIN told' : \/ i \in DOMAIN told /\ told'[i] = told[i]
                                 \/ i - Len(told) \in DOMAIN add /\ told'[i] = add[i - Len(told)] /\ i \in Nat
  <2> DEFINE Pairs == Nat \X Cases
  <2>1. told \in Seq(Pairs) /\ add \in Seq(Pairs)
    BY <1>1, <1>2
  <2> HIDE DEF Pairs
  <2>2. /\ \A i \in DOMAIN told : i \in DOMAIN (told \o add) /\ (told \o add)[i] = told[i]
        /\ \A i \in DOMAIN add : Len(told) + i \in DOMAIN (told \o add) /\ (told \o add)[Len(told) + i] = add[i]
        /\ \A i \in DOMAIN (told \o add) :
             \/ i \in DOMAIN told /\ (told \o add)[i] = told[i]
             \/ i - Len(told) \in DOMAIN add /\ (told \o add)[i] = add[i - Len(told)] /\ i \in Nat
    BY <2>1, Joined
  <2> QED BY <1>2, <2>2
<1>4. ASSUME NEW a \in DOMAIN new
      PROVE  \E i \in DOMAIN told' : told'[i] = <<new[a], case>> /\ told'[i][1] = new[a]
  <2>1. Len(told) + a \in DOMAIN told' /\ told'[Len(told) + a] = add[a]
    BY <1>1, <1>3
  <2> QED BY <1>1, <2>1
<1>5. Told' = Told \cup Elems(new)
  <2>1. ASSUME NEW i \in DOMAIN told' PROVE told'[i][1] \in Told \cup Elems(new)
    <3>1. CASE i \in DOMAIN told /\ told'[i] = told[i]
      BY <3>1 DEF Told
    <3>2. CASE i - Len(told) \in DOMAIN add /\ told'[i] = add[i - Len(told)]
      BY <1>1, <3>2 DEF Elems
    <3> QED BY <1>3, <3>1, <3>2
  <2>2. ASSUME NEW i \in DOMAIN told PROVE told[i][1] \in Told'
    <3>1. i \in DOMAIN told' /\ told'[i] = told[i]
      BY <1>3
    <3> QED BY <3>1 DEF Told
  <2>3. ASSUME NEW a \in DOMAIN new PROVE new[a] \in Told'
    <3>1. PICK i \in DOMAIN told' : told'[i][1] = new[a]
      BY <1>4
    <3> QED BY <3>1 DEF Told
  <2>4. Told' \subseteq Told \cup Elems(new)
    BY <2>1 DEF Told
  <2>5. Told \subseteq Told'
    BY <2>2 DEF Told
  <2>6. Elems(new) \subseteq Told'
    BY <2>3 DEF Elems
  <2> QED BY <2>4, <2>5, <2>6
<1>6. \A f \in Elems(new) : \E i \in DOMAIN told' : told'[i] = <<f, case>>
  BY <1>4 DEF Elems
<1>7. ASSUME NEW i \in DOMAIN told', NEW j \in DOMAIN told', told'[i][1] = told'[j][1] PROVE i = j
  <2>1. \A a \in DOMAIN told : told[a][1] \in Told
    BY DEF Told
  <2>2. \A a \in DOMAIN add : add[a][1] \in Elems(new)
    BY <1>1 DEF Elems
  <2>3. CASE i \in DOMAIN told /\ told'[i] = told[i]
    <3>1. told'[i][1] \notin Elems(new)
      BY <2>1, <2>3
    <3>2. j \in DOMAIN told /\ told'[j] = told[j]
      <4>1. CASE j - Len(told) \in DOMAIN add /\ told'[j] = add[j - Len(told)]
        BY <1>7, <2>2, <3>1, <4>1
      <4> QED BY <1>3, <4>1
    <3> QED BY <1>7, <2>3, <3>2 DEF DueInv
  <2>4. CASE i - Len(told) \in DOMAIN add /\ told'[i] = add[i - Len(told)] /\ i \in Nat
    <3>1. told'[i][1] \notin Told
      BY <2>2, <2>4
    <3>2. j - Len(told) \in DOMAIN add /\ told'[j] = add[j - Len(told)] /\ j \in Nat
      BY <1>3, <1>7, <2>1, <3>1
    <3>3. new[i - Len(told)] = new[j - Len(told)]
      BY <1>1, <1>7, <2>4, <3>2
    <3>4. i - Len(told) = j - Len(told)
      BY <1>1, <2>4, <3>2, <3>3 DEF Distinct
    <3> QED BY <1>2, <2>4, <3>2, <3>4
  <2> QED BY <1>3, <2>3, <2>4
<1> QED BY <1>3, <1>5, <1>7, <1>6

LEMMA SettlingDeliver ==
  ASSUME TypeInv, DeliverInv, Settle \/ SettleLast \/ DrainDone
  PROVE  DeliverInv'
<1> DEFINE report == ~DrainDone
           first == report /\ gs.panic # 0 /\ ~gs.panicReported
           new == Delivers(first)
<1>1. /\ at # "start" /\ at' # "start" /\ case \in Cases /\ gs \in GoState(Len(log))
      /\ gs.panicReported \in BOOLEAN /\ gs.replayed \in BOOLEAN
  <2>1. gs \in GoState(Len(log)) /\ at # "start" /\ at' # "start" /\ case \in Cases
    BY DEF Settle, SettleLast, DrainDone, TypeInv, IdType, PlaceInv
  <2> QED BY <2>1 DEF GoState
<1>2. /\ UNCHANGED <<case, log, reports>>
      /\ told' = told \o [i \in DOMAIN new |-> <<new[i], case>>]
      /\ gs'.rec = gs.rec /\ gs'.panic = gs.panic /\ gs'.pending = <<>>
      /\ gs'.panicReported = (gs.panicReported \/ first) /\ gs'.replayed = (gs.replayed \/ gs.rec # 0)
  <2>1. CASE Settle
    <3>1. ~DrainDone /\ Fold(gs, TRUE)
      BY <2>1 DEF Settle, DrainDone
    <3> QED BY <1>1, <3>1 DEF Fold, Delivers, history, GoState
  <2>2. CASE SettleLast
    <3>1. ~DrainDone /\ Fold([gs EXCEPT !.closed = gs.used], TRUE)
      BY <2>2 DEF SettleLast, DrainDone
    <3> QED BY <1>1, <3>1 DEF Fold, Delivers, history, GoState
  <2>3. CASE DrainDone
    <3>1. Fold([gs EXCEPT !.cleanupsDone = gs.used], FALSE)
      BY <2>3 DEF DrainDone
    <3> QED BY <1>1, <2>3, <3>1 DEF Fold, Delivers, history, GoState
  <2> QED BY <2>1, <2>2, <2>3
<1>3. first \in BOOLEAN /\ (first => gs.panic # 0 /\ ~gs.panicReported)
  OBVIOUS
<1> HIDE DEF first
<1>4. /\ new \in Seq(Nat) /\ Distinct(new) /\ Elems(new) \cap Told = {}
      /\ ~OnT => Elems(gs.pending) \subseteq Elems(new)
      /\ ~first => gs.panic = 0 \/ gs.panic \notin Elems(new)
  BY <1>3, DeliversFresh DEF DeliverInv
<1> HIDE DEF new
<1>5. /\ \A i, j \in DOMAIN told' : told'[i][1] = told'[j][1] => i = j
      /\ Told' = Told \cup Elems(new)
      /\ \A i \in DOMAIN told : i \in DOMAIN told' /\ told'[i] = told[i]
      /\ \A f \in Elems(new) : \E i \in DOMAIN told' : told'[i] = <<f, case>>
  BY <1>1, <1>2, <1>4, ToldMore DEF DeliverInv
<1>6. DueInv'
  <2>1. Distinct(<<>>) /\ Elems(<<>>) = {}
    BY DEF Distinct, Elems
  <2>2. gs'.panic # 0 /\ ~gs'.panicReported => gs'.panic \notin Told'
    BY <1>2, <1>4, <1>5 DEF DeliverInv, DueInv
  <2>3. ~OnT /\ gs'.rec # 0 => gs'.replayed /\ gs'.rec # gs'.panic
    BY <1>2 DEF DeliverInv, DueInv
  <2> QED BY <1>2, <1>5, <2>1, <2>2, <2>3 DEF DueInv
<1>7. ASSUME NEW f \in DOMAIN log, log[f].kind = "errorf" PROVE ErrorfOK(f)'
  <2>1. Abandoned(log[f].of) => Abandoned(log[f].of)'
    BY <1>2 DEF Abandoned
  <2>2. CASE ~OnT /\ log[f].of = case /\ f \in Elems(gs.pending)
    <3>1. \E i \in DOMAIN told' : told'[i] = <<f, log[f].of>>
      BY <1>4, <1>5, <2>2
    <3> QED BY <1>2, <3>1 DEF ErrorfOK
  <2>3. CASE Abandoned(log[f].of) \/ \E i \in DOMAIN told : told[i] = <<f, log[f].of>>
    BY <1>2, <1>5, <2>1, <2>3 DEF ErrorfOK
  <2>4. ErrorfOK(f)
    BY <1>7 DEF DeliverInv
  <2> QED BY <2>2, <2>3, <2>4 DEF ErrorfOK
<1> QED BY <1>2, <1>6, <1>7 DEF DeliverInv

LEMMA NextDeliver == TypeInv /\ TaskInv /\ ChargeInv /\ DeliverInv /\ [Next]_vars => DeliverInv'
<1> SUFFICES ASSUME TypeInv, TaskInv, ChargeInv, DeliverInv, [Next]_vars PROVE DeliverInv'
  OBVIOUS
<1>1. CASE UNCHANGED vars
  BY <1>1, DeliverSteady DEF vars, testing, history
<1>2. CASE FilterCase \/ EndCase \/ StartCase
  BY <1>2, NextCaseDeliver, StartCaseDeliver
<1>3. CASE Settle \/ SettleLast \/ DrainDone
  BY <1>3, SettlingDeliver
<1>4. CASE \/ PopCleanup \/ \E c : Register(c)
           \/ \E t \in Tasks : SpecGo(t) \/ \E u \in Tasks : TaskGo(t, u)
  <2>1. UNCHANGED <<case, log, told, reports>> /\ (at' = "start" <=> at = "start")
    BY <1>4 DEF PopCleanup, Register, SpecGo, TaskGo, testing, history
  <2>2. /\ gs'.rec = gs.rec /\ gs'.panic = gs.panic /\ gs'.pending = gs.pending
        /\ gs'.panicReported = gs.panicReported /\ gs'.replayed = gs.replayed
    BY <1>4 DEF PopCleanup, Register, SpecGo, TaskGo, TypeInv, IdType, GoState
  <2> QED BY <2>1, <2>2, DeliverSteady
<1>5. CASE EarlyErrorf
  BY <1>5, EarlyErrorfDeliver
<1>6. CASE SpecErrorf
  <2>1. case \in Cases /\ at # "start" /\ Queue(case, "spec", case)
    BY <1>6 DEF SpecErrorf, InUserCode, TypeInv, PlaceInv
  <2> QED BY <2>1, QueueDeliver
<1>7. ASSUME NEW t \in Tasks, TaskErrorf(t) PROVE DeliverInv'
  <2>1. Running(t) /\ Reaches(t) /\ Queue(tasks[t].of, "task", ReportsTo(t))
    BY <1>7 DEF TaskErrorf
  <2>2. OnT => ReportsTo(t) = case /\ case \in Cases
    BY <2>1, TaskIsOfCase
  <2>3. tasks[t].of = case \/ Abandoned(tasks[t].of)
    BY <2>1, TaskIsOfCase, StrayOrOwn DEF Cases
  <2> QED BY <2>1, <2>2, <2>3, StrayOrOwn, QueueDeliver
<1>8. CASE SpecCleanup \/ \E t \in Tasks : TaskCleanup(t)
  BY <1>4, <1>8 DEF SpecCleanup, TaskCleanup
<1>9. ASSUME NEW t \in Tasks, NEW out \in Ways, TaskEnds(t, out) PROVE DeliverInv'
  BY <1>9, TaskEndsDeliver
<1>10. ASSUME NEW out \in Ways, BodyEnds(out) \/ HookEnds(out) \/ CleanupEnds(out) PROVE DeliverInv'
  BY <1>10, UserCodeEndsDeliver
<1> QED BY SomeStep, <1>1, <1>2, <1>3, <1>4, <1>5, <1>6, <1>7, <1>8, <1>9, <1>10

\* However often a case settles its backend hears of a failure once, and of every Errorf of a case
\* that was not abandoned.
THEOREM DeliveriesAreOnce == Spec => []DeliveredOnce
<1>1. TypeInv /\ TaskInv /\ DeliverInv => DeliveredOnce
  <2> SUFFICES ASSUME TypeInv, TaskInv, DeliverInv PROVE DeliveredOnce
    OBVIOUS
  <2>1. ASSUME NEW c \in Cases, Intact(c), NEW f \in FailuresOf(c), log[f].kind = "errorf"
        PROVE  \E i \in DOMAIN told : told[i] = <<f, c>>
    <3>1. c < case /\ ~Abandoned(c) /\ case \in Nat
      BY <2>1, IntactCase DEF TypeInv, ControlType
    <3>2. f \in DOMAIN log /\ log[f].of = c
      BY DEF FailuresOf
    <3>3. c # case
      BY <3>1 DEF Cases
    <3> QED BY <2>1, <3>1, <3>2, <3>3 DEF DeliverInv, ErrorfOK
  <2> QED BY <2>1 DEF DeliverInv, DueInv, DeliveredOnce
<1> QED BY <1>1, InitType, NextType, InitTask, NextTask, InitCharge, NextCharge, InitDeliver, NextDeliver,
           PTL DEF Spec

-----------------------------------------------------------------------------
(* The message of a report.  A rank is a class and, within the class, the  *)
(* order of the log: stated so, it does not change when the log grows.     *)

Kind(c, k)    == {i \in FailuresOf(c) : log[i].kind = k}
Panics(c)     == Kind(c, "panic")
OwnFatals(c)  == {i \in Kind(c, "fatal") : log[i].by = "spec"}
TaskFatals(c) == {i \in Kind(c, "fatal") : log[i].by = "task"}
TaskPanics(c) == {i \in Panics(c) : log[i].by = "task"}
FoldedOf(c)   == Kind(c, "early") \cup Kind(c, "errorf") \cup TaskFatals(c)

PanicClass(i) == 2 * log[i].stage + (IF log[i].by = "task" THEN 1 ELSE 0)
FoldClass(i)  == IF log[i].kind = "early" THEN 0
                 ELSE 2 * log[i].stage + (IF log[i].kind = "errorf" THEN 1 ELSE 0)
Sooner(i, a, j, b) == a < b \/ (a = b /\ i <= j)
PanicFirst(x, S) == IF S = {} THEN x = 0
                    ELSE x \in S /\ \A j \in S : Sooner(x, PanicClass(x), j, PanicClass(j))
FoldFirst(x, S)  == IF S = {} THEN x = 0
                    ELSE x \in S /\ \A j \in S : Sooner(x, FoldClass(x), j, FoldClass(j))
Earliest(x, S)   == IF S = {} THEN x = 0 ELSE x \in S /\ \A j \in S : x <= j
Latest(x, S)     == x \in S /\ \A j \in S : j <= x

\* x is the message that the rule picks for c.
Explains(x, c) ==
  IF Panics(c) # {} THEN PanicFirst(x, Panics(c))
  ELSE IF OwnFatals(c) # {} THEN Latest(x, OwnFatals(c))
  ELSE FoldFirst(x, FoldedOf(c))

\* The panics that runProgram has seen, the failures that have been folded, and those that wait.
SeenPanics == {i \in Panics(case) : log[i].by = "spec" \/ log[i].stage < Stage}
Settled    == {i \in FoldedOf(case) : log[i].kind = "early" \/ log[i].stage < Stage \/ at = "end"}
Queued     == {i \in Kind(case, "errorf") : log[i].stage = Stage /\ at # "end"}

\* Failures come by settle point; those of tasks before the last; without tasks, none is queued.
StagesOK ==
  /\ \A i \in FailuresOf(case) :
       /\ log[i].stage <= Stage
       /\ log[i].by = "task" => log[i].stage <= 2
       /\ ~gs.used => log[i].by = "spec" /\ log[i].kind # "errorf"
  /\ \A i, j \in FailuresOf(case) : i < j => log[i].stage <= log[j].stage
\* The goState holds the first panic and the first failed assertion of a task, and the open queue.
GatheredOK ==
  /\ Earliest(gs.panic, TaskPanics(case))
  /\ Panics(case) = {} => Earliest(gs.rec, TaskFatals(case))
  /\ Elems(gs.pending) = Queued
  /\ \A k \in DOMAIN gs.pending : gs.pending[1] <= gs.pending[k]
\* The message that runProgram will return is the first panic it has seen.
PanicOK == PanicFirst(message, SeenPanics)
\* A panic marks the Context failed with no message, after which nothing is folded any more.
FailureOK ==
  Panics(case) = {} =>
    IF OwnFatals(case) # {} THEN failure.failed /\ Latest(failure.message, OwnFatals(case))
    ELSE FoldFirst(failure.message, Settled) /\ (failure.failed <=> Settled # {})
RuleOK == StagesOK /\ GatheredOK /\ PanicOK /\ FailureOK

\* The report of c, unless a Goexit lost it or its panic.
ReportOK(c) ==
  Intact(c) /\ (Panics(c) # {} => reports[c].how # "exited") =>
    Explains(reports[c].message, c) /\ (reports[c].output <=> Panics(c) # {})
\* Every report follows the rule; without a goState no task runs; what the Context holds in the
\* middle of a case is what the rule picks among the failures so far.
RuleInv ==
  /\ \A c \in Cases : ReportOK(c)
  /\ ~gs.used => Quiet
  /\ Clean /\ at # "start" /\ how # "abandoned" => RuleOK

\* The types of what the definitions above select.
LEMMA Entries ==
  ASSUME TypeInv
  PROVE  /\ Stage \in 1..3 /\ case \in Nat /\ Len(log) \in Nat /\ DOMAIN log = 1..Len(log)
         /\ \A i \in DOMAIN log : /\ i \in Nat \ {0} /\ log[i].stage \in 1..3 /\ log[i].by \in {"spec", "task"}
                                  /\ PanicClass(i) \in 2..7 /\ FoldClass(i) \in 0..7
         /\ \A c : /\ FailuresOf(c) \subseteq DOMAIN log /\ Panics(c) \subseteq DOMAIN log
                   /\ OwnFatals(c) \subseteq DOMAIN log /\ FoldedOf(c) \subseteq DOMAIN log
<1>1. log \in Seq(Failures) /\ case \in Nat
  BY DEF TypeInv, ControlType
<1>2. Len(log) \in Nat /\ DOMAIN log = 1..Len(log) /\ \A i \in DOMAIN log : log[i] \in Failures
  BY <1>1
<1>3. Stage \in 1..3
  BY DEF Stage
<1>4. ASSUME NEW i \in DOMAIN log
      PROVE  /\ log[i].stage \in 1..3 /\ log[i].by \in {"spec", "task"}
             /\ PanicClass(i) \in 2..7 /\ FoldClass(i) \in 0..7
  <2>1. log[i].stage \in 1..3 /\ log[i].by \in {"spec", "task"}
    BY <1>2 DEF Failures
  <2> QED BY <2>1 DEF PanicClass, FoldClass
<1>5. \A c : /\ FailuresOf(c) \subseteq DOMAIN log /\ Panics(c) \subseteq DOMAIN log
             /\ OwnFatals(c) \subseteq DOMAIN log /\ FoldedOf(c) \subseteq DOMAIN log
  BY DEF FailuresOf, Panics, OwnFatals, FoldedOf, TaskFatals, Kind
<1> QED BY <1>1, <1>2, <1>3, <1>4, <1>5

\* The rank of MessageRule orders by class, then by place in a log of n failures.
LEMMA Ranks ==
  ASSUME NEW n \in Nat, NEW a \in 0..7, NEW b \in 0..7, NEW i \in 1..n, NEW j \in 1..n
  PROVE  a * (n + 1) + i <= b * (n + 1) + j <=> Sooner(i, a, j, b)
<1> DEFINE m == n + 1
<1>1. m \in Nat /\ i < m /\ j < m /\ i \in Nat /\ j \in Nat
  OBVIOUS
<1>2. /\ 0 * m = 0 /\ 1 * m = m /\ 2 * m = m + m /\ 3 * m = m + m + m /\ 4 * m = m + m + m + m
      /\ 5 * m = m + m + m + m + m /\ 6 * m = m + m + m + m + m + m
      /\ 7 * m = m + m + m + m + m + m + m
  BY <1>1
<1> HIDE DEF m
<1>3. a \in {0, 1, 2, 3, 4, 5, 6, 7} /\ b \in {0, 1, 2, 3, 4, 5, 6, 7}
  OBVIOUS
<1>4. a * m + i <= b * m + j <=> Sooner(i, a, j, b)
  BY <1>1, <1>2, <1>3 DEF Sooner
<1> QED BY <1>4 DEF m

\* The reference names the failure that is first, or last, by its rank.
LEMMA Explained ==
  ASSUME TypeInv, NEW c, NEW x, Explains(x, c)
  PROVE  x = Explanation(c)
<1> DEFINE P == Panics(c)
           O == OwnFatals(c)
           Q == FoldedOf(c)
<1>1. /\ P = {i \in FailuresOf(c) : log[i].kind = "panic"}
      /\ O = {i \in FailuresOf(c) : log[i].kind = "fatal" /\ log[i].by = "spec"}
      /\ Q = {i \in FailuresOf(c) : \/ log[i].kind \in {"early", "errorf"}
                                    \/ log[i].kind = "fatal" /\ log[i].by = "task"}
  BY DEF Panics, OwnFatals, FoldedOf, TaskFatals, Kind
<1>2. Explanation(c) = IF P # {} THEN Least(P, PanicRank)
                       ELSE IF O # {} THEN CHOOSE i \in O : \A j \in O : i >= j
                       ELSE IF Q # {} THEN Least(Q, FoldRank) ELSE 0
  BY <1>1 DEF Explanation
<1>3. P \subseteq DOMAIN log /\ O \subseteq DOMAIN log /\ Q \subseteq DOMAIN log
  BY Entries
<1> HIDE DEF P, O, Q
<1>4. ASSUME P # {} PROVE x = Explanation(c)
  <2>1. x \in P /\ \A j \in P : Sooner(x, PanicClass(x), j, PanicClass(j))
    BY <1>4 DEF Explains, PanicFirst, P
  <2>2. ASSUME NEW i \in P, NEW j \in P
        PROVE  PanicRank(i) <= PanicRank(j) <=> Sooner(i, PanicClass(i), j, PanicClass(j))
    <3>1. /\ i \in 1..Len(log) /\ j \in 1..Len(log) /\ Len(log) \in Nat
          /\ PanicClass(i) \in 0..7 /\ PanicClass(j) \in 0..7
      BY <1>3, Entries
    <3>2. /\ PanicRank(i) = PanicClass(i) * (Len(log) + 1) + i
          /\ PanicRank(j) = PanicClass(j) * (Len(log) + 1) + j
      BY DEF PanicRank, PanicClass, After
    <3> QED BY <3>1, <3>2, Ranks
  <2>3. \A i \in P : (\A j \in P : PanicRank(i) <= PanicRank(j)) => i = x
    <3> SUFFICES ASSUME NEW i \in P, \A j \in P : PanicRank(i) <= PanicRank(j) PROVE i = x
      OBVIOUS
    <3>1. Sooner(i, PanicClass(i), x, PanicClass(x)) /\ Sooner(x, PanicClass(x), i, PanicClass(i))
      BY <2>1, <2>2
    <3> QED BY <1>3, <2>1, <3>1, Entries DEF Sooner
  <2>4. \A j \in P : PanicRank(x) <= PanicRank(j)
    BY <2>1, <2>2
  <2>5. Least(P, PanicRank) = x
    BY <2>1, <2>3, <2>4 DEF Least
  <2> QED BY <1>2, <1>4, <2>5
<1>5. ASSUME P = {}, O # {} PROVE x = Explanation(c)
  <2>1. x \in O /\ \A j \in O : j <= x
    BY <1>5 DEF Explains, Latest, P, O
  <2>2. \A i \in O : i \in Nat
    BY <1>3, Entries
  <2>3. (CHOOSE i \in O : \A j \in O : i >= j) = x
    BY <2>1, <2>2
  <2> QED BY <1>2, <1>5, <2>3
<1>6. ASSUME P = {}, O = {}, Q # {} PROVE x = Explanation(c)
  <2>1. x \in Q /\ \A j \in Q : Sooner(x, FoldClass(x), j, FoldClass(j))
    BY <1>6 DEF Explains, FoldFirst, P, O, Q
  <2>2. ASSUME NEW i \in Q, NEW j \in Q
        PROVE  FoldRank(i) <= FoldRank(j) <=> Sooner(i, FoldClass(i), j, FoldClass(j))
    <3>1. /\ i \in 1..Len(log) /\ j \in 1..Len(log) /\ Len(log) \in Nat
          /\ FoldClass(i) \in 0..7 /\ FoldClass(j) \in 0..7
      BY <1>3, Entries
    <3>2. \A k \in {i, j} : FoldRank(k) = FoldClass(k) * (Len(log) + 1) + k
      BY <3>1 DEF FoldRank, FoldClass, After
    <3> QED BY <3>1, <3>2, Ranks
  <2>3. \A i \in Q : (\A j \in Q : FoldRank(i) <= FoldRank(j)) => i = x
    <3> SUFFICES ASSUME NEW i \in Q, \A j \in Q : FoldRank(i) <= FoldRank(j) PROVE i = x
      OBVIOUS
    <3>1. Sooner(i, FoldClass(i), x, FoldClass(x)) /\ Sooner(x, FoldClass(x), i, FoldClass(i))
      BY <2>1, <2>2
    <3> QED BY <1>3, <2>1, <3>1, Entries DEF Sooner
  <2>4. \A j \in Q : FoldRank(x) <= FoldRank(j)
    BY <2>1, <2>2
  <2>5. Least(Q, FoldRank) = x
    BY <2>1, <2>3, <2>4 DEF Least
  <2> QED BY <1>2, <1>6, <2>5
<1>7. ASSUME P = {}, O = {}, Q = {} PROVE x = Explanation(c)
  BY <1>2, <1>7 DEF Explains, FoldFirst, P, O, Q
<1> QED BY <1>4, <1>5, <1>6, <1>7

LEMMA InitRule == Init => RuleInv
<1> SUFFICES ASSUME Init PROVE RuleInv
  OBVIOUS
<1>1. Quiet
  BY DEF Init, Quiet, Running
<1>2. \A c : ~Intact(c)
  BY DEF Init, Intact
<1> QED BY <1>1, <1>2 DEF RuleInv, ReportOK, Init

\* What is said of the failures of a case depends on those failures only.
LEMMA SameFailures ==
  ASSUME NEW c, FailuresOf(c)' = FailuresOf(c), \A i \in FailuresOf(c) : log'[i] = log[i]
  PROVE  /\ \A k : Kind(c, k)' = Kind(c, k)
         /\ Panics(c)' = Panics(c) /\ OwnFatals(c)' = OwnFatals(c)
         /\ TaskFatals(c)' = TaskFatals(c) /\ TaskPanics(c)' = TaskPanics(c) /\ FoldedOf(c)' = FoldedOf(c)
         /\ \A x : Explains(x, c)' <=> Explains(x, c)
<1>1. \A k : Kind(c, k)' = Kind(c, k) /\ Kind(c, k) \subseteq FailuresOf(c)
  BY DEF Kind
<1>2. /\ Panics(c)' = Panics(c) /\ Panics(c) \subseteq FailuresOf(c)
      /\ OwnFatals(c)' = OwnFatals(c) /\ OwnFatals(c) \subseteq FailuresOf(c)
      /\ TaskFatals(c)' = TaskFatals(c) /\ TaskFatals(c) \subseteq FailuresOf(c)
  BY <1>1 DEF Panics, OwnFatals, TaskFatals
<1>3. TaskPanics(c)' = TaskPanics(c)
  BY <1>2 DEF TaskPanics
<1>4. FoldedOf(c)' = FoldedOf(c) /\ FoldedOf(c) \subseteq FailuresOf(c)
  BY <1>1, <1>2 DEF FoldedOf
<1>5. \A i \in FailuresOf(c) : PanicClass(i)' = PanicClass(i) /\ FoldClass(i)' = FoldClass(i)
  BY DEF PanicClass, FoldClass
<1>6. ASSUME NEW x PROVE PanicFirst(x, Panics(c))' <=> PanicFirst(x, Panics(c))
  BY <1>2, <1>5 DEF PanicFirst
<1>7. ASSUME NEW x PROVE FoldFirst(x, FoldedOf(c))' <=> FoldFirst(x, FoldedOf(c))
  BY <1>4, <1>5 DEF FoldFirst
<1>8. \A x : Latest(x, OwnFatals(c))' <=> Latest(x, OwnFatals(c))
  BY <1>2 DEF Latest
<1>9. \A x : Explains(x, c)' <=> Explains(x, c)
  BY <1>2, <1>6, <1>7, <1>8 DEF Explains
<1> QED BY <1>1, <1>2, <1>3, <1>4, <1>9

\* A report stays right while its case's failures do.
LEMMA ReportsKept ==
  ASSUME RuleInv, reports' = reports,
         \A c : Intact(c) => FailuresOf(c)' = FailuresOf(c) /\ \A i \in FailuresOf(c) : log'[i] = log[i]
  PROVE  \A c \in Cases : ReportOK(c)'
<1> SUFFICES ASSUME NEW c \in Cases, Intact(c)' PROVE ReportOK(c)'
  BY DEF ReportOK
<1>1. Intact(c) /\ reports'[c] = reports[c]
  BY DEF Intact
<1>2. Panics(c)' = Panics(c) /\ \A x : Explains(x, c)' <=> Explains(x, c)
  BY <1>1, SameFailures
<1>3. Explains(reports[c].message, c)' <=> Explains(reports'[c].message, c)
  <2>1. \A x : Explains(x, c)' <=> Explains(x, c)
    BY <1>2
  <2> QED BY <1>1, <2>1 DEF Explains, PanicFirst, FoldFirst, Latest
<1>4. ReportOK(c)
  BY DEF RuleInv
<1> QED BY <1>1, <1>2, <1>3, <1>4 DEF ReportOK

\* A step that adds no failure and does not settle.
LEMMA RuleSteady ==
  ASSUME TypeInv, RuleInv, UNCHANGED <<case, log, failure, message, reports>>,
         gs'.rec = gs.rec, gs'.panic = gs.panic, gs'.pending = gs.pending, gs.used => gs'.used,
         ~gs'.used => Quiet', at' = "start" <=> at = "start",
         \/ how' = "abandoned" \/ at = "start"
         \/ how # "abandoned" /\ Stage' = Stage /\ (at' = "end" <=> at = "end")
  PROVE  RuleInv'
<1>1. \A c : FailuresOf(c)' = FailuresOf(c) /\ \A i \in FailuresOf(c) : log'[i] = log[i]
  BY DEF FailuresOf
<1>2. \A c \in Cases : ReportOK(c)'
  BY <1>1, ReportsKept
<1>3. ASSUME Clean', at' # "start", how' # "abandoned" PROVE RuleOK'
  <2>1. RuleOK /\ Stage' = Stage /\ (at' = "end" <=> at = "end")
    BY <1>3, CleanStays DEF RuleInv
  <2>2. /\ FailuresOf(case)' = FailuresOf(case) /\ \A k : Kind(case, k)' = Kind(case, k)
        /\ Panics(case)' = Panics(case) /\ OwnFatals(case)' = OwnFatals(case)
        /\ TaskFatals(case)' = TaskFatals(case)
    BY DEF FailuresOf, Kind, Panics, OwnFatals, TaskFatals
  <2>3. TaskPanics(case)' = TaskPanics(case) /\ FoldedOf(case)' = FoldedOf(case)
    BY <2>2 DEF TaskPanics, FoldedOf
  <2>4. SeenPanics' = SeenPanics /\ Settled' = Settled /\ Queued' = Queued
    BY <2>1, <2>2, <2>3 DEF SeenPanics, Settled, Queued
  <2>5. StagesOK'
    BY <2>1, <2>2 DEF RuleOK, StagesOK
  <2>6. GatheredOK'
    BY <2>1, <2>2, <2>3, <2>4 DEF RuleOK, GatheredOK, Earliest, Elems
  <2>7. PanicOK'
    BY <2>1, <2>4 DEF RuleOK, PanicOK, PanicFirst, PanicClass
  <2>8. FailureOK'
    BY <2>1, <2>2, <2>4 DEF RuleOK, FailureOK, Latest, FoldFirst, FoldClass
  <2> QED BY <2>5, <2>6, <2>7, <2>8 DEF RuleOK
<1> QED BY <1>2, <1>3 DEF RuleInv

\* A failure that is added to the current case comes after the others.
LEMMA NewFailure ==
  ASSUME TypeInv, NEW f \in Failures, log' = Append(log, f), f.of = case, case' = case
  PROVE  /\ NewId \in DOMAIN log' /\ log'[NewId] = f /\ NewId \in Nat \ {0}
         /\ \A i \in DOMAIN log : /\ i \in DOMAIN log' /\ log'[i] = log[i] /\ i < NewId
                                  /\ PanicClass(i)' = PanicClass(i) /\ FoldClass(i)' = FoldClass(i)
         /\ FailuresOf(case)' = FailuresOf(case) \cup {NewId}
         /\ \A k : Kind(case, k)' = Kind(case, k) \cup (IF f.kind = k THEN {NewId} ELSE {})
         /\ Panics(case)' = Panics(case) \cup (IF f.kind = "panic" THEN {NewId} ELSE {})
         /\ TaskPanics(case)' =
              TaskPanics(case) \cup (IF f.kind = "panic" /\ f.by = "task" THEN {NewId} ELSE {})
         /\ OwnFatals(case)' =
              OwnFatals(case) \cup (IF f.kind = "fatal" /\ f.by = "spec" THEN {NewId} ELSE {})
         /\ TaskFatals(case)' =
              TaskFatals(case) \cup (IF f.kind = "fatal" /\ f.by = "task" THEN {NewId} ELSE {})
<1>1. /\ Len(log) \in Nat /\ NewId = Len(log) + 1 /\ DOMAIN log = 1..Len(log) /\ DOMAIN log' = 1..NewId
      /\ \A i \in 1..Len(log) : log'[i] = log[i]
      /\ log'[NewId] = f
  BY LogGrows
<1>2. \A i \in DOMAIN log : i \in DOMAIN log' /\ log'[i] = log[i] /\ i < NewId
  BY <1>1
<1>3. \A i \in DOMAIN log : PanicClass(i)' = PanicClass(i) /\ FoldClass(i)' = FoldClass(i)
  BY <1>2 DEF PanicClass, FoldClass
<1>4. FailuresOf(case)' = FailuresOf(case) \cup {NewId} /\ NewId \notin FailuresOf(case)
  BY OneMoreFailure
<1>5. \A i \in FailuresOf(case) : i \in DOMAIN log /\ log'[i] = log[i]
  BY <1>2 DEF FailuresOf
<1>6. ASSUME NEW k PROVE Kind(case, k)' = Kind(case, k) \cup (IF f.kind = k THEN {NewId} ELSE {})
  BY <1>1, <1>4, <1>5 DEF Kind
<1>7. \A k : Kind(case, k) \subseteq FailuresOf(case)
  BY DEF Kind
<1>8. Panics(case)' = Panics(case) \cup (IF f.kind = "panic" THEN {NewId} ELSE {})
  BY <1>6 DEF Panics
<1>9. OwnFatals(case)' = OwnFatals(case) \cup (IF f.kind = "fatal" /\ f.by = "spec" THEN {NewId} ELSE {})
  BY <1>1, <1>5, <1>6, <1>7 DEF OwnFatals
<1>10. TaskFatals(case)' = TaskFatals(case) \cup (IF f.kind = "fatal" /\ f.by = "task" THEN {NewId} ELSE {})
  BY <1>1, <1>5, <1>6, <1>7 DEF TaskFatals
<1>11. TaskPanics(case)' =
         TaskPanics(case) \cup (IF f.kind = "panic" /\ f.by = "task" THEN {NewId} ELSE {})
  BY <1>1, <1>5, <1>7, <1>8 DEF TaskPanics, Panics
<1>12. NewId \in DOMAIN log' /\ NewId \in Nat \ {0}
  BY <1>1
<1> QED BY <1>1, <1>2, <1>3, <1>4, <1>6, <1>8, <1>9, <1>10, <1>11, <1>12

\* A new failure that is neither a panic, a fatal one nor an Errorf leaves those of the case as they were.
LEMMA OtherKinds ==
  ASSUME TypeInv, NEW f \in Failures, log' = Append(log, f), f.of = case, case' = case,
         f.kind # "panic", f.kind # "fatal", f.kind # "errorf"
  PROVE  /\ Panics(case)' = Panics(case) /\ OwnFatals(case)' = OwnFatals(case)
         /\ TaskFatals(case)' = TaskFatals(case) /\ TaskPanics(case)' = TaskPanics(case)
         /\ Kind(case, "errorf")' = Kind(case, "errorf")
<1>1. Kind(case, "errorf")' = Kind(case, "errorf") \cup (IF f.kind = "errorf" THEN {NewId} ELSE {})
  BY NewFailure
<1>2. /\ Panics(case)' = Panics(case) \cup (IF f.kind = "panic" THEN {NewId} ELSE {})
      /\ TaskPanics(case)' = TaskPanics(case) \cup (IF f.kind = "panic" /\ f.by = "task" THEN {NewId} ELSE {})
      /\ OwnFatals(case)' = OwnFatals(case) \cup (IF f.kind = "fatal" /\ f.by = "spec" THEN {NewId} ELSE {})
      /\ TaskFatals(case)' = TaskFatals(case) \cup (IF f.kind = "fatal" /\ f.by = "task" THEN {NewId} ELSE {})
  BY NewFailure
<1> QED BY <1>1, <1>2

\* A failure of the open settle point is added.
LEMMA StagesGrow ==
  ASSUME TypeInv, StagesOK, NEW f \in Failures, log' = Append(log, f), f.of = case, case' = case,
         f.stage = Stage, Stage' = Stage, f.by = "task" => Stage <= 2, gs.used => gs'.used,
         ~gs'.used => f.by = "spec" /\ f.kind # "errorf"
  PROVE  StagesOK'
<1>1. /\ FailuresOf(case)' = FailuresOf(case) \cup {NewId} /\ log'[NewId] = f
      /\ NewId \in Nat /\ Stage \in 1..3
      /\ \A i \in FailuresOf(case) : i \in Nat /\ log'[i] = log[i] /\ i < NewId
  BY NewFailure, Entries DEF FailuresOf
<1>2. ASSUME NEW i \in FailuresOf(case)'
      PROVE  /\ log'[i].stage <= Stage' /\ (log'[i].by = "task" => log'[i].stage <= 2)
             /\ ~gs'.used => log'[i].by = "spec" /\ log'[i].kind # "errorf"
  <2>1. CASE i \in FailuresOf(case)
    BY <1>1, <2>1 DEF StagesOK
  <2>2. CASE i = NewId
    <3>1. log'[i] = f
      BY <1>1, <2>2
    <3>2. f.stage <= Stage'
      BY <1>1
    <3> QED BY <3>1, <3>2
  <2> QED BY <1>1, <2>1, <2>2
<1>3. ASSUME NEW i \in FailuresOf(case)', NEW j \in FailuresOf(case)', i < j
      PROVE  log'[i].stage <= log'[j].stage
  <2>1. i \in FailuresOf(case)
    BY <1>1, <1>3
  <2>2. CASE j = NewId
    BY <1>1, <2>1, <2>2 DEF StagesOK
  <2>3. CASE j \in FailuresOf(case)
    BY <1>1, <1>3, <2>1, <2>3 DEF StagesOK
  <2> QED BY <1>1, <2>2, <2>3
<1> QED BY <1>2, <1>3 DEF StagesOK

\* What depends only on the older failures stays.
LEMMA FirstKept ==
  ASSUME TypeInv, NEW f \in Failures, log' = Append(log, f), f.of = case, case' = case
  PROVE  /\ \A x : \A S \in SUBSET DOMAIN log : PanicFirst(x, S)' <=> PanicFirst(x, S)
         /\ \A x : \A S \in SUBSET DOMAIN log : FoldFirst(x, S)' <=> FoldFirst(x, S)
<1>1. \A i \in DOMAIN log : PanicClass(i)' = PanicClass(i) /\ FoldClass(i)' = FoldClass(i)
  BY NewFailure
<1>2. ASSUME NEW x, NEW S \in SUBSET DOMAIN log PROVE PanicFirst(x, S)' <=> PanicFirst(x, S)
  BY <1>1 DEF PanicFirst
<1>3. ASSUME NEW x, NEW S \in SUBSET DOMAIN log PROVE FoldFirst(x, S)' <=> FoldFirst(x, S)
  BY <1>1 DEF FoldFirst
<1> QED BY <1>2, <1>3

\* A gathered failure is replaced only when there is none.
LEMMA EarliestGrows ==
  ASSUME NEW S \in SUBSET (Nat \ {0}), NEW x, Earliest(x, S), NEW n \in Nat, \A i \in S : i < n
  PROVE  Earliest(IF x = 0 THEN n ELSE x, S \cup {n})
<1>1. CASE S = {}
  BY <1>1 DEF Earliest
<1>2. CASE S # {}
  <2>1. x \in S /\ x # 0 /\ x < n /\ \A j \in S : x <= j
    BY <1>2 DEF Earliest
  <2> QED BY <2>1 DEF Earliest
<1> QED BY <1>1, <1>2

\* The reports are of earlier cases, or of abandoned ones.
LEMMA NewKeepsReports ==
  ASSUME TypeInv, TaskInv, RuleInv, reports' = reports, NEW f \in Failures, log' = Append(log, f),
         f.of = case \/ Abandoned(f.of)
  PROVE  \A c \in Cases : ReportOK(c)'
<1>1. ASSUME NEW c, Intact(c)
      PROVE  FailuresOf(c)' = FailuresOf(c) /\ \A i \in FailuresOf(c) : log'[i] = log[i]
  <2>1. f.of # c
    BY <1>1, IntactCase
  <2>2. FailuresOf(c)' = FailuresOf(c)
    BY <2>1, OneMoreFailure
  <2>3. \A i \in DOMAIN log : log'[i] = log[i]
    BY LogGrows
  <2> QED BY <2>2, <2>3 DEF FailuresOf
<1> QED BY <1>1, ReportsKept

LEMMA StartCaseRule == ASSUME TypeInv, TaskInv, ChargeInv, RuleInv, StartCase PROVE RuleInv'
<1>1. /\ at = "start" /\ at' = "body" /\ message' = 0 /\ failure' = NoFailure
      /\ UNCHANGED <<case, tasks, log, reports>>
      /\ gs'.rec = 0 /\ gs'.panic = 0 /\ gs'.pending = <<>> /\ gs'.used = gs.used
  <2>1. gs \in GoState(Len(log)) /\ Len(log) \in Nat
    BY DEF TypeInv, IdType
  <2> QED BY <2>1, RecycledType DEF StartCase, history
<1>2. FailuresOf(case) = {}
  <2>1. case \in Nat
    BY Entries
  <2>2. \A i \in DOMAIN log : log[i] \in Failures
    BY DEF TypeInv
  <2> QED BY <1>1, <2>1, <2>2 DEF FailuresOf, ChargeInv, PastInv, Failures, Cases
<1>3. \A c \in Cases : ReportOK(c)'
  BY <1>1, ReportsKept DEF FailuresOf
<1>4. ~gs'.used => Quiet'
  BY <1>1 DEF RuleInv, Quiet, Running
<1>5. RuleOK'
  <2>1. FailuresOf(case)' = {}
    BY <1>1, <1>2 DEF FailuresOf
  <2>2. \A k : Kind(case, k)' = {}
    BY <2>1 DEF Kind
  <2>3. Panics(case)' = {} /\ OwnFatals(case)' = {} /\ TaskFatals(case)' = {}
    BY <2>2 DEF Panics, OwnFatals, TaskFatals
  <2>4. TaskPanics(case)' = {} /\ FoldedOf(case)' = {}
    BY <2>2, <2>3 DEF TaskPanics, FoldedOf
  <2>5. SeenPanics' = {} /\ Settled' = {} /\ Queued' = {}
    BY <2>2, <2>3, <2>4 DEF SeenPanics, Settled, Queued
  <2>6. StagesOK'
    BY <2>1 DEF StagesOK
  <2>7. GatheredOK'
    BY <1>1, <2>3, <2>4, <2>5 DEF GatheredOK, Earliest, Elems
  <2>8. PanicOK'
    BY <1>1, <2>5 DEF PanicOK, PanicFirst
  <2>9. FailureOK'
    BY <1>1, <2>3, <2>5 DEF FailureOK, FoldFirst, NoFailure
  <2> QED BY <2>6, <2>7, <2>8, <2>9 DEF RuleOK
<1> QED BY <1>3, <1>4, <1>5 DEF RuleInv

\* The report of a case that was not abandoned, once everything is folded.
LEMMA FinishedRule ==
  ASSUME TypeInv, NowOK, RuleOK, at = "end", how # "abandoned", Panics(case) # {} => how # "exited"
  PROVE  Explains(Finished.message, case) /\ (Finished.output <=> Panics(case) # {})
<1>1. /\ Stage = 3 /\ how \in {"returned", "exited", "abandoned"}
      /\ failure.failed \in BOOLEAN
  BY DEF Stage, TypeInv, ControlType, IdType
<1>2. SeenPanics = Panics(case) /\ Settled = FoldedOf(case)
  <2>1. \A i \in Panics(case) : log[i].by = "spec" \/ log[i].stage < Stage
    <3>1. \A i \in Panics(case) : i \in FailuresOf(case) /\ i \in DOMAIN log
      BY Entries DEF Panics, Kind
    <3>2. \A i \in Panics(case) : log[i].by \in {"spec", "task"} /\ log[i].stage \in 1..3
      BY <3>1, Entries
    <3> QED BY <1>1, <3>1, <3>2 DEF RuleOK, StagesOK
  <2> QED BY <2>1 DEF SeenPanics, Settled
<1>3. Failed <=> FailuresOf(case) # {}
  BY DEF NowOK, Kept, Failed, Drained
<1>4. CASE Panics(case) # {}
  <2>1. how = "returned" /\ message \in Panics(case) /\ message # 0
    <3>1. message \in Panics(case)
      BY <1>2, <1>4 DEF RuleOK, PanicOK, PanicFirst
    <3> QED BY <1>1, <1>4, <3>1, Entries
  <2>2. Finished.message = message /\ Finished.output
    BY <2>1 DEF Finished
  <2>3. PanicFirst(message, Panics(case))
    BY <1>2 DEF RuleOK, PanicOK
  <2> QED BY <1>4, <2>2, <2>3 DEF Explains
<1>5. CASE Panics(case) = {}
  <2>1. message = 0
    BY <1>2, <1>5 DEF RuleOK, PanicOK, PanicFirst
  <2>2. Finished.message = (IF Failed THEN failure.message ELSE 0) /\ ~Finished.output
    BY <2>1 DEF Finished
  <2>3. CASE ~Failed
    <3>1. OwnFatals(case) = {} /\ FoldedOf(case) = {}
      BY <1>3, <2>3 DEF OwnFatals, FoldedOf, TaskFatals, Kind
    <3> QED BY <1>5, <2>2, <2>3, <3>1 DEF Explains, FoldFirst
  <2>4. CASE Failed
    <3>1. Finished.message = failure.message
      BY <2>2, <2>4
    <3>2. IF OwnFatals(case) # {} THEN Latest(failure.message, OwnFatals(case))
          ELSE FoldFirst(failure.message, FoldedOf(case))
      BY <1>2, <1>5 DEF RuleOK, FailureOK
    <3> QED BY <1>5, <2>2, <3>1, <3>2 DEF Explains
  <2> QED BY <2>3, <2>4
<1> QED BY <1>4, <1>5

LEMMA NextCaseRule == ASSUME TypeInv, TaskInv, ChargeInv, RuleInv, FilterCase \/ EndCase PROVE RuleInv'
<1> DEFINE r == IF at = "start" THEN Filtered ELSE Finished
<1>1. /\ r \in ReportRecord(Len(log)) /\ reports' = Append(reports, r) /\ case \in Cases
      /\ at' = "start" /\ at \in {"start", "end"} /\ UNCHANGED <<tasks, log>> /\ gs' = Recycled(gs)
  BY CaseReported DEF history
<1>2. \A c : FailuresOf(c)' = FailuresOf(c) /\ \A i \in FailuresOf(c) : log'[i] = log[i]
  BY <1>1 DEF FailuresOf
<1>3. ~gs'.used => Quiet'
  <2>1. gs'.used = gs.used
    BY <1>1, RecycledType, Entries DEF TypeInv, IdType
  <2> QED BY <1>1, <2>1 DEF RuleInv, Quiet, Running
<1>4. ASSUME NEW c \in Cases, Intact(c)', Panics(c) # {} => reports'[c].how # "exited"
      PROVE  Explains(reports'[c].message, c) /\ (reports'[c].output <=> Panics(c) # {})
  <2>1. /\ DOMAIN reports' = 1..case /\ reports'[case] = r /\ DOMAIN reports = 1..(case - 1)
        /\ \A d \in 1..(case - 1) : reports'[d] = reports[d]
        /\ case \in Nat
    BY <1>1, ReportAppended
  <2>2. c \in 1..case /\ \A d \in 1..c : reports'[d].how # "abandoned"
    BY <1>4, <2>1 DEF Intact
  <2>3. CASE c # case
    <3>1. c \in DOMAIN reports /\ reports'[c] = reports[c] /\ Intact(c)
      BY <2>1, <2>2, <2>3 DEF Intact
    <3> QED BY <1>4, <3>1 DEF RuleInv, ReportOK
  <2>4. CASE c = case
    <3>1. Clean /\ r.how # "abandoned" /\ reports'[c] = r
      BY <2>1, <2>2, <2>4 DEF Clean
    <3>2. CASE at = "start"
      <4>1. FailuresOf(case) = {}
        <5>1. \A i \in DOMAIN log : log[i] \in Failures
          BY DEF TypeInv
        <5> QED BY <2>1, <3>2, <5>1 DEF FailuresOf, ChargeInv, PastInv, Failures, Cases
      <4>2. Panics(c) = {} /\ OwnFatals(c) = {} /\ FoldedOf(c) = {}
        BY <2>4, <4>1 DEF Panics, OwnFatals, FoldedOf, TaskFatals, Kind
      <4>3. r.message = 0 /\ ~r.output
        BY <3>2 DEF Filtered
      <4> QED BY <3>1, <4>2, <4>3 DEF Explains, FoldFirst
    <3>3. CASE at = "end"
      <4>1. r = Finished /\ r.how = how
        BY <3>3 DEF Finished
      <4>2. NowOK /\ RuleOK /\ (Panics(case) # {} => how # "exited")
        BY <1>4, <2>4, <3>1, <3>3, <4>1 DEF ChargeInv, RuleInv
      <4>3. Explains(Finished.message, case) /\ (Finished.output <=> Panics(case) # {})
        BY <3>1, <3>3, <4>1, <4>2, FinishedRule
      <4> QED BY <2>4, <3>1, <4>1, <4>3
    <3> QED BY <1>1, <3>2, <3>3
  <2> QED BY <2>3, <2>4
<1>5. ASSUME NEW c \in Cases PROVE ReportOK(c)'
  <2>1. Panics(c)' = Panics(c) /\ \A x : Explains(x, c)' <=> Explains(x, c)
    BY <1>2, SameFailures
  <2>2. Explains(reports[c].message, c)' <=> Explains(reports'[c].message, c)
    BY <2>1 DEF Explains, PanicFirst, FoldFirst, Latest
  <2> QED BY <1>4, <2>1, <2>2 DEF ReportOK
<1> QED BY <1>1, <1>3, <1>5 DEF RuleInv

\* The classes of the failure that is added.
LEMMA NewClass ==
  ASSUME TypeInv, NEW f \in Failures, log' = Append(log, f), NEW n, n = NewId
  PROVE  /\ PanicClass(n)' = 2 * f.stage + (IF f.by = "task" THEN 1 ELSE 0)
         /\ FoldClass(n)' = IF f.kind = "early" THEN 0
                             ELSE 2 * f.stage + (IF f.kind = "errorf" THEN 1 ELSE 0)
<1>1. log'[n] = f
  BY LogGrows
<1> QED BY <1>1 DEF PanicClass, FoldClass

\* A failure that is neither a panic, nor folded yet, nor an own failed assertion.
LEMMA NewWaits ==
  ASSUME TypeInv, RuleOK, NEW f \in Failures, log' = Append(log, f), f.of = case, case' = case,
         UNCHANGED <<message, failure>>, Stage' = Stage, at # "end", at' # "end", f.stage = Stage, f.kind # "early",
         f.kind \in {"panic", "fatal"} => f.by = "task"
  PROVE  PanicOK' /\ FailureOK' /\ Queued' = Queued \cup (IF f.kind = "errorf" THEN {NewId} ELSE {})
<1>1. /\ log'[NewId] = f /\ Stage \in 1..3
      /\ \A i \in DOMAIN log : log'[i] = log[i] /\ i # NewId
      /\ Panics(case) \subseteq DOMAIN log /\ FoldedOf(case) \subseteq DOMAIN log
      /\ OwnFatals(case) \subseteq DOMAIN log /\ Kind(case, "errorf") \subseteq DOMAIN log
  BY NewFailure, Entries DEF FoldedOf
<1>2. SeenPanics' = SeenPanics
  <2>1. Panics(case)' = Panics(case) \cup (IF f.kind = "panic" THEN {NewId} ELSE {})
    BY NewFailure
  <2>2. f.kind = "panic" => ~(log'[NewId].by = "spec" \/ log'[NewId].stage < Stage)
    BY <1>1
  <2>3. \A i \in Panics(case) : log'[i] = log[i]
    BY <1>1
  <2>4. SeenPanics' = {i \in Panics(case)' : log'[i].by = "spec" \/ log'[i].stage < Stage}
    BY DEF SeenPanics
  <2> QED BY <2>1, <2>2, <2>3, <2>4 DEF SeenPanics
<1>3. FoldedOf(case)' \subseteq FoldedOf(case) \cup {NewId} /\ FoldedOf(case) \subseteq FoldedOf(case)'
  <2>1. /\ \A k : Kind(case, k)' = Kind(case, k) \cup (IF f.kind = k THEN {NewId} ELSE {})
        /\ TaskFatals(case)' = TaskFatals(case) \cup (IF f.kind = "fatal" /\ f.by = "task" THEN {NewId} ELSE {})
    BY NewFailure
  <2> QED BY <2>1 DEF FoldedOf
<1>4. Settled' = Settled
  <2>1. Settled' = {i \in FoldedOf(case)' : log'[i].kind = "early" \/ log'[i].stage < Stage}
    BY DEF Settled
  <2>2. Settled = {i \in FoldedOf(case) : log[i].kind = "early" \/ log[i].stage < Stage}
    BY DEF Settled
  <2>3. ~(log'[NewId].kind = "early" \/ log'[NewId].stage < Stage)
    BY <1>1
  <2>4. \A i \in FoldedOf(case) : log'[i] = log[i]
    BY <1>1
  <2> QED BY <1>3, <2>1, <2>2, <2>3, <2>4
<1>5. Queued' = Queued \cup (IF f.kind = "errorf" THEN {NewId} ELSE {})
  <2>1. Kind(case, "errorf")' = Kind(case, "errorf") \cup (IF f.kind = "errorf" THEN {NewId} ELSE {})
    BY NewFailure
  <2> QED BY <1>1, <2>1 DEF Queued
<1>6. \A i \in DOMAIN log : PanicClass(i)' = PanicClass(i) /\ FoldClass(i)' = FoldClass(i)
  BY NewFailure
<1>7. SeenPanics \subseteq DOMAIN log /\ Settled \subseteq DOMAIN log
  BY <1>1 DEF SeenPanics, Settled
<1>8. PanicOK'
  BY <1>2, <1>6, <1>7 DEF RuleOK, PanicOK, PanicFirst
<1>9. FailureOK'
  <2>1. Panics(case)' = {} => Panics(case) = {}
    BY NewFailure
  <2>2. OwnFatals(case)' = OwnFatals(case)
    BY NewFailure
  <2>3. FoldFirst(failure.message, Settled)' <=> FoldFirst(failure.message, Settled)
    BY <1>4, <1>6, <1>7 DEF FoldFirst
  <2> QED BY <1>4, <2>1, <2>2, <2>3 DEF RuleOK, FailureOK, Latest
<1> QED BY <1>5, <1>8, <1>9

LEMMA EarlyErrorfRule == ASSUME TypeInv, TaskInv, ChargeInv, RuleInv, EarlyErrorf PROVE RuleInv'
<1> DEFINE f == Failure("early", case, "spec")
<1>1. /\ case \in Cases /\ at \in {"body", "after", "cleanup"} /\ f \in Failures /\ log' = Append(log, f)
      /\ f.of = case /\ f.kind = "early" /\ f.by = "spec" /\ f.stage = Stage
  <2>1. case \in Cases /\ at \in {"body", "after", "cleanup"}
    BY DEF TypeInv, PlaceInv, InUserCode, EarlyErrorf
  <2>2. Stage \in 1..3
    BY Entries
  <2> QED BY <2>1, <2>2 DEF EarlyErrorf, Failures, Failure
<1>2. /\ UNCHANGED <<case, at, how, reports, tasks, gs, message>> /\ ~gs.used /\ Stage' = Stage
      /\ failure' = [failed |-> TRUE, message |-> IF failure.failed THEN failure.message ELSE NewId]
  BY DEF EarlyErrorf, Stage
<1> HIDE DEF f
<1>3. \A c \in Cases : ReportOK(c)'
  BY <1>1, <1>2, NewKeepsReports
<1>4. ASSUME Clean', at' # "start", how' # "abandoned" PROVE RuleOK'
  <2>1. RuleOK
    BY <1>2, <1>4, CleanStays DEF RuleInv
  <2>2. StagesOK'
    BY <1>1, <1>2, <2>1, StagesGrow DEF RuleOK
  <2>3. /\ Panics(case)' = Panics(case) /\ OwnFatals(case)' = OwnFatals(case)
        /\ TaskFatals(case)' = TaskFatals(case) /\ TaskPanics(case)' = TaskPanics(case)
        /\ Kind(case, "errorf")' = Kind(case, "errorf")
    <3>1. f.kind # "panic" /\ f.kind # "fatal" /\ f.kind # "errorf" /\ case' = case
      BY <1>1, <1>2
    <3> QED BY <1>1, <3>1, OtherKinds
  <2>4. /\ log'[NewId] = f /\ Stage \in 1..3 /\ NewId \in Nat \ {0} /\ DOMAIN log \subseteq Nat
        /\ \A i \in DOMAIN log : log'[i] = log[i] /\ i < NewId
        /\ \A i \in DOMAIN log : PanicClass(i)' = PanicClass(i) /\ FoldClass(i)' = FoldClass(i)
        /\ Panics(case) \subseteq DOMAIN log /\ FoldedOf(case) \subseteq DOMAIN log
        /\ Kind(case, "errorf") \subseteq DOMAIN log
    BY <1>1, <1>2, NewFailure, Entries DEF FoldedOf
  <2>5. SeenPanics' = SeenPanics /\ Queued' = Queued /\ SeenPanics \subseteq DOMAIN log
    BY <1>2, <2>3, <2>4 DEF SeenPanics, Queued
  <2>6. GatheredOK'
    BY <1>2, <2>1, <2>3, <2>5 DEF RuleOK, GatheredOK, Earliest, Elems
  <2>7. PanicOK'
    BY <1>2, <2>1, <2>4, <2>5 DEF RuleOK, PanicOK, PanicFirst
  <2>8. FailureOK'
    <3> SUFFICES ASSUME Panics(case) = {}, OwnFatals(case) = {}
                 PROVE  FoldFirst(failure.message, Settled)' /\ failure'.failed /\ Settled' # {}
      BY <1>2, <2>1, <2>3 DEF RuleOK, FailureOK, Latest
    <3>1. FoldedOf(case)' = FoldedOf(case) \cup {NewId}
      <4>1. Kind(case, "early")' = Kind(case, "early") \cup {NewId}
        BY <1>1, <1>2, NewFailure
      <4> QED BY <2>3, <4>1 DEF FoldedOf
    <3>2. Settled' = Settled \cup {NewId} /\ Settled \subseteq DOMAIN log
      BY <1>1, <1>2, <2>4, <3>1 DEF Settled
    <3>3. FoldFirst(failure.message, Settled) /\ (failure.failed <=> Settled # {})
      BY <2>1 DEF RuleOK, FailureOK
    <3>0. PICK n : n = NewId
      OBVIOUS
    <3>4. FoldClass(n)' = 0
      BY <1>1, <3>0, NewClass
    <3>5. \A i \in Settled : FoldClass(i) = 0
      <4>1. \A i \in FoldedOf(case) : log[i].kind = "early"
        BY <1>2, <2>1 DEF RuleOK, StagesOK, FoldedOf, TaskFatals, Kind
      <4> QED BY <4>1 DEF Settled, FoldClass
    <3>6. CASE Settled = {}
      <4>1. failure'.message = NewId /\ Settled' = {NewId}
        BY <1>2, <3>2, <3>3, <3>6
      <4> QED BY <1>2, <2>4, <4>1 DEF FoldFirst, Sooner
    <3>7. CASE Settled # {}
      <4>1. failure'.message = failure.message /\ failure.message \in Settled
        BY <1>2, <3>3, <3>7 DEF FoldFirst
      <4>2. \A j \in Settled : Sooner(failure.message, 0, j, 0)
        BY <3>3, <3>5, <3>7, <4>1 DEF FoldFirst
      <4>3. \A j \in Settled' : Sooner(failure.message, 0, j, 0) /\ FoldClass(j)' = 0
        <5>1. failure.message < NewId
          BY <2>4, <3>2, <4>1
        <5>2. failure.message \in Nat /\ Settled \subseteq Nat
          BY <2>4, <3>2, <4>1
        <5>3. \A j \in Settled : FoldClass(j)' = 0
          BY <2>4, <3>2, <3>5
        <5>4. \A j \in Settled' : j \in Settled \/ j = n
          BY <3>0, <3>2
        <5>5. failure.message < n /\ n \in Nat
          BY <2>4, <3>0, <5>1
        <5>6. ASSUME NEW j \in Settled' PROVE Sooner(failure.message, 0, j, 0) /\ FoldClass(j)' = 0
          <6>1. CASE j \in Settled
            BY <4>2, <5>3, <6>1
          <6>2. CASE j = n
            BY <3>4, <5>2, <5>5, <6>2 DEF Sooner
          <6> QED BY <5>4, <5>6, <6>1, <6>2
        <5> QED BY <5>6
      <4> QED BY <1>2, <3>2, <4>1, <4>3 DEF FoldFirst
    <3> QED BY <3>6, <3>7
  <2> QED BY <2>2, <2>6, <2>7, <2>8 DEF RuleOK
<1> QED BY <1>2, <1>3, <1>4 DEF RuleInv, Quiet, Running

LEMMA QueueRule ==
  ASSUME TypeInv, TaskInv, RuleInv, NEW c \in Cases, NEW by \in {"spec", "task"}, NEW to, Queue(c, by, to),
         c = case \/ Abandoned(c), gs.used, InUserCode \/ ~Quiet, by = "task" => ~Quiet
  PROVE  RuleInv'
<1> DEFINE f == Failure("errorf", c, by)
<1>1. /\ f \in Failures /\ log' = Append(log, f) /\ f.of = c /\ f.kind = "errorf" /\ f.by = by /\ f.stage = Stage
  BY Entries DEF Queue, Failures, Failure
<1>2. /\ UNCHANGED <<case, at, how, reports, tasks, failure, message>> /\ Stage' = Stage
      /\ gs'.rec = gs.rec /\ gs'.panic = gs.panic /\ gs'.used /\ gs'.pending = Append(gs.pending, NewId)
  BY DEF Queue, Stage, TypeInv, IdType, GoState
<1> HIDE DEF f
<1>3. \A d \in Cases : ReportOK(d)'
  BY <1>1, <1>2, NewKeepsReports
<1>4. ASSUME Clean', at' # "start", how' # "abandoned" PROVE RuleOK'
  <2>1. RuleOK /\ c = case
    BY <1>2, <1>4, CleanStays DEF RuleInv
  <2>2. at # "end" /\ (by = "task" => Stage <= 2)
    BY <1>2, <1>4 DEF InUserCode, TaskInv, Drained, Stage, TypeInv, ControlType
  <2>3. StagesOK'
    BY <1>1, <1>2, <2>1, <2>2, StagesGrow DEF RuleOK
  <2>4. PanicOK' /\ FailureOK' /\ Queued' = Queued \cup {NewId}
    BY <1>1, <1>2, <2>1, <2>2, NewWaits
  <2>5. /\ Panics(case)' = Panics(case) /\ TaskFatals(case)' = TaskFatals(case)
        /\ TaskPanics(case)' = TaskPanics(case)
    BY <1>1, <1>2, <2>1, NewFailure
  <2>6. /\ Elems(gs'.pending) = Elems(gs.pending) \cup {NewId}
        /\ \A k \in DOMAIN gs'.pending : gs'.pending[1] <= gs'.pending[k]
    <3>1. gs.pending \in Seq(Nat) /\ NewId \in Nat
      <4>1. gs \in GoState(Len(log)) /\ Len(log) \in Nat
        BY DEF TypeInv, IdType
      <4> QED BY <4>1, SeqMonotonic DEF GoState, NewId
    <3>2. /\ DOMAIN gs.pending = 1..Len(gs.pending) /\ Len(gs.pending) \in Nat
          /\ DOMAIN gs'.pending = 1..(Len(gs.pending) + 1) /\ gs'.pending[Len(gs.pending) + 1] = NewId
          /\ \A i \in 1..Len(gs.pending) : gs'.pending[i] = gs.pending[i]
      BY <1>2, <3>1, Appended
    <3>3. \A k \in DOMAIN gs.pending : gs.pending[k] < NewId /\ gs.pending[k] \in Nat
      <4>1. \A k \in DOMAIN gs.pending : gs.pending[k] \in Queued
        BY <2>1 DEF RuleOK, GatheredOK, Elems
      <4>2. Queued \subseteq DOMAIN log
        BY Entries DEF Queued, Kind
      <4> QED BY <1>1, <1>2, <2>1, <3>1, <4>1, <4>2, NewFailure, Entries
    <3>4. Elems(gs'.pending) = Elems(gs.pending) \cup {NewId}
      BY <3>2 DEF Elems
    <3>5. \A k \in DOMAIN gs.pending : gs.pending[1] <= gs.pending[k]
      BY <2>1 DEF RuleOK, GatheredOK
    <3>6. ASSUME NEW k \in DOMAIN gs'.pending PROVE gs'.pending[1] <= gs'.pending[k]
      <4>1. CASE Len(gs.pending) = 0
        BY <3>1, <3>2, <4>1
      <4>2. CASE Len(gs.pending) # 0
        <5>1. gs'.pending[1] = gs.pending[1] /\ 1 \in DOMAIN gs.pending
          BY <3>2, <4>2
        <5>2. CASE k \in DOMAIN gs.pending /\ gs'.pending[k] = gs.pending[k]
          BY <3>5, <5>1, <5>2
        <5>3. CASE k \notin DOMAIN gs.pending
          <6>1. gs'.pending[k] = NewId
            BY <3>2, <3>6, <5>3
          <6>2. gs'.pending[1] \in Nat /\ gs'.pending[1] < NewId /\ NewId \in Nat
            BY <3>1, <3>3, <5>1
          <6> QED BY <6>1, <6>2
        <5> QED BY <3>2, <5>2, <5>3
      <4> QED BY <4>1, <4>2
    <3> QED BY <3>4, <3>6
  <2>7. GatheredOK'
    BY <1>2, <2>1, <2>4, <2>5, <2>6 DEF RuleOK, GatheredOK, Earliest, Elems
  <2> QED BY <2>3, <2>4, <2>7 DEF RuleOK
<1> QED BY <1>2, <1>3, <1>4 DEF RuleInv

LEMMA TaskEndsRule ==
  ASSUME TypeInv, TaskInv, RuleInv, NEW t \in Tasks, NEW out \in Ways, TaskEnds(t, out)
  PROVE  RuleInv'
<1> DEFINE c == tasks[t].of
           lost == \/ OnT /\ out = "fatal" /\ ~Reaches(t)
                   \/ OnT /\ out \in {"error", "failnow"} /\ c # case
           panicked == out = "panic" \/ lost
           failing  == out \notin {"ok", "skip"}
           kind == IF panicked THEN "panic" ELSE out
           f == Failure(kind, c, "task")
<1>1. /\ Running(t) /\ ~Quiet /\ ~Drained /\ c \in Cases /\ case \in Nat
      /\ c = case \/ Abandoned(c)
  BY StrayOrOwn, TaskIsOfCase DEF TaskInv, TaskEnds, Cases
<1>2. /\ UNCHANGED <<case, at, how, reports, failure, message>> /\ Stage' = Stage
      /\ tasks' = [tasks EXCEPT ![t].state = "done"]
      /\ (failing => log' = Append(log, f)) /\ (~failing => log' = log)
  BY DEF TaskEnds, Stage
<1>3. /\ gs'.rec = IF out = "fatal" /\ gs.rec = 0 THEN NewId ELSE gs.rec
      /\ gs'.panic = IF panicked /\ gs.panic = 0 THEN NewId ELSE gs.panic
      /\ gs'.pending = gs.pending /\ gs'.used = gs.used /\ gs.used
  BY <1>1 DEF TaskEnds, TypeInv, IdType, GoState, RuleInv
<1>4. /\ f \in Failures /\ f.of = c /\ f.kind = kind /\ f.by = "task" /\ f.stage = Stage
  <2>1. kind \in Endings /\ Stage \in 1..3
    BY DEF Ways, Endings, Stage
  <2> QED BY <1>1, <2>1 DEF Failures, Failure
<1>5. CASE failing
  <2>1. \A d \in Cases : ReportOK(d)'
    BY <1>1, <1>2, <1>4, <1>5, NewKeepsReports
  <2>2. ASSUME Clean', at' # "start", how' # "abandoned" PROVE RuleOK'
    <3>1. RuleOK /\ c = case /\ log' = Append(log, f) /\ case' = case
      BY <1>1, <1>2, <1>5, <2>2, CleanStays DEF RuleInv
    <3>2. at # "end" /\ at' # "end" /\ Stage <= 2
      BY <1>1, <1>2, <2>2 DEF Drained, Stage, TypeInv, ControlType
    <3>3. kind \in {"fatal", "error", "failnow", "panic"}
      BY <1>5 DEF Ways, Endings
    <3>4. kind = "fatal" => out = "fatal" /\ ~panicked
      BY DEF Ways
    <3>5. kind = "panic" <=> panicked
      BY DEF Ways
    <3>6. out = "fatal" => kind \in {"fatal", "panic"}
      OBVIOUS
    <3> HIDE DEF f, kind, panicked, failing, c
    <3>7. StagesOK'
      BY <1>2, <1>3, <1>4, <3>1, <3>2, StagesGrow DEF RuleOK
    <3>8. PanicOK' /\ FailureOK' /\ Queued' = Queued
      BY <1>2, <1>4, <3>1, <3>2, <3>3, NewWaits
    <3>9. /\ Panics(case)' = Panics(case) \cup (IF f.kind = "panic" THEN {NewId} ELSE {})
          /\ TaskPanics(case)' =
               TaskPanics(case) \cup (IF f.kind = "panic" /\ f.by = "task" THEN {NewId} ELSE {})
          /\ TaskFatals(case)' =
               TaskFatals(case) \cup (IF f.kind = "fatal" /\ f.by = "task" THEN {NewId} ELSE {})
          /\ NewId \in Nat /\ \A i \in DOMAIN log : i < NewId /\ i \in Nat \ {0}
      BY <1>4, <3>1, NewFailure, Entries
    <3>10. /\ TaskPanics(case) \subseteq DOMAIN log /\ TaskFatals(case) \subseteq DOMAIN log
      BY Entries DEF TaskPanics, FoldedOf
    <3>11. Earliest(gs.panic, TaskPanics(case)) /\ (Panics(case) = {} => Earliest(gs.rec, TaskFatals(case)))
      BY <3>1 DEF RuleOK, GatheredOK
    <3>12. Earliest(gs.panic, TaskPanics(case))'
      <4>1. CASE panicked
        <5>1. TaskPanics(case)' = TaskPanics(case) \cup {NewId}
          BY <1>4, <3>5, <3>9, <4>1
        <5>2. Earliest(IF gs.panic = 0 THEN NewId ELSE gs.panic, TaskPanics(case) \cup {NewId})
          BY <3>9, <3>10, <3>11, EarliestGrows
        <5> QED BY <1>3, <4>1, <5>1, <5>2 DEF Earliest
      <4>2. CASE ~panicked
        <5>1. TaskPanics(case)' = TaskPanics(case)
          BY <1>4, <3>5, <3>9, <4>2
        <5> QED BY <1>3, <3>11, <4>2, <5>1 DEF Earliest
      <4> QED BY <4>1, <4>2
    <3>13. Panics(case)' = {} => Earliest(gs.rec, TaskFatals(case))'
      <4> SUFFICES ASSUME Panics(case)' = {} PROVE Earliest(gs.rec, TaskFatals(case))'
        OBVIOUS
      <4>1. Panics(case) = {} /\ f.kind # "panic"
        BY <3>9
      <4>2. CASE out = "fatal"
        <5>1. TaskFatals(case)' = TaskFatals(case) \cup {NewId}
          BY <1>4, <3>6, <3>9, <4>1, <4>2
        <5>2. Earliest(IF gs.rec = 0 THEN NewId ELSE gs.rec, TaskFatals(case) \cup {NewId})
          BY <3>9, <3>10, <3>11, <4>1, EarliestGrows
        <5> QED BY <1>3, <4>2, <5>1, <5>2 DEF Earliest
      <4>3. CASE out # "fatal"
        <5>1. TaskFatals(case)' = TaskFatals(case)
          BY <1>4, <3>4, <3>9, <4>3
        <5> QED BY <1>3, <3>11, <4>1, <4>3, <5>1 DEF Earliest
      <4> QED BY <4>2, <4>3
    <3>14. GatheredOK'
      BY <1>3, <3>1, <3>8, <3>12, <3>13 DEF RuleOK, GatheredOK, Elems
    <3> QED BY <3>7, <3>8, <3>14 DEF RuleOK
  <2> QED BY <1>3, <2>1, <2>2 DEF RuleInv
<1>6. CASE ~failing
  <2>1. ~panicked /\ out # "fatal"
    BY <1>6
  <2>2. UNCHANGED <<case, log, failure, message, reports>>
    BY <1>2, <1>6
  <2> QED BY <1>1, <1>2, <1>3, <2>1, <2>2, RuleSteady DEF Drained, RuleInv, TaskInv, TypeInv, PlaceInv
<1> QED BY <1>5, <1>6

\* A failure of the spec goroutine that is not queued leaves what the tasks gathered.
LEMMA OwnKeepsGathered ==
  ASSUME TypeInv, GatheredOK, NEW f \in Failures, log' = Append(log, f), f.of = case, case' = case, gs' = gs,
         Stage' = Stage, at # "end", at' # "end", f.by = "spec", f.kind # "errorf"
  PROVE  GatheredOK'
<1>1. /\ Kind(case, "errorf")' = Kind(case, "errorf") \cup (IF f.kind = "errorf" THEN {NewId} ELSE {})
      /\ Panics(case)' = Panics(case) \cup (IF f.kind = "panic" THEN {NewId} ELSE {})
      /\ TaskPanics(case)' =
           TaskPanics(case) \cup (IF f.kind = "panic" /\ f.by = "task" THEN {NewId} ELSE {})
      /\ TaskFatals(case)' =
           TaskFatals(case) \cup (IF f.kind = "fatal" /\ f.by = "task" THEN {NewId} ELSE {})
      /\ \A i \in DOMAIN log : log'[i] = log[i]
  BY NewFailure
<1>2. /\ Kind(case, "errorf")' = Kind(case, "errorf") /\ TaskPanics(case)' = TaskPanics(case)
      /\ TaskFatals(case)' = TaskFatals(case) /\ (Panics(case)' = {} => Panics(case) = {})
  BY <1>1
<1>3. Kind(case, "errorf") \subseteq DOMAIN log
  BY Entries DEF FoldedOf
<1>4. Queued' = Queued
  BY <1>1, <1>2, <1>3 DEF Queued
<1> QED BY <1>2, <1>4 DEF GatheredOK, Earliest, Elems

LEMMA UserCodeEndsRule ==
  ASSUME TypeInv, TaskInv, RuleInv, NEW out \in Ways, BodyEnds(out) \/ HookEnds(out) \/ CleanupEnds(out)
  PROVE  RuleInv'
<1> DEFINE f == Failure(out, case, "spec")
           failing == out \notin {"ok", "skip"}
<1>1. /\ InUserCode /\ Leaves(out) /\ at \in {"body", "after", "cleanup"} /\ case \in Cases
      /\ how # "abandoned"
  BY DEF InUserCode, BodyEnds, HookEnds, CleanupEnds, TypeInv, PlaceInv, TaskInv
<1>2. /\ UNCHANGED <<case, gs, tasks, reports>>
      /\ (failing => log' = Append(log, f)) /\ (~failing => log' = log)
      /\ message' = (IF out = "panic" /\ message = 0 THEN NewId ELSE message)
      /\ out = "fatal" => failure' = [failed |-> TRUE, message |-> NewId]
      /\ out \notin {"fatal", "panic"} => failure' = failure
  BY <1>1 DEF Leaves
<1>3. at' # "start" /\ (how' = "abandoned" \/ (Stage' = Stage /\ at' # "end"))
  <2>1. CASE BodyEnds(out)
    BY <2>1 DEF BodyEnds, Stage
  <2>2. CASE HookEnds(out)
    <3>1. CASE Exits(out)
      BY <2>2, <3>1 DEF HookEnds
    <3>2. CASE ~Exits(out)
      BY <2>2, <3>2 DEF HookEnds, Stage
    <3> QED BY <3>1, <3>2
  <2>3. CASE CleanupEnds(out)
    BY <2>3 DEF CleanupEnds, AfterCleanup, Stage
  <2> QED BY <2>1, <2>2, <2>3
<1>4. CASE failing
  <2>1. /\ f \in Failures /\ f.of = case /\ log' = Append(log, f)
        /\ f.kind = out /\ f.by = "spec" /\ f.stage = Stage
    <3>1. Stage \in 1..3
      BY DEF Stage
    <3> QED BY <1>1, <1>2, <1>4, <3>1 DEF Failures, Failure, Ways
  <2>2. out \in {"fatal", "error", "failnow", "panic"}
    BY <1>4 DEF Ways, Endings
  <2> HIDE DEF f
  <2>3. \A c \in Cases : ReportOK(c)'
    BY <1>2, <2>1, NewKeepsReports
  <2>4. ASSUME Clean', how' # "abandoned" PROVE RuleOK'
    <3>1. RuleOK /\ at # "end" /\ at' # "end" /\ Stage' = Stage
      BY <1>1, <1>2, <1>3, <2>4, CleanStays DEF RuleInv
    <3>2. StagesOK'
      BY <1>2, <2>1, <2>2, <3>1, StagesGrow DEF RuleOK
    <3>3. GatheredOK'
      BY <1>2, <2>1, <2>2, <3>1, OwnKeepsGathered DEF RuleOK
    <3>4. CASE out \in {"error", "failnow"}
      <4>1. message' = message /\ failure' = failure
        BY <1>2, <3>4
      <4>2. PanicOK' /\ FailureOK'
        BY <1>2, <2>1, <3>1, <3>4, <4>1, NewWaits
      <4> QED BY <3>2, <3>3, <4>2 DEF RuleOK
    <3>5. /\ Panics(case)' = Panics(case) \cup (IF f.kind = "panic" THEN {NewId} ELSE {})
          /\ OwnFatals(case)' =
               OwnFatals(case) \cup (IF f.kind = "fatal" /\ f.by = "spec" THEN {NewId} ELSE {})
          /\ NewId \in Nat \ {0} /\ log'[NewId] = f
          /\ \A i \in DOMAIN log : /\ i \in Nat \ {0} /\ i < NewId /\ log'[i] = log[i]
                                   /\ PanicClass(i)' = PanicClass(i)
          /\ Panics(case) \subseteq DOMAIN log /\ OwnFatals(case) \subseteq DOMAIN log
      BY <1>2, <2>1, NewFailure, Entries
    <3>6. SeenPanics \subseteq DOMAIN log
      BY <3>5 DEF SeenPanics
    <3>7. CASE out = "fatal"
      <4>1. Panics(case)' = Panics(case) /\ OwnFatals(case)' = OwnFatals(case) \cup {NewId}
        BY <2>1, <3>5, <3>7
      <4>2. SeenPanics' = SeenPanics /\ message' = message
        BY <1>2, <3>1, <3>5, <3>7, <4>1 DEF SeenPanics
      <4>3. PanicOK'
        BY <3>1, <3>5, <3>6, <4>2 DEF RuleOK, PanicOK, PanicFirst
      <4>4. failure'.failed /\ failure'.message = NewId
        BY <1>2, <3>7
      <4>5. Latest(failure.message, OwnFatals(case))'
        BY <3>5, <4>1, <4>4 DEF Latest
      <4>6. FailureOK'
        BY <4>1, <4>4, <4>5 DEF FailureOK
      <4> QED BY <3>2, <3>3, <4>3, <4>6 DEF RuleOK
    <3>8. CASE out = "panic"
      <4>1. Panics(case)' = Panics(case) \cup {NewId}
        BY <2>1, <3>5, <3>8
      <4>2. SeenPanics' = SeenPanics \cup {NewId}
        <5>1. SeenPanics' = {i \in Panics(case)' : log'[i].by = "spec" \/ log'[i].stage < Stage}
          BY <3>1 DEF SeenPanics
        <5>2. log'[NewId].by = "spec" /\ \A i \in Panics(case) : log'[i] = log[i]
          BY <2>1, <3>5
        <5> QED BY <4>1, <5>1, <5>2 DEF SeenPanics
      <4>3. PICK n : n = NewId
        OBVIOUS
      <4>4. PanicClass(n)' = 2 * Stage
        <5>1. PanicClass(n)' = 2 * f.stage + (IF f.by = "task" THEN 1 ELSE 0)
          BY <2>1, <4>3, NewClass
        <5> QED BY <2>1, <5>1, Entries
      <4>5. \A i \in SeenPanics : PanicClass(i) <= 2 * Stage /\ PanicClass(i) \in Nat
        <5> SUFFICES ASSUME NEW i \in SeenPanics
                     PROVE  PanicClass(i) <= 2 * Stage /\ PanicClass(i) \in Nat
          OBVIOUS
        <5>1. i \in DOMAIN log /\ i \in FailuresOf(case) /\ (log[i].by = "spec" \/ log[i].stage < Stage)
          BY <3>6 DEF SeenPanics, Panics, Kind
        <5>2. log[i].stage \in 1..3 /\ log[i].by \in {"spec", "task"} /\ Stage \in 1..3
          BY <5>1, Entries
        <5>3. log[i].stage <= Stage
          BY <3>1, <5>1 DEF RuleOK, StagesOK
        <5> QED BY <5>1, <5>2, <5>3 DEF PanicClass
      <4>6. PanicFirst(message, SeenPanics)
        BY <3>1 DEF RuleOK, PanicOK
      <4>7. ASSUME SeenPanics = {} PROVE PanicOK'
        <5>1. message' = n /\ SeenPanics' = {n}
          BY <1>2, <3>8, <4>2, <4>3, <4>6, <4>7 DEF PanicFirst
        <5> QED BY <3>5, <4>3, <5>1 DEF PanicOK, PanicFirst, Sooner
      <4>8. ASSUME SeenPanics # {} PROVE PanicOK'
        <5>0. PICK m : m = message
          OBVIOUS
        <5>1. m \in SeenPanics /\ \A j \in SeenPanics : Sooner(m, PanicClass(m), j, PanicClass(j))
          BY <4>6, <4>8, <5>0 DEF PanicFirst
        <5>2. message' = m /\ m < n /\ n \in Nat /\ m \in Nat
          BY <1>2, <3>5, <3>6, <4>3, <5>0, <5>1
        <5>3. \A i \in SeenPanics : PanicClass(i)' = PanicClass(i)
          BY <3>5, <3>6
        <5>4. \A j \in SeenPanics : Sooner(m, PanicClass(m)', j, PanicClass(j)')
          BY <5>1, <5>3
        <5>5. Sooner(m, PanicClass(m)', n, PanicClass(n)')
          <6>1. /\ PanicClass(m)' = PanicClass(m) /\ PanicClass(m) <= 2 * Stage
                /\ PanicClass(m) \in Nat /\ 2 * Stage \in Nat
            BY <4>5, <5>1, <5>3, Entries
          <6>2. m <= n
            BY <5>2
          <6> QED BY <4>4, <6>1, <6>2 DEF Sooner
        <5>6. \A j \in SeenPanics' : Sooner(m, PanicClass(m)', j, PanicClass(j)')
          BY <4>2, <4>3, <5>4, <5>5
        <5>7. m \in SeenPanics'
          BY <4>2, <5>1
        <5> QED BY <5>2, <5>6, <5>7 DEF PanicOK, PanicFirst
      <4>9. FailureOK'
        BY <4>1 DEF FailureOK
      <4> QED BY <3>2, <3>3, <4>7, <4>8, <4>9 DEF RuleOK
    <3> QED BY <2>2, <3>4, <3>7, <3>8
  <2> QED BY <1>2, <1>3, <2>3, <2>4 DEF RuleInv, Quiet, Running
<1>5. CASE ~failing
  <2>1. UNCHANGED <<case, log, failure, message, reports, gs, tasks>>
    BY <1>2, <1>5
  <2>2. ~gs'.used => Quiet'
    BY <2>1 DEF RuleInv, Quiet, Running
  <2> QED BY <1>1, <1>3, <2>1, <2>2, RuleSteady
<1> QED BY <1>4, <1>5

\* What was settled at an earlier point ranks before what is settled now.
LEMMA SettledSooner ==
  ASSUME TypeInv, StagesOK
  PROVE  /\ \A i \in SeenPanics : PanicClass(i) < 2 * Stage + 1
         /\ \A i \in Panics(case) \ SeenPanics : i \in TaskPanics(case) /\ PanicClass(i) = 2 * Stage + 1
         /\ \A i \in Settled : at # "end" => FoldClass(i) < 2 * Stage
         /\ \A i \in TaskFatals(case) \ Settled : FoldClass(i) = 2 * Stage
         /\ \A i \in FoldedOf(case) \ Settled : i \in TaskFatals(case) \/ (i \in Queued /\ FoldClass(i) = 2 * Stage + 1)
<1>1. \A i \in Panics(case) \cup FoldedOf(case) :
        /\ i \in FailuresOf(case) /\ log[i].stage \in 1..3 /\ log[i].by \in {"spec", "task"}
        /\ log[i].stage <= Stage
  BY Entries DEF StagesOK, Panics, FoldedOf, TaskFatals, Kind
<1>2. Stage \in 1..3
  BY Entries
<1>3. \A i \in SeenPanics : PanicClass(i) < 2 * Stage + 1
  <2> SUFFICES ASSUME NEW i \in SeenPanics PROVE PanicClass(i) < 2 * Stage + 1
    OBVIOUS
  <2>1. i \in Panics(case) /\ (log[i].by = "spec" \/ log[i].stage < Stage)
    BY DEF SeenPanics
  <2> QED BY <1>1, <1>2, <2>1 DEF PanicClass
<1>4. \A i \in Panics(case) \ SeenPanics : i \in TaskPanics(case) /\ PanicClass(i) = 2 * Stage + 1
  <2> SUFFICES ASSUME NEW i \in Panics(case) \ SeenPanics
               PROVE  i \in TaskPanics(case) /\ PanicClass(i) = 2 * Stage + 1
    OBVIOUS
  <2>1. log[i].by # "spec" /\ ~(log[i].stage < Stage)
    BY DEF SeenPanics
  <2> QED BY <1>1, <1>2, <2>1 DEF PanicClass, TaskPanics
<1>5. \A i \in Settled : at # "end" => FoldClass(i) < 2 * Stage
  <2> SUFFICES ASSUME NEW i \in Settled, at # "end" PROVE FoldClass(i) < 2 * Stage
    OBVIOUS
  <2>1. i \in FoldedOf(case) /\ (log[i].kind = "early" \/ log[i].stage < Stage)
    BY DEF Settled
  <2> QED BY <1>1, <1>2, <2>1 DEF FoldClass
<1>6. ASSUME NEW i \in FoldedOf(case) \ Settled
      PROVE  /\ log[i].kind # "early" /\ log[i].stage = Stage /\ at # "end"
             /\ i \in TaskFatals(case) \/ i \in Kind(case, "errorf")
  <2>1. log[i].kind # "early" /\ ~(log[i].stage < Stage) /\ at # "end"
    BY DEF Settled
  <2>2. i \in TaskFatals(case) \/ i \in Kind(case, "errorf")
    BY <2>1 DEF FoldedOf, Kind
  <2> QED BY <1>1, <1>2, <2>1, <2>2
<1>7. \A i \in TaskFatals(case) \ Settled : FoldClass(i) = 2 * Stage
  <2> SUFFICES ASSUME NEW i \in TaskFatals(case) \ Settled PROVE FoldClass(i) = 2 * Stage
    OBVIOUS
  <2>1. i \in FoldedOf(case) \ Settled /\ log[i].kind = "fatal"
    BY DEF FoldedOf, TaskFatals, Kind
  <2> QED BY <1>2, <1>6, <2>1 DEF FoldClass
<1>8. \A i \in FoldedOf(case) \ Settled : i \in TaskFatals(case) \/ (i \in Queued /\ FoldClass(i) = 2 * Stage + 1)
  <2> SUFFICES ASSUME NEW i \in FoldedOf(case) \ Settled, i \in Kind(case, "errorf")
               PROVE  i \in Queued /\ FoldClass(i) = 2 * Stage + 1
    BY <1>6
  <2>1. log[i].kind = "errorf" /\ log[i].stage = Stage /\ at # "end"
    BY <1>6 DEF Kind
  <2> QED BY <1>2, <2>1 DEF Queued, FoldClass
<1> QED BY <1>3, <1>4, <1>5, <1>7, <1>8

\* A settle point that returns panics turns to the tasks' first one when none has been seen.
LEMMA PanicSettled ==
  ASSUME TypeInv, StagesOK, GatheredOK, PanicOK
  PROVE  PanicFirst(IF message = 0 THEN gs.panic ELSE message, Panics(case))
<1>1. /\ SeenPanics \subseteq Panics(case) /\ Panics(case) \subseteq DOMAIN log /\ Stage \in 1..3
      /\ \A i \in DOMAIN log : i \in Nat \ {0} /\ PanicClass(i) \in Nat
  BY Entries DEF SeenPanics
<1>2. /\ \A i \in SeenPanics : PanicClass(i) < 2 * Stage + 1
      /\ \A i \in Panics(case) \ SeenPanics : i \in TaskPanics(case) /\ PanicClass(i) = 2 * Stage + 1
  BY SettledSooner
<1>3. CASE SeenPanics # {}
  <2>1. message \in SeenPanics /\ \A j \in SeenPanics : Sooner(message, PanicClass(message), j, PanicClass(j))
    BY <1>3 DEF PanicOK, PanicFirst
  <2>2. message # 0 /\ PanicClass(message) < 2 * Stage + 1
    BY <1>1, <1>2, <2>1
  <2>3. \A j \in Panics(case) \ SeenPanics : Sooner(message, PanicClass(message), j, PanicClass(j))
    BY <1>2, <2>2 DEF Sooner
  <2> QED BY <1>1, <2>1, <2>2, <2>3 DEF PanicFirst
<1>4. CASE SeenPanics = {}
  <2>1. message = 0 /\ \A i \in Panics(case) : i \in TaskPanics(case) /\ PanicClass(i) = 2 * Stage + 1
    BY <1>2, <1>4 DEF PanicOK, PanicFirst
  <2>2. TaskPanics(case) = Panics(case)
    BY <2>1 DEF TaskPanics
  <2>3. Earliest(gs.panic, Panics(case))
    BY <2>2 DEF GatheredOK
  <2> QED BY <2>1, <2>3 DEF Earliest, PanicFirst, Sooner
<1> QED BY <1>3, <1>4

\* fold keeps the first of the failures that are settled, old and new.
LEMMA FailureSettled ==
  ASSUME TypeInv, StagesOK, GatheredOK, FailureOK, Panics(case) = {}, at # "end"
  PROVE  IF OwnFatals(case) # {} THEN Folded.failed /\ Latest(Folded.message, OwnFatals(case))
         ELSE FoldFirst(Folded.message, FoldedOf(case)) /\ (Folded.failed <=> FoldedOf(case) # {})
<1>1. /\ gs.pending \in Seq(0..Len(log)) /\ failure \in [failed : BOOLEAN, message : 0..Len(log)]
      /\ Len(log) \in Nat
  BY DEF TypeInv, IdType, GoState
<1>2. /\ Settled \subseteq FoldedOf(case) /\ FoldedOf(case) \subseteq DOMAIN log /\ Stage \in 1..3
      /\ TaskFatals(case) \subseteq FoldedOf(case) /\ Queued \subseteq FoldedOf(case)
      /\ \A i \in DOMAIN log : i \in Nat \ {0} /\ FoldClass(i) \in Nat
  BY Entries DEF Settled, FoldedOf, Queued
<1>3. CASE OwnFatals(case) # {}
  <2>1. failure.failed /\ Latest(failure.message, OwnFatals(case))
    BY <1>3 DEF FailureOK
  <2>2. Folded = failure
    BY <2>1 DEF Folded
  <2> QED BY <1>3, <2>1, <2>2
<1>4. CASE OwnFatals(case) = {}
  <2>1. FoldFirst(failure.message, Settled) /\ (failure.failed <=> Settled # {})
    BY <1>4 DEF FailureOK
  <2>2. /\ \A i \in Settled : FoldClass(i) < 2 * Stage
        /\ \A i \in TaskFatals(case) \ Settled : FoldClass(i) = 2 * Stage
        /\ \A i \in FoldedOf(case) \ Settled : i \in TaskFatals(case) \/ (i \in Queued /\ FoldClass(i) = 2 * Stage + 1)
    BY SettledSooner
  <2>3. Earliest(gs.rec, TaskFatals(case)) /\ Elems(gs.pending) = Queued
        /\ \A k \in DOMAIN gs.pending : gs.pending[1] <= gs.pending[k]
    BY DEF GatheredOK
  <2>4. ASSUME Settled # {}
        PROVE  FoldFirst(Folded.message, FoldedOf(case)) /\ Folded.failed
    <3>1. Folded = failure /\ failure.failed
      BY <2>1, <2>4 DEF Folded
    <3>2. /\ failure.message \in Settled
          /\ \A j \in Settled : Sooner(failure.message, FoldClass(failure.message), j, FoldClass(j))
      BY <2>1, <2>4 DEF FoldFirst
    <3>3. \A j \in FoldedOf(case) \ Settled : FoldClass(j) \in {2 * Stage, 2 * Stage + 1}
      BY <2>2
    <3>4. \A j \in FoldedOf(case) \ Settled : Sooner(failure.message, FoldClass(failure.message), j, FoldClass(j))
      BY <1>2, <2>2, <3>2, <3>3 DEF Sooner
    <3> QED BY <1>2, <3>1, <3>2, <3>4 DEF FoldFirst
  <2>5. ASSUME Settled = {}, TaskFatals(case) # {}
        PROVE  FoldFirst(Folded.message, FoldedOf(case)) /\ Folded.failed
    <3>1. gs.rec \in TaskFatals(case) /\ gs.rec # 0 /\ \A j \in TaskFatals(case) : gs.rec <= j
      BY <1>2, <2>3, <2>5 DEF Earliest
    <3>2. ~failure.failed
      BY <2>1, <2>5
    <3>3. Folded = [failed |-> TRUE, message |-> gs.rec]
      BY <3>1, <3>2 DEF Folded
    <3>4. \A j \in TaskFatals(case) : FoldClass(j) = 2 * Stage
      BY <2>2, <2>5
    <3>5. \A j \in FoldedOf(case) : Sooner(gs.rec, FoldClass(gs.rec), j, FoldClass(j))
      BY <1>2, <2>2, <2>5, <3>1, <3>4 DEF Sooner
    <3> QED BY <1>2, <2>5, <3>1, <3>3, <3>5 DEF FoldFirst
  <2>6. ASSUME Settled = {}, TaskFatals(case) = {}
        PROVE  FoldFirst(Folded.message, FoldedOf(case)) /\ (Folded.failed <=> FoldedOf(case) # {})
    <3>1. gs.rec = 0 /\ ~failure.failed /\ failure.message = 0
      BY <2>1, <2>3, <2>6 DEF Earliest, FoldFirst
    <3>2. FoldedOf(case) = Elems(gs.pending) /\ \A i \in FoldedOf(case) : FoldClass(i) = 2 * Stage + 1
      BY <1>2, <2>2, <2>3, <2>6
    <3>3. CASE gs.pending = <<>>
      <4>1. Folded = failure /\ FoldedOf(case) = {}
        BY <3>1, <3>2, <3>3 DEF Folded, Elems
      <4> QED BY <3>1, <4>1 DEF FoldFirst
    <3>4. CASE gs.pending # <<>>
      <4>1. Head(gs.pending) = gs.pending[1] /\ 1 \in DOMAIN gs.pending
        BY <1>1, <3>4
      <4>2. Folded = [failed |-> TRUE, message |-> gs.pending[1]]
        BY <3>1, <3>4, <4>1 DEF Folded
      <4>3. gs.pending[1] \in FoldedOf(case) /\ \A j \in FoldedOf(case) : gs.pending[1] <= j
        BY <2>3, <3>2, <4>1 DEF Elems
      <4> QED BY <3>2, <4>2, <4>3 DEF FoldFirst, Sooner
    <3> QED BY <3>3, <3>4
  <2> QED BY <1>4, <2>4, <2>5, <2>6, <1>2
<1> QED BY <1>3, <1>4

LEMMA SettlingRule == ASSUME TypeInv, TaskInv, RuleInv, Settle \/ SettleLast \/ DrainDone PROVE RuleInv'
<1> DEFINE report == at # "drain"
           first == report /\ gs.panic # 0 /\ ~gs.panicReported
           s0 == IF at = "settle" THEN gs
                 ELSE IF at = "settleLast" THEN [gs EXCEPT !.closed = gs.used]
                 ELSE [gs EXCEPT !.cleanupsDone = gs.used]
<1>1. Fold(s0, report)
  BY DEF Settle, SettleLast, DrainDone
<1>2. gs \in GoState(Len(log)) /\ at \in {"settle", "settleLast", "drain"} /\ case \in Cases
  BY DEF TypeInv, IdType, PlaceInv, Settle, SettleLast, DrainDone
<1>3. s0 \in GoState(Len(log)) /\ s0.rec = gs.rec /\ s0.panic = gs.panic /\ s0.used = gs.used
  BY <1>2 DEF GoState
<1>4. gs'.rec = gs.rec /\ gs'.panic = gs.panic /\ gs'.pending = <<>> /\ gs'.used = gs.used
  <2> HIDE DEF s0
  <2> QED BY <1>1, <1>3 DEF Fold, GoState
<1>5. /\ UNCHANGED <<case, how, tasks, log, reports>>
      /\ failure' = IF first THEN [Folded EXCEPT !.failed = TRUE] ELSE Folded
      /\ message' = IF report /\ message = 0 THEN gs.panic ELSE message
  BY <1>1 DEF Fold, history
<1>6. /\ at # "end" /\ at # "start" /\ Stage \in 1..3
      /\ \/ report /\ Stage' = Stage + 1 /\ at' # "end"
         \/ ~report /\ Stage' = Stage /\ Stage = 3 /\ at' = "end"
  <2>1. CASE Settle
    BY <2>1 DEF Settle, Stage
  <2>2. CASE SettleLast
    BY <2>2 DEF SettleLast, Stage
  <2>3. CASE DrainDone
    BY <2>3 DEF DrainDone, Stage
  <2> QED BY <2>1, <2>2, <2>3
<1>7. /\ \A c : FailuresOf(c)' = FailuresOf(c)
      /\ \A c, k : Kind(c, k)' = Kind(c, k)
      /\ \A i : PanicClass(i)' = PanicClass(i) /\ FoldClass(i)' = FoldClass(i)
  BY <1>5 DEF FailuresOf, Kind, PanicClass, FoldClass
<1>8. /\ Panics(case)' = Panics(case) /\ OwnFatals(case)' = OwnFatals(case)
      /\ TaskFatals(case)' = TaskFatals(case) /\ TaskPanics(case)' = TaskPanics(case)
      /\ FoldedOf(case)' = FoldedOf(case)
  BY <1>5, <1>7 DEF Panics, OwnFatals, TaskFatals, TaskPanics, FoldedOf
<1> HIDE DEF first
<1>9. ASSUME RuleOK PROVE RuleOK'
  <2>1. \A i \in FailuresOf(case) : log[i].stage \in 1..3 /\ log[i].stage <= Stage /\ (log[i].by = "task" => log[i].stage <= 2)
    BY <1>9, Entries DEF RuleOK, StagesOK
  <2>2. /\ Panics(case) \subseteq FailuresOf(case) /\ FoldedOf(case) \subseteq FailuresOf(case)
        /\ Kind(case, "errorf") \subseteq FailuresOf(case)
    BY DEF Panics, FoldedOf, TaskFatals, Kind
  <2>3. StagesOK'
    BY <1>4, <1>5, <1>6, <1>7, <1>9, <2>1 DEF RuleOK, StagesOK
  <2>4. Queued' = {}
    <3>1. Queued' = {i \in Kind(case, "errorf") : log[i].stage = Stage' /\ at' # "end"}
      BY <1>5, <1>7 DEF Queued
    <3> QED BY <1>6, <2>1, <2>2, <3>1
  <2>5. GatheredOK'
    BY <1>4, <1>8, <1>9, <2>4 DEF RuleOK, GatheredOK, Earliest, Elems
  <2>6. PanicOK'
    <3>1. SeenPanics' = {i \in Panics(case) : log[i].by = "spec" \/ log[i].stage < Stage'}
      BY <1>5, <1>8 DEF SeenPanics
    <3>2. CASE report
      <4>1. SeenPanics' = Panics(case)
        BY <1>6, <2>1, <2>2, <3>1, <3>2
      <4>2. PanicFirst(message', Panics(case))
        BY <1>5, <1>9, <3>2, PanicSettled DEF RuleOK
      <4> QED BY <1>7, <4>1, <4>2 DEF PanicOK, PanicFirst
    <3>3. CASE ~report
      <4>1. SeenPanics' = SeenPanics /\ message' = message
        BY <1>5, <1>6, <3>1, <3>3 DEF SeenPanics
      <4> QED BY <1>7, <1>9, <4>1 DEF RuleOK, PanicOK, PanicFirst
    <3> QED BY <3>2, <3>3
  <2>7. Settled' = FoldedOf(case)
    <3>1. Settled' = {i \in FoldedOf(case) : log[i].kind = "early" \/ log[i].stage < Stage' \/ at' = "end"}
      BY <1>5, <1>8 DEF Settled
    <3> QED BY <1>6, <2>1, <2>2, <3>1
  <2>8. FailureOK'
    <3> SUFFICES ASSUME Panics(case) = {}
                 PROVE  IF OwnFatals(case)' # {} THEN failure'.failed /\ Latest(failure.message, OwnFatals(case))'
                        ELSE /\ FoldFirst(failure.message, Settled)'
                             /\ failure'.failed <=> Settled' # {}
      BY <1>8 DEF FailureOK
    <3>1. failure' = Folded
      <4>1. gs.panic = 0
        BY <1>9 DEF RuleOK, GatheredOK, Earliest, TaskPanics
      <4> QED BY <1>5, <4>1 DEF first
    <3>2. IF OwnFatals(case) # {} THEN Folded.failed /\ Latest(Folded.message, OwnFatals(case))
          ELSE FoldFirst(Folded.message, FoldedOf(case)) /\ (Folded.failed <=> FoldedOf(case) # {})
      BY <1>6, <1>9, FailureSettled DEF RuleOK
    <3> HIDE DEF report
    <3> QED BY <1>7, <1>8, <2>7, <3>1, <3>2 DEF FoldFirst, Latest
  <2> QED BY <2>3, <2>5, <2>6, <2>8 DEF RuleOK
<1>10. \A c \in Cases : ReportOK(c)'
  BY <1>5, <1>7, ReportsKept
<1>11. ~gs'.used => Quiet'
  BY <1>4, <1>5 DEF RuleInv, Quiet, Running
<1> QED BY <1>5, <1>6, <1>9, <1>10, <1>11, CleanStays DEF RuleInv

LEMMA NextRule == TypeInv /\ TaskInv /\ ChargeInv /\ RuleInv /\ [Next]_vars => RuleInv'
<1> SUFFICES ASSUME TypeInv, TaskInv, ChargeInv, RuleInv, [Next]_vars PROVE RuleInv'
  OBVIOUS
<1> DEFINE Still == /\ UNCHANGED <<case, log, failure, message, reports, how>>
                    /\ gs'.rec = gs.rec /\ gs'.panic = gs.panic /\ gs'.pending = gs.pending
                    /\ Stage' = Stage /\ (at' = "start" <=> at = "start") /\ (at' = "end" <=> at = "end")
<1>1. ASSUME Still, gs.used => gs'.used, ~gs'.used => Quiet' PROVE RuleInv'
  BY <1>1, RuleSteady DEF TaskInv
<1>2. CASE UNCHANGED vars
  <2>1. UNCHANGED <<case, at, how, log, failure, message, reports, gs, tasks>>
    BY <1>2 DEF vars, testing, history
  <2>2. Still /\ (~gs'.used => Quiet')
    BY <2>1 DEF Stage, RuleInv, Quiet, Running
  <2> QED BY <1>1, <2>1, <2>2
<1>3. CASE FilterCase \/ EndCase \/ StartCase
  BY <1>3, NextCaseRule, StartCaseRule
<1>4. CASE Settle \/ SettleLast \/ DrainDone
  BY <1>4, SettlingRule
<1>5. CASE PopCleanup \/ \E c : Register(c)
  <2>1. /\ UNCHANGED <<case, how, log, failure, message, reports, tasks>>
        /\ gs'.rec = gs.rec /\ gs'.panic = gs.panic /\ gs'.pending = gs.pending
        /\ gs.used => gs'.used
        /\ at' = at \/ (at = "drain" /\ at' = "cleanup")
    BY <1>5 DEF PopCleanup, Register, testing, TypeInv, IdType, GoState
  <2>2. Still /\ (~gs'.used => Quiet')
    BY <2>1 DEF Stage, RuleInv, Quiet, Running
  <2> QED BY <1>1, <2>1, <2>2
<1>6. CASE EarlyErrorf
  BY <1>6, EarlyErrorfRule
<1>7. CASE SpecErrorf
  <2>1. case \in Cases /\ InUserCode /\ gs.used /\ Queue(case, "spec", case)
    BY <1>7 DEF SpecErrorf, InUserCode, TypeInv, PlaceInv
  <2> QED BY <2>1, QueueRule
<1>8. ASSUME NEW t \in Tasks, TaskErrorf(t) PROVE RuleInv'
  <2>1. Running(t) /\ Queue(tasks[t].of, "task", ReportsTo(t))
    BY <1>8 DEF TaskErrorf
  <2>2. tasks[t].of \in Cases /\ (tasks[t].of = case \/ Abandoned(tasks[t].of)) /\ ~Quiet
    BY <2>1, TaskIsOfCase, StrayOrOwn DEF Cases, Quiet
  <2>3. gs.used
    BY <2>2 DEF RuleInv
  <2> QED BY <2>1, <2>2, <2>3, QueueRule
<1>9. ASSUME NEW t \in Tasks, NEW u \in Tasks, SpecGo(t) \/ TaskGo(u, t) PROVE RuleInv'
  <2>1. /\ UNCHANGED <<case, at, how, log, failure, message, reports>>
        /\ gs'.rec = gs.rec /\ gs'.panic = gs.panic /\ gs'.pending = gs.pending /\ gs'.used
    <3>1. CASE SpecGo(t)
      BY <3>1 DEF SpecGo, testing, history, TypeInv, IdType, GoState
    <3>2. CASE TaskGo(u, t)
      <4>1. gs.used
        BY <3>2 DEF TaskGo, RuleInv, Quiet
      <4> QED BY <3>2, <4>1 DEF TaskGo, testing, history, TypeInv, IdType, GoState
    <3> QED BY <1>9, <3>1, <3>2
  <2>2. Still
    BY <2>1 DEF Stage
  <2> QED BY <1>1, <2>1, <2>2
<1>10. CASE SpecCleanup \/ \E t \in Tasks : TaskCleanup(t)
  BY <1>5, <1>10 DEF SpecCleanup, TaskCleanup
<1>11. ASSUME NEW t \in Tasks, NEW out \in Ways, TaskEnds(t, out) PROVE RuleInv'
  BY <1>11, TaskEndsRule
<1>12. ASSUME NEW out \in Ways, BodyEnds(out) \/ HookEnds(out) \/ CleanupEnds(out) PROVE RuleInv'
  BY <1>12, UserCodeEndsRule
<1> QED BY SomeStep, <1>2, <1>3, <1>4, <1>5, <1>6, <1>7, <1>8, <1>9, <1>10, <1>11, <1>12

\* The message of every report is the failure that the documented rule picks, and the report carries
\* a panic's output exactly when something of the spec panicked, whoever panicked, asserted or
\* queued what, and in whatever order (assertionMessage, fold and runProgram).
THEOREM MessagesFollowTheRule == Spec => []MessageRule
<1>1. TypeInv /\ RuleInv => MessageRule
  <2> SUFFICES ASSUME TypeInv, RuleInv, NEW c \in Cases, Intact(c),
                      (\E i \in FailuresOf(c) : log[i].kind = "panic") => reports[c].how # "exited"
               PROVE  /\ reports[c].message = Explanation(c)
                      /\ reports[c].output <=> \E i \in FailuresOf(c) : log[i].kind = "panic"
    BY DEF MessageRule
  <2>1. Panics(c) # {} <=> \E i \in FailuresOf(c) : log[i].kind = "panic"
    BY DEF Panics, Kind
  <2>2. Explains(reports[c].message, c) /\ (reports[c].output <=> Panics(c) # {})
    BY <2>1 DEF RuleInv, ReportOK
  <2> QED BY <2>1, <2>2, Explained
<1> QED BY <1>1, InitType, NextType, InitTask, NextTask, InitCharge, NextCharge, InitRule, NextRule, PTL DEF Spec
=============================================================================

------------------------------ MODULE GroupRun ------------------------------
(***************************************************************************)
(* One CompiledSuite.Run or RunShard of a Describe suite that has          *)
(* BeforeAll/AfterAll groups or ItParallel batches (specs/group_hooks.go). *)
(*                                                                         *)
(* One goroutine walks the plan: it enters a hooked group (on a real       *)
(* *testing.T in a subtest, whose goroutine takes over until t.Run         *)
(* returns), runs the group's BeforeAlls, its specs and nested groups, and *)
(* its deferred AfterAlls.  The specs of an ItParallel batch run on        *)
(* goroutines of their own.  A hook or a body that calls ctx.T.Parallel()  *)
(* parks its goroutine, which stops the run, and goes on after the function *)
(* of its parent test has returned.                                        *)
(*                                                                         *)
(* What user code does (pass, fail, skip, park...) is chosen freely from   *)
(* Outcomes; the text of messages is left out.                             *)
(***************************************************************************)
EXTENDS PlanTree

CONSTANTS
  NBefore, NAfter,   \* number of BeforeAlls and AfterAlls of each group
  Marks,             \* the scopes that declare a SkipIt/PendingIt
  Backends,          \* kinds of test driver: "T" *testing.T, "B" *testing.B, "fake"
  FailFastModes,     \* the values SetFailFast is given
  ShardChoices,      \* shards that are run, or NoShard for Run
  Outcomes           \* what user code and testing may do

AllOutcomes == {"ok", "fail", "error", "skip", "filtered", "park", "exit", "cleanup"}

ASSUME RunAssumption ==
  /\ NBefore \in [Groups -> Nat]
  /\ NAfter \in [Groups -> Nat]
  /\ Marks \subseteq Scopes
  /\ Backends \subseteq {"T", "B", "fake"}
  /\ FailFastModes \subseteq BOOLEAN
  /\ ShardChoices \subseteq Shards \cup {NoShard}
  /\ Outcomes \subseteq AllOutcomes

VARIABLES
  mode,             \* the test driver, FailFast and the shard of this run
  at,               \* the scope whose range or hooks the walking goroutine is in
  pos,              \* next plan index of that walk
  phase,            \* how far each scope is
  hookAt,           \* hooks of the current phase each group has run
  park,             \* whether a hook of the group called ctx.T.Parallel()
  accFailed,        \* groups whose afterAllResult.failed is set
  batch,            \* the outcome buffer of ItParallel specs
  late,             \* specs whose parked body has not ended
  failed,           \* scopes whose test driver has failed
  failFastStopped,  \* groupRun.failFastStopped
  stopped,          \* groupRun.stopped
  unwinding,        \* a Goexit on a *testing.B unwinds the whole walk
  status, reports,  \* per spec: what was reported, and how often it was finished
  beforeCases, afterCases,  \* per group: synthetic hook cases emitted
  marks,            \* per mark: what was reported
  suite             \* the suite events the reporter has seen

walk   == <<at, pos, phase, hookAt, park, accFailed>>
bodies == <<batch, late>>
stops  == <<failFastStopped, stopped, unwinding>>
specRs == <<status, reports>>
hookRs == <<beforeCases, afterCases>>
suiteRs == <<marks, suite>>
vars   == <<mode, walk, bodies, failed, stops, specRs, hookRs, suiteRs>>

Phases   == {"idle", "before", "body", "after", "drain", "done"}
Statuses == {"none", "open", "pass", "fail", "skip", "filtered", "suppressed", "unstarted"}

Real   == mode.backend = "T"
Halted == stopped \/ unwinding

Permitted(kinds) == kinds \cap Outcomes
HookOutcomes ==
  Permitted(CASE Real                -> {"ok", "fail", "error", "skip"}
              [] mode.backend = "B"  -> {"ok", "fail", "exit"}
              [] OTHER               -> {"ok", "fail"})
\* How a body ends on a real *testing.T, and how its report reads.
BodyOutcomes == Permitted(IF Real THEN {"ok", "fail", "skip", "filtered"} ELSE {"ok", "fail"})
Result(o)    == CASE o = "ok" -> "pass" [] o = "park" -> "pass" [] OTHER -> o

\* testing marks a failed *testing.T and every parent of it; other drivers have one test.
Failing(s) == IF Real /\ s # Root THEN {s, Root} \cup Above(s) ELSE {Root}
FailIf(c, s) == failed' = IF c THEN failed \cup Failing(s) ELSE failed

\* Mutant: the failure is not recorded.
MarkFailFast_Never(c) == failFastStopped' = failFastStopped
MarkFailFast(c) == failFastStopped' = (failFastStopped \/ (c /\ mode.failFast))

Report(S, r) ==
  /\ status'  = [i \in Specs |-> IF i \in S THEN r ELSE status[i]]
  /\ reports' = [i \in Specs |-> IF i \in S THEN reports[i] + 1 ELSE reports[i]]

ToAfter(g) ==
  /\ phase'  = [phase EXCEPT ![g] = IF NAfter[g] = 0 THEN "drain" ELSE "after"]
  /\ hookAt' = [hookAt EXCEPT ![g] = 0]

\* The walking goroutine is at the top of runRange's loop in scope s and may start its next item.
Walking(s) == at = s /\ phase[s] = "body" /\ ~Halted
MayStart(s) == Walking(s) /\ ~failFastStopped /\ pos <= Last(s) /\ Included(mode.shard, pos)
\* The goroutine of group g's subtest is not blocked.
Runs(g) == at = g \/ park[g] = "resumed"

Init ==
  /\ mode \in [backend : Backends, failFast : FailFastModes, shard : ShardChoices]
  /\ at = Root
  /\ pos = 1
  /\ phase = [s \in Scopes |-> IF s = Root THEN "before" ELSE "idle"]
  /\ hookAt = [g \in Groups |-> 0]
  /\ park = [g \in Groups |-> "no"]
  /\ accFailed = {}
  /\ batch = [i \in Specs |-> "idle"]
  /\ late = {}
  /\ failed = {}
  /\ failFastStopped = FALSE
  /\ stopped = FALSE
  /\ unwinding = FALSE
  /\ status = [i \in Specs |-> "none"]
  /\ reports = [i \in Specs |-> 0]
  /\ beforeCases = [g \in Groups |-> 0]
  /\ afterCases = [g \in Groups |-> 0]
  /\ marks = [m \in Marks |-> "none"]
  /\ suite = "idle"

-----------------------------------------------------------------------------
(* CompiledSuite.run and runSpecs: the ends of a run.                      *)

\* A shard that draws no unit and reports no mark emits nothing.
StaySilent ==
  /\ phase[Root] = "before"
  /\ ~ReportsMarks(mode.shard) /\ ~AnySelected(mode.shard)
  /\ phase' = [phase EXCEPT ![Root] = "done"]
  /\ suite' = "silent"
  /\ UNCHANGED <<mode, at, pos, hookAt, park, accFailed, bodies, failed, stops, specRs, hookRs, marks>>

\* SuiteStarted, then every mark with the status it was declared with.
StartSuite ==
  /\ phase[Root] = "before"
  /\ ReportsMarks(mode.shard) \/ AnySelected(mode.shard)
  /\ phase' = [phase EXCEPT ![Root] = "body"]
  /\ suite' = "started"
  /\ marks' = IF ReportsMarks(mode.shard) THEN [m \in Marks |-> "declared"] ELSE marks
  /\ UNCHANGED <<mode, at, pos, hookAt, park, accFailed, bodies, failed, stops, specRs, hookRs>>

\* Mutant: SuiteFinished is emitted in a deferred call.
SuiteEvent_Deferred == "finished"
SuiteEvent == IF Halted THEN "aborted" ELSE "finished"

\* runSpecs returns and SuiteFinished is emitted, or the Goexit passes run by.
EndSuite ==
  /\ at = Root /\ phase[Root] = "body"
  /\ pos > NSpecs \/ Halted
  /\ phase' = [phase EXCEPT ![Root] = "drain"]
  /\ suite' = SuiteEvent
  /\ UNCHANGED <<mode, at, pos, hookAt, park, accFailed, bodies, failed, stops, specRs, hookRs, marks>>

\* Mutant: a parked test waits for its parent's t.Run, which waits for it.
Returned_TestEnded(s) == phase[s] = "done"
\* The function of scope s's test has returned.
Returned(s) == phase[s] = "drain"

\* Nothing that runs inside scope s, in testing's sense, is left.
Quiet(s) ==
  /\ \A i \in late : ScopeOf(i) # s
  /\ \A g \in Groups : Parent(g) = s => park[g] = "no" \/ phase[g] = "done"

FinishTest ==
  /\ phase[Root] = "drain" /\ Quiet(Root)
  /\ phase' = [phase EXCEPT ![Root] = "done"]
  /\ UNCHANGED <<mode, at, pos, hookAt, park, accFailed, bodies, failed, stops, specRs, hookRs, suiteRs>>

-----------------------------------------------------------------------------
(* runRange: the items of a scope in plan order.                           *)

\* A unit of another shard: its first plan index is not selected, and it ends at last.
SkipUnselected(last) ==
  /\ Walking(Root) /\ ~failFastStopped
  /\ pos <= NSpecs /\ ~Included(mode.shard, pos)
  /\ pos' = last + 1
  /\ UNCHANGED <<mode, at, phase, hookAt, park, accFailed, bodies, failed, stops, specRs, hookRs, suiteRs>>

SkipUnit ==
  \/ \E g \in Groups : pos = Start[g] /\ phase[g] = "idle" /\ Parent(g) = Root /\ SkipUnselected(End[g])
  \/ \E b \in Batches : pos = b[1] /\ Around(pos) = {} /\ SkipUnselected(b[2])
  \/ Around(pos) = {} /\ ~Batched(pos) /\ SkipUnselected(pos)

RestOf(s) == pos..Last(s)

\* reportRangeUnstarted: FailFast cuts the rest of the scope.
CutRange(s) ==
  /\ Walking(s) /\ failFastStopped /\ pos <= Last(s)
  /\ Report({i \in RestOf(s) : Included(mode.shard, i)}, "unstarted")
  /\ pos' = Last(s) + 1
  /\ UNCHANGED <<mode, at, phase, hookAt, park, accFailed, bodies, failed, stops, hookRs, suiteRs>>

EnterGroup(g) ==
  /\ MayStart(Parent(g)) /\ pos = Start[g] /\ phase[g] = "idle"
  /\ phase' = [phase EXCEPT ![g] = IF NBefore[g] = 0 THEN "body" ELSE "before"]
  /\ at' = g
  /\ UNCHANGED <<mode, pos, hookAt, park, accFailed, bodies, failed, stops, specRs, hookRs, suiteRs>>

\* testing's -run filter discards the group's subtest.
FilterGroup(g) ==
  /\ MayStart(Parent(g)) /\ pos = Start[g] /\ phase[g] = "idle"
  /\ Real /\ "filtered" \in Outcomes
  /\ Report(Start[g]..End[g], "filtered")
  /\ pos' = End[g] + 1
  /\ UNCHANGED <<mode, at, phase, hookAt, park, accFailed, bodies, failed, stops, hookRs, suiteRs>>

\* A direct driver runs the specs of a batch one by one, as any other spec.
SpecIsNext == MayStart(ScopeOf(pos)) /\ (Real => ~Batched(pos))

RunSpec(o) ==
  /\ pos \in Specs /\ SpecIsNext
  /\ o \in BodyOutcomes
  /\ Report({pos}, Result(o))
  /\ FailIf(o = "fail", at)
  /\ MarkFailFast(o = "fail")
  /\ pos' = pos + 1
  /\ UNCHANGED <<mode, at, phase, hookAt, park, accFailed, bodies, stopped, unwinding, hookRs, suiteRs>>

\* The body parks: SpecStarted was emitted, SpecFinished never is, and t.Fatalf ends the scope.
SpecParks ==
  /\ pos \in Specs /\ SpecIsNext /\ Real /\ "park" \in Outcomes
  /\ status' = [status EXCEPT ![pos] = "open"]
  /\ late' = late \cup {pos}
  /\ stopped' = TRUE
  /\ FailIf(TRUE, at)
  /\ UNCHANGED <<mode, walk, batch, failFastStopped, unwinding, reports, hookRs, suiteRs>>

\* A fatal failure on a *testing.B ends the one goroutine everything runs on.
SpecExits ==
  /\ pos \in Specs /\ SpecIsNext /\ mode.backend = "B" /\ "exit" \in Outcomes
  /\ status' = [status EXCEPT ![pos] = "open"]
  /\ unwinding' = TRUE
  /\ FailIf(TRUE, at)
  /\ UNCHANGED <<mode, walk, bodies, failFastStopped, stopped, reports, hookRs, suiteRs>>

\* A parked body goes on once the function of its scope's test has returned.
LateBodyEnds(i, o) ==
  /\ i \in late /\ Returned(ScopeOf(i))
  /\ o \in Permitted({"ok", "fail"})
  /\ late' = late \ {i}
  /\ FailIf(o = "fail", ScopeOf(i))
  /\ UNCHANGED <<mode, walk, batch, stops, specRs, hookRs, suiteRs>>

-----------------------------------------------------------------------------
(* runParallelGroup: a batch on a real *testing.T.                         *)

SpecsOf(b) == b[1]..b[2]

LaunchBatch(b) ==
  /\ Real /\ MayStart(ScopeOf(b[1])) /\ pos = b[1]
  /\ batch[pos] = "idle"
  /\ batch' = [i \in Specs |-> IF i \in SpecsOf(b) THEN "running" ELSE batch[i]]
  /\ UNCHANGED <<mode, walk, late, failed, stops, specRs, hookRs, suiteRs>>

\* Mutant: the goroutine that ran the spec also reports it.
BatchSpecEnds_Reports(i, o) ==
  /\ batch[i] = "running" /\ o \in BodyOutcomes
  /\ batch' = [batch EXCEPT ![i] = o]
  /\ Report({i}, Result(o))
  /\ FailIf(o = "fail", ScopeOf(i))
  /\ UNCHANGED <<mode, walk, late, stops, hookRs, suiteRs>>

\* One launched subtest ends, or parks and so lets its t.Run return.
BatchSpecEnds(i, o) ==
  /\ batch[i] = "running"
  /\ o \in BodyOutcomes \cup Permitted({"park"})
  /\ batch' = [batch EXCEPT ![i] = o]
  /\ late' = IF o = "park" THEN late \cup {i} ELSE late
  /\ FailIf(o = "fail", ScopeOf(i))
  /\ UNCHANGED <<mode, walk, stops, specRs, hookRs, suiteRs>>

\* Mutant: wg.Done is called too early.
BatchDone_Any(b) == \E i \in SpecsOf(b) : batch[i] \notin {"idle", "running"}
BatchDone(b) == \A i \in SpecsOf(b) : batch[i] \notin {"idle", "running"}

BatchHas(b, o) == \E i \in SpecsOf(b) : batch[i] = o

\* wg.Wait has returned: the buffered outcomes are emitted in plan order.
CollectBatch(b) ==
  /\ Walking(ScopeOf(b[1])) /\ pos = b[1] /\ BatchDone(b)
  /\ status'  = [i \in Specs |-> IF i \in SpecsOf(b) THEN Result(batch[i]) ELSE status[i]]
  /\ reports' = [i \in Specs |-> IF i \in SpecsOf(b) THEN reports[i] + 1 ELSE reports[i]]
  /\ stopped' = (stopped \/ BatchHas(b, "park"))
  /\ FailIf(BatchHas(b, "park"), at)
  /\ MarkFailFast(BatchHas(b, "fail"))
  /\ pos' = b[2] + 1
  /\ UNCHANGED <<mode, at, phase, hookAt, park, accFailed, bodies, unwinding, hookRs, suiteRs>>

-----------------------------------------------------------------------------
(* runGroup and runGroupBody.                                              *)

HookMayRun(g, ph) == phase[g] = ph /\ Runs(g)

\* A BeforeAll returns and is not the last one; a soft ctx.T.Errorf does not stop the loop.
BeforeAllReturns(g, o) ==
  /\ HookMayRun(g, "before") /\ hookAt[g] + 1 < NBefore[g]
  /\ o \in HookOutcomes \cap {"ok", "error"}
  /\ hookAt' = [hookAt EXCEPT ![g] = @ + 1]
  /\ FailIf(o = "error", g)
  /\ UNCHANGED <<mode, at, pos, phase, park, accFailed, bodies, stops, specRs, hookRs, suiteRs>>

\* The last BeforeAll returns in a group that has not failed.
BeforeAllsDone(g) ==
  /\ HookMayRun(g, "before") /\ hookAt[g] + 1 = NBefore[g]
  /\ "ok" \in HookOutcomes /\ g \notin failed
  /\ IF Halted THEN ToAfter(g)
     ELSE /\ phase' = [phase EXCEPT ![g] = "body"]
          /\ hookAt' = [hookAt EXCEPT ![g] = 0]
  /\ UNCHANGED <<mode, at, pos, park, accFailed, bodies, failed, stops, specRs, hookRs, suiteRs>>

\* Mutant: nested groups' specs are forgotten.
SuppressGroup_OwnSpecs(g) ==
  Report({i \in Start[g]..End[g] : ScopeOf(i) = g}, "suppressed") /\ pos' = End[g] + 1 /\ ToAfter(g)
\* reportGroupSkipped: no spec of the group, nested ones included, will run.
SuppressGroup(g) ==
  /\ Report(Start[g]..End[g], "suppressed")
  /\ pos' = End[g] + 1
  /\ ToAfter(g)

\* A BeforeAll fails, or the last one ends in a group that a soft failure has failed.
BeforeAllFails(g, o) ==
  /\ HookMayRun(g, "before") /\ o \in HookOutcomes
  /\ \/ o \in {"fail", "exit"}
     \/ o = "skip" /\ g \in failed
     \/ o = "ok" /\ g \in failed /\ hookAt[g] + 1 = NBefore[g]
     \/ o = "error" /\ hookAt[g] + 1 = NBefore[g]
  /\ beforeCases' = [beforeCases EXCEPT ![g] = @ + 1]
  /\ SuppressGroup(g)
  /\ FailIf(TRUE, g)
  /\ MarkFailFast(TRUE)
  /\ unwinding' = (unwinding \/ o = "exit")
  /\ UNCHANGED <<mode, at, park, accFailed, bodies, stopped, afterCases, suiteRs>>

\* SkipNow in a BeforeAll skips the group: no hook case.
BeforeAllSkips(g) ==
  /\ HookMayRun(g, "before") /\ "skip" \in HookOutcomes /\ g \notin failed
  /\ SuppressGroup(g)
  /\ UNCHANGED <<mode, at, park, accFailed, bodies, failed, stops, hookRs, suiteRs>>

\* A hook calls ctx.T.Parallel(): t.Run returns to the parent, which stops the run.
HookParks(g) ==
  /\ Real /\ "park" \in Outcomes
  /\ at = g /\ phase[g] \in {"before", "after"} /\ park[g] = "no"
  /\ park' = [park EXCEPT ![g] = "parked"]
  /\ at' = Parent(g)
  /\ stopped' = TRUE
  /\ FailIf(TRUE, Parent(g))
  /\ UNCHANGED <<mode, pos, phase, hookAt, accFailed, bodies, failFastStopped, unwinding, specRs, hookRs, suiteRs>>

\* testing resumes it once the function of the parent test has returned.
HookResumes(g) ==
  /\ park[g] = "parked" /\ Returned(Parent(g))
  /\ park' = [park EXCEPT ![g] = "resumed"]
  /\ UNCHANGED <<mode, at, pos, phase, hookAt, accFailed, bodies, failed, stops, specRs, hookRs, suiteRs>>

\* Mutant: the group is left while the walk is inside a nested one.
LeaveBody_NotBack(g) ==
  /\ phase[g] = "body" /\ pos > End[g]
  /\ ToAfter(g)
  /\ UNCHANGED <<mode, at, pos, park, accFailed, bodies, failed, stops, specRs, hookRs, suiteRs>>
\* runRange returns, or stopIfStopped or a Goexit unwinds it.
LeaveBody(g) ==
  /\ at = g /\ phase[g] = "body"
  /\ pos > End[g] \/ Halted
  /\ ToAfter(g)
  /\ UNCHANGED <<mode, at, pos, park, accFailed, bodies, failed, stops, specRs, hookRs, suiteRs>>

LastAfterAll(g) == hookAt[g] + 1 = NAfter[g]

\* What runAfterAll can see: a soft failure shows only on a test that had not failed before, and a
\* SkipNow is told from a failure only there.
CountsAsFailed(g, o) ==
  \/ o \in {"fail", "exit"}
  \/ o = "error" /\ g \notin failed
  \/ o = "skip" /\ g \in failed

\* runAfterAll; the last of the deferred calls is followed by reportAfterAll.
AfterAll(g, o) ==
  LET fails == o \in {"fail", "exit", "error"}
      last  == LastAfterAll(g)
      case  == last /\ (CountsAsFailed(g, o) \/ g \in accFailed) IN
  /\ HookMayRun(g, "after") /\ o \in HookOutcomes
  /\ accFailed' = IF CountsAsFailed(g, o) THEN accFailed \cup {g} ELSE accFailed
  /\ hookAt' = [hookAt EXCEPT ![g] = @ + 1]
  /\ phase' = IF last THEN [phase EXCEPT ![g] = "drain"] ELSE phase
  /\ afterCases' = IF case THEN [afterCases EXCEPT ![g] = @ + 1] ELSE afterCases
  /\ MarkFailFast(case)
  /\ FailIf(fails, g)
  /\ unwinding' = (unwinding \/ o = "exit")
  /\ UNCHANGED <<mode, at, pos, park, bodies, stopped, specRs, beforeCases, suiteRs>>

\* Mutant: every failed cleanup makes a case.
CleanupCase_Always(g, cleanupFails) == cleanupFails
\* A cleanup failure shows only on a test that had not failed when its function returned.
CleanupCase(g, cleanupFails) == cleanupFails /\ g \notin failed /\ park[g] = "no"

\* t.Run returns to the parent, after the cleanups the group's hooks registered.
FinishGroup(g, cleanupFails) ==
  /\ phase[g] = "drain" /\ Runs(g) /\ Quiet(g)
  /\ cleanupFails => Real /\ "cleanup" \in Outcomes /\ NBefore[g] + NAfter[g] > 0
  /\ afterCases' = IF CleanupCase(g, cleanupFails) THEN [afterCases EXCEPT ![g] = @ + 1] ELSE afterCases
  /\ MarkFailFast(CleanupCase(g, cleanupFails))
  /\ FailIf(cleanupFails, g)
  /\ phase' = [phase EXCEPT ![g] = "done"]
  /\ at' = IF at = g THEN Parent(g) ELSE at
  /\ UNCHANGED <<mode, pos, hookAt, park, accFailed, bodies, stopped, unwinding, specRs, beforeCases, suiteRs>>

-----------------------------------------------------------------------------
GroupNext(g) ==
  \/ EnterGroup(g) \/ FilterGroup(g)
  \/ \E o \in AllOutcomes : BeforeAllReturns(g, o) \/ BeforeAllFails(g, o) \/ AfterAll(g, o)
  \/ BeforeAllsDone(g) \/ BeforeAllSkips(g) \/ HookParks(g) \/ HookResumes(g) \/ LeaveBody(g)
  \/ \E c \in BOOLEAN : FinishGroup(g, c)

SpecNext ==
  \/ \E o \in AllOutcomes : RunSpec(o)
  \/ SpecParks \/ SpecExits
  \/ \E i \in Specs, o \in AllOutcomes : LateBodyEnds(i, o) \/ BatchSpecEnds(i, o)
  \/ \E b \in Batches : LaunchBatch(b) \/ CollectBatch(b)

SuiteNext == StaySilent \/ StartSuite \/ EndSuite \/ FinishTest \/ SkipUnit

Next ==
  \/ SuiteNext
  \/ \E s \in Scopes : CutRange(s)
  \/ SpecNext
  \/ \E g \in Groups : GroupNext(g)

Spec == Init /\ [][Next]_vars

\* Every hook and body returns, so every goroutine of the run goes on.
FairSpec == Spec /\ WF_vars(Next)

-----------------------------------------------------------------------------
(* Properties.  H1-H9 are the rules of docs/SUITE_HOOKS_CONTRACT.md.       *)

TypeOK ==
  /\ mode \in [backend : Backends, failFast : FailFastModes, shard : ShardChoices]
  /\ at \in Scopes
  /\ pos \in 1..(NSpecs + 1)
  /\ phase \in [Scopes -> Phases]
  /\ hookAt \in [Groups -> Nat]
  /\ park \in [Groups -> {"no", "parked", "resumed"}]
  /\ accFailed \subseteq Groups
  /\ batch \in [Specs -> {"idle", "running", "ok", "fail", "skip", "filtered", "park"}]
  /\ late \subseteq Specs
  /\ failed \subseteq Scopes
  /\ failFastStopped \in BOOLEAN
  /\ stopped \in BOOLEAN
  /\ unwinding \in BOOLEAN
  /\ status \in [Specs -> Statuses]
  /\ reports \in [Specs -> Nat]
  /\ beforeCases \in [Groups -> Nat]
  /\ afterCases \in [Groups -> Nat]
  /\ marks \in [Marks -> {"none", "declared"}]
  /\ suite \in {"idle", "silent", "started", "finished", "aborted"}

\* Reports come once, in plan order, although seven places make them and batch specs finish in
\* any order: when a spec is reported, neither it nor a later one has been.
ReportedInPlanOrder ==
  [][\A i, j \in Specs : reports'[i] # reports[i] /\ i <= j => reports[j] = 0]_vars

\* RunShard: a group is entered only by the shard that owns all of its specs, and a run that emits
\* SuiteFinished has accounted for every spec of its shard, exactly once, and for no other spec.
EverySpecAccountedFor ==
  /\ \A g \in Groups : phase[g] # "idle" => \A i \in Start[g]..End[g] : Included(mode.shard, i)
  /\ suite = "finished" =>
       \A i \in Specs : reports[i] = IF Included(mode.shard, i) THEN 1 ELSE 0

\* H1, H2, H9: while a group that is not parked has hooks, specs or cleanups to run, or a batch
\* spec runs, every group around it is between its BeforeAlls and its AfterAlls.
InsideOuterGroups ==
  /\ \A g \in Groups :
       phase[g] \in {"before", "body", "after", "drain"} /\ park[g] = "no" =>
         \A h \in Above(g) : phase[h] = "body"
  /\ \A i \in Specs : batch[i] = "running" => \A h \in Around(i) : phase[h] = "body"

\* H4, H5, H6: a group is left only when all its AfterAlls have run, the failing ones included; it
\* gets at most one [BeforeAll] and one [AfterAll] case however many hooks and cleanups fail.
HooksAccountedFor ==
  \A g \in Groups :
    /\ phase[g] \in {"drain", "done"} => hookAt[g] = NAfter[g]
    /\ beforeCases[g] <= 1 /\ afterCases[g] <= 1

\* H4: a failed BeforeAll keeps every spec of its group, nested groups' included, from running.
FailedBeforeAllSuppresses ==
  \A g \in Groups : beforeCases[g] > 0 => \A i \in Start[g]..End[g] : status[i] = "suppressed"

\* The reporter and `go test` agree: a completed run has a failed case exactly when its test failed,
\* and a run in which a goroutine parked or unwound, so that specs went unreported, fails its test
\* and never emits SuiteFinished: it cannot be read as green.
FailureAgreement ==
  /\ suite = "finished" =>
       (Root \in failed <=>
          \/ \E i \in Specs : status[i] = "fail"
          \/ \E g \in Groups : beforeCases[g] + afterCases[g] > 0)
  /\ Halted \/ (\E i \in Specs : status[i] = "open") => Root \in failed /\ suite # "finished"
  /\ suite = "finished" => late = {}

\* H9: with FailFast nothing starts after a failure, except in the batch that was in flight.
FailFastCutsTheRest ==
  mode.failFast =>
    /\ \A i, j \in Specs :
         status[i] = "fail" /\ i < j /\ ~(\E b \in Batches : InBatch(b, i) /\ InBatch(b, j)) =>
           status[j] \in {"none", "unstarted"}
    /\ \A g \in Groups, j \in Specs :
         beforeCases[g] + afterCases[g] > 0 /\ End[g] < j => status[j] \in {"none", "unstarted"}

\* H5: every group that is entered is left, through its AfterAlls, stopped runs included, and the
\* run and the test around it end.
EnteredGroupsAreLeft ==
  /\ \A g \in Groups : phase[g] # "idle" ~> phase[g] = "done" /\ hookAt[g] = NAfter[g]
  /\ <>(phase[Root] = "done")

\* Why specs are reported once: nothing at or behind the cursor has been reported, and a group
\* whose BeforeAlls run is ahead of it, alone, and walked into or parked.
CursorInv ==
  /\ \A i \in Specs : reports[i] <= 1 /\ (i >= pos => reports[i] = 0)
  /\ \A g \in Groups : phase[g] = "before" => pos <= Start[g] /\ (at = g \/ stopped)
  /\ \A g, h \in Groups : phase[g] = "before" /\ phase[h] = "before" => g = h

\* Why hooks are counted right: the AfterAlls left to run, the cases a group can still make, and
\* the failure that keeps its cleanups from making another, follow its phase.
HookOK(g) ==
  /\ phase[g] = "after" => hookAt[g] < NAfter[g]
  /\ phase[g] \in {"drain", "done"} => hookAt[g] = NAfter[g]
  /\ beforeCases[g] <= IF phase[g] \in {"idle", "before"} THEN 0 ELSE 1
  /\ afterCases[g] <= IF phase[g] \in {"drain", "done"} THEN 1 ELSE 0
  /\ Real /\ phase[g] = "drain" /\ afterCases[g] > 0 => g \in failed
  /\ Real /\ g \in accFailed => g \in failed
  /\ beforeCases[g] > 0 => End[g] < pos /\ \A i \in Start[g]..End[g] : status[i] = "suppressed"
HookInv == \A g \in Groups : HookOK(g)

\* Why the hooks of a group run inside the groups around it: the walk is in the body of every
\* group around the scope it is in, and a group it is not in is parked, which has stopped the run.
Active(g) == phase[g] \in {"before", "body", "after", "drain"}
Inside(g) == at \in Groups /\ (g = at \/ g \in Above(at))
WalkInv ==
  /\ at \in Groups => /\ phase[Root] = "body" /\ Active(at) /\ park[at] = "no"
                      /\ \A h \in Above(at) : phase[h] = "body"
  /\ \A g \in Groups : Active(g) /\ park[g] = "no" => Inside(g)
  /\ \A g \in Groups : park[g] # "no" => stopped /\ phase[g] \in {"before", "after", "drain", "done"}

\* The walk stands before the batch whose outcomes are in the buffer until it collects them.
Held(i) ==
  /\ \E b \in Batches : b[1] = pos /\ InBatch(b, i)
  /\ batch[pos] # "idle"
  /\ Real /\ Walking(ScopeOf(pos)) /\ ~failFastStopped /\ Included(mode.shard, pos)
BatchInv ==
  \A i \in Specs :
    /\ batch[i] = "running" => pos <= i
    /\ batch[i] # "idle" /\ pos <= i => Held(i)

\* Every spec behind the cursor is accounted for, and what the walk has started is its shard's.
AccountInv ==
  /\ \A i \in Specs : i < pos => reports[i] = IF Included(mode.shard, i) THEN 1 ELSE 0
  /\ \A g \in Groups : phase[g] # "idle" => \A i \in Start[g]..End[g] : Included(mode.shard, i)
  /\ \A g \in Groups : phase[g] = "before" => pos = Start[g]
  /\ suite = "finished" => pos > NSpecs

\* What is ahead of the cursor has no status, but for a body that stopped the run.
AheadInv ==
  /\ \A i \in Specs : pos <= i => status[i] = "none" \/ (i = pos /\ status[i] = "open")
  /\ \A i \in Specs : status[i] = "open" => Halted /\ \A g \in Groups : phase[g] # "before"

\* Why a failed test has a failed case: a failure that is no case yet will be one, or stops the run.
Case(g) == beforeCases[g] + afterCases[g] > 0
Reported == (\E i \in Specs : status[i] = "fail") \/ (\E g \in Groups : Case(g))
Owed ==
  \/ \E g \in Groups : phase[g] = "before" /\ g \in failed
  \/ \E g \in Groups : phase[g] = "after" /\ g \in accFailed
  \/ \E i \in Specs : batch[i] \in {"fail", "park"} /\ pos <= i
AgreeInv ==
  /\ \A s \in failed : Root \in failed
  /\ Halted \/ Reported => Root \in failed
  /\ \A g \in accFailed : Root \in failed
  /\ \A i \in Specs : batch[i] = "fail" => Root \in failed
  /\ Root \in failed => Halted \/ Reported \/ Owed
  /\ \A i \in late : stopped \/ (batch[i] = "park" /\ pos <= i)
  /\ suite = "finished" => ~Halted /\ phase[Root] \in {"drain", "done"} /\ pos > NSpecs

\* Why a group's teardown finds nothing of the rest started: active groups are nested, a group is
\* entered after the BeforeAlls around it, and the cursor has not left one that is active.
Nested(g, h) == g = h \/ Encloses(g, h) \/ Encloses(h, g)
ChainInv ==
  /\ \A g, h \in Groups : Active(g) /\ Active(h) => Nested(g, h)
  /\ \A g \in Groups : phase[g] # "idle" => \A h \in Above(g) : phase[h] \notin {"idle", "before"}
  /\ \A g \in Groups : Active(g) => pos <= End[g] + 1
  /\ \A g \in Groups : Active(g) /\ pos \in Specs /\ status[pos] = "open" => pos <= End[g]

\* Why a BeforeAll that fails under FailFast suppresses nothing that was reported failed or cut: no
\* failure was there when its group was entered, and only groups around it can make a case meanwhile.
CutInv == mode.failFast =>
  /\ Reported => failFastStopped
  /\ \A g \in Groups : phase[g] = "before" =>
       /\ \A i \in Specs : status[i] # "fail"
       /\ \A h \in Groups : Case(h) => End[g] <= End[h]
=============================================================================

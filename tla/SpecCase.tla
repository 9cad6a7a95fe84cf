------------------------------ MODULE SpecCase ------------------------------
(***************************************************************************)
(* One spec after another on the pooled Context of the Describe engine     *)
(* (specs/execution_plan.go: runExecution and runProgram).                 *)
(*                                                                         *)
(* The spec goroutine runs a case's body (with its BeforeEach hooks), its  *)
(* AfterEach hooks and its ctx.Cleanup functions.  Each of them may start  *)
(* ctx.Go tasks, which run on goroutines of their own and may start more.  *)
(* What tasks report is kept in the Context's goState and folded into the  *)
(* case at its settle points.  The goState stays with the Context when the *)
(* pool hands it to the next case; so does the backend wrapper a task      *)
(* reports through on a real *testing.T.                                   *)
(*                                                                         *)
(* Failures are numbered by their place in log; 0 stands for no message.   *)
(***************************************************************************)
EXTENDS Naturals, Sequences, FiniteSets

CONSTANTS
  NCases,        \* specs that run one after the other
  NAfter,        \* AfterEach hooks of each
  Tasks,         \* the ctx.Go calls user code may make
  MaxCleanups,   \* bound on the ctx.Cleanup calls of the run
  MaxErrorfs,    \* bound on the ctx.Errorf calls of the run
  Backend,       \* "T": a subtest of a real *testing.T; "fake": no testing.TB
  BodyEndings, HookEndings, CleanupEndings, TaskEndings   \* how user code may end

\* Returns, a failed assertion, ctx.T.Error, ctx.T.FailNow, ctx.T.SkipNow, a panic.
Endings == {"ok", "fatal", "error", "failnow", "skip", "panic"}
OnT     == Backend = "T"

ASSUME CaseAssumption ==
  /\ NCases \in Nat /\ NAfter \in Nat /\ MaxCleanups \in Nat /\ MaxErrorfs \in Nat
  /\ IsFiniteSet(Tasks)
  /\ Backend \in {"T", "fake"}
  /\ BodyEndings \cup HookEndings \cup CleanupEndings \cup TaskEndings \subseteq Endings
  /\ ~OnT => (BodyEndings \cup HookEndings \cup CleanupEndings \cup TaskEndings)
                \subseteq {"ok", "fatal", "panic"}

Cases == 1..NCases

VARIABLES
  case,      \* the spec that runs, or is about to
  at,        \* what the spec goroutine is doing
  hook,      \* AfterEach hooks of this case that have run
  how,       \* "returned", or a Goexit unwinds runProgram: "exited", in an AfterEach "abandoned"
  message,   \* runProgram's result: the panic it will return
  failure,   \* Context.failure
  gs,        \* the Context's goState
  tasks,     \* every ctx.Go task: its state, its spec and its backend wrapper
  bound,     \* the *testing.T each pooled runnableBackend is bound to, 0 when released
  tFailed, tSkipped,  \* the cases whose *testing.T has failed, or was skipped
  told,      \* failures delivered to a backend, each with the case it was delivered to
  cleanups,  \* history: the case that registered each cleanup
  ran,       \* history: the cleanups that were run, in order
  log,       \* history: every failure, in the order it happened
  reports    \* SpecFinished events, with how runProgram ended

testing == <<bound, tFailed, tSkipped, told>>
history == <<cleanups, ran, log>>
vars == <<case, at, hook, how, message, failure, gs, tasks, testing, history, reports>>

NoFailure == [failed |-> FALSE, message |-> 0]
FreshState == [used |-> FALSE, wg |-> 0, rec |-> 0, panic |-> 0, panicReported |-> FALSE,
               replayed |-> FALSE, closed |-> FALSE, list |-> <<>>, cleanupsDone |-> FALSE,
               pending |-> <<>>]

\* Mutant: reset forgets the failure the tasks recorded.
Recycled_KeepsRec(g) == [FreshState EXCEPT !.used = g.used, !.wg = g.wg, !.rec = g.rec]
\* goState.reset: everything but the task counter.
Recycled(g) == [FreshState EXCEPT !.used = g.used, !.wg = g.wg]

InUserCode == at \in {"body", "after", "cleanup"}
Running(t) == tasks[t].state = "running"
\* The settle point that folds what happens now: after the body, after the hooks, after the cleanups.
Stage == CASE at \in {"body", "settle"} -> 1
           [] at \in {"after", "settleLast"} -> 2
           [] OTHER -> 3
Failure(kind, of, by) == [kind |-> kind, of |-> of, by |-> by, stage |-> Stage]
NewId == Len(log) + 1
Errorfs == Cardinality({i \in DOMAIN log : log[i].kind \in {"errorf", "early"}})
Wrapper == CHOOSE w \in Cases : bound[w] = case

Init ==
  /\ case = 1 /\ at = "start" /\ hook = 0
  /\ how = "returned" /\ message = 0
  /\ failure = NoFailure
  /\ gs = FreshState
  /\ tasks = [t \in Tasks |-> [state |-> "new", of |-> 0, wrapper |-> 0, stage |-> 0]]
  /\ bound = [w \in Cases |-> 0]
  /\ tFailed = {} /\ tSkipped = {}
  /\ told = <<>>
  /\ cleanups = <<>> /\ ran = <<>> /\ log = <<>>
  /\ reports = <<>>

-----------------------------------------------------------------------------
(* The start of a case and, on a *testing.T, its subtest.                  *)

StartCase ==
  /\ at = "start" /\ case \in Cases
  /\ at' = "body" /\ hook' = 0 /\ how' = "returned" /\ message' = 0
  /\ failure' = NoFailure
  /\ gs' = Recycled(gs)
  /\ IF OnT THEN \E w \in 1..case : bound[w] = 0 /\ bound' = [bound EXCEPT ![w] = case]
            ELSE bound' = bound
  /\ UNCHANGED <<case, tasks, tFailed, tSkipped, told, history, reports>>

\* A -run filter discards the subtest: the body never runs.
FilterCase ==
  /\ at = "start" /\ case \in Cases /\ OnT
  /\ case' = case + 1
  /\ failure' = NoFailure
  /\ gs' = Recycled(gs)
  /\ reports' = Append(reports, [failed |-> FALSE, skipped |-> FALSE, filtered |-> TRUE,
                                 message |-> 0, output |-> FALSE, how |-> "filtered"])
  /\ UNCHANGED <<at, hook, how, message, tasks, testing, history>>

-----------------------------------------------------------------------------
(* What user code calls on its Context.                                    *)

\* ctx.Go by the spec goroutine.  On a closed case it panics: one of the endings below.
SpecGo(t) ==
  /\ InUserCode /\ tasks[t].state = "new" /\ ~gs.closed
  /\ tasks' = [tasks EXCEPT ![t] = [state |-> "running", of |-> case, stage |-> Stage,
                                    wrapper |-> IF OnT THEN Wrapper ELSE 0]]
  /\ gs' = [gs EXCEPT !.used = TRUE, !.wg = @ + 1]
  /\ UNCHANGED <<case, at, hook, how, message, failure, testing, history, reports>>

\* ctx.Go by a task, on the goState it shares with its spec.
TaskGo(u, t) ==
  /\ Running(u) /\ tasks[t].state = "new" /\ ~gs.closed
  /\ tasks' = [tasks EXCEPT ![t] = [tasks[u] EXCEPT !.stage = Stage]]
  /\ gs' = [gs EXCEPT !.wg = @ + 1]
  /\ UNCHANGED <<case, at, hook, how, message, failure, testing, history, reports>>

\* ctx.Cleanup, of spec c.
Register(c) ==
  /\ Len(cleanups) < MaxCleanups /\ ~gs.cleanupsDone
  /\ cleanups' = Append(cleanups, c)
  /\ gs' = [gs EXCEPT !.used = TRUE, !.list = Append(@, Len(cleanups) + 1)]
  /\ UNCHANGED <<case, at, hook, how, message, failure, tasks, testing, ran, log, reports>>

SpecCleanup    == InUserCode /\ Register(case)
TaskCleanup(t) == Running(t) /\ Register(tasks[t].of)

\* Context.Errorf once the Context has a goState: queued, and reported at once on a *testing.T.
Queue(c, by, to) ==
  /\ Errorfs < MaxErrorfs
  /\ log' = Append(log, Failure("errorf", c, by))
  /\ gs' = [gs EXCEPT !.pending = Append(@, NewId)]
  /\ told' = IF OnT THEN Append(told, <<NewId, to>>) ELSE told
  /\ tFailed' = IF OnT THEN tFailed \cup {to} ELSE tFailed
  /\ UNCHANGED <<case, at, hook, how, message, failure, tasks, bound, tSkipped,
                 cleanups, ran, reports>>

\* Context.Errorf before that: recorded and reported on the spot.
EarlyErrorf ==
  /\ InUserCode /\ ~gs.used /\ Errorfs < MaxErrorfs
  /\ log' = Append(log, Failure("early", case, "spec"))
  /\ failure' = [failed |-> TRUE, message |-> IF failure.failed THEN failure.message ELSE NewId]
  /\ told' = Append(told, <<NewId, case>>)
  /\ tFailed' = IF OnT THEN tFailed \cup {case} ELSE tFailed
  /\ UNCHANGED <<case, at, hook, how, message, gs, tasks, bound, tSkipped,
                 cleanups, ran, reports>>

SpecErrorf    == InUserCode /\ gs.used /\ Queue(case, "spec", case)
\* A released wrapper has no test: reporting through it panics, one of the endings below.
Reaches(t)    == OnT => bound[tasks[t].wrapper] # 0
ReportsTo(t)  == IF OnT THEN bound[tasks[t].wrapper] ELSE case
TaskErrorf(t) == Running(t) /\ Reaches(t) /\ Queue(tasks[t].of, "task", ReportsTo(t))

-----------------------------------------------------------------------------
(* The end of a task (goState.run and finish).                             *)

\* Mutant: wg.Done is not deferred, so that a panic skips it.
CountDown_OnReturn(panicked) == IF panicked THEN gs.wg ELSE gs.wg - 1
\* wg.Done is deferred: it runs however the task ended.
CountDown(panicked) == gs.wg - 1

\* A failed assertion ends only the task.  On a *testing.T it is reported at once through the
\* wrapper, and panics when that has been released; a test that is over panics too.
TaskEnds(t, out) ==
  LET lost     == \/ OnT /\ out = "fatal" /\ ~Reaches(t)
                  \/ OnT /\ out \in {"error", "failnow"} /\ tasks[t].of # case
      panicked == out = "panic" \/ lost
      failing  == out \notin {"ok", "skip"}
      reported == OnT /\ failing /\ ~panicked
  IN /\ Running(t)
     /\ tasks' = [tasks EXCEPT ![t].state = "done"]
     /\ log' = IF failing
               THEN Append(log, Failure(IF panicked THEN "panic" ELSE out, tasks[t].of, "task"))
               ELSE log
     /\ gs' = [gs EXCEPT !.wg = CountDown(panicked),
                         !.rec = IF out = "fatal" /\ @ = 0 THEN NewId ELSE @,
                         !.panic = IF panicked /\ @ = 0 THEN NewId ELSE @]
     /\ told' = IF reported /\ out = "fatal" THEN Append(told, <<NewId, ReportsTo(t)>>) ELSE told
     /\ tFailed' = IF reported
                   THEN tFailed \cup {IF out = "fatal" THEN ReportsTo(t) ELSE tasks[t].of}
                   ELSE tFailed
     /\ tSkipped' = IF out = "skip" THEN tSkipped \cup {tasks[t].of} ELSE tSkipped
     /\ UNCHANGED <<case, at, hook, how, message, failure, bound, cleanups, ran, reports>>

-----------------------------------------------------------------------------
(* The end of a body, an AfterEach hook or a cleanup on the spec goroutine. *)

\* runtime.Goexit; on a fake backend a failed assertion panics with a sentinel that is recovered.
Exits(out) == OnT /\ out \in {"fatal", "failnow", "skip"}

\* failf, recoverSpecFailure, runCleanup: what the ending leaves on the Context and its backend.
Leaves(out) ==
  LET failing == out \notin {"ok", "skip"} IN
  /\ log' = IF failing THEN Append(log, Failure(out, case, "spec")) ELSE log
  /\ failure' = CASE out = "fatal" -> [failed |-> TRUE, message |-> NewId]
                  [] out = "panic" -> [failure EXCEPT !.failed = TRUE]
                  [] OTHER -> failure
  /\ message' = IF out = "panic" /\ message = 0 THEN NewId ELSE message
  /\ told' = IF out \in {"fatal", "panic"} THEN Append(told, <<NewId, case>>) ELSE told
  /\ tFailed' = IF OnT /\ failing THEN tFailed \cup {case} ELSE tFailed
  /\ tSkipped' = IF out = "skip" THEN tSkipped \cup {case} ELSE tSkipped
  /\ UNCHANGED <<case, gs, tasks, bound, cleanups, ran, reports>>

BodyEnds(out) ==
  /\ at = "body" /\ Leaves(out)
  /\ how' = IF Exits(out) THEN "exited" ELSE how
  /\ at' = "settle" /\ hook' = hook

\* A Goexit here leaves the deferred function: no further hook, settle point or cleanup.
HookEnds(out) ==
  /\ at = "after" /\ Leaves(out)
  /\ how' = IF Exits(out) THEN "abandoned" ELSE how
  /\ hook' = hook + 1
  /\ at' = IF Exits(out) THEN "end" ELSE IF hook' < NAfter THEN "after" ELSE "settleLast"

\* Mutant: a Goexit ends the drain.
AfterCleanup_Stops(out) == IF Exits(out) THEN "end" ELSE "drain"
\* The rest of the list is drained even when a Goexit ended the cleanup.
AfterCleanup(out) == "drain"

CleanupEnds(out) ==
  /\ at = "cleanup" /\ Leaves(out)
  /\ how' = IF Exits(out) THEN "exited" ELSE how
  /\ at' = AfterCleanup(out) /\ hook' = hook

-----------------------------------------------------------------------------
(* The settle points.                                                      *)

\* Mutant: what a task recorded is not marked as replayed.
Replays_EveryTime == (IF gs.rec # 0 THEN <<gs.rec>> ELSE <<>>) \o gs.pending
\* fold's replay: on a backend without a testing.TB nothing has been delivered yet.
Replays == (IF gs.rec # 0 /\ ~gs.replayed THEN <<gs.rec>> ELSE <<>>) \o gs.pending

\* Mutant: an Errorf replaces the message.
Folded_LastErrorf ==
  LET own == IF gs.rec # 0 /\ ~failure.failed THEN [failed |-> TRUE, message |-> gs.rec] ELSE failure
  IN IF gs.pending = <<>> THEN own ELSE [failed |-> TRUE, message |-> gs.pending[Len(gs.pending)]]
\* The spec's own failure comes first, then a task's failed assertion, then the queued Errorfs.
Folded ==
  LET own == IF gs.rec # 0 /\ ~failure.failed THEN [failed |-> TRUE, message |-> gs.rec] ELSE failure
  IN IF gs.pending = <<>> \/ own.failed THEN own ELSE [failed |-> TRUE, message |-> Head(gs.pending)]

\* goState.fold, followed by the report of a panic the settle points have not reported yet.
Fold(state, reportPanic) ==
  LET first == reportPanic /\ gs.panic # 0 /\ ~gs.panicReported
      new   == (IF OnT THEN <<>> ELSE Replays) \o (IF first THEN <<gs.panic>> ELSE <<>>)
  IN /\ gs' = [state EXCEPT !.pending = <<>>, !.replayed = @ \/ gs.rec # 0,
                            !.panicReported = @ \/ first]
     /\ failure' = IF first THEN [Folded EXCEPT !.failed = TRUE] ELSE Folded
     /\ told' = told \o [i \in DOMAIN new |-> <<new[i], case>>]
     /\ tFailed' = IF OnT /\ first THEN tFailed \cup {case} ELSE tFailed
     /\ message' = IF reportPanic /\ message = 0 THEN gs.panic ELSE message
     /\ UNCHANGED <<case, hook, how, tasks, bound, tSkipped, history, reports>>

TasksDone == gs.wg = 0

\* settleTasks(false), between the body and the AfterEach hooks.
Settle ==
  /\ at = "settle" /\ TasksDone
  /\ Fold(gs, TRUE)
  /\ at' = IF NAfter = 0 THEN "settleLast" ELSE "after"

\* settleTasks(true), after them: no ctx.Go is accepted any more.
SettleLast ==
  /\ at = "settleLast" /\ TasksDone
  /\ Fold([gs EXCEPT !.closed = gs.used], TRUE)
  /\ at' = "drain"

\* drainCleanups takes the last cleanup that was registered.
PopCleanup ==
  /\ at = "drain" /\ gs.list # <<>>
  /\ at' = "cleanup"
  /\ ran' = Append(ran, gs.list[Len(gs.list)])
  /\ gs' = [gs EXCEPT !.list = SubSeq(@, 1, Len(@) - 1)]
  /\ UNCHANGED <<case, hook, how, message, failure, tasks, testing, cleanups, log, reports>>

DrainDone ==
  /\ at = "drain" /\ gs.list = <<>>
  /\ Fold([gs EXCEPT !.cleanupsDone = gs.used], FALSE)
  /\ at' = "end"

-----------------------------------------------------------------------------
(* The report, and the Context's and the wrapper's way back to their pools. *)

\* runSpecProgram and runSpecProgramIsolated.
Failed == failure.failed \/ (OnT /\ case \in tFailed)

EndCase ==
  LET panic == IF how = "returned" THEN message ELSE 0 IN
  /\ at = "end"
  /\ reports' = Append(reports,
        [failed   |-> Failed,
         skipped  |-> OnT /\ case \in tSkipped /\ ~Failed,
         filtered |-> FALSE,
         message  |-> IF panic # 0 \/ ~Failed THEN panic ELSE failure.message,
         output   |-> panic # 0,
         how      |-> how])
  /\ bound' = [w \in Cases |-> IF bound[w] = case THEN 0 ELSE bound[w]]
  /\ failure' = NoFailure
  /\ gs' = Recycled(gs)
  /\ case' = case + 1 /\ at' = "start"
  /\ UNCHANGED <<hook, how, message, tasks, tFailed, tSkipped, told, history>>

SpecStep ==
  \/ StartCase \/ FilterCase
  \/ \E t \in Tasks : SpecGo(t)
  \/ SpecCleanup \/ EarlyErrorf \/ SpecErrorf
  \/ \E out \in BodyEndings : BodyEnds(out)
  \/ Settle
  \/ \E out \in HookEndings : HookEnds(out)
  \/ SettleLast \/ PopCleanup
  \/ \E out \in CleanupEndings : CleanupEnds(out)
  \/ DrainDone \/ EndCase

TaskStep(t) ==
  \/ \E u \in Tasks : TaskGo(t, u)
  \/ TaskCleanup(t) \/ TaskErrorf(t)
  \/ \E out \in TaskEndings : TaskEnds(t, out)

Next == SpecStep \/ \E t \in Tasks : TaskStep(t)

Spec == Init /\ [][Next]_vars
\* User code ends, and goroutines that can run do.
FairSpec == Spec /\ WF_vars(SpecStep) /\ \A t \in Tasks : WF_vars(TaskStep(t))

-----------------------------------------------------------------------------
(* Properties.                                                             *)

Failures == [kind : {"early", "errorf"} \cup Endings, of : Cases, by : {"spec", "task"}, stage : 1..3]
Ids      == 0..Len(log)

\* The type of every variable (Context, goState and the histories).
TypeOK ==
  /\ case \in 1..(NCases + 1)
  /\ at \in {"start", "body", "settle", "after", "settleLast", "drain", "cleanup", "end"}
  /\ hook \in 0..NAfter /\ how \in {"returned", "exited", "abandoned"}
  /\ log \in Seq(Failures)
  /\ message \in Ids
  /\ failure \in [failed : BOOLEAN, message : Ids]
  /\ gs \in [used : BOOLEAN, wg : 0..Cardinality(Tasks), rec : Ids, panic : Ids,
             panicReported : BOOLEAN, replayed : BOOLEAN, closed : BOOLEAN,
             list : Seq(1..MaxCleanups), cleanupsDone : BOOLEAN, pending : Seq(Ids)]
  /\ tasks \in [Tasks -> [state : {"new", "running", "done"}, of : 0..NCases,
                          wrapper : 0..NCases, stage : 0..3]]
  /\ gs.wg = Cardinality({t \in Tasks : Running(t)})
  /\ bound \in [Cases -> 0..NCases]
  /\ tFailed \subseteq Cases /\ tSkipped \subseteq Cases
  /\ told \in Seq(Ids \X Cases)
  /\ cleanups \in Seq(Cases) /\ ran \in Seq(1..MaxCleanups)
  /\ reports \in Seq([failed : BOOLEAN, skipped : BOOLEAN, filtered : BOOLEAN, message : Ids,
                      output : BOOLEAN, how : {"filtered", "returned", "exited", "abandoned"}])

FailuresOf(c) == {i \in DOMAIN log : log[i].of = c}
\* Neither this case nor one before it was given up by a Goexit in an AfterEach hook.
Intact(c) == c \in DOMAIN reports /\ \A d \in 1..c : reports[d].how # "abandoned"

\* A spec is reported failed exactly when something of it failed, in whichever task, hook or
\* cleanup and however the spec ended, and the message it is reported with is one of its own:
\* no failure gets lost in, or leaks out of, the pooled Context (context_go.go, contract of Go).
ChargedToItsSpec ==
  \A c \in Cases : Intact(c) =>
    /\ reports[c].failed <=> FailuresOf(c) # {}
    /\ reports[c].message # 0 => reports[c].message \in FailuresOf(c)

TasksAwaited ==
  \A t \in Tasks : Running(t) =>
    /\ at = "after" /\ tasks[t].of = case => tasks[t].stage = 2
    /\ at = "cleanup" => tasks[t].of # case
    /\ ~Intact(tasks[t].of)

CleanupsRun ==
  /\ \A i, j \in DOMAIN ran : ran[i] = ran[j] => i = j
  /\ \A c \in Cases : Intact(c) =>
       \A i \in DOMAIN cleanups : cleanups[i] = c => \E j \in DOMAIN ran : ran[j] = i

\* AfterEach hooks run after the tasks of the body, cleanups after all tasks, and no task of a
\* reported spec is still running; no cleanup runs twice, and those of a reported spec have all
\* run, whatever ended the body, a task or another cleanup (contracts of Go and Cleanup).
SettledInOrder == TasksAwaited /\ CleanupsRun

\* However often a case settles, its backend hears of a failure once; it hears of every Errorf.
DeliveredOnce ==
  /\ \A i, j \in DOMAIN told : told[i][1] = told[j][1] => i = j
  /\ \A c \in Cases : Intact(c) =>
       \A f \in FailuresOf(c) : log[f].kind = "errorf" => \E i \in DOMAIN told : told[i] = <<f, c>>

\* The failure of S with the least weight.
Least(S, weight(_)) == CHOOSE i \in S : \A j \in S : weight(i) <= weight(j)
After(i, class)     == class * (Len(log) + 1) + i

\* Panics rank by settle point, the spec goroutine's before those of the tasks.
PanicRank(i) == After(i, 2 * log[i].stage + IF log[i].by = "task" THEN 1 ELSE 0)
\* Other failures rank in the order they reach the Context: an Errorf without tasks or cleanups
\* at once, the rest by settle point, a task's failed assertion before the queued Errorfs.
FoldRank(i)  == IF log[i].kind = "early" THEN i
                ELSE After(i, 2 * log[i].stage + IF log[i].kind = "errorf" THEN 1 ELSE 0)

Explanation(c) ==
  LET panics == {i \in FailuresOf(c) : log[i].kind = "panic"}
      own    == {i \in FailuresOf(c) : log[i].kind = "fatal" /\ log[i].by = "spec"}
      folded == {i \in FailuresOf(c) : \/ log[i].kind \in {"early", "errorf"}
                                       \/ log[i].kind = "fatal" /\ log[i].by = "task"}
  IN IF panics # {} THEN Least(panics, PanicRank)
     ELSE IF own # {} THEN CHOOSE i \in own : \A j \in own : i >= j
     ELSE IF folded # {} THEN Least(folded, FoldRank)
     ELSE 0

\* The message of a report is the failure the documented rule picks (context_errorf.go, "Message
\* rule"; assertionMessage; runProgram), and a spec in which something panicked, be it its body, a
\* hook, a task or a cleanup, is reported as an error with the panic's stack (docs/DSL.md), unless
\* the panic was lost to a Goexit.
MessageRule ==
  \A c \in Cases :
    LET panicked == \E i \in FailuresOf(c) : log[i].kind = "panic" IN
    Intact(c) /\ (panicked => reports[c].how # "exited")
      => reports[c].message = Explanation(c) /\ (reports[c].output <=> panicked)

\* Every case ends and is reported: the spec goroutine never waits for ever for a finished task.
EveryCaseIsReported == <>(Len(reports) = NCases)

\* When a spec is reported its cleanups have run, also when it failed (docs/DSL.md, ctx.Cleanup).
CleanupsAlwaysRun ==
  \A c \in DOMAIN reports : \A i \in DOMAIN cleanups : cleanups[i] = c =>
    \E j \in DOMAIN ran : ran[j] = i
=============================================================================

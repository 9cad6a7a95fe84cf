----------------------------- MODULE Coordination -----------------------------
(***************************************************************************)
(* report/coordination: the directory of one run id, shared by the         *)
(* invocations that use that id.  Each invocation initializes the run,     *)
(* lets one test process per package publish a shard and finalizes; gc     *)
(* removes abandoned runs.  Files appear by an exclusive create (Publish); *)
(* a directory disappears entry by entry, as os.RemoveAll removes it.      *)
(***************************************************************************)
EXTENDS Naturals, FiniteSets

CONSTANTS
  Invocations,     \* processes of an invocation share its token
  Packages,
  Builds,          \* the packages each invocation tests
  Expected,        \* the packages each invocation names in FinalizeOptions.ExpectedProducers
  Forces,          \* the invocations that may use --force
  Cleaners,        \* the invocations that finalize with Cleanup
  Targets,         \* report files, numbered in the order of FinalizeOptions.Targets
  Environments,    \* how often each invocation may run init, whether gc runs (it removes one
                   \* directory at most), whether file operations may fail and processes die
  Supplied,        \* the invocations whose environment supplies a token; init generates the others'
  NoFile
ASSUME CoordinationAssumption ==
  /\ IsFiniteSet(Invocations)
  /\ NoFile \notin Invocations \cup [token : Invocations, at : Nat, old : BOOLEAN]
                             \cup [pkg : Packages, token : Invocations, at : Nat]
  /\ Builds \in [Invocations -> SUBSET Packages]
  /\ Expected \in [Invocations -> SUBSET Packages]
  /\ Forces \subseteq Invocations /\ Cleaners \subseteq Invocations /\ Supplied \subseteq Invocations
  /\ Targets \in Nat
  /\ Environments \subseteq
       [preflights : [Invocations -> Nat], gcRuns : BOOLEAN, failing : BOOLEAN]

Producers == {ip \in Invocations \X Packages : ip[2] \in Builds[ip[1]]}
Removers  == {"init", "finalize"} \X Invocations
GC        == <<"gc", NoFile>>

VARIABLES
  dir,        \* the run directory: which one it is, 0 when there is none
  shardsDir,  \* its shards directory exists
  marker,     \* run.json: whose token, which preflight wrote it, whether it is past retention
  record,     \* config-error.json: the invocation it is from
  shards      \* the shard under the name of each package: whose token, after which preflight
disk == <<dir, shardsDir, marker, record, shards>>

VARIABLES
  env,        \* one of Environments
  epoch,      \* preflights so far: CreatedAt, and a ProducedAt is the number of those before it
  inits,      \* preflights left to each invocation
  initAt,     \* progress of InitializeRun
  created,    \* CreatedAt of the marker being written
  prodAt,     \* progress of each test process
  stamp,      \* ProducedAt of its shard
  finAt,      \* progress of Finalize
  view,       \* what Finalize has found: the marker's CreatedAt, the files listed, accepted and rejected
  report,     \* each target file: the shards merged into it
  exit,       \* how the last Finalize ended
  gcAt,       \* progress of gc
  removal,    \* os.RemoveAll in progress: the directory opened and the names yet to unlink
  calm        \* history: the invocations whose preflight found nobody else at work, and after it no
              \* --force, gc, failure or crash
procs == <<env, epoch, inits, initAt, created, prodAt, stamp, finAt, view, report, exit, gcAt, removal,
           calm>>
vars == <<disk, procs>>

NothingSeen == [at |-> 0, listed |-> {}, accepted |-> {}, rejected |-> {}, rendered |-> 0]
NotOpen     == [of |-> 0, names |-> {}]

Init ==
  /\ dir = 0 /\ shardsDir = FALSE
  /\ marker = NoFile /\ record = NoFile
  /\ shards = [p \in Packages |-> NoFile]
  /\ epoch = 0
  /\ env \in Environments
  /\ inits = env.preflights
  /\ initAt = [i \in Invocations |-> IF env.preflights[i] = 0 THEN "skipped" ELSE "idle"]
  /\ created = [i \in Invocations |-> 0]
  /\ prodAt = [ip \in Producers |-> "idle"]
  /\ stamp = [ip \in Producers |-> 0]
  /\ finAt = [i \in Invocations |-> "idle"]
  /\ view = [i \in Invocations |-> NothingSeen]
  /\ report = [i \in Invocations |-> [t \in 1..Targets |-> {}]]
  /\ exit = [i \in Invocations |-> "none"]
  /\ gcAt = "idle"
  /\ removal = [r \in Removers \cup {GC} |-> NotOpen]
  /\ calm = {}

Owns(i) == marker # NoFile /\ marker.token = i

-----------------------------------------------------------------------------
(* The run directory.                                                      *)

\* Mutant: the directory is taken to exist.
MakeDir_Exists == UNCHANGED dir
\* mkdirSecure of the run directory.
MakeDir ==
  dir' = IF dir # 0 THEN dir
         ELSE CHOOSE d \in 1..(Cardinality(Removers) + 2) : \A r \in DOMAIN removal : removal[r].of # d

Clearing(r) ==
  CASE r[1] = "init"     -> initAt[r[2]] = "clearing"
    [] r[1] = "finalize" -> finAt[r[2]] = "clearing"
    [] OTHER             -> gcAt = "clearing"

\* The caller of os.RemoveAll goes on.
Cleared(r, ok) ==
  /\ removal' = [removal EXCEPT ![r] = NotOpen]
  /\ initAt' = IF r[1] = "init"
               THEN [initAt EXCEPT ![r[2]] = IF ok THEN "preparing" ELSE "failed"] ELSE initAt
  /\ finAt' = IF r[1] = "finalize" THEN [finAt EXCEPT ![r[2]] = "idle"] ELSE finAt
  /\ exit' = IF r[1] = "finalize"
             THEN [exit EXCEPT ![r[2]] = IF ok THEN "green" ELSE "failure"] ELSE exit
  /\ gcAt' = IF r = GC THEN "ended" ELSE gcAt

\* The directory is opened and its names are read.
OpenDir(r) ==
  /\ Clearing(r) /\ removal[r].of = 0 /\ dir # 0
  /\ removal' = [removal EXCEPT ![r] =
       [of    |-> dir,
        names |-> {n \in {"marker", "record", "shards"} :
                     \/ (n = "marker" /\ marker # NoFile)
                     \/ (n = "record" /\ record # NoFile)
                     \/ (n = "shards" /\ shardsDir)}]]
  /\ UNCHANGED <<disk, env, epoch, inits, initAt, created, prodAt, stamp, finAt, view, report, exit,
                 gcAt, calm>>

\* What is unlinked in a directory that is itself removed by now is not there any more.
Unlink(r, n) ==
  LET here == removal[r].of = dir
      left == removal[r].names \ {n}
      put(names) == removal' = [removal EXCEPT ![r].names = names]
  IN
  /\ Clearing(r) /\ n \in removal[r].names
  /\ n = "shardsDir" => removal[r].names \cap Packages = {}
  /\ put(IF n = "shards" /\ here
         THEN left \cup {p \in Packages : shards[p] # NoFile} \cup {"shardsDir"}
         ELSE left)
  /\ marker' = IF here /\ n = "marker" THEN NoFile ELSE marker
  /\ record' = IF here /\ n = "record" THEN NoFile ELSE record
  /\ shards' = IF here /\ n \in Packages THEN [shards EXCEPT ![n] = NoFile] ELSE shards
  /\ shardsDir' = IF here /\ n = "shardsDir" /\ \A p \in Packages : shards[p] = NoFile
                  THEN FALSE ELSE shardsDir
  /\ UNCHANGED <<dir, env, epoch, inits, initAt, created, prodAt, stamp, finAt, view, report,
                 exit, gcAt, calm>>

Empty == marker = NoFile /\ record = NoFile /\ ~shardsDir

\* The last rmdir: a directory that somebody has put a file in is not removed.
RemoveDir(r) ==
  /\ Clearing(r) /\ removal[r].names = {}
  /\ dir = 0 \/ removal[r].of # 0
  /\ dir' = IF Empty THEN 0 ELSE dir
  /\ Cleared(r, Empty)
  /\ UNCHANGED <<shardsDir, marker, record, shards, env, epoch, inits, created, prodAt, stamp,
                 view, report, calm>>

\* An error or the end of the process leaves the rest of the directory in place.
RemovalFails(r) ==
  /\ env.failing /\ Clearing(r)
  /\ Cleared(r, FALSE)
  /\ calm' = {}
  /\ UNCHANGED <<disk, env, epoch, inits, created, prodAt, stamp, view, report>>

RemoveAll(r) ==
  \/ OpenDir(r) \/ RemoveDir(r) \/ RemovalFails(r)
  \/ \E n \in removal[r].names : Unlink(r, n)

-----------------------------------------------------------------------------
(* InitializeRun.                                                          *)

InitEnded(i) == initAt[i] \in {"skipped", "ready", "refused", "failed"}
TestsEnded(i) == \A ip \in Producers : ip[1] = i => prodAt[ip] \in {"published", "duplicate", "failed"}
TestsIdle(i) == \A ip \in Producers : ip[1] = i => prodAt[ip] = "idle"

\* Init is run before the tests, or again after them.
StartInit(i, force) ==
  /\ inits[i] > 0 /\ finAt[i] = "idle"
  /\ \/ initAt[i] = "idle"
     \/ InitEnded(i) /\ (TestsIdle(i) \/ TestsEnded(i))
  /\ inits' = [inits EXCEPT ![i] = @ - 1]
  /\ initAt' = [initAt EXCEPT ![i] = IF force THEN "clearing" ELSE "preparing"]
  /\ prodAt' = [ip \in Producers |-> IF ip[1] = i THEN "idle" ELSE prodAt[ip]]
  /\ exit' = [exit EXCEPT ![i] = "none"]
  /\ calm' = IF force THEN {} ELSE calm
  /\ UNCHANGED <<disk, env, epoch, created, stamp, finAt, view, report, gcAt, removal>>

Prepare(i) ==
  /\ initAt[i] = "preparing"
  /\ MakeDir /\ shardsDir' = TRUE
  /\ epoch' = epoch + 1 /\ created' = [created EXCEPT ![i] = epoch + 1]
  /\ initAt' = [initAt EXCEPT ![i] = "publishing"]
  /\ UNCHANGED <<marker, record, shards, env, inits, prodAt, stamp, finAt, view, report, exit, gcAt,
                 removal, calm>>

\* Nothing of an earlier run is left, and no other invocation is in the middle of using the directory.
Unused(i) ==
  /\ record = NoFile /\ \A p \in Packages : shards[p] = NoFile
  /\ \A r \in DOMAIN removal : ~Clearing(r)
  /\ \A j \in Invocations \ {i} : finAt[j] = "idle"
  /\ \A ip \in Producers : prodAt[ip] \notin {"testing", "recording", "writing"}

PublishMarker(i) ==
  /\ initAt[i] = "publishing" /\ dir # 0
  /\ IF marker = NoFile
     THEN /\ marker' = [token |-> i, at |-> created[i], old |-> FALSE]
          /\ initAt' = [initAt EXCEPT ![i] = "ready"]
          /\ calm' = IF Unused(i) THEN calm \cup {i} ELSE calm \ {i}
     ELSE /\ initAt' = [initAt EXCEPT ![i] = "refused"]
          /\ UNCHANGED <<marker, calm>>
  /\ UNCHANGED <<dir, shardsDir, record, shards, env, epoch, inits, created, prodAt, stamp, finAt, view,
                 report, exit, gcAt, removal>>

InitFails(i) ==
  /\ initAt[i] \in {"preparing", "publishing"}
  /\ env.failing \/ (initAt[i] = "publishing" /\ dir = 0)
  /\ initAt' = [initAt EXCEPT ![i] = "failed"]
  /\ calm' = IF env.failing THEN {} ELSE calm
  /\ UNCHANGED <<disk, env, epoch, inits, created, prodAt, stamp, finAt, view, report, exit, gcAt,
                 removal>>

-----------------------------------------------------------------------------
(* A test process: ShardWriterFromEnv, the tests, Write.                   *)

HasToken(i) == i \in Supplied \/ initAt[i] = "ready"
\* VerifyRunOwnership
Verified(i) == HasToken(i) /\ Owns(i)

ProducerTo(ip, s) == prodAt' = [prodAt EXCEPT ![ip] = s]
ElseUnchanged == UNCHANGED <<env, epoch, inits, initAt, created, finAt, view, report, exit, gcAt, removal>>

\* A process that proved the run to be another's leaves no record.
ProducerStarts(ip) ==
  /\ prodAt[ip] = "idle" /\ InitEnded(ip[1])
  /\ ProducerTo(ip, CASE Verified(ip[1]) -> "testing"
                      [] HasToken(ip[1]) /\ ~Owns(ip[1]) /\ marker # NoFile -> "failed"
                      [] OTHER -> "deciding")
  /\ ElseUnchanged /\ UNCHANGED <<disk, stamp, calm>>

\* Mutant: the record is written whoever owns the run.
MayRecord_Always(i) == TRUE
\* mayRecordConfigError
MayRecord(i) == marker = NoFile \/ Verified(i)

ProducerDecides(ip) ==
  /\ prodAt[ip] = "deciding"
  /\ ProducerTo(ip, IF MayRecord(ip[1]) THEN "recording" ELSE "failed")
  /\ ElseUnchanged /\ UNCHANGED <<disk, stamp, calm>>

\* WriteConfigError: the first record stays.
ProducerRecords(ip) ==
  /\ prodAt[ip] = "recording"
  /\ MakeDir
  /\ record' = IF record = NoFile THEN ip[1] ELSE record
  /\ ProducerTo(ip, "failed")
  /\ ElseUnchanged /\ UNCHANGED <<shardsDir, marker, shards, stamp, calm>>

TestsEnd(ip) ==
  /\ prodAt[ip] = "testing"
  /\ stamp' = [stamp EXCEPT ![ip] = epoch]
  /\ ProducerTo(ip, "writing")
  /\ ElseUnchanged /\ UNCHANGED <<disk, calm>>

PublishShard(ip) ==
  /\ prodAt[ip] = "writing" /\ shardsDir
  /\ IF shards[ip[2]] = NoFile
     THEN /\ shards' = [shards EXCEPT ![ip[2]] = [pkg |-> ip[2], token |-> ip[1], at |-> stamp[ip]]]
          /\ ProducerTo(ip, "published")
     ELSE ProducerTo(ip, "duplicate") /\ UNCHANGED shards
  /\ ElseUnchanged /\ UNCHANGED <<dir, shardsDir, marker, record, stamp, calm>>

ProducerFails(ip) ==
  /\ prodAt[ip] \in {"testing", "deciding", "recording", "writing"}
  /\ env.failing \/ (prodAt[ip] = "writing" /\ ~shardsDir)
  /\ ProducerTo(ip, "failed")
  /\ calm' = IF env.failing THEN {} ELSE calm
  /\ ElseUnchanged /\ UNCHANGED <<disk, stamp>>

Producer(ip) ==
  \/ ProducerStarts(ip) \/ ProducerDecides(ip) \/ ProducerRecords(ip)
  \/ TestsEnd(ip) \/ PublishShard(ip) \/ ProducerFails(ip)

-----------------------------------------------------------------------------
(* Finalize.                                                               *)

Finalizing(i, from, to) == finAt[i] = from /\ finAt' = [finAt EXCEPT ![i] = to]
Exits(i, code) == exit' = [exit EXCEPT ![i] = code]
RestUnchanged == UNCHANGED <<disk, env, epoch, inits, initAt, created, prodAt, stamp, gcAt, removal>>

\* Finalize runs after the tests, and again when it did not succeed.
StartFinalize(i) ==
  /\ InitEnded(i) /\ TestsEnded(i) /\ exit[i] # "green"
  /\ IF Verified(i)
     THEN /\ Finalizing(i, "idle", "verified") /\ Exits(i, "none")
          /\ view' = [view EXCEPT ![i] = NothingSeen]
     ELSE finAt[i] = "idle" /\ Exits(i, "config") /\ UNCHANGED <<finAt, view>>
  /\ RestUnchanged /\ UNCHANGED <<report, calm>>

LookForRecord(i) ==
  /\ IF record = NoFile THEN Finalizing(i, "verified", "listing") /\ UNCHANGED exit
     ELSE Finalizing(i, "verified", "idle") /\ Exits(i, "recorded")
  /\ RestUnchanged /\ UNCHANGED <<view, report, calm>>

ListShards(i) ==
  /\ IF marker # NoFile
     THEN /\ Finalizing(i, "listing", "reading") /\ UNCHANGED exit
          /\ view' = [view EXCEPT ![i].at = marker.at,
                                  ![i].listed = {p \in Packages : shards[p] # NoFile}]
     ELSE Finalizing(i, "listing", "idle") /\ Exits(i, "config") /\ UNCHANGED view
  /\ RestUnchanged /\ UNCHANGED <<report, calm>>

\* Mutant: the token of a shard is not looked at.
Accepted_AnyToken(i, s) == s # NoFile /\ s.at >= view[i].at /\ s.pkg \in Expected[i]
\* A shard that is gone by now cannot be read; one of before the marker is stale.
Accepted(i, s) ==
  /\ s # NoFile
  /\ s.token = i /\ s.at >= view[i].at /\ s.pkg \in Expected[i]

ReadShards(i) ==
  LET good == {p \in view[i].listed : Accepted(i, shards[p])} IN
  /\ Finalizing(i, "reading", "rendering")
  /\ view' = [view EXCEPT ![i].accepted = {shards[p] : p \in good},
                          ![i].rejected = view[i].listed \ good]
  /\ RestUnchanged /\ UNCHANGED <<report, exit, calm>>

\* Targets are written one after the other.
Render(i) ==
  LET t == view[i].rendered + 1 IN
  /\ t <= Targets /\ Finalizing(i, "rendering", "rendering")
  /\ report' = [report EXCEPT ![i][t] = view[i].accepted]
  /\ view' = [view EXCEPT ![i].rendered = t]
  /\ RestUnchanged /\ UNCHANGED <<exit, calm>>

\* Nothing is missing and nothing was rejected.
Complete(i) ==
  /\ Expected[i] \subseteq {s.pkg : s \in view[i].accepted}
  /\ view[i].rejected = {}

\* Mutant: cleaning up does not wait for the targets.
Rendered_NotAll(i) == view[i].rendered > 0
Rendered(i) == view[i].rendered = Targets

EndFinalize(i) ==
  /\ Rendered(i)
  /\ IF Complete(i) /\ i \in Cleaners
     THEN Finalizing(i, "rendering", "clearing") /\ UNCHANGED exit
     ELSE /\ Finalizing(i, "rendering", "idle")
          /\ Exits(i, IF Complete(i) THEN "green" ELSE "failure")
  /\ RestUnchanged /\ UNCHANGED <<view, report, calm>>

FinalizeFails(i) ==
  /\ env.failing /\ finAt[i] \in {"verified", "listing", "reading", "rendering"}
  /\ finAt' = [finAt EXCEPT ![i] = "idle"] /\ Exits(i, "failure")
  /\ calm' = {}
  /\ RestUnchanged /\ UNCHANGED <<view, report>>

Finalize(i) ==
  \/ StartFinalize(i) \/ LookForRecord(i) \/ ListShards(i) \/ ReadShards(i)
  \/ Render(i) \/ EndFinalize(i) \/ FinalizeFails(i)

-----------------------------------------------------------------------------
(* gc.                                                                     *)

RetentionPasses ==
  /\ env.gcRuns /\ gcAt = "idle" /\ marker # NoFile
  /\ marker' = [marker EXCEPT !.old = TRUE]
  /\ UNCHANGED <<dir, shardsDir, record, shards, procs>>

\* The age is that of the marker now; the directory is removed later.
CollectRun ==
  /\ env.gcRuns /\ gcAt = "idle" /\ marker # NoFile /\ marker.old
  /\ gcAt' = "clearing"
  /\ calm' = {}
  /\ UNCHANGED <<disk, env, epoch, inits, initAt, created, prodAt, stamp, finAt, view, report, exit,
                 removal>>

Next ==
  \/ \E i \in Invocations :
       \/ \E force \in {FALSE} \cup {f \in {TRUE} : i \in Forces} : StartInit(i, force)
       \/ Prepare(i) \/ PublishMarker(i) \/ InitFails(i)
       \/ Finalize(i)
  \/ \E ip \in Producers : Producer(ip)
  \/ RetentionPasses \/ CollectRun
  \/ \E r \in Removers \cup {GC} : RemoveAll(r)

Spec == Init /\ [][Next]_vars

-----------------------------------------------------------------------------
(* Properties.                                                             *)

Shard(p) == [pkg : {p}, token : Invocations, at : Nat]
AreShards(S) == \A s \in S : \E p \in Packages : s \in Shard(p)

\* The type of every variable; and what is in a directory is there only if the directory is.
TypeOK ==
  /\ env \in Environments
  /\ dir \in Nat /\ shardsDir \in BOOLEAN
  /\ marker \in [token : Invocations, at : Nat, old : BOOLEAN] \cup {NoFile}
  /\ record \in Invocations \cup {NoFile}
  /\ \A p \in Packages : shards[p] \in Shard(p) \cup {NoFile}
  /\ dir = 0 => ~shardsDir /\ marker = NoFile /\ record = NoFile
  /\ ~shardsDir => \A p \in Packages : shards[p] = NoFile
  /\ epoch \in Nat /\ inits \in [Invocations -> Nat] /\ created \in [Invocations -> Nat]
  /\ initAt \in [Invocations -> {"skipped", "idle", "clearing", "preparing", "publishing",
                                 "ready", "refused", "failed"}]
  /\ prodAt \in [Producers -> {"idle", "testing", "deciding", "recording", "writing",
                               "published", "duplicate", "failed"}]
  /\ stamp \in [Producers -> Nat]
  /\ finAt \in [Invocations -> {"idle", "verified", "listing", "reading", "rendering", "clearing"}]
  /\ exit \in [Invocations -> {"none", "green", "failure", "config", "recorded"}]
  /\ gcAt \in {"idle", "clearing", "ended"} /\ calm \subseteq Invocations
  /\ \A i \in Invocations :
       /\ AreShards(view[i].accepted) /\ view[i].rendered \in 0..Targets
       /\ view[i].listed \subseteq Packages /\ view[i].rejected \subseteq Packages
       /\ view[i].at \in Nat
       /\ \A t \in 1..Targets : AreShards(report[i][t])
  /\ \A r \in DOMAIN removal :
       removal[r].names \subseteq {"marker", "record", "shards", "shardsDir"} \cup Packages

OnlyOwnShards ==
  \A i \in Invocations, t \in 1..Targets : \A s \in report[i][t] : s.token = i

Reported(i) == \A t \in 1..Targets : {s.pkg : s \in report[i][t]} = Expected[i]

GreenIsComplete == \A i \in Invocations : exit[i] = "green" => Reported(i)

\* A report holds only shards of the invocation whose Finalize wrote it, whatever other invocations
\* of the same run id did in the meantime (VerifyRunOwnership, discoverShards), and ExitCode is 0
\* only when every target holds a shard of every expected package and of no other.
ReportsAreTrue == OnlyOwnShards /\ GreenIsComplete

OnlyRemover(r) == removal[r].of = dir /\ \A o \in DOMAIN removal \ {r} : removal[o].of # dir

\* Finalize's cleanup removes no shard of its own run that is not in every report it wrote.
NothingPrunedUnreported ==
  [][\A i \in Invocations, p \in Packages :
       /\ OnlyRemover(<<"finalize", i>>)
       /\ shards[p] # NoFile /\ shards'[p] = NoFile /\ shards[p].token = i
       => \A t \in 1..Targets : shards[p] \in report[i][t]]_vars

\* The reports hold what this run's packages published, and nothing of an earlier run.
Told(i) == Reported(i) /\ \A t \in 1..Targets : \A s \in report[i][t] : s.at >= created[i]

\* Once its preflight has succeeded in an unused directory, nothing that other invocations of the same
\* run id start then keeps a healthy run from being reported: when all its packages publish their
\* shards, its Finalize has written complete reports of this very run before it ends, also when it
\* cleans up and others take the directory over (the marker, VerifyRunOwnership, mayRecordConfigError).
HealthyRunIsReported ==
  \A i \in calm :
    (/\ initAt[i] = "ready" /\ Expected[i] = Builds[i]
     /\ \A ip \in Producers : ip[1] = i => prodAt[ip] = "published"
     /\ finAt[i] = "idle" /\ exit[i] # "none")
    => Told(i)
=============================================================================

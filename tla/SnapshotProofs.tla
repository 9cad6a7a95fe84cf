---------------------------- MODULE SnapshotProofs ----------------------------
(***************************************************************************)
(* Proofs about SnapshotStore, for any specs, processes, names and numbers *)
(* and whatever fails, is killed or loses power.                           *)
(***************************************************************************)
EXTENDS SnapshotStore, TLAPS

IInv == TypeOK /\ file.holds # Torn /\ SaveInv

LEMMA EmptyIsSnapshot == Empty \in Snapshots
  BY DEF Empty, Snapshots

\* What a load yields is a snapshot, and what a spec changes in it as well.
LEMMA KnownIsSnapshot ==
  ASSUME NEW c \in Snapshots \cup {Absent, Garbage, Torn}
  PROVE  Known(c) \in Snapshots
  BY EmptyIsSnapshot DEF Known, Object

LEMMA SetIsSnapshot ==
  ASSUME NEW f \in Snapshots, NEW n \in Names, NEW v \in Literals
  PROVE  Set(f, n, v) \in Snapshots
<1>1. PICK D \in SUBSET Names : f \in [D -> Literals]
  BY DEF Snapshots
<1>2. Set(f, n, v) \in [D \cup {n} -> Literals]
  BY <1>1 DEF Set
<1> QED BY <1>2 DEF Snapshots

LEMMA InitInv == Init => IInv
<1> SUFFICES ASSUME Init PROVE IInv
  OBVIOUS
<1> USE SnapshotAssumption DEF Init
<1>1. PICK c \in Contents : file = [holds |-> c, synced |-> TRUE] /\ stored = Known(c)
  OBVIOUS
<1>2. c \in Snapshots \cup {Absent, Garbage} /\ c # Torn
  OBVIOUS
<1>3. stored \in Snapshots
  BY <1>1, <1>2, KnownIsSnapshot
<1>4. file \in File /\ file.holds # Torn /\ file.synced
  BY <1>1, <1>2 DEF File
<1>5. \A s \in Specs : ProcessOf[s] \in Processes
  BY DEF Processes
<1>6. TypeOK
  BY <1>1, <1>3, <1>4, <1>5 DEF TypeOK
<1>7. SaveInv
  BY <1>4 DEF SaveInv, ProgressOK, Saving
<1> QED BY <1>4, <1>6, <1>7 DEF IInv

-----------------------------------------------------------------------------
\* One step of a spec keeps the types, the lock and the file.
LEMMA StepInv ==
  ASSUME IInv, NEW s \in Specs, Step(s)
  PROVE  IInv'
<1> USE SnapshotAssumption DEF IInv, outside
<1>p. ProcessOf[s] \in Processes /\ \A t \in Specs : ProcessOf[t] \in Processes
  BY DEF Processes
<1>1. CASE Lock(s)
  <2>1. TypeOK'
    BY <1>1, <1>p DEF Lock, In, Go, TypeOK
  <2>2. SaveInv'
    BY <1>1 DEF Lock, In, Go, TypeOK, SaveInv, ProgressOK, Saving, Alive, Updater
  <2> QED BY <1>1, <2>1, <2>2 DEF Lock
<1>2. CASE Load(s)
  <2>k. Known(file.holds) \in Snapshots
    BY KnownIsSnapshot DEF TypeOK, File
  <2>1. CASE Return(s, "error") /\ UNCHANGED data
    <3>1. TypeOK'
      BY <1>2, <2>1, <1>p DEF Load, Return, In, Go, Unlocked, TypeOK
    <3>2. SaveInv'
      BY <1>2, <2>1 DEF Load, Return, In, Go, TypeOK, SaveInv, ProgressOK, Saving, Alive, Updater
    <3> QED BY <1>2, <3>1, <3>2 DEF Load
  <2>2. CASE /\ data' = [data EXCEPT ![s] = Known(file.holds)]
             /\ Go(s, IF Updater(s) THEN "change" ELSE "compare")
             /\ UNCHANGED <<locks, verdict>>
    <3>1. TypeOK'
      BY <1>2, <2>2, <2>k, <1>p DEF Load, In, Go, TypeOK
    <3>2. SaveInv'
      BY <1>2, <2>2, <2>k DEF Load, In, Go, TypeOK, SaveInv, ProgressOK, Saving, Alive, Updater
    <3> QED BY <1>2, <3>1, <3>2 DEF Load
  <2> QED BY <1>2, <2>1, <2>2 DEF Load
<1>3. CASE Compare(s)
  <2>0. \E v \in {"missing", "passed", "mismatch"} : Return(s, v)
    BY <1>3 DEF Compare
  <2>1. TypeOK'
    BY <1>3, <2>0, <1>p DEF Compare, Return, In, Go, Unlocked, TypeOK
  <2>2. SaveInv'
    BY <1>3, <2>0 DEF Compare, Return, In, Go, TypeOK, SaveInv, ProgressOK, Saving, Alive, Updater
  <2> QED BY <1>3, <2>1, <2>2 DEF Compare
<1>4. CASE CreateTemp(s)
  <2>1. data[s] \in Snapshots /\ name[s] \in Names /\ value[s] \in Literals
    BY <1>4 DEF CreateTemp, In, SaveInv, ProgressOK, Saving, TypeOK
  <2>2. Set(data[s], name[s], value[s]) \in Snapshots
    BY <2>1, SetIsSnapshot
  <2>3. TypeOK'
    BY <1>4, <2>2, <1>p DEF CreateTemp, In, Go, TypeOK, File
  <2>4. temp'[s] \in File
    BY <1>4 DEF CreateTemp, TypeOK, File
  <2>5. SaveInv'
    BY <1>4, <2>2, <2>4 DEF CreateTemp, In, Go, TypeOK, SaveInv, ProgressOK, Saving, Alive, Updater
  <2> QED BY <1>4, <2>3, <2>5 DEF CreateTemp
<1>5. CASE Write(s)
  <2>1. data[s] \in Snapshots
    BY <1>5 DEF Write, In, SaveInv, ProgressOK, Saving
  <2>2. TypeOK'
    BY <1>5, <2>1, <1>p DEF Write, In, Go, TypeOK, File
  <2>3. temp'[s] \in File /\ temp'[s].holds = data[s]
    BY <1>5, <2>1 DEF Write, TypeOK, File
  <2>4. SaveInv'
    BY <1>5, <2>1, <2>3 DEF Write, In, Go, TypeOK, SaveInv, ProgressOK, Saving, Alive, Updater
  <2> QED BY <1>5, <2>2, <2>4 DEF Write
<1>6. CASE Sync(s)
  <2>1. /\ temp[s] \in File /\ temp[s].holds = data[s] /\ Alive(s) /\ at[s] = "sync"
        /\ data[s] \in Snapshots
    BY <1>6 DEF Sync, In, SaveInv, ProgressOK, Saving
  <2>2. /\ temp' = [temp EXCEPT ![s].synced = TRUE]
        /\ temp' \in [Specs -> File \cup {None}] /\ temp'[s] \in File
        /\ temp'[s].holds = data[s] /\ temp'[s].synced
        /\ \A t \in Specs : t # s => temp'[t] = temp[t]
    BY <1>6, <2>1 DEF Sync, TypeOK, File
  <2>3. TypeOK'
    BY <1>6, <2>2, <1>p DEF Sync, In, Go, TypeOK
  <2>4. SaveInv'
    BY <1>6, <2>1, <2>2 DEF Sync, In, Go, TypeOK, SaveInv, ProgressOK, Saving, Alive, Updater
  <2> QED BY <1>6, <2>3, <2>4 DEF Sync
<1>7. CASE Rename(s)
  <2>1. /\ temp[s] \in File /\ temp[s].holds = data[s] /\ temp[s].synced
        /\ data[s] \in Snapshots
    BY <1>7 DEF Rename, In, SaveInv, ProgressOK, Saving
  <2>2. file' \in File /\ file'.holds # Torn /\ file'.synced
    BY <1>7, <2>1 DEF Rename
  <2>3. stored' \in Snapshots
    <3>1. name[s] \in Names /\ value[s] \in Literals /\ stored \in Snapshots
      BY DEF TypeOK
    <3>2. Set(stored, name[s], value[s]) \in Snapshots /\ Set(Empty, name[s], value[s]) \in Snapshots
      BY <3>1, EmptyIsSnapshot, SetIsSnapshot
    <3> QED BY <1>7, <3>2 DEF Rename
  <2>4. overlap' \in BOOLEAN
    BY <1>7 DEF Rename, TypeOK
  <2>5. /\ replaced' \subseteq [file : File, stored : Snapshots]
        /\ \A e \in replaced' : e.file.synced /\ e.file.holds # Torn
    BY <1>7 DEF Rename, TypeOK, SaveInv
  <2>6. TypeOK'
    BY <1>7, <2>2, <2>3, <2>4, <2>5, <1>p DEF Rename, Return, In, Go, Unlocked, TypeOK
  <2>7. SaveInv'
    BY <1>7, <2>2, <2>5 DEF Rename, Return, In, Go, TypeOK, SaveInv, ProgressOK, Saving, Alive, Updater
  <2> QED BY <2>2, <2>6, <2>7
<1>8. CASE Fail(s)
  <2>1. TypeOK'
    BY <1>8, <1>p DEF Fail, Return, Go, Unlocked, TypeOK
  <2>2. SaveInv'
    BY <1>8 DEF Fail, Return, Go, TypeOK, SaveInv, ProgressOK, Saving, Alive, Updater
  <2> QED BY <1>8, <2>1, <2>2 DEF Fail
<1> QED
  BY <1>1, <1>2, <1>3, <1>4, <1>5, <1>6, <1>7, <1>8 DEF Step

\* After a loss of power the file is the one in place, or one that was.
LEMMA AfterPowerLoss ==
  ASSUME IInv, PowerLoss
  PROVE  \/ power' = "off" /\ file' = file
         \/ power' = "undone" /\ \E e \in replaced : file' = e.file
<1> USE DEF IInv, SaveInv, Survivor
<1>1. CASE power' = "off" /\ file' = Survivor(file)
  BY <1>1
<1>2. CASE power' = "undone" /\ \E e \in replaced : file' = Survivor(e.file)
  BY <1>2
<1> QED BY <1>1, <1>2 DEF PowerLoss

\* Death and loss of power keep them too: what has, or had, the final name has been synced.
LEMMA OutsideInv ==
  ASSUME IInv, PowerLoss \/ Flush \/ \E p \in Processes : Kill(p)
  PROVE  IInv'
<1> USE DEF IInv
<1>1. CASE \E p \in Processes : Kill(p)
  <2>1. TypeOK'
    BY <1>1 DEF Kill, TypeOK
  <2>2. SaveInv'
    BY <1>1 DEF Kill, TypeOK, SaveInv, ProgressOK, Saving, Alive, Updater
  <2> QED BY <1>1, <2>1, <2>2 DEF Kill
<1>2. CASE PowerLoss
  <2>1. /\ file' \in File /\ file'.synced /\ file'.holds # Torn
        /\ power' \in {"off", "undone"}
    BY <1>2, AfterPowerLoss DEF TypeOK, SaveInv
  <2>2. Survivor(None) = None /\ \A f \in File : Survivor(f) \in File
    BY DEF Survivor, File
  <2>3. /\ temp' \in [Specs -> File \cup {None}]
        /\ \A s \in Specs : (temp[s] = None => temp'[s] = None) /\ (temp[s] \in File => temp'[s] \in File)
    BY <1>2, <2>2 DEF PowerLoss, TypeOK
  <2>4. TypeOK'
    BY <1>2, <2>1, <2>3 DEF PowerLoss, TypeOK
  <2>5. \A s \in Specs : ProcessOf[s] \in killed'
    BY <1>2, SnapshotAssumption DEF PowerLoss, Processes
  <2>6. SaveInv'
    BY <1>2, <2>1, <2>3, <2>5 DEF PowerLoss, TypeOK, SaveInv, ProgressOK, Saving, Alive, Updater
  <2> QED BY <2>1, <2>4, <2>6
<1>3. CASE Flush
  <2>1. TypeOK'
    BY <1>3 DEF Flush, TypeOK
  <2>2. SaveInv'
    BY <1>3 DEF Flush, TypeOK, SaveInv, ProgressOK, Saving, Alive, Updater
  <2> QED BY <1>3, <2>1, <2>2 DEF Flush
<1> QED BY <1>1, <1>2, <1>3

LEMMA NextInv == IInv /\ [Next]_vars => IInv'
<1> SUFFICES ASSUME IInv, [Next]_vars PROVE IInv'
  OBVIOUS
<1>1. CASE Next
  BY <1>1, StepInv, OutsideInv DEF Next
<1>2. CASE UNCHANGED vars
  BY <1>2 DEF vars, outside, IInv, TypeOK, SaveInv, ProgressOK, Saving, Alive, Updater
<1> QED BY <1>1, <1>2

\* Every variable keeps its type, and whoever is past the lock of its process holds it.
THEOREM TypeCorrect == Spec => []TypeOK
<1>1. IInv => TypeOK
  BY DEF IInv
<1> QED BY <1>1, InitInv, NextInv, PTL DEF Spec

\* The snapshot file is never a part of what was written, whatever fails, dies or loses power, and a
\* Save that returns leaves no temporary file.
THEOREM FilesAreWhole == Spec => []FileIsWhole
<1>1. IInv => FileIsWhole
  BY DEF IInv, SaveInv, ProgressOK, FileIsWhole
<1> QED BY <1>1, InitInv, NextInv, PTL DEF Spec

-----------------------------------------------------------------------------
UInv == NoUpdateLost /\ UpdateInv

\* Without power nobody runs.
LEMMA Running ==
  ASSUME TypeOK, NEW s \in Specs, Alive(s)
  PROVE  power = "on"
  BY DEF TypeOK, Alive, Processes

LEMMA InitUpdates == Init => UInv
  BY SnapshotAssumption DEF Init, UInv, NoUpdateLost, UpdateInv, UpdateOK

\* A spec that updates holds its process's lock, so only another process can come between its load
\* and its save; that is an overlap.
LEMMA StepUpdates ==
  ASSUME IInv, UInv, NEW s \in Specs, Step(s)
  PROVE  UInv'
<1> USE DEF IInv, UInv, outside
<1>1. CASE Lock(s)
  BY <1>1 DEF Lock, In, Go, TypeOK, NoUpdateLost, UpdateInv, UpdateOK, Alive
<1>2. CASE Load(s)
  BY <1>2, Running DEF Load, Return, In, Go, TypeOK, NoUpdateLost, UpdateInv, UpdateOK, Alive
<1>3. CASE Compare(s)
  BY <1>3 DEF Compare, Return, In, Go, TypeOK, NoUpdateLost, UpdateInv, UpdateOK, Alive
<1>4. CASE CreateTemp(s)
  BY <1>4 DEF CreateTemp, In, Go, TypeOK, NoUpdateLost, UpdateInv, UpdateOK, Alive
<1>5. CASE Write(s)
  BY <1>5 DEF Write, In, Go, TypeOK, NoUpdateLost, UpdateInv, UpdateOK, Alive
<1>6. CASE Sync(s)
  BY <1>6 DEF Sync, In, Go, TypeOK, NoUpdateLost, UpdateInv, UpdateOK, Alive
<1>7. CASE Rename(s)
  <2>0. power = "on" /\ power' = "on"
    BY <1>7, Running DEF Rename, In
  <2> SUFFICES ASSUME ~overlap'
               PROVE  /\ Known(file'.holds) = stored' /\ \A t \in Specs : UpdateOK(t)'
                      /\ \A e \in replaced' : Known(e.file.holds) = e.stored
    BY <2>0 DEF NoUpdateLost, UpdateInv
  <2>1. ~overlap /\ Known(file.holds) = stored
    BY <1>7, <2>0 DEF Rename, NoUpdateLost
  <2>2. /\ temp[s].holds = data[s] /\ data[s] = Set(stored, name[s], value[s])
        /\ data[s] \in Snapshots
    BY <1>7, <2>1 DEF Rename, In, SaveInv, ProgressOK, Saving, UpdateInv, UpdateOK
  <2>3. stored' = Set(stored, name[s], value[s])
    BY <1>7, <2>1 DEF Rename, Known
  <2>4. Known(file'.holds) = data[s]
    BY <1>7, <2>2, SnapshotAssumption DEF Rename, Known, Object
  <2>5. ASSUME NEW t \in Specs, Alive(t), at'[t] \in Saving PROVE FALSE
    <3>1. t # s /\ at[t] = at'[t]
      BY <1>7, <2>5 DEF Rename, Return, Go, TypeOK, Saving
    <3>2. ProcessOf[t] # ProcessOf[s]
      BY <1>7, <2>5, <3>1 DEF Rename, In, TypeOK, Saving
    <3>3. Updater(t)
      BY <2>5, <3>1 DEF SaveInv, ProgressOK
    <3> QED BY <1>7, <2>5, <3>1, <3>2, <3>3 DEF Rename, Saving
  <2>6. \A t \in Specs : UpdateOK(t)'
    BY <1>7, <2>5 DEF Rename, UpdateOK, Alive, Saving
  <2>7. \A e \in replaced' : Known(e.file.holds) = e.stored
    BY <1>7, <2>1 DEF Rename, UpdateInv
  <2> QED BY <2>2, <2>3, <2>4, <2>6, <2>7
<1>8. CASE Fail(s)
  BY <1>8 DEF Fail, Return, Go, TypeOK, NoUpdateLost, UpdateInv, UpdateOK, Alive
<1> QED
  BY <1>1, <1>2, <1>3, <1>4, <1>5, <1>6, <1>7, <1>8 DEF Step

LEMMA NextUpdates == IInv /\ UInv /\ [Next]_vars => UInv'
<1> SUFFICES ASSUME IInv, UInv, [Next]_vars PROVE UInv'
  OBVIOUS
<1>1. CASE \E p \in Processes : Kill(p)
  BY <1>1 DEF Kill, UInv, NoUpdateLost, UpdateInv, UpdateOK, Alive
<1>2. CASE PowerLoss
  <2>1. \/ power' = "off" /\ file' = file
        \/ power' = "undone" /\ \E e \in replaced : file' = e.file
    BY <1>2, AfterPowerLoss
  <2>2. \A s \in Specs : ProcessOf[s] \in killed'
    BY <1>2, SnapshotAssumption DEF PowerLoss, Processes
  <2>3. NoUpdateLost'
    BY <1>2, <2>1 DEF PowerLoss, UInv, NoUpdateLost, UpdateInv, Known, Object
  <2>4. UpdateInv'
    BY <1>2, <2>2 DEF PowerLoss, UInv, UpdateInv, UpdateOK, Alive, Known, Object
  <2> QED BY <2>3, <2>4 DEF UInv
<1>3. CASE Flush
  BY <1>3 DEF Flush, UInv, NoUpdateLost, UpdateInv, UpdateOK, Alive
<1>4. CASE UNCHANGED vars
  BY <1>4 DEF vars, outside, UInv, NoUpdateLost, UpdateInv, UpdateOK, Alive
<1> QED BY <1>1, <1>2, <1>3, <1>4, StepUpdates DEF Next

\* As long as no two processes update the file at once the file holds the last value saved under each
\* name and all it held before, whatever fails or dies; a loss of power takes it back at most to what it
\* held before one of the saves that had not reached the disk.
THEOREM NoUpdateIsLost == Spec => []NoUpdateLost
<1>1. UInv => NoUpdateLost
  BY DEF UInv
<1> QED BY <1>1, InitInv, NextInv, InitUpdates, NextUpdates, PTL DEF Spec
-----------------------------------------------------------------------------
LEMMA InitVerdicts == Init => VerdictInv
  BY SnapshotAssumption DEF Init, VerdictInv, VerdictOK

\* A step that gives no verdict, and loads nothing to compare, leaves the verdicts as they are.
LEMMA QuietStep ==
  ASSUME VerdictInv, NEW s \in Specs, at[s] # "done", at' = [at EXCEPT ![s] = at'[s]],
         at'[s] # "compare", DOMAIN at = Specs,
         \A t \in Specs : t # s => data'[t] = data[t],
         UNCHANGED <<updating, file, name, value, verdict, power, stored>>
  PROVE  VerdictInv'
<1>1. VerdictOK(s)'
  <2>1. verdict'[s] = None
    BY DEF VerdictInv, VerdictOK
  <2> QED BY <2>1, SnapshotAssumption DEF VerdictOK
<1>2. ASSUME NEW t \in Specs, t # s PROVE VerdictOK(t)'
  <2>1. VerdictOK(t) /\ at'[t] = at[t] /\ data'[t] = data[t]
    BY <1>2 DEF VerdictInv
  <2> QED BY <2>1 DEF VerdictOK, Updater, Object, SavedIn
<1> QED BY <1>1, <1>2 DEF VerdictInv

\* What an update that passed saved stays, under its name, when another saves.
LEMMA SavedStays ==
  ASSUME TypeOK, NEW s \in Specs, NEW t \in Specs, NEW v, verdict[s] = None,
         verdict' = [verdict EXCEPT ![s] = v], UNCHANGED <<updating, name, value>>,
         \/ stored' = stored
         \/ Updater(s) /\ v = "passed" /\ stored' = Set(stored, name[s], value[s]),
         SavedIn(stored, t)
  PROVE  SavedIn(stored, t)'
<1>1. PICK u \in Specs : /\ Updater(u) /\ verdict[u] = "passed"
                        /\ name[u] = name[t] /\ stored[name[t]] = value[u]
  BY DEF SavedIn
<1>2. u # s /\ verdict'[u] = "passed" /\ Updater(u)'
  BY <1>1, SnapshotAssumption DEF TypeOK, Updater
<1>3. CASE stored'[name[t]] = stored[name[t]] /\ DOMAIN stored \subseteq DOMAIN stored'
  BY <1>1, <1>2, <1>3 DEF SavedIn
<1>4. CASE /\ name[s] = name[t] /\ Updater(s) /\ v = "passed"
           /\ stored' = Set(stored, name[s], value[s])
  <2>1. name[t] \in DOMAIN stored' /\ stored'[name[t]] = value[s]
    BY <1>4 DEF Set
  <2>2. verdict'[s] = "passed" /\ Updater(s)'
    BY <1>4 DEF TypeOK, Updater
  <2> QED BY <1>4, <2>1, <2>2 DEF SavedIn
<1> QED
  BY <1>3, <1>4 DEF Set, SavedIn

\* A step that ends in a verdict of its own leaves those of the others.
LEMMA OwnVerdict ==
  ASSUME TypeOK, VerdictInv, NEW s \in Specs, NEW v, at[s] # "done", Return(s, v), VerdictOK(s)',
         UNCHANGED <<updating, name, value, data, power>>, power = "on",
         \/ stored' = stored
         \/ /\ Updater(s) /\ v = "passed"
            /\ Object(file.holds) => stored' = Set(stored, name[s], value[s]),
         Object(file.holds) => Object(file'.holds)
  PROVE  VerdictInv'
<1>0. verdict[s] = None
  BY DEF VerdictInv, VerdictOK
<1>1. ASSUME NEW t \in Specs, t # s PROVE VerdictOK(t)'
  <2>1. VerdictOK(t) /\ at'[t] = at[t] /\ verdict'[t] = verdict[t]
    BY <1>1 DEF VerdictInv, Return, Go, TypeOK
  <2>2. ASSUME Updater(t), verdict[t] = "passed"
        PROVE  SavedIn(stored, t)' /\ Object(file'.holds)
    <3>1. SavedIn(stored, t) /\ Object(file.holds)
      BY <2>1, <2>2 DEF VerdictOK
    <3> QED BY <1>0, <3>1, SavedStays DEF Return
  <2> QED BY <2>1, <2>2 DEF VerdictOK, Updater
<1> QED BY <1>1 DEF VerdictInv

LEMMA StepVerdicts ==
  ASSUME IInv, VerdictInv, NEW s \in Specs, Step(s)
  PROVE  VerdictInv'
<1> USE SnapshotAssumption DEF IInv, outside
<1>t. DOMAIN at = Specs /\ DOMAIN verdict = Specs
  BY DEF TypeOK
<1>a. Alive(s) /\ at[s] # "done" /\ power = "on"
  <2>1. Alive(s) /\ at[s] # "done"
    BY DEF Step, Lock, Load, Compare, CreateTemp, Write, Sync, Rename, Fail, In
  <2> QED BY <2>1, Running
<1>1. CASE Lock(s)
  BY <1>1, <1>t, QuietStep DEF Lock, In, Go
<1>2. CASE Load(s)
  <2>1. CASE Return(s, "error") /\ UNCHANGED data
    <3>1. VerdictOK(s)'
      BY <1>2, <2>1, <1>t DEF Load, Return, In, Go, VerdictOK, Updater
    <3> QED BY <1>2, <1>a, <2>1, <3>1, OwnVerdict DEF Load
  <2>2. CASE /\ data' = [data EXCEPT ![s] = Known(file.holds)]
             /\ Go(s, IF Updater(s) THEN "change" ELSE "compare")
             /\ UNCHANGED <<locks, verdict>>
    <3>1. data'[s] \in Snapshots /\ \A t \in Specs : t # s => data'[t] = data[t]
      BY <2>2, KnownIsSnapshot DEF TypeOK, File
    <3>2. verdict[s] = None
      BY <1>2 DEF Load, In, VerdictInv, VerdictOK
    <3>3. VerdictOK(s)'
      BY <1>2, <2>2, <1>t, <3>1, <3>2 DEF Load, In, Go, VerdictOK, Updater
    <3>4. ASSUME NEW t \in Specs, t # s PROVE VerdictOK(t)'
      <4>1. VerdictOK(t) /\ at'[t] = at[t] /\ data'[t] = data[t]
        BY <1>t, <2>2, <3>1, <3>4 DEF VerdictInv, Go
      <4> QED BY <1>2, <2>2, <4>1 DEF Load, VerdictOK, Updater, Object, SavedIn
    <3> QED BY <3>3, <3>4 DEF VerdictInv
  <2> QED BY <1>2, <2>1, <2>2 DEF Load
<1>3. CASE Compare(s)
  <2>1. data[s] \in Snapshots /\ ~Updater(s)
    BY <1>3 DEF Compare, In, VerdictInv, VerdictOK, SaveInv, ProgressOK
  <2> DEFINE same == canonicalizeNumber(data[s][name[s]]) = canonicalizeNumber(value[s])
  <2> HIDE DEF same
  <2>2. Return(s, IF name[s] \notin DOMAIN data[s] THEN "missing" ELSE IF same THEN "passed" ELSE "mismatch")
    BY <1>3 DEF Compare, same
  <2>3. VerdictOK(s)'
    <3>1. /\ verdict'[s] \in {"passed", "mismatch"} => name[s] \in DOMAIN data[s] /\ (verdict'[s] = "passed" <=> same)
          /\ at'[s] = "done"
      BY <2>2, <1>t DEF Return, Go
    <3> QED BY <1>3, <2>1, <3>1 DEF Compare, VerdictOK, Updater, same
  <2> QED BY <1>3, <1>a, <2>2, <2>3, OwnVerdict DEF Compare
<1>4. CASE CreateTemp(s)
  BY <1>4, <1>t, QuietStep DEF CreateTemp, In, Go, TypeOK
<1>5. CASE Write(s)
  BY <1>5, <1>t, QuietStep DEF Write, In, Go
<1>6. CASE Sync(s)
  BY <1>6, <1>t, QuietStep DEF Sync, In, Go
<1>7. CASE Rename(s)
  <2>1. temp[s].holds = data[s] /\ data[s] \in Snapshots /\ Updater(s)
    BY <1>7 DEF Rename, In, SaveInv, ProgressOK, Saving
  <2>2. Object(file'.holds)
    BY <1>7, <2>1 DEF Rename, Object
  <2>3. /\ name[s] \in DOMAIN stored' /\ stored'[name[s]] = value[s]
        /\ Object(file.holds) => stored' = Set(stored, name[s], value[s])
    BY <1>7 DEF Rename, Set
  <2>4. verdict'[s] = "passed" /\ at'[s] = "done" /\ Updater(s)'
    BY <1>7, <1>t, <2>1 DEF Rename, Return, Go, Updater
  <2>5. SavedIn(stored, s)'
    BY <1>7, <2>3, <2>4 DEF Rename, SavedIn
  <2>6. VerdictOK(s)'
    BY <2>2, <2>4, <2>5 DEF VerdictOK
  <2> QED BY <1>7, <1>a, <2>1, <2>2, <2>3, <2>6, OwnVerdict DEF Rename
<1>8. CASE Fail(s)
  <2>1. VerdictOK(s)'
    BY <1>8, <1>t DEF Fail, Return, Go, VerdictOK, Updater
  <2> QED BY <1>8, <1>a, <2>1, OwnVerdict DEF Fail
<1> QED
  BY <1>1, <1>2, <1>3, <1>4, <1>5, <1>6, <1>7, <1>8 DEF Step

LEMMA NextVerdicts == IInv /\ VerdictInv /\ [Next]_vars => VerdictInv'
<1> SUFFICES ASSUME IInv, VerdictInv, [Next]_vars PROVE VerdictInv'
  OBVIOUS
<1>1. CASE UNCHANGED <<updating, file, at, name, value, data, verdict, power, stored>>
  BY <1>1 DEF VerdictInv, VerdictOK, Updater, Object, SavedIn
<1>2. CASE Flush \/ \E p \in Processes : Kill(p)
  BY <1>1, <1>2 DEF Flush, Kill
<1>3. CASE PowerLoss
  <2>1. /\ power' = "undone" \/ (power' = "off" /\ file' = file)
        /\ power # "undone"
    BY <1>3, AfterPowerLoss DEF PowerLoss
  <2>2. ASSUME NEW s \in Specs PROVE VerdictOK(s)'
    <3>1. VerdictOK(s)
      BY DEF VerdictInv
    <3> QED BY <1>3, <2>1, <3>1 DEF PowerLoss, VerdictOK, Updater, Object, SavedIn
  <2> QED BY <2>2 DEF VerdictInv
<1>4. CASE UNCHANGED vars
  BY <1>1, <1>4 DEF vars, outside
<1> QED BY <1>2, <1>3, <1>4, StepVerdicts DEF Next

\* Two literals have one canonical form exactly when they are the same number.
Exact == \A k, l \in Literals : canonicalizeNumber(k) = canonicalizeNumber(l) <=> SameNumber(k, l)

\* Where canonical forms are exact, a comparison passes only with a number that was in the file when it
\* was loaded and equals the new one, and reports a mismatch only with one that differs; and unless two
\* processes updated at once or a rename was undone, an update passes only if the file then holds, under
\* its name, its value or that of another that passed: whatever the others do, fail at or die of (Evaluate).
THEOREM VerdictsAreTrue ==
  ASSUME Exact
  PROVE  Spec => []VerdictIsTrue
<1>1. IInv /\ UInv /\ VerdictInv => VerdictIsTrue
  <2> SUFFICES ASSUME IInv, UInv, VerdictInv, NEW s \in Specs
               PROVE  /\ (~Updater(s) /\ verdict[s] \in {"passed", "mismatch"}) =>
                           (verdict[s] = "passed" <=> SameNumber(data[s][name[s]], value[s]))
                      /\ (Updater(s) /\ verdict[s] # None) => verdict[s] \in {"passed", "error"}
                      /\ (Updater(s) /\ verdict[s] = "passed" /\ ~overlap /\ power # "undone") =>
                           Object(file.holds) /\ SavedIn(file.holds, s)
    BY DEF VerdictIsTrue
  <2>1. VerdictOK(s)
    BY DEF VerdictInv
  <2>2. ASSUME data[s] \in Snapshots, name[s] \in DOMAIN data[s]
        PROVE  data[s][name[s]] \in Literals /\ value[s] \in Literals
    BY <2>2, SnapshotAssumption DEF Snapshots, IInv, TypeOK
  <2>3. ASSUME Updater(s), verdict[s] = "passed", ~overlap, power # "undone"
        PROVE  Object(file.holds) /\ SavedIn(file.holds, s)
    <3>1. Object(file.holds) /\ SavedIn(stored, s)
      BY <2>1, <2>3 DEF VerdictOK
    <3>2. file.holds = stored
      BY <2>3, <3>1 DEF UInv, NoUpdateLost, Known
    <3> QED BY <3>1, <3>2
  <2> QED BY <2>1, <2>2, <2>3 DEF VerdictOK, Exact
<1> QED BY <1>1, InitInv, NextInv, InitUpdates, NextUpdates, InitVerdicts, NextVerdicts, PTL DEF Spec
=============================================================================

----------------------------- MODULE SnapshotStore -----------------------------
(***************************************************************************)
(* snapshots.Evaluate: specs on several goroutines of several test         *)
(* processes compare with, or update, the snapshots of one file.  A lock   *)
(* of the process covers load, change and save; the file is replaced by a  *)
(* rename.  Any call may fail, a process may be killed and the machine may *)
(* lose power; the directory is never synced, so that a rename may then be *)
(* undone.                                                                 *)
(*                                                                         *)
(* The content of a file is a function from snapshot names to JSON values, *)
(* here number literals, or Garbage (text that is no JSON object), or Torn *)
(* (a prefix of what was written).                                         *)
(***************************************************************************)
EXTENDS JSONNumber, FiniteSets

CONSTANTS
  Specs,        \* goroutines that call Evaluate, once each
  ProcessOf,    \* the process of each
  Names,
  Literals,     \* the numbers a snapshot may hold
  Values,       \* those that specs compare it with
  Updates,      \* the processes run with GO_SPECS_UPDATE_SNAPSHOTS=1, one choice of a set of choices
  Contents,     \* what the file may hold at first
  Absent, Garbage, Torn, None

Processes == {ProcessOf[s] : s \in Specs}

\* What a file that parses holds.
Snapshots == UNION {[D -> Literals] : D \in SUBSET Names}
ASSUME SnapshotAssumption ==
  /\ DOMAIN ProcessOf = Specs /\ None \notin Specs \cup {"passed", "mismatch", "missing", "error"}
  /\ Values \subseteq Literals
  /\ Updates \subseteq SUBSET Processes /\ Contents \subseteq Snapshots \cup {Absent, Garbage}
  /\ {Absent, Garbage, Torn} \cap Snapshots = {} /\ Torn \notin {Absent, Garbage}

VARIABLES
  updating,  \* the processes in update mode
  file,      \* the snapshot file: what it holds, and whether that is on the disk
  temp,      \* the temporary file of each spec: what it holds, and whether that is on the disk
  locks,     \* fileLocks: who holds the lock of each process, or None
  at, name, value, data, verdict,   \* of each spec
  killed,    \* processes that were killed
  replaced,  \* the files replaced since the directory was last on the disk, each with what was stored then
  power,     \* "on", "off", or "undone": off, and an earlier file is back
  stored,    \* history: the last value saved under each name, or the value at first
  overlap    \* history: a process replaced the file while another process was between load and save
outside == <<killed, replaced, power>>
vars == <<updating, file, temp, locks, at, name, value, data, verdict, outside, stored, overlap>>

Object(c)  == c \notin {Absent, Garbage, Torn}
Empty      == [n \in {} |-> None]
Known(c)   == IF Object(c) THEN c ELSE Empty

Init ==
  /\ updating \in Updates
  /\ \E c \in Contents : file = [holds |-> c, synced |-> TRUE] /\ stored = Known(c)
  /\ temp = [s \in Specs |-> None]
  /\ locks = [p \in Processes |-> None]
  /\ at = [s \in Specs |-> "start"]
  /\ name \in [Specs -> Names] /\ value \in [Specs -> Values]
  /\ data = [s \in Specs |-> Absent]
  /\ verdict = [s \in Specs |-> None]
  /\ killed = {} /\ replaced = {} /\ power = "on" /\ overlap = FALSE

Alive(s)  == ProcessOf[s] \notin killed
In(s, a)  == at[s] = a /\ Alive(s)
Go(s, a)  == at' = [at EXCEPT ![s] = a]
Updater(s) == ProcessOf[s] \in updating
Unlocked(s) == [locks EXCEPT ![ProcessOf[s]] = None]

\* Mutant: specs that name the file differently have locks of their own.
Lock_OfItsOwn(s) ==
  /\ In(s, "start")
  /\ locks' = [locks EXCEPT ![ProcessOf[s]] = s] /\ Go(s, "locked")
  /\ UNCHANGED <<updating, file, temp, name, value, data, verdict, outside, stored, overlap>>
Lock(s) ==
  /\ In(s, "start") /\ locks[ProcessOf[s]] = None
  /\ locks' = [locks EXCEPT ![ProcessOf[s]] = s] /\ Go(s, "locked")
  /\ UNCHANGED <<updating, file, temp, name, value, data, verdict, outside, stored, overlap>>

\* Every return is a verdict, and releases the lock.
Return(s, v) ==
  /\ verdict' = [verdict EXCEPT ![s] = v] /\ Go(s, "done") /\ locks' = Unlocked(s)

\* An absent file is an empty one; text that does not parse is one only for an update.
Load(s) ==
  /\ In(s, "locked")
  /\ \/ /\ file.holds \in {Garbage, Torn} /\ ~Updater(s)
        /\ Return(s, "error") /\ UNCHANGED data
     \/ /\ file.holds \notin {Garbage, Torn} \/ Updater(s)
        /\ data' = [data EXCEPT ![s] = Known(file.holds)]
        /\ Go(s, IF Updater(s) THEN "change" ELSE "compare")
        /\ UNCHANGED <<locks, verdict>>
  /\ UNCHANGED <<updating, file, temp, name, value, outside, stored, overlap>>

\* Mutant: numbers are compared as they are written.
Compare_AsWritten(s) ==
  /\ In(s, "compare")
  /\ Return(s, IF name[s] \notin DOMAIN data[s] THEN "missing"
               ELSE IF data[s][name[s]] = value[s] THEN "passed" ELSE "mismatch")
  /\ UNCHANGED <<updating, file, temp, name, value, data, outside, stored, overlap>>
Compare(s) ==
  /\ In(s, "compare")
  /\ Return(s, IF name[s] \notin DOMAIN data[s] THEN "missing"
               ELSE IF canonicalizeNumber(data[s][name[s]]) = canonicalizeNumber(value[s])
                    THEN "passed" ELSE "mismatch")
  /\ UNCHANGED <<updating, file, temp, name, value, data, outside, stored, overlap>>

Set(f, n, v) == [k \in DOMAIN f \cup {n} |-> IF k = n THEN v ELSE f[k]]

CreateTemp(s) ==
  /\ In(s, "change")
  /\ data' = [data EXCEPT ![s] = Set(@, name[s], value[s])]
  /\ temp' = [temp EXCEPT ![s] = [holds |-> Torn, synced |-> TRUE]] /\ Go(s, "write")
  /\ UNCHANGED <<updating, file, locks, name, value, verdict, outside, stored, overlap>>

Write(s) ==
  /\ In(s, "write")
  /\ temp' = [temp EXCEPT ![s] = [holds |-> data[s], synced |-> FALSE]] /\ Go(s, "sync")
  /\ UNCHANGED <<updating, file, locks, name, value, data, verdict, outside, stored, overlap>>

\* Mutant: the content is left to the operating system.
Sync_Skipped(s) ==
  /\ In(s, "sync") /\ Go(s, "rename")
  /\ UNCHANGED <<updating, file, temp, locks, name, value, data, verdict, outside, stored, overlap>>
Sync(s) ==
  /\ In(s, "sync")
  /\ temp' = [temp EXCEPT ![s].synced = TRUE] /\ Go(s, "rename")
  /\ UNCHANGED <<updating, file, locks, name, value, data, verdict, outside, stored, overlap>>

\* The directory that holds the new name is not synced.
Rename(s) ==
  /\ In(s, "rename")
  /\ file' = temp[s] /\ temp' = [temp EXCEPT ![s] = None]
  /\ replaced' = replaced \cup {[file |-> file, stored |-> stored]}
  /\ stored' = IF Object(file.holds) THEN Set(stored, name[s], value[s])
                                     ELSE Set(Empty, name[s], value[s])
  /\ overlap' = (overlap \/ \E t \in Specs : /\ ProcessOf[t] # ProcessOf[s] /\ Alive(t) /\ Updater(t)
                                             /\ at[t] \in {"change", "write", "sync", "rename"})
  /\ Return(s, "passed")
  /\ UNCHANGED <<updating, name, value, data, killed, power>>

\* Mutant: a failing save returns without releasing the lock.
Fail_KeepsLock(s) ==
  /\ Alive(s) /\ at[s] \in {"locked", "change", "write", "sync", "rename"}
  /\ temp' = [temp EXCEPT ![s] = None] /\ verdict' = [verdict EXCEPT ![s] = "error"] /\ Go(s, "done")
  /\ UNCHANGED <<updating, file, locks, name, value, data, outside, stored, overlap>>

\* A read error, or one of mkdir, create, write, sync, close, chmod and rename: the temporary file is
\* removed and the snapshot file left as it is.
Fail(s) ==
  /\ Alive(s) /\ at[s] \in {"locked", "change", "write", "sync", "rename"}
  /\ temp' = [temp EXCEPT ![s] = None]
  /\ Return(s, "error")
  /\ UNCHANGED <<updating, file, name, value, data, outside, stored, overlap>>

-----------------------------------------------------------------------------
(* Outside the code.                                                       *)

Kill(p) ==
  /\ power = "on" /\ p \notin killed /\ killed' = killed \cup {p}
  /\ UNCHANGED <<updating, file, temp, locks, at, name, value, data, verdict, replaced, power, stored, overlap>>

\* The operating system writes the directory to the disk.
Flush ==
  /\ power = "on" /\ replaced # {} /\ replaced' = {}
  /\ UNCHANGED <<updating, file, temp, locks, at, name, value, data, verdict, killed, power, stored, overlap>>

\* What is not synced is torn.  The renames may have reached the disk, or all after one of them have not.
Survivor(f) == IF f = None \/ f.synced THEN f ELSE [holds |-> Torn, synced |-> TRUE]
PowerLoss ==
  /\ power = "on" /\ killed' = Processes
  /\ \/ power' = "off" /\ file' = Survivor(file)
     \/ power' = "undone" /\ \E e \in replaced : file' = Survivor(e.file)
  /\ temp' = [s \in Specs |-> Survivor(temp[s])]
  /\ UNCHANGED <<updating, locks, at, name, value, data, verdict, replaced, stored, overlap>>

Step(s) == Lock(s) \/ Load(s) \/ Compare(s) \/ CreateTemp(s) \/ Write(s) \/ Sync(s) \/ Rename(s) \/ Fail(s)
Next == (\E s \in Specs : Step(s)) \/ (\E p \in Processes : Kill(p)) \/ Flush \/ PowerLoss

Spec == Init /\ [][Next]_vars

-----------------------------------------------------------------------------
(* Properties.                                                             *)

File == [holds : Snapshots \cup {Absent, Garbage, Torn}, synced : BOOLEAN]

\* Variables keep their types, and whoever is past the lock of its process holds it (lockFor, Evaluate).
TypeOK ==
  /\ updating \subseteq Processes /\ killed \subseteq Processes /\ overlap \in BOOLEAN
  /\ file \in File /\ temp \in [Specs -> File \cup {None}]
  /\ data \in [Specs -> Snapshots \cup {Absent}] /\ stored \in Snapshots
  /\ replaced \subseteq [file : File, stored : Snapshots]
  /\ power \in {"on", "off", "undone"} /\ (power # "on" => killed = Processes)
  /\ locks \in [Processes -> Specs \cup {None}]
  /\ at \in [Specs -> {"start", "locked", "compare", "change", "write", "sync", "rename", "done"}]
  /\ name \in [Specs -> Names] /\ value \in [Specs -> Values]
  /\ verdict \in [Specs -> {None, "passed", "mismatch", "missing", "error"}]
  /\ \A s \in Specs : at[s] \notin {"start", "done"} <=> locks[ProcessOf[s]] = s

\* Whatever fails, dies or loses power, the snapshot file is never a part of what was written, and a Save
\* that returns leaves no temporary file (Save, writeAtomic).
FileIsWhole ==
  /\ file.holds # Torn
  /\ \A s \in Specs : (at[s] = "done" /\ killed = {}) => temp[s] = None

\* Why the file is whole: what a spec is about to rename is what it wrote, synced.
Saving == {"change", "write", "sync", "rename"}
ProgressOK(s) ==
  /\ at[s] = "compare" => ~Updater(s)
  /\ at[s] \in Saving => Updater(s) /\ data[s] \in Snapshots
  /\ at[s] \in {"start", "locked", "compare", "change"} => temp[s] = None
  /\ at[s] = "done" /\ killed = {} => temp[s] = None
  /\ at[s] \in {"write", "sync", "rename"} => temp[s] \in File
  /\ Alive(s) /\ at[s] \in {"sync", "rename"} => temp[s].holds = data[s]
  /\ Alive(s) /\ at[s] = "rename" => temp[s].synced
SaveInv ==
  /\ file.synced /\ \A e \in replaced : e.file.synced /\ e.file.holds # Torn
  /\ \A s \in Specs : ProgressOK(s)

\* As long as no two processes update the file at once, no update is lost to a failing call, to the death
\* of a process, to another spec or to an unparseable file: the file holds the last value saved under every
\* name and all the snapshots it held before.  A loss of power may take back the last saves, from some one
\* on, but none that had reached the disk, and never one without those after it (fileLocks, Save).
NoUpdateLost ==
  ~overlap => IF power = "undone" THEN \E e \in replaced : Known(file.holds) = e.stored
                                  ELSE Known(file.holds) = stored

\* Why no update is lost: what a spec is about to save is what is stored, with its own value, and
\* so was it with the files that may come back.
UpdateOK(s) ==
  Alive(s) =>
    /\ at[s] = "change" => data[s] = stored
    /\ at[s] \in {"write", "sync", "rename"} => data[s] = Set(stored, name[s], value[s])
UpdateInv ==
  ~overlap => /\ \A s \in Specs : UpdateOK(s)
              /\ \A e \in replaced : Known(e.file.holds) = e.stored

\* An update that passed: its value, or that of a later one of its name, is under that name.
SavedIn(f, s) ==
  /\ name[s] \in DOMAIN f
  /\ \E t \in Specs : /\ Updater(t) /\ verdict[t] = "passed"
                      /\ name[t] = name[s] /\ f[name[s]] = value[t]

\* A verdict "passed" of a comparison means that the stored number equals the new one, and "mismatch" that
\* it does not, by value and not by text; after an update that passed the file holds its value or that of
\* another of the name that passed, unless processes updated at once or a rename was undone (Evaluate).
VerdictIsTrue ==
  \A s \in Specs :
    /\ (~Updater(s) /\ verdict[s] \in {"passed", "mismatch"}) =>
         (verdict[s] = "passed" <=> SameNumber(data[s][name[s]], value[s]))
    /\ (Updater(s) /\ verdict[s] # None) => verdict[s] \in {"passed", "error"}
    /\ (Updater(s) /\ verdict[s] = "passed" /\ ~overlap /\ power # "undone") =>
         Object(file.holds) /\ SavedIn(file.holds, s)

\* Why it is: who has a verdict is done and its data stay; the canonical forms are compared of a number
\* that is there; and once an update has passed the file holds an object as long as there is power, so that
\* no later one starts anew.
VerdictOK(s) ==
  /\ verdict[s] # None => at[s] = "done"
  /\ at[s] = "compare" => data[s] \in Snapshots
  /\ ~Updater(s) /\ verdict[s] \in {"passed", "mismatch"} =>
       /\ data[s] \in Snapshots /\ name[s] \in DOMAIN data[s]
       /\ verdict[s] = "passed" <=>
            canonicalizeNumber(data[s][name[s]]) = canonicalizeNumber(value[s])
  /\ Updater(s) /\ verdict[s] # None => verdict[s] \in {"passed", "error"}
  /\ Updater(s) /\ verdict[s] = "passed" =>
       SavedIn(stored, s) /\ (power # "undone" => Object(file.holds))
VerdictInv == \A s \in Specs : VerdictOK(s)
=============================================================================

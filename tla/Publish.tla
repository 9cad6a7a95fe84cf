------------------------------- MODULE Publish -------------------------------
(***************************************************************************)
(* report/coordination/publish.go: processes that publish a file under one *)
(* final name, each through a temporary file named after its PID and a     *)
(* link(2) that does not replace.  Over NFS the reply of a link may get    *)
(* lost and the client's retry then finds the file its own link created.   *)
(* Processes of different hosts or containers may share a PID.             *)
(***************************************************************************)
EXTENDS Naturals

CONSTANTS Writers, Pids, NoOne,
          Pid            \* the PID of each writer
ASSUME PublishAssumption ==
  /\ NoOne \notin Writers
  /\ Pid \in [Writers -> Pids]

VARIABLES
  at,        \* progress of each writer in writeAndPublish and publishExclusive
  temp,      \* whose temporary file has the name of each PID
  content,   \* how much of its file each writer has written and synced
  file,      \* whose file has the final name
  will,      \* the verdict a writer returns once it has removed its temporary file
  verdict,   \* what writeAndPublish returned
  saw        \* the link count each writer read, 0 when it read none
vars == <<at, temp, content, file, will, verdict, saw>>

Init ==
  /\ at = [w \in Writers |-> "new"]
  /\ temp = [p \in Pids |-> NoOne]
  /\ content = [w \in Writers |-> "none"]
  /\ file = NoOne
  /\ will = [w \in Writers |-> "none"]
  /\ verdict = [w \in Writers |-> "pending"]
  /\ saw = [w \in Writers |-> 0]

Become(w, s) == at[w] # "ended" /\ at' = [at EXCEPT ![w] = s]

\* O_CREATE|O_EXCL
MayCreate(w) == temp[Pid[w]] = NoOne

CreateTemp(w) ==
  /\ at[w] = "new" /\ MayCreate(w)
  /\ Become(w, "created")
  /\ temp' = [temp EXCEPT ![Pid[w]] = w]
  /\ content' = [content EXCEPT ![w] = "partial"]
  /\ UNCHANGED <<file, will, verdict, saw>>

\* The name is taken, or the file cannot be created: nothing to remove.
CreateFails(w) ==
  /\ at[w] = "new"
  /\ Become(w, "ended")
  /\ verdict' = [verdict EXCEPT ![w] = "failed"]
  /\ UNCHANGED <<temp, content, file, will, saw>>

\* Write, Sync and Close.
WriteAll(w) ==
  /\ at[w] = "created"
  /\ Become(w, "synced")
  /\ content' = [content EXCEPT ![w] = "whole"]
  /\ UNCHANGED <<temp, file, will, verdict, saw>>

WillReturn(w, v) ==
  /\ Become(w, "removing")
  /\ will' = [will EXCEPT ![w] = v]
  /\ UNCHANGED <<temp, content, verdict>>

WriteFails(w) ==
  /\ at[w] = "created"
  /\ WillReturn(w, "failed")
  /\ UNCHANGED <<file, saw>>

Ready(w) == at[w] \in {"synced", "retrying"}

\* link(2): the final name is given to whatever file has the temporary name.
Linked(w) ==
  /\ Ready(w) /\ file = NoOne /\ temp[Pid[w]] # NoOne
  /\ file' = temp[Pid[w]]

LinkSucceeds(w) ==
  /\ Linked(w)
  /\ WillReturn(w, "published")
  /\ UNCHANGED saw

LinkReplyIsLost(w) ==
  /\ Linked(w)
  /\ Become(w, "retrying")
  /\ UNCHANGED <<temp, content, will, verdict, saw>>

LinkExists(w) ==
  /\ Ready(w) /\ file # NoOne
  /\ Become(w, "counting")
  /\ UNCHANGED <<temp, content, file, will, verdict, saw>>

\* Mutant: the error is not returned.
LinkFails_Silently(w) ==
  /\ Ready(w)
  /\ Become(w, "removing")
  /\ UNCHANGED <<temp, content, file, will, verdict, saw>>
\* Any error but EEXIST, whether or not the server made the link.
LinkFails(w) ==
  /\ Ready(w)
  /\ WillReturn(w, "failed")
  /\ UNCHANGED <<file, saw>>

Links(o) ==
  (IF o = file THEN 1 ELSE 0) + (IF \E p \in Pids : temp[p] = o THEN 1 ELSE 0)

\* Mutant: the count of the destination.
Counted_Final(w) == file
\* linkCount(tmpPath)
Counted(w) == temp[Pid[w]]

\* Mutant: no recovery.
Recovered_Never(n) == FALSE
\* The temporary file has two names: this writer's own link was made.
Recovered(n) == n = 2

CountLinks(w) ==
  /\ at[w] = "counting" /\ Counted(w) # NoOne
  /\ saw' = [saw EXCEPT ![w] = Links(Counted(w))]
  /\ WillReturn(w, IF Recovered(saw'[w]) THEN "published" ELSE "duplicate")
  /\ UNCHANGED file

CountFails(w) ==
  /\ at[w] = "counting"
  /\ WillReturn(w, "duplicate")
  /\ UNCHANGED <<file, saw>>

\* The error of the remove is dropped: the file may stay behind as litter.
RemoveTemp(w) ==
  /\ at[w] = "removing"
  /\ \E removed \in BOOLEAN :
       temp' = IF removed THEN [temp EXCEPT ![Pid[w]] = NoOne] ELSE temp
  /\ Become(w, "ended")
  /\ verdict' = [verdict EXCEPT ![w] = will[w]]
  /\ UNCHANGED <<content, file, will, saw>>

\* The process dies; its temporary file stays.
Crash(w) ==
  /\ Become(w, "ended")
  /\ verdict' = [verdict EXCEPT ![w] = "crashed"]
  /\ UNCHANGED <<temp, content, file, will, saw>>

Step(w) ==
  \/ CreateTemp(w) \/ CreateFails(w) \/ WriteAll(w) \/ WriteFails(w)
  \/ LinkSucceeds(w) \/ LinkReplyIsLost(w) \/ LinkExists(w) \/ LinkFails(w)
  \/ CountLinks(w) \/ CountFails(w) \/ RemoveTemp(w) \/ Crash(w)

Next == \E w \in Writers : Step(w)

Spec == Init /\ [][Next]_vars

-----------------------------------------------------------------------------
(* Properties.                                                             *)

\* The type of every variable (publish.go).
TypeOK ==
  /\ at \in [Writers -> {"new", "created", "synced", "retrying", "counting", "removing", "ended"}]
  /\ temp \in [Pids -> Writers \cup {NoOne}]
  /\ content \in [Writers -> {"none", "partial", "whole"}]
  /\ file \in Writers \cup {NoOne}
  /\ will \in [Writers -> {"none", "published", "duplicate", "failed"}]
  /\ verdict \in [Writers -> {"pending", "published", "duplicate", "failed", "crashed"}]
  /\ saw \in [Writers -> 0..2]

WholeOrAbsent == file # NoOne => content[file] = "whole"

DuplicateIsAnothers ==
  \A w \in Writers : verdict[w] = "duplicate" /\ saw[w] # 0 => file # w

\* A file is discoverable under its final name only when all of it is on disk, whatever crashed and
\* whoever shares a PID, and a writer that could read its link count is told of a duplicate only when
\* another writer's file is there: a lost reply never fails a correct publish (comments of
\* writeAndPublish and publishExclusive).
PublishedIsTrue == WholeOrAbsent /\ DuplicateIsAnothers

\* Temporary files, what a writer saw and where it is are hidden from the abstract specification.
Abstract == INSTANCE ExclusiveCreate WITH
  Writers <- Writers, NoOne <- NoOne, owner <- file, told <- verdict

\* The protocol, with its temporary files, retries and crashes, is an exclusive create: the
\* file is never replaced and only its creator is told that it published it.
PublishesExclusively == Abstract!Spec
=============================================================================

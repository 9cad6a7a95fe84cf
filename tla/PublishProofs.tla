---------------------------- MODULE PublishProofs ----------------------------
(***************************************************************************)
(* Proofs about Publish, for any writers and any sharing of PIDs.          *)
(***************************************************************************)
EXTENDS Publish, TLAPS

Linking == {"synced", "retrying", "counting"}
\* From the exclusive create of its temporary file until it removes it.
Holding == Linking \cup {"created", "removing"}

\* The temporary file of a live writer is its own, although the name is only its PID's.
TempIsOwn == \A w \in Writers : at[w] \in Holding => temp[Pid[w]] = w

\* How much of each file is written follows its writer's progress.
ContentInv ==
  /\ \A w \in Writers : at[w] = "new" => content[w] = "none"
  /\ \A w \in Writers : at[w] \in Linking => content[w] = "whole"

\* The verdict a writer has formed is true of the file, and stays true.
VerdictIsTrue(w, v) ==
  /\ v = "published" => file = w
  /\ v = "duplicate" => file # NoOne /\ (saw[w] # 0 => file # w)

VerdictInv ==
  \A w \in Writers :
    /\ at[w] = "counting" => file # NoOne
    /\ at[w] \notin {"removing", "ended"} => saw[w] = 0
    /\ at[w] = "removing" => will[w] # "none" /\ VerdictIsTrue(w, will[w])
    /\ at[w] # "ended" => verdict[w] = "pending"
    /\ VerdictIsTrue(w, verdict[w])

IInv == TypeOK /\ TempIsOwn /\ ContentInv /\ WholeOrAbsent /\ VerdictInv

\* A writer that reads the link count of its temporary file reads 2 exactly when its link was made.
LEMMA CountTellsOwnLink ==
  ASSUME NEW w \in Writers, TypeOK, temp[Pid[w]] = w
  PROVE  Links(w) = IF file = w THEN 2 ELSE 1
  BY PublishAssumption DEF Links, TypeOK

LEMMA InitInv == Init => IInv
  BY PublishAssumption
  DEF Init, IInv, TypeOK, TempIsOwn, ContentInv, WholeOrAbsent, VerdictInv, VerdictIsTrue,
      Holding, Linking

\* Only the writer that holds a temporary file, or one of its PID before it exists, touches it.
LEMMA StepInv ==
  ASSUME IInv, NEW w \in Writers, Step(w)
  PROVE  IInv'
<1> USE PublishAssumption DEF IInv, Become
<1>t. TypeOK
  OBVIOUS
<1>h. /\ Holding = {"synced", "retrying", "counting", "created", "removing"}
      /\ Linking = {"synced", "retrying", "counting"}
  BY DEF Holding, Linking
<1>1. CASE CreateTemp(w)
  <2>1. TypeOK' /\ TempIsOwn' /\ ContentInv' /\ WholeOrAbsent'
    BY <1>1, <1>h DEF CreateTemp, MayCreate, TypeOK, TempIsOwn, ContentInv, WholeOrAbsent
  <2>2. VerdictInv'
    BY <1>1 DEF CreateTemp, TypeOK, VerdictInv, VerdictIsTrue
  <2> QED BY <2>1, <2>2
<1>2. CASE CreateFails(w)
  BY <1>2, <1>h DEF CreateFails, TypeOK, TempIsOwn, ContentInv, WholeOrAbsent, VerdictInv, VerdictIsTrue
<1>3. CASE WriteAll(w)
  BY <1>3, <1>h DEF WriteAll, TypeOK, TempIsOwn, ContentInv, WholeOrAbsent, VerdictInv, VerdictIsTrue
<1>4. CASE WriteFails(w)
  BY <1>4, <1>h
  DEF WriteFails, WillReturn, TypeOK, TempIsOwn, ContentInv, WholeOrAbsent, VerdictInv, VerdictIsTrue
<1>5. CASE LinkSucceeds(w) \/ LinkReplyIsLost(w)
  <2>1. /\ at[w] \in Linking /\ file = NoOne /\ file' = w
        /\ UNCHANGED <<temp, content, verdict, saw>>
    BY <1>5, <1>h
    DEF LinkSucceeds, LinkReplyIsLost, Linked, Ready, WillReturn, TypeOK, TempIsOwn
  <2>2. TypeOK' /\ TempIsOwn' /\ ContentInv' /\ WholeOrAbsent'
    BY <1>5, <2>1, <1>h
    DEF LinkSucceeds, LinkReplyIsLost, WillReturn, TypeOK, TempIsOwn, ContentInv, WholeOrAbsent
  <2>3. VerdictInv'
    BY <1>5, <2>1, <1>h
    DEF LinkSucceeds, LinkReplyIsLost, WillReturn, TypeOK, VerdictInv, VerdictIsTrue
  <2> QED BY <2>2, <2>3
<1>6. CASE LinkExists(w)
  BY <1>6, <1>h
  DEF LinkExists, Ready, TypeOK, TempIsOwn, ContentInv, WholeOrAbsent, VerdictInv, VerdictIsTrue
<1>7. CASE LinkFails(w)
  BY <1>7, <1>h
  DEF LinkFails, Ready, WillReturn, TypeOK, TempIsOwn, ContentInv, WholeOrAbsent, VerdictInv, VerdictIsTrue
<1>8. CASE CountLinks(w)
  <2>1. saw' = [saw EXCEPT ![w] = IF file = w THEN 2 ELSE 1]
    BY <1>8, <1>h, CountTellsOwnLink DEF CountLinks, Counted, TempIsOwn
  <2>2. will' = [will EXCEPT ![w] = IF file = w THEN "published" ELSE "duplicate"]
    <3>1. saw'[w] = IF file = w THEN 2 ELSE 1
      BY <2>1 DEF TypeOK
    <3>2. Recovered(saw'[w]) <=> file = w
      BY <3>1 DEF Recovered
    <3>3. will' = [will EXCEPT ![w] = IF Recovered(saw'[w]) THEN "published" ELSE "duplicate"]
      BY <1>8 DEF CountLinks, WillReturn
    <3>4. CASE file = w
      BY <3>2, <3>3, <3>4
    <3>5. CASE file # w
      BY <3>2, <3>3, <3>5
    <3> QED BY <3>4, <3>5
  <2>3. TypeOK' /\ TempIsOwn' /\ ContentInv' /\ WholeOrAbsent'
    BY <1>8, <2>1, <2>2, <1>h
    DEF CountLinks, WillReturn, TypeOK, TempIsOwn, ContentInv, WholeOrAbsent
  <2>4. VerdictInv'
    BY <1>8, <2>1, <2>2 DEF CountLinks, WillReturn, TypeOK, VerdictInv, VerdictIsTrue
  <2> QED BY <2>3, <2>4
<1>9. CASE CountFails(w)
  BY <1>9, <1>h
  DEF CountFails, WillReturn, TypeOK, TempIsOwn, ContentInv, WholeOrAbsent, VerdictInv, VerdictIsTrue
<1>10. CASE RemoveTemp(w)
  <2>1. TypeOK' /\ ContentInv' /\ WholeOrAbsent' /\ VerdictInv'
    BY <1>10, <1>h
    DEF RemoveTemp, TypeOK, ContentInv, WholeOrAbsent, VerdictInv, VerdictIsTrue
  <2>2. TempIsOwn'
    \* Another writer of the same PID cannot hold the temporary file at the same time.
    <3>1. ASSUME NEW u \in Writers, u # w, at[u] \in Holding PROVE Pid[u] # Pid[w]
      BY <1>10, <3>1, <1>h DEF RemoveTemp, TempIsOwn
    <3> QED BY <1>10, <3>1, <1>h DEF RemoveTemp, TempIsOwn, TypeOK
  <2> QED BY <2>1, <2>2
<1>11. CASE Crash(w)
  BY <1>11, <1>h DEF Crash, TypeOK, TempIsOwn, ContentInv, WholeOrAbsent, VerdictInv, VerdictIsTrue
<1> QED BY <1>1, <1>2, <1>3, <1>4, <1>5, <1>6, <1>7, <1>8, <1>9, <1>10, <1>11 DEF Step

LEMMA NextInv == IInv /\ [Next]_vars => IInv'
<1>1. CASE UNCHANGED vars
  BY <1>1
  DEF vars, IInv, TypeOK, TempIsOwn, ContentInv, WholeOrAbsent, VerdictInv, VerdictIsTrue
<1> QED BY <1>1, StepInv DEF Next

LEMMA Invariance == Spec => []IInv
<1> QED BY InitInv, NextInv, PTL DEF Spec

\* Every variable of the protocol keeps its type.
THEOREM TypeCorrect == Spec => []TypeOK
<1>1. IInv => TypeOK
  BY DEF IInv
<1> QED BY <1>1, Invariance, PTL

\* What is found under the final name is complete, however many writers crash or share a PID, and
\* the link count tells an own link, whose reply was lost, from another writer's file.
THEOREM PublishedFilesAreTrue == Spec => []PublishedIsTrue
<1>1. IInv => WholeOrAbsent
  BY DEF IInv
<1>2. IInv => DuplicateIsAnothers
  BY DEF IInv, VerdictInv, VerdictIsTrue, DuplicateIsAnothers
<1>3. IInv => PublishedIsTrue
  BY <1>1, <1>2 DEF PublishedIsTrue
<1> QED BY <1>3, Invariance, PTL

-----------------------------------------------------------------------------
(* The refinement.                                                         *)

LEMMA InitRefines == Init => Abstract!Init
  BY DEF Init, Abstract!Init

\* A link is the creation, the end of a writer is its answer; all else is invisible.
LEMMA StepRefines ==
  ASSUME IInv, NEW w \in Writers, Step(w)
  PROVE  Abstract!Next \/ UNCHANGED Abstract!vars
<1> USE DEF Abstract!vars
<1>1. CASE LinkSucceeds(w) \/ LinkReplyIsLost(w)
  <2>1. at[w] \in Holding /\ file = NoOne /\ file' = temp[Pid[w]] /\ UNCHANGED verdict
    BY <1>1 DEF LinkSucceeds, LinkReplyIsLost, Linked, Ready, WillReturn, Holding, Linking
  <2>2. file' = w /\ verdict[w] = "pending"
    BY <1>1, <2>1
    DEF IInv, TempIsOwn, VerdictInv, LinkSucceeds, LinkReplyIsLost, Linked, Ready
  <2> QED BY <2>1, <2>2 DEF Abstract!Next, Abstract!Create
<1>2. CASE RemoveTemp(w)
  <2>1. /\ verdict[w] = "pending" /\ VerdictIsTrue(w, will[w])
        /\ will[w] \in {"published", "duplicate", "failed"}
        /\ verdict' = [verdict EXCEPT ![w] = will[w]] /\ UNCHANGED file
    BY <1>2 DEF RemoveTemp, IInv, VerdictInv, TypeOK
  <2>2. Abstract!Answer(w, will[w])
    BY <2>1 DEF Abstract!Answer, VerdictIsTrue
  <2> QED BY <2>1, <2>2 DEF Abstract!Next
<1>3. CASE CreateFails(w)
  <2>1. Abstract!Answer(w, "failed")
    BY <1>3 DEF CreateFails, IInv, VerdictInv, Abstract!Answer
  <2> QED BY <2>1 DEF Abstract!Next
<1>4. CASE Crash(w)
  <2>1. Abstract!Answer(w, "crashed")
    BY <1>4 DEF Crash, Become, IInv, VerdictInv, Abstract!Answer
  <2> QED BY <2>1 DEF Abstract!Next
<1>5. CASE CreateTemp(w) \/ WriteAll(w) \/ WriteFails(w) \/ LinkExists(w) \/ LinkFails(w)
           \/ CountLinks(w) \/ CountFails(w)
  BY <1>5 DEF CreateTemp, WriteAll, WriteFails, LinkExists, LinkFails, CountLinks, CountFails, WillReturn
<1> QED BY <1>1, <1>2, <1>3, <1>4, <1>5 DEF Step

\* Publishing through a temporary file and link(2), with lost replies, retries and crashes,
\* implements an exclusive create.
THEOREM PublishRefines == Spec => PublishesExclusively
<1>1. IInv /\ [Next]_vars => [Abstract!Next]_(Abstract!vars)
  <2>1. CASE UNCHANGED vars
    BY <2>1 DEF vars, Abstract!vars
  <2> QED BY <2>1, StepRefines DEF Next
<1> QED BY InitRefines, Invariance, <1>1, PTL DEF Spec, PublishesExclusively, Abstract!Spec
=============================================================================

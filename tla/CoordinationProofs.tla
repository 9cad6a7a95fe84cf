-------------------------- MODULE CoordinationProofs --------------------------
(***************************************************************************)
(* Theorems about Coordination, for any invocations that share a run id,   *)
(* packages and targets: what Finalize may write and when it may succeed,  *)
(* the type of every variable, what a cleanup may remove, and which runs   *)
(* nobody can disturb.                                                     *)
(***************************************************************************)
EXTENDS Coordination, FiniteSetTheorems, TLAPS

AnyShard == [pkg : Packages, token : Invocations, at : Nat]
Views    == [at : Nat, listed : SUBSET Packages, accepted : SUBSET AnyShard,
             rejected : SUBSET Packages, rendered : 0..Targets]

\* The types of what Finalize reads and writes.
FinalizeTypes ==
  /\ marker \in [token : Invocations, at : Nat, old : BOOLEAN] \cup {NoFile}
  /\ shards \in [Packages -> AnyShard \cup {NoFile}]
  /\ epoch \in Nat
  /\ created \in [Invocations -> Nat]
  /\ stamp \in [Producers -> Nat]
  /\ finAt \in [Invocations -> {"idle", "verified", "listing", "reading", "rendering", "clearing"}]
  /\ exit \in [Invocations -> {"none", "green", "failure", "config", "recorded"}]
  /\ view \in [Invocations -> Views]
  /\ report \in [Invocations -> [1..Targets -> SUBSET AnyShard]]

\* What an invocation accepted is its own and expected.
AcceptedOK(i) == \A s \in view[i].accepted : s.token = i /\ s.pkg \in Expected[i]

\* How far the targets are follows the progress of Finalize.
ReportOK(i) ==
  /\ finAt[i] # "idle" => exit[i] = "none"
  /\ finAt[i] \in {"verified", "listing", "reading"} => view[i].rendered = 0
  /\ finAt[i] = "rendering" => \A t \in 1..view[i].rendered : report[i][t] = view[i].accepted
  /\ finAt[i] = "clearing" => Reported(i)
  /\ exit[i] = "green" => Reported(i)

IInv == FinalizeTypes /\ OnlyOwnShards /\ \A i \in Invocations : AcceptedOK(i) /\ ReportOK(i)

-----------------------------------------------------------------------------
LEMMA InitInv == Init => IInv
<1> SUFFICES ASSUME Init PROVE IInv
  OBVIOUS
<1>1. NothingSeen \in Views
  BY CoordinationAssumption DEF NothingSeen, Views, CoordinationAssumption
<1>2. FinalizeTypes
  BY <1>1 DEF Init, FinalizeTypes
<1>3. OnlyOwnShards
  BY DEF Init, OnlyOwnShards
<1>4. \A i \in Invocations : AcceptedOK(i) /\ ReportOK(i)
  BY DEF Init, AcceptedOK, ReportOK, NothingSeen
<1> QED BY <1>2, <1>3, <1>4 DEF IInv

\* The variables the invariant is about, its types apart.
finalizers == <<finAt, exit, view, report>>

LEMMA ElsewhereInv ==
  ASSUME IInv, FinalizeTypes', UNCHANGED finalizers
  PROVE  IInv'
  BY DEF IInv, OnlyOwnShards, AcceptedOK, ReportOK, Reported, finalizers

\* RemoveAll returns to its caller: only Finalize's own cleanup concerns the reports.
LEMMA ClearedInv ==
  ASSUME IInv, NEW r \in Removers \cup {GC}, NEW ok \in BOOLEAN, Clearing(r), Cleared(r, ok),
         UNCHANGED <<marker, shards, epoch, created, stamp, view, report>>
  PROVE  IInv'
<1>1. CASE r[1] = "finalize"
  <2> DEFINE i == r[2]
  <2>1. i \in Invocations /\ finAt[i] = "clearing"
    BY <1>1 DEF Removers, GC, Clearing
  <2>2. finAt' = [finAt EXCEPT ![i] = "idle"]
        /\ exit' = [exit EXCEPT ![i] = IF ok THEN "green" ELSE "failure"]
    BY <1>1 DEF Cleared
  <2>3. FinalizeTypes'
    BY <2>1, <2>2 DEF IInv, FinalizeTypes
  <2>4. Reported(i) /\ Reported(i)'
    BY <2>1 DEF IInv, ReportOK, Reported
  <2>5. ReportOK(i)'
    BY <2>1, <2>2, <2>4 DEF IInv, FinalizeTypes, ReportOK
  <2>6. \A j \in Invocations \ {i} : ReportOK(j)'
    BY <2>1, <2>2 DEF IInv, FinalizeTypes, ReportOK, Reported
  <2> QED BY <2>1, <2>3, <2>5, <2>6 DEF IInv, OnlyOwnShards, AcceptedOK
<1>2. CASE r[1] # "finalize"
  <2>1. UNCHANGED finalizers
    BY <1>2 DEF Cleared, finalizers
  <2>2. FinalizeTypes'
    BY <2>1 DEF IInv, FinalizeTypes, finalizers
  <2> QED BY <2>1, <2>2, ElsewhereInv
<1> QED BY <1>1, <1>2

LEMMA RemoveAllInv ==
  ASSUME IInv, NEW r \in Removers \cup {GC}, RemoveAll(r)
  PROVE  IInv'
<1>1. CASE OpenDir(r)
  <2>1. FinalizeTypes' /\ UNCHANGED finalizers
    BY <1>1 DEF OpenDir, IInv, FinalizeTypes, finalizers, disk
  <2> QED BY <2>1, ElsewhereInv
<1>2. CASE RemoveDir(r)
  <2>1. Empty \in BOOLEAN
    BY DEF Empty
  <2> QED BY <1>2, <2>1, ClearedInv DEF RemoveDir
<1>3. CASE RemovalFails(r)
  BY <1>3, ClearedInv DEF RemovalFails, disk
<1>4. ASSUME NEW n \in removal[r].names, Unlink(r, n) PROVE IInv'
  <2>1. marker' \in {marker, NoFile}
    BY <1>4 DEF Unlink
  <2>2. shards' = shards \/ (n \in Packages /\ shards' = [shards EXCEPT ![n] = NoFile])
    BY <1>4 DEF Unlink
  <2>3. FinalizeTypes' /\ UNCHANGED finalizers
    BY <1>4, <2>1, <2>2 DEF Unlink, IInv, FinalizeTypes, finalizers
  <2> QED BY <2>3, ElsewhereInv
<1> QED BY <1>1, <1>2, <1>3, <1>4 DEF RemoveAll

LEMMA InitializeInv ==
  ASSUME IInv, NEW i \in Invocations,
         (\E force \in BOOLEAN : StartInit(i, force)) \/ Prepare(i) \/ PublishMarker(i) \/ InitFails(i)
  PROVE  IInv'
<1>1. ASSUME NEW force \in BOOLEAN, StartInit(i, force) PROVE IInv'
  <2>1. exit' = [exit EXCEPT ![i] = "none"] /\ UNCHANGED <<disk, epoch, created, stamp, finAt, view, report>>
    BY <1>1 DEF StartInit
  <2>2. FinalizeTypes'
    BY <2>1 DEF IInv, FinalizeTypes, disk
  <2>3. \A j \in Invocations : ReportOK(j)'
    BY <2>1 DEF IInv, FinalizeTypes, ReportOK, Reported
  <2> QED BY <2>1, <2>2, <2>3 DEF IInv, OnlyOwnShards, AcceptedOK
<1>2. CASE Prepare(i) \/ PublishMarker(i) \/ InitFails(i)
  <2>1. UNCHANGED finalizers
    BY <1>2 DEF Prepare, PublishMarker, InitFails, finalizers
  <2>2. CASE Prepare(i)
    <3>1. epoch + 1 \in Nat /\ created' = [created EXCEPT ![i] = epoch + 1]
      BY <2>2 DEF Prepare, IInv, FinalizeTypes
    <3>2. FinalizeTypes'
      BY <2>2, <3>1 DEF Prepare, IInv, FinalizeTypes
    <3> QED BY <2>1, <3>2, ElsewhereInv
  <2>3. CASE PublishMarker(i)
    <3>1. [token |-> i, at |-> created[i], old |-> FALSE] \in [token : Invocations, at : Nat, old : BOOLEAN]
      BY DEF IInv, FinalizeTypes
    <3>2. FinalizeTypes'
      BY <2>3, <3>1 DEF PublishMarker, IInv, FinalizeTypes
    <3> QED BY <2>1, <3>2, ElsewhereInv
  <2>4. CASE InitFails(i)
    <3>1. FinalizeTypes'
      BY <2>4 DEF InitFails, disk, IInv, FinalizeTypes
    <3> QED BY <2>1, <3>1, ElsewhereInv
  <2> QED BY <1>2, <2>2, <2>3, <2>4
<1> QED BY <1>1, <1>2

LEMMA ProducerInv ==
  ASSUME IInv, NEW ip \in Producers, Producer(ip)
  PROVE  IInv'
<1>1. UNCHANGED finalizers
  BY DEF Producer, ProducerStarts, ProducerDecides, ProducerRecords, TestsEnd, PublishShard,
         ProducerFails, ElseUnchanged, finalizers
<1>2. FinalizeTypes'
  <2>1. CASE TestsEnd(ip)
    BY <2>1 DEF TestsEnd, ElseUnchanged, disk, IInv, FinalizeTypes
  <2>2. CASE PublishShard(ip)
    <3>1. ip[1] \in Invocations /\ ip[2] \in Packages
      BY DEF Producers
    <3>2. [pkg |-> ip[2], token |-> ip[1], at |-> stamp[ip]] \in AnyShard
      BY <3>1 DEF IInv, FinalizeTypes, AnyShard
    <3>3. shards' \in [Packages -> AnyShard \cup {NoFile}]
      BY <2>2, <3>2 DEF PublishShard, IInv, FinalizeTypes
    <3> QED BY <2>2, <3>3 DEF PublishShard, ElseUnchanged, IInv, FinalizeTypes
  <2>3. CASE ~TestsEnd(ip) /\ ~PublishShard(ip)
    BY <2>3 DEF Producer, ProducerStarts, ProducerDecides, ProducerRecords, ProducerFails,
                ElseUnchanged, disk, IInv, FinalizeTypes
  <2> QED BY <2>1, <2>2, <2>3
<1> QED BY <1>1, <1>2, ElsewhereInv

\* A step of Finalize that leaves the report files of all invocations alone.
LEMMA FinalizeStepInv ==
  ASSUME IInv, NEW i \in Invocations, FinalizeTypes', AcceptedOK(i)', ReportOK(i)',
         \A j \in Invocations \ {i} : finAt'[j] = finAt[j] /\ exit'[j] = exit[j] /\ view'[j] = view[j],
         UNCHANGED report
  PROVE  IInv'
<1>1. \A j \in Invocations \ {i} : AcceptedOK(j)' /\ ReportOK(j)'
  BY DEF IInv, AcceptedOK, ReportOK, Reported
<1>2. OnlyOwnShards'
  BY DEF IInv, OnlyOwnShards
<1> QED BY <1>1, <1>2 DEF IInv

\* What ReadShards accepts is of the invocation, whatever the directory holds by then.
LEMMA ReadShardsInv ==
  ASSUME IInv, NEW i \in Invocations, ReadShards(i)
  PROVE  IInv'
<1> DEFINE good == {p \in view[i].listed : Accepted(i, shards[p])}
           read == {shards[p] : p \in good}
<1>1. view[i] \in Views /\ view[i].listed \subseteq Packages
  BY DEF IInv, FinalizeTypes, Views
<1>2. \A s \in read : s \in AnyShard /\ s.token = i /\ s.pkg \in Expected[i]
  BY <1>1 DEF Accepted, IInv, FinalizeTypes
<1>3. view' = [view EXCEPT ![i] = [view[i] EXCEPT !.accepted = read, !.rejected = view[i].listed \ good]]
  BY <1>1 DEF ReadShards, IInv, FinalizeTypes
<1> HIDE DEF good, read
<1>4. [view[i] EXCEPT !.accepted = read, !.rejected = view[i].listed \ good] \in Views
  BY <1>1, <1>2 DEF Views
<1>5. finAt[i] = "reading" /\ finAt' = [finAt EXCEPT ![i] = "rendering"]
      /\ UNCHANGED <<report, exit>> /\ UNCHANGED <<marker, shards, epoch, created, stamp>>
  BY DEF ReadShards, Finalizing, RestUnchanged, disk
<1>6. FinalizeTypes'
  BY <1>3, <1>4, <1>5 DEF IInv, FinalizeTypes
<1>7. AcceptedOK(i)'
  BY <1>1, <1>2, <1>3 DEF AcceptedOK, Views, IInv, FinalizeTypes
<1>8. view'[i].rendered = view[i].rendered
  BY <1>1, <1>3 DEF Views, IInv, FinalizeTypes
<1>9. ReportOK(i)'
  BY <1>5, <1>8 DEF IInv, FinalizeTypes, ReportOK
<1>10. \A j \in Invocations \ {i} : finAt'[j] = finAt[j] /\ exit'[j] = exit[j] /\ view'[j] = view[j]
  BY <1>3, <1>5 DEF IInv, FinalizeTypes
<1> QED BY <1>5, <1>6, <1>7, <1>9, <1>10, FinalizeStepInv

\* The next target gets what the earlier ones got.
LEMMA RenderInv ==
  ASSUME IInv, NEW i \in Invocations, Render(i)
  PROVE  IInv'
<1> DEFINE t == view[i].rendered + 1
<1>1. /\ view[i] \in Views /\ t \in 1..Targets /\ finAt[i] = "rendering"
      /\ finAt' = [finAt EXCEPT ![i] = "rendering"]
      /\ UNCHANGED <<marker, shards, epoch, created, stamp, exit>>
  BY CoordinationAssumption
  DEF Render, Finalizing, RestUnchanged, disk, IInv, FinalizeTypes, Views, CoordinationAssumption
<1>2. view' = [view EXCEPT ![i] = [view[i] EXCEPT !.rendered = t]]
  BY DEF Render, IInv, FinalizeTypes
<1>3. report' = [report EXCEPT ![i] = [report[i] EXCEPT ![t] = view[i].accepted]]
  BY DEF Render, IInv, FinalizeTypes
<1>4. report[i] \in [1..Targets -> SUBSET AnyShard] /\ view[i].accepted \in SUBSET AnyShard
  BY <1>1 DEF IInv, FinalizeTypes, Views
<1>5. view'[i] \in Views /\ view'[i].rendered = t /\ view'[i].accepted = view[i].accepted
  <2>1. view'[i] = [view[i] EXCEPT !.rendered = t]
    BY <1>2 DEF IInv, FinalizeTypes
  <2>2. view[i] \in Views /\ t \in 0..Targets
    BY <1>1, CoordinationAssumption DEF CoordinationAssumption
  <2> HIDE DEF t
  <2> QED BY <2>1, <2>2 DEF Views
<1>6. report'[i] = [report[i] EXCEPT ![t] = view[i].accepted]
  BY <1>3 DEF IInv, FinalizeTypes
<1>7. FinalizeTypes'
  <2>1. view' \in [Invocations -> Views]
    BY <1>2, <1>5 DEF IInv, FinalizeTypes
  <2>2. report' \in [Invocations -> [1..Targets -> SUBSET AnyShard]]
    BY <1>1, <1>3, <1>4 DEF IInv, FinalizeTypes
  <2> QED BY <1>1, <2>1, <2>2 DEF IInv, FinalizeTypes
<1>8. finAt'[i] = "rendering" /\ exit'[i] = "none"
  BY <1>1 DEF IInv, FinalizeTypes, ReportOK
<1>9. \A u \in 1..t : report'[i][u] = view[i].accepted
  <2>1. \A u \in 1..view[i].rendered : report[i][u] = view[i].accepted
    BY <1>1 DEF IInv, ReportOK
  <2> DEFINE n == view[i].rendered
  <2>2. n \in Nat /\ n + 1 \in 1..Targets /\ Targets \in Nat
    BY <1>1, CoordinationAssumption DEF Views, CoordinationAssumption
  <2>3. \A u \in 1..n : u # n + 1 /\ u \in 1..Targets
    <3> HIDE DEF n
    <3> QED BY <2>2
  <2>4. \A u \in 1..(n + 1) : u = n + 1 \/ u \in 1..n
    <3> HIDE DEF n
    <3> QED BY <2>2
  <2> HIDE DEF t
  <2>5. report'[i][t] = view[i].accepted
    BY <1>1, <1>4, <1>6
  <2>6. \A u \in 1..view[i].rendered : report'[i][u] = report[i][u]
    BY <1>4, <1>6, <2>3 DEF t
  <2> QED BY <2>1, <2>4, <2>5, <2>6 DEF t
<1>10. AcceptedOK(i)' /\ ReportOK(i)'
  BY <1>5, <1>8, <1>9 DEF IInv, AcceptedOK, ReportOK
<1>11. \A j \in Invocations \ {i} : /\ finAt'[j] = finAt[j] /\ exit'[j] = exit[j] /\ view'[j] = view[j]
                                    /\ report'[j] = report[j]
  BY <1>1, <1>2, <1>3 DEF IInv, FinalizeTypes
<1>12. \A j \in Invocations \ {i} : AcceptedOK(j)' /\ ReportOK(j)'
  BY <1>11 DEF IInv, AcceptedOK, ReportOK, Reported
<1>13. OnlyOwnShards'
  <2>1. \A u \in 1..Targets : \A s \in report'[i][u] : s.token = i
    BY <1>1, <1>4, <1>6 DEF IInv, OnlyOwnShards, AcceptedOK
  <2>2. \A j \in Invocations, u \in 1..Targets : \A s \in report'[j][u] : s.token = j
    BY <1>11, <2>1 DEF IInv, OnlyOwnShards
  <2> QED BY <2>2 DEF OnlyOwnShards
<1> QED BY <1>7, <1>10, <1>12, <1>13 DEF IInv

\* Only complete reports let Finalize succeed or clean up.
LEMMA EndFinalizeInv ==
  ASSUME IInv, NEW i \in Invocations, EndFinalize(i)
  PROVE  IInv'
<1>1. /\ view[i].rendered = Targets /\ finAt[i] = "rendering"
      /\ UNCHANGED <<marker, shards, epoch, created, stamp, view, report>>
  BY DEF EndFinalize, Rendered, Finalizing, RestUnchanged, disk
<1>2. PICK to \in {"idle", "clearing"}, code \in {"none", "green", "failure"} :
        /\ finAt' = [finAt EXCEPT ![i] = to] /\ exit' = [exit EXCEPT ![i] = code]
        /\ to = "clearing" => Complete(i) /\ code = "none"
        /\ code = "green" => Complete(i)
  <2>1. exit[i] = "none" /\ exit \in [Invocations -> {"none", "green", "failure", "config", "recorded"}]
    BY <1>1 DEF IInv, FinalizeTypes, ReportOK
  <2>2. CASE Complete(i) /\ i \in Cleaners
    BY <2>1, <2>2 DEF EndFinalize, Finalizing
  <2>3. CASE ~(Complete(i) /\ i \in Cleaners)
    BY <2>3 DEF EndFinalize, Finalizing, Exits
  <2> QED BY <2>2, <2>3
<1>3. ASSUME Complete(i) PROVE Reported(i)
  <2>1. \A t \in 1..Targets : report[i][t] = view[i].accepted
    BY <1>1 DEF IInv, ReportOK
  <2>2. {s.pkg : s \in view[i].accepted} = Expected[i]
    BY <1>3 DEF Complete, IInv, AcceptedOK
  <2> QED BY <2>1, <2>2 DEF Reported
<1>4. FinalizeTypes'
  BY <1>1, <1>2 DEF IInv, FinalizeTypes
<1>5. AcceptedOK(i)'
  BY <1>1 DEF IInv, AcceptedOK
<1>6. finAt'[i] \in {"idle", "clearing"} /\ (finAt'[i] = "clearing" => exit'[i] = "none" /\ Reported(i))
      /\ (exit'[i] = "green" => Reported(i))
  BY <1>2, <1>3 DEF IInv, FinalizeTypes
<1>7. Reported(i)' = Reported(i)
  BY <1>1 DEF Reported
<1>8. ReportOK(i)'
  BY <1>6, <1>7 DEF ReportOK
<1>9. \A j \in Invocations \ {i} : finAt'[j] = finAt[j] /\ exit'[j] = exit[j] /\ view'[j] = view[j]
  BY <1>1, <1>2 DEF IInv, FinalizeTypes
<1> QED BY <1>1, <1>4, <1>5, <1>8, <1>9, FinalizeStepInv

LEMMA FinalizeInv ==
  ASSUME IInv, NEW i \in Invocations, Finalize(i)
  PROVE  IInv'
<1>1. CASE StartFinalize(i)
  <2>1. UNCHANGED <<marker, shards, epoch, created, stamp, report>> /\ exit[i] # "green"
    BY <1>1 DEF StartFinalize, RestUnchanged, disk
  <2>2. NothingSeen \in Views
    BY CoordinationAssumption DEF NothingSeen, Views, CoordinationAssumption
  <2>3. CASE Verified(i)
    <3>1. /\ finAt' = [finAt EXCEPT ![i] = "verified"] /\ exit' = [exit EXCEPT ![i] = "none"]
          /\ view' = [view EXCEPT ![i] = NothingSeen]
      BY <1>1, <2>3 DEF StartFinalize, Finalizing, Exits
    <3>2. FinalizeTypes'
      BY <2>1, <2>2, <3>1 DEF IInv, FinalizeTypes
    <3>3. AcceptedOK(i)' /\ ReportOK(i)'
      BY <3>1 DEF IInv, FinalizeTypes, NothingSeen, AcceptedOK, ReportOK
    <3>4. \A j \in Invocations \ {i} : finAt'[j] = finAt[j] /\ exit'[j] = exit[j] /\ view'[j] = view[j]
      BY <3>1 DEF IInv, FinalizeTypes
    <3> QED BY <2>1, <3>2, <3>3, <3>4, FinalizeStepInv
  <2>4. CASE ~Verified(i)
    <3>1. finAt[i] = "idle" /\ exit' = [exit EXCEPT ![i] = "config"] /\ UNCHANGED <<finAt, view>>
      BY <1>1, <2>4 DEF StartFinalize, Exits
    <3>2. FinalizeTypes'
      BY <2>1, <3>1 DEF IInv, FinalizeTypes
    <3>3. AcceptedOK(i)' /\ ReportOK(i)'
      BY <3>1 DEF IInv, FinalizeTypes, AcceptedOK, ReportOK
    <3>4. \A j \in Invocations \ {i} : finAt'[j] = finAt[j] /\ exit'[j] = exit[j] /\ view'[j] = view[j]
      BY <3>1 DEF IInv, FinalizeTypes
    <3> QED BY <2>1, <3>2, <3>3, <3>4, FinalizeStepInv
  <2> QED BY <2>3, <2>4
<1>2. CASE LookForRecord(i)
  <2>1. UNCHANGED <<marker, shards, epoch, created, stamp, view, report>> /\ finAt[i] = "verified"
    BY <1>2 DEF LookForRecord, Finalizing, RestUnchanged, disk
  <2>2. \/ finAt' = [finAt EXCEPT ![i] = "listing"] /\ exit' = exit
        \/ finAt' = [finAt EXCEPT ![i] = "idle"] /\ exit' = [exit EXCEPT ![i] = "recorded"]
    BY <1>2 DEF LookForRecord, Finalizing, Exits
  <2>3. FinalizeTypes'
    BY <2>1, <2>2 DEF IInv, FinalizeTypes
  <2>4. AcceptedOK(i)' /\ ReportOK(i)'
    <3>1. AcceptedOK(i)'
      BY <2>1 DEF IInv, AcceptedOK
    <3>2. view[i].rendered = 0 /\ exit[i] = "none"
      BY <2>1 DEF IInv, ReportOK
    <3>3. \/ finAt'[i] = "listing" /\ exit'[i] = "none"
          \/ finAt'[i] = "idle" /\ exit'[i] = "recorded"
      BY <2>2, <3>2 DEF IInv, FinalizeTypes
    <3> QED BY <2>1, <3>1, <3>2, <3>3 DEF ReportOK
  <2>5. \A j \in Invocations \ {i} : finAt'[j] = finAt[j] /\ exit'[j] = exit[j] /\ view'[j] = view[j]
    BY <2>1, <2>2 DEF IInv, FinalizeTypes
  <2> QED BY <2>1, <2>3, <2>4, <2>5, FinalizeStepInv
<1>3. CASE ListShards(i)
  <2>1. UNCHANGED <<marker, shards, epoch, created, stamp, report>> /\ finAt[i] = "listing"
    BY <1>3 DEF ListShards, Finalizing, RestUnchanged, disk
  <2>2. view[i] \in Views
    BY DEF IInv, FinalizeTypes
  <2>3. CASE marker # NoFile
    <3> DEFINE seen == [view[i] EXCEPT !.at = marker.at, !.listed = {p \in Packages : shards[p] # NoFile}]
    <3>1. marker.at \in Nat
      BY <2>3 DEF IInv, FinalizeTypes
    <3>2. /\ finAt' = [finAt EXCEPT ![i] = "reading"] /\ UNCHANGED exit
          /\ view' = [view EXCEPT ![i] = seen]
      BY <1>3, <2>2, <2>3 DEF ListShards, Finalizing, IInv, FinalizeTypes
    <3>3. seen \in Views /\ seen.accepted = view[i].accepted /\ seen.rendered = view[i].rendered
      BY <2>2, <3>1 DEF Views
    <3> HIDE DEF seen
    <3>4. FinalizeTypes'
      BY <2>1, <3>2, <3>3 DEF IInv, FinalizeTypes
    <3>5. AcceptedOK(i)' /\ ReportOK(i)'
      BY <2>1, <3>2, <3>3 DEF IInv, FinalizeTypes, AcceptedOK, ReportOK
    <3>6. \A j \in Invocations \ {i} : finAt'[j] = finAt[j] /\ exit'[j] = exit[j] /\ view'[j] = view[j]
      BY <3>2 DEF IInv, FinalizeTypes
    <3> QED BY <2>1, <3>4, <3>5, <3>6, FinalizeStepInv
  <2>4. CASE marker = NoFile
    <3>1. /\ finAt' = [finAt EXCEPT ![i] = "idle"] /\ exit' = [exit EXCEPT ![i] = "config"]
          /\ UNCHANGED view
      BY <1>3, <2>4 DEF ListShards, Finalizing, Exits
    <3>2. FinalizeTypes'
      BY <2>1, <3>1 DEF IInv, FinalizeTypes
    <3>3. AcceptedOK(i)' /\ ReportOK(i)'
      BY <2>1, <3>1 DEF IInv, FinalizeTypes, AcceptedOK, ReportOK
    <3>4. \A j \in Invocations \ {i} : finAt'[j] = finAt[j] /\ exit'[j] = exit[j] /\ view'[j] = view[j]
      BY <3>1 DEF IInv, FinalizeTypes
    <3> QED BY <2>1, <3>2, <3>3, <3>4, FinalizeStepInv
  <2> QED BY <2>3, <2>4
<1>4. CASE FinalizeFails(i)
  <2>1. /\ UNCHANGED <<marker, shards, epoch, created, stamp, view, report>>
        /\ finAt' = [finAt EXCEPT ![i] = "idle"] /\ exit' = [exit EXCEPT ![i] = "failure"]
    BY <1>4 DEF FinalizeFails, Exits, RestUnchanged, disk
  <2>2. FinalizeTypes'
    BY <2>1 DEF IInv, FinalizeTypes
  <2>3. AcceptedOK(i)' /\ ReportOK(i)'
    BY <2>1 DEF IInv, FinalizeTypes, AcceptedOK, ReportOK
  <2>4. \A j \in Invocations \ {i} : finAt'[j] = finAt[j] /\ exit'[j] = exit[j] /\ view'[j] = view[j]
    BY <2>1 DEF IInv, FinalizeTypes
  <2> QED BY <2>1, <2>2, <2>3, <2>4, FinalizeStepInv
<1> QED BY <1>1, <1>2, <1>3, <1>4, ReadShardsInv, RenderInv, EndFinalizeInv DEF Finalize

-----------------------------------------------------------------------------
LEMMA NextInv == IInv /\ [Next]_vars => IInv'
<1> SUFFICES ASSUME IInv, [Next]_vars PROVE IInv'
  OBVIOUS
<1>1. ASSUME NEW i \in Invocations, NEW force \in {FALSE} \cup {f \in {TRUE} : i \in Forces},
             StartInit(i, force)
      PROVE  IInv'
  <2>1. force \in BOOLEAN
    OBVIOUS
  <2> QED BY <1>1, <2>1, InitializeInv
<1>2. ASSUME NEW i \in Invocations, Prepare(i) \/ PublishMarker(i) \/ InitFails(i) PROVE IInv'
  BY <1>2, InitializeInv
<1>3. CASE RetentionPasses
  <2>1. [marker EXCEPT !.old = TRUE] \in [token : Invocations, at : Nat, old : BOOLEAN]
    BY <1>3 DEF RetentionPasses, IInv, FinalizeTypes
  <2>2. FinalizeTypes' /\ UNCHANGED finalizers
    BY <1>3, <2>1 DEF RetentionPasses, procs, IInv, FinalizeTypes, finalizers
  <2> QED BY <2>2, ElsewhereInv
<1>4. CASE CollectRun
  <2>1. FinalizeTypes' /\ UNCHANGED finalizers
    BY <1>4 DEF CollectRun, disk, IInv, FinalizeTypes, finalizers
  <2> QED BY <2>1, ElsewhereInv
<1>5. CASE UNCHANGED vars
  <2>1. FinalizeTypes' /\ UNCHANGED finalizers
    BY <1>5 DEF vars, disk, procs, IInv, FinalizeTypes, finalizers
  <2> QED BY <2>1, ElsewhereInv
<1> QED BY <1>1, <1>2, <1>3, <1>4, <1>5, FinalizeInv, ProducerInv, RemoveAllInv DEF Next

\* The invariant holds in every reachable state.
LEMMA Invariant == Spec => []IInv
  BY InitInv, NextInv, PTL DEF Spec

\* Whoever shares the run id, whatever is removed or fails and whenever: no report holds a shard of
\* another invocation than the one whose Finalize wrote it, and a Finalize that exits 0 leaves
\* complete reports in every target, also when it cleaned up, for as long as its invocation does
\* not start over.
THEOREM ReportsAlwaysTrue == Spec => []ReportsAreTrue
<1>1. IInv => OnlyOwnShards
  BY DEF IInv
<1>2. IInv => GreenIsComplete
  BY DEF IInv, ReportOK, GreenIsComplete
<1>3. IInv => ReportsAreTrue
  BY <1>1, <1>2 DEF ReportsAreTrue
<1> QED BY <1>3, Invariant, PTL

-----------------------------------------------------------------------------
\* The types of the rest, and what is in a directory only if the directory is.
Names    == {"marker", "record", "shards", "shardsDir"} \cup Packages
Removals == [of : Nat, names : SUBSET Names]
DirTypes ==
  /\ env \in Environments
  /\ dir \in Nat /\ shardsDir \in BOOLEAN
  /\ record \in Invocations \cup {NoFile}
  /\ dir = 0 => ~shardsDir /\ marker = NoFile /\ record = NoFile
  /\ ~shardsDir => \A p \in Packages : shards[p] = NoFile
  /\ removal \in [Removers \cup {GC} -> Removals]
StepTypes ==
  /\ inits \in [Invocations -> Nat]
  /\ initAt \in [Invocations -> {"skipped", "idle", "clearing", "preparing", "publishing",
                                 "ready", "refused", "failed"}]
  /\ prodAt \in [Producers -> {"idle", "testing", "deciding", "recording", "writing",
                               "published", "duplicate", "failed"}]
  /\ gcAt \in {"idle", "clearing", "ended"}
  /\ calm \subseteq Invocations

\* A shard is under the name of its package.
NameInv == \A p \in Packages : shards[p] # NoFile => shards[p].pkg = p

TInv == IInv /\ DirTypes /\ StepTypes /\ NameInv

LEMMA AllShardsNamed ==
  ASSUME NEW S \in SUBSET AnyShard
  PROVE  AreShards(S)
  BY DEF AnyShard, AreShards, Shard

LEMMA TypesTogether == TInv => TypeOK
<1> SUFFICES ASSUME TInv PROVE TypeOK
  OBVIOUS
<1> USE DEF TInv, IInv
<1>1. \A p \in Packages : shards[p] \in Shard(p) \cup {NoFile}
  BY DEF FinalizeTypes, NameInv, AnyShard, Shard
<1>2. ASSUME NEW i \in Invocations
      PROVE  /\ AreShards(view[i].accepted) /\ view[i].rendered \in 0..Targets
             /\ view[i].listed \subseteq Packages /\ view[i].rejected \subseteq Packages
             /\ view[i].at \in Nat
             /\ \A t \in 1..Targets : AreShards(report[i][t])
  <2>1. view[i] \in Views /\ report[i] \in [1..Targets -> SUBSET AnyShard]
    BY DEF FinalizeTypes
  <2> QED BY <2>1, AllShardsNamed DEF Views
<1>3. \A r \in DOMAIN removal : removal[r].names \subseteq {"marker", "record", "shards", "shardsDir"} \cup Packages
  BY DEF DirTypes, Removals, Names
<1> QED BY <1>1, <1>2, <1>3 DEF FinalizeTypes, DirTypes, StepTypes, TypeOK

\* There are more names for a directory than removals that may have one open: a new one is unused.
LEMMA NewDirectory ==
  ASSUME DirTypes, dir = 0, MakeDir
  PROVE  dir' \in Nat \ {0} /\ \A r \in Removers \cup {GC} : removal[r].of # dir'
<1> DEFINE c == Cardinality(Removers)
           T == Removers \cup {GC}
<1>1. IsFiniteSet(Removers)
  <2>1. IsFiniteSet({"init"} \cup {"finalize"})
    BY FS_Singleton, FS_AddElement
  <2>2. {"init", "finalize"} = {"init"} \cup {"finalize"}
    OBVIOUS
  <2>3. IsFiniteSet({"init", "finalize"}) /\ IsFiniteSet(Invocations)
    BY <2>1, <2>2, CoordinationAssumption
  <2> QED BY <2>3, FS_Product DEF Removers
<1>2. c \in Nat /\ IsFiniteSet(T) /\ Cardinality(T) <= c + 1
  <2>1. c \in Nat
    BY <1>1, FS_CardinalityType
  <2>2. IsFiniteSet(T) /\ Cardinality(T) = IF GC \in Removers THEN c ELSE c + 1
    BY <1>1, FS_AddElement
  <2> QED BY <2>1, <2>2
<1>3. IsFiniteSet(1..(c + 2)) /\ Cardinality(1..(c + 2)) = c + 2
  <2>1. 1 \in Int /\ c + 2 \in Int /\ ~(1 > c + 2) /\ c + 2 - 1 + 1 = c + 2
    BY <1>2
  <2> HIDE DEF c
  <2> QED BY <2>1, FS_Interval
<1>4. Cardinality(T) \in Nat
  BY <1>2, FS_CardinalityType
<1>5. \E d \in 1..(c + 2) : \A r \in T : removal[r].of # d
  <2> SUFFICES ASSUME \A d \in 1..(c + 2) : \E r \in T : removal[r].of = d PROVE FALSE
    OBVIOUS
  <2> DEFINE f == [d \in 1..(c + 2) |-> CHOOSE r \in T : removal[r].of = d]
  <2>1. f \in [1..(c + 2) -> T] /\ \A d \in 1..(c + 2) : removal[f[d]].of = d
    OBVIOUS
  <2>2. Cardinality(T) < Cardinality(1..(c + 2))
    BY <1>2, <1>3, <1>4
  <2> HIDE DEF f, T, c
  <2>3. \E x, y \in 1..(c + 2) : x # y /\ f[x] = f[y]
    BY <1>2, <1>3, <2>1, <2>2, FS_PigeonHole
  <2> QED BY <2>1, <2>3
<1>6. DOMAIN removal = T
  BY DEF DirTypes
<1>7. dir' = CHOOSE d \in 1..(c + 2) : \A r \in T : removal[r].of # d
  BY <1>6 DEF MakeDir
<1>8. dir' \in 1..(c + 2) /\ \A r \in T : removal[r].of # dir'
  <2> HIDE DEF c, T
  <2> QED BY <1>5, <1>7
<1> QED BY <1>2, <1>8

LEMMA SomeDirectory ==
  ASSUME DirTypes, MakeDir
  PROVE  dir' \in Nat \ {0} /\ (dir # 0 => dir' = dir)
<1>1. CASE dir = 0
  BY <1>1, NewDirectory
<1>2. CASE dir # 0
  BY <1>2 DEF MakeDir, DirTypes
<1> QED BY <1>1, <1>2

LEMMA InitTypes == Init => DirTypes /\ StepTypes /\ NameInv
<1> SUFFICES ASSUME Init PROVE DirTypes /\ StepTypes /\ NameInv
  OBVIOUS
<1>1. NotOpen \in Removals
  BY DEF NotOpen, Removals
<1>2. DirTypes
  BY <1>1 DEF Init, DirTypes
<1>3. env.preflights \in [Invocations -> Nat]
  BY CoordinationAssumption DEF Init
<1>4. StepTypes
  BY <1>3 DEF Init, StepTypes
<1> QED BY <1>2, <1>4 DEF Init, NameInv

\* What RemoveAll does to the directory and to its caller.
LEMMA ClearedTypes ==
  ASSUME DirTypes, StepTypes, NEW r \in Removers \cup {GC}, NEW ok \in BOOLEAN, Cleared(r, ok)
  PROVE  /\ removal' \in [Removers \cup {GC} -> Removals]
         /\ initAt' \in [Invocations -> {"skipped", "idle", "clearing", "preparing", "publishing",
                                         "ready", "refused", "failed"}]
         /\ gcAt' \in {"idle", "clearing", "ended"}
<1>1. NotOpen \in Removals
  BY DEF NotOpen, Removals
<1>2. removal' \in [Removers \cup {GC} -> Removals]
  BY <1>1 DEF Cleared, DirTypes
<1>3. initAt' \in [Invocations -> {"skipped", "idle", "clearing", "preparing", "publishing",
                                   "ready", "refused", "failed"}]
  <2>1. CASE r[1] = "init"
    BY <2>1 DEF Cleared, StepTypes
  <2>2. CASE r[1] # "init"
    BY <2>2 DEF Cleared, StepTypes
  <2> QED BY <2>1, <2>2
<1> QED BY <1>2, <1>3 DEF Cleared, StepTypes

LEMMA RemoveAllTypes ==
  ASSUME TInv, NEW r \in Removers \cup {GC}, RemoveAll(r)
  PROVE  DirTypes' /\ StepTypes' /\ NameInv'
<1> USE DEF TInv
<1>1. CASE OpenDir(r)
  <2> DEFINE found == {n \in {"marker", "record", "shards"} :
                         \/ (n = "marker" /\ marker # NoFile)
                         \/ (n = "record" /\ record # NoFile)
                         \/ (n = "shards" /\ shardsDir)}
  <2>1. [of |-> dir, names |-> found] \in Removals
    BY DEF Removals, Names, DirTypes
  <2>2. removal' = [removal EXCEPT ![r] = [of |-> dir, names |-> found]]
    BY <1>1 DEF OpenDir
  <2> HIDE DEF found
  <2>3. UNCHANGED <<disk, initAt, gcAt>>
    BY <1>1 DEF OpenDir
  <2>4. removal' \in [Removers \cup {GC} -> Removals]
    BY <2>1, <2>2 DEF DirTypes
  <2> QED BY <1>1, <2>3, <2>4 DEF OpenDir, disk, DirTypes, StepTypes, NameInv
<1>2. CASE RemoveDir(r)
  <2>1. Empty \in BOOLEAN
    BY DEF Empty
  <2>2. /\ removal' \in [Removers \cup {GC} -> Removals]
        /\ initAt' \in [Invocations -> {"skipped", "idle", "clearing", "preparing", "publishing",
                                        "ready", "refused", "failed"}]
        /\ gcAt' \in {"idle", "clearing", "ended"}
    BY <1>2, <2>1, ClearedTypes DEF RemoveDir
  <2>3. DirTypes'
    BY <1>2, <2>2 DEF RemoveDir, DirTypes, Empty
  <2> QED BY <1>2, <2>2, <2>3 DEF RemoveDir, StepTypes, NameInv
<1>3. CASE RemovalFails(r)
  <2>2. /\ removal' \in [Removers \cup {GC} -> Removals]
        /\ initAt' \in [Invocations -> {"skipped", "idle", "clearing", "preparing", "publishing",
                                        "ready", "refused", "failed"}]
        /\ gcAt' \in {"idle", "clearing", "ended"}
    BY <1>3, ClearedTypes DEF RemovalFails
  <2> QED BY <1>3, <2>2 DEF RemovalFails, disk, DirTypes, StepTypes, NameInv
<1>4. ASSUME NEW n \in removal[r].names, Unlink(r, n) PROVE DirTypes' /\ StepTypes' /\ NameInv'
  <2>1. removal[r] \in Removals /\ n \in Names
    BY DEF DirTypes, Removals
  <2>2. PICK names \in SUBSET Names : removal' = [removal EXCEPT ![r].names = names]
    BY <1>4, <2>1 DEF Unlink, Removals, Names
  <2>3. [removal[r] EXCEPT !.names = names] \in Removals
    BY <2>1 DEF Removals
  <2>4. removal' \in [Removers \cup {GC} -> Removals]
    BY <2>2, <2>3 DEF DirTypes
  <2>5. \/ shards' = shards
        \/ n \in Packages /\ shards' = [shards EXCEPT ![n] = NoFile]
    BY <1>4 DEF Unlink
  <2>6. /\ marker' \in {marker, NoFile} /\ record' \in {record, NoFile} /\ dir' = dir
        /\ shardsDir' = shardsDir \/ (shardsDir' = FALSE /\ \A p \in Packages : shards[p] = NoFile)
        /\ UNCHANGED <<env, inits, initAt, prodAt, gcAt, calm>>
    BY <1>4 DEF Unlink
  <2>7. \A p \in Packages : shards'[p] \in {shards[p], NoFile}
    BY <2>5 DEF IInv, FinalizeTypes
  <2>8. shardsDir' \in BOOLEAN /\ (~shardsDir' => \A p \in Packages : shards'[p] = NoFile)
    <3>1. shardsDir' \in BOOLEAN
      BY <2>6 DEF DirTypes
    <3>2. ~shardsDir' => \A p \in Packages : shards[p] = NoFile
      BY <2>6 DEF DirTypes
    <3> QED BY <2>7, <3>1, <3>2
  <2>9. dir = 0 => ~shardsDir'
    BY <2>6 DEF DirTypes
  <2>10. DirTypes'
    BY <2>4, <2>6, <2>8, <2>9 DEF DirTypes
  <2> QED BY <2>6, <2>7, <2>10 DEF StepTypes, NameInv
<1> QED BY <1>1, <1>2, <1>3, <1>4 DEF RemoveAll

LEMMA InitializeTypes ==
  ASSUME TInv, NEW i \in Invocations,
         (\E force \in BOOLEAN : StartInit(i, force)) \/ Prepare(i) \/ PublishMarker(i) \/ InitFails(i)
  PROVE  DirTypes' /\ StepTypes' /\ NameInv'
<1> USE DEF TInv
<1>1. ASSUME NEW force \in BOOLEAN, StartInit(i, force) PROVE DirTypes' /\ StepTypes' /\ NameInv'
  <2>1. inits[i] - 1 \in Nat /\ inits' = [inits EXCEPT ![i] = inits[i] - 1]
    BY <1>1 DEF StartInit, StepTypes
  <2>2. inits' \in [Invocations -> Nat]
    BY <2>1 DEF StepTypes
  <2>3. /\ initAt' \in [Invocations -> {"skipped", "idle", "clearing", "preparing", "publishing",
                                        "ready", "refused", "failed"}]
        /\ prodAt' \in [Producers -> {"idle", "testing", "deciding", "recording", "writing",
                                      "published", "duplicate", "failed"}]
        /\ calm' \subseteq Invocations
    BY <1>1 DEF StartInit, StepTypes
  <2> QED BY <1>1, <2>2, <2>3 DEF StartInit, disk, DirTypes, StepTypes, NameInv
<1>2. CASE Prepare(i)
  <2>1. dir' \in Nat \ {0}
    BY <1>2, SomeDirectory DEF Prepare
  <2> QED BY <1>2, <2>1 DEF Prepare, DirTypes, StepTypes, NameInv
<1>3. CASE PublishMarker(i)
  <2>1. calm' \subseteq Invocations
    BY <1>3 DEF PublishMarker, StepTypes
  <2>2. DirTypes'
    BY <1>3 DEF PublishMarker, DirTypes
  <2> QED BY <1>3, <2>1, <2>2 DEF PublishMarker, StepTypes, NameInv
<1>4. CASE InitFails(i)
  BY <1>4 DEF InitFails, disk, DirTypes, StepTypes, NameInv
<1> QED BY <1>1, <1>2, <1>3, <1>4

LEMMA ProducerTypes ==
  ASSUME TInv, NEW ip \in Producers, Producer(ip)
  PROVE  DirTypes' /\ StepTypes' /\ NameInv'
<1> USE DEF TInv
<1>0. ip[1] \in Invocations /\ ip[2] \in Packages
  BY DEF Producers
<1>1. prodAt' \in [Producers -> {"idle", "testing", "deciding", "recording", "writing",
                                 "published", "duplicate", "failed"}]
  <2>1. \E s \in {"testing", "deciding", "recording", "writing", "published", "duplicate", "failed"} :
          ProducerTo(ip, s)
    BY DEF Producer, ProducerStarts, ProducerDecides, ProducerRecords, TestsEnd, PublishShard, ProducerFails
  <2> QED BY <2>1 DEF ProducerTo, StepTypes
<1>2. calm' \subseteq Invocations /\ UNCHANGED <<env, inits, initAt, gcAt, removal>>
  BY DEF Producer, ProducerStarts, ProducerDecides, ProducerRecords, TestsEnd, PublishShard,
         ProducerFails, ElseUnchanged, StepTypes
<1>3. StepTypes'
  BY <1>1, <1>2 DEF StepTypes
<1>4. CASE ProducerRecords(ip)
  <2>1. dir' \in Nat \ {0}
    BY <1>4, SomeDirectory DEF ProducerRecords
  <2> QED BY <1>0, <1>2, <1>3, <1>4, <2>1 DEF ProducerRecords, DirTypes, NameInv
<1>5. CASE PublishShard(ip)
  <2>1. \A p \in Packages : \/ shards'[p] = shards[p]
                            \/ shards'[p] = [pkg |-> p, token |-> ip[1], at |-> stamp[ip]]
    BY <1>5 DEF PublishShard, IInv, FinalizeTypes
  <2>2. NameInv'
    <3> SUFFICES ASSUME NEW p \in Packages, shards'[p] # NoFile PROVE shards'[p].pkg = p
      BY DEF NameInv
    <3>1. CASE shards'[p] = shards[p]
      BY <3>1 DEF NameInv
    <3>2. CASE shards'[p] = [pkg |-> p, token |-> ip[1], at |-> stamp[ip]]
      BY <3>2
    <3> QED BY <2>1, <3>1, <3>2
  <2>3. shardsDir /\ UNCHANGED <<dir, shardsDir, marker, record>>
    BY <1>5 DEF PublishShard
  <2>4. DirTypes'
    BY <1>2, <2>3 DEF DirTypes
  <2> QED BY <1>3, <2>2, <2>4
<1>6. CASE ~ProducerRecords(ip) /\ ~PublishShard(ip)
  <2>1. UNCHANGED disk
    BY <1>6 DEF Producer, ProducerStarts, ProducerDecides, TestsEnd, ProducerFails
  <2> QED BY <1>2, <1>3, <2>1 DEF disk, DirTypes, NameInv
<1> QED BY <1>4, <1>5, <1>6

LEMMA FinalizeKeepsTypes ==
  ASSUME TInv, NEW i \in Invocations, Finalize(i)
  PROVE  DirTypes' /\ StepTypes' /\ NameInv'
<1>1. RestUnchanged /\ calm' \in {calm, {}}
  BY DEF Finalize, StartFinalize, LookForRecord, ListShards, ReadShards, Render, EndFinalize, FinalizeFails
<1> QED BY <1>1 DEF RestUnchanged, disk, TInv, DirTypes, StepTypes, NameInv

LEMMA NextTypes == TInv /\ [Next]_vars => TInv'
<1> SUFFICES ASSUME TInv, [Next]_vars PROVE DirTypes' /\ StepTypes' /\ NameInv'
  BY NextInv DEF TInv
<1>1. ASSUME NEW i \in Invocations, NEW force \in {FALSE} \cup {f \in {TRUE} : i \in Forces},
             StartInit(i, force)
      PROVE  DirTypes' /\ StepTypes' /\ NameInv'
  <2>1. force \in BOOLEAN
    OBVIOUS
  <2> QED BY <1>1, <2>1, InitializeTypes
<1>2. ASSUME NEW i \in Invocations, Prepare(i) \/ PublishMarker(i) \/ InitFails(i)
      PROVE  DirTypes' /\ StepTypes' /\ NameInv'
  BY <1>2, InitializeTypes
<1>3. CASE RetentionPasses \/ CollectRun \/ UNCHANGED vars
  <2>1. \/ UNCHANGED marker
        \/ marker # NoFile /\ dir' = dir
    BY <1>3 DEF RetentionPasses, CollectRun, vars, disk
  <2>2. UNCHANGED <<dir, shardsDir, record, shards, env, inits, initAt, prodAt, removal>>
    BY <1>3 DEF RetentionPasses, CollectRun, vars, disk, procs
  <2>3. gcAt' \in {gcAt, "clearing"} /\ calm' \in {calm, {}}
    BY <1>3 DEF RetentionPasses, CollectRun, vars, procs
  <2> QED BY <2>1, <2>2, <2>3 DEF TInv, DirTypes, StepTypes, NameInv
<1> QED BY <1>1, <1>2, <1>3, RemoveAllTypes, ProducerTypes, FinalizeKeepsTypes DEF Next

\* Every variable keeps its type, and what is in a directory is there only while the directory is.
THEOREM TypeCorrect == Spec => []TypeOK
<1>1. Init => TInv
  BY InitInv, InitTypes DEF TInv
<1> QED BY <1>1, NextTypes, TypesTogether, PTL DEF Spec

-----------------------------------------------------------------------------
(* What a cleanup may remove.                                              *)

\* While an invocation finalizes its test processes have ended, so every shard of its own that is still
\* there was listed; what was listed is accepted or rejected, and nothing is rejected when it cleans up.
PruneOK(i) ==
  /\ finAt[i] # "idle" => TestsEnded(i) /\ initAt[i] \notin {"clearing", "preparing", "publishing"}
  /\ \A p \in Packages : shards[p] # NoFile /\ shards[p].token = i =>
       /\ finAt[i] = "reading" => p \in view[i].listed
       /\ finAt[i] = "rendering" => shards[p] \in view[i].accepted \/ p \in view[i].rejected
       /\ finAt[i] = "clearing" => \A t \in 1..Targets : shards[p] \in report[i][t]
PruneInv == \A i \in Invocations : PruneOK(i)

LEMMA InitPrune == Init => PruneInv
  BY DEF Init, PruneInv, PruneOK

\* Steps that neither begin a stage of i's Finalize nor add a shard of an i that finalizes.
LEMMA PruneKept ==
  ASSUME PruneInv, NEW i \in Invocations,
         finAt'[i] \in {finAt[i], "idle"}, view'[i] = view[i], report'[i] = report[i],
         finAt[i] # "idle" =>
           /\ TestsEnded(i)' /\ initAt'[i] = initAt[i]
           /\ \A p \in Packages : shards'[p] # NoFile /\ shards'[p].token = i => shards'[p] = shards[p]
  PROVE  PruneOK(i)'
  BY DEF PruneInv, PruneOK

LEMMA RemoveAllPrune ==
  ASSUME TInv, PruneInv, NEW r \in Removers \cup {GC}, RemoveAll(r)
  PROVE  PruneInv'
<1> SUFFICES ASSUME NEW i \in Invocations PROVE PruneOK(i)'
  BY DEF PruneInv
<1>1. finAt[i] # "idle" => TestsEnded(i)'
  <2>1. UNCHANGED prodAt
    BY DEF RemoveAll, OpenDir, RemoveDir, RemovalFails, Unlink, disk
  <2> QED BY <2>1 DEF PruneInv, PruneOK, TestsEnded
<1>2. \A p \in Packages : shards'[p] \in {shards[p], NoFile}
  <2>1. CASE OpenDir(r) \/ RemoveDir(r) \/ RemovalFails(r)
    BY <2>1 DEF OpenDir, RemoveDir, RemovalFails, disk
  <2>2. ASSUME NEW n \in removal[r].names, Unlink(r, n)
        PROVE  \A p \in Packages : shards'[p] \in {shards[p], NoFile}
    BY <2>2 DEF Unlink, TInv, IInv, FinalizeTypes
  <2> QED BY <2>1, <2>2 DEF RemoveAll
<1>3. UNCHANGED <<view, report>>
  BY DEF RemoveAll, OpenDir, RemoveDir, RemovalFails, Unlink, disk
<1>4. finAt'[i] \in {finAt[i], "idle"} /\ (finAt[i] # "idle" => initAt'[i] = initAt[i])
  <2>1. CASE UNCHANGED <<finAt, initAt>>
    BY <2>1
  <2>2. ASSUME NEW ok \in BOOLEAN, Clearing(r), Cleared(r, ok)
        PROVE  finAt'[i] \in {finAt[i], "idle"} /\ (finAt[i] # "idle" => initAt'[i] = initAt[i])
    <3>1. CASE r[1] = "init"
      <4>1. r[2] \in Invocations /\ initAt[r[2]] = "clearing"
        BY <2>2, <3>1 DEF Clearing, Removers, GC
      <4>2. finAt[r[2]] = "idle"
        BY <4>1 DEF PruneInv, PruneOK
      <4>3. UNCHANGED finAt /\ (i # r[2] => initAt'[i] = initAt[i])
        BY <2>2, <3>1 DEF Cleared, TInv, StepTypes
      <4> QED BY <4>2, <4>3
    <3>2. CASE r[1] # "init"
      BY <2>2, <3>2 DEF Cleared, TInv, IInv, FinalizeTypes
    <3> QED BY <3>1, <3>2
  <2>3. CASE RemoveDir(r)
    <3>1. Empty \in BOOLEAN
      BY DEF Empty
    <3> QED BY <2>2, <2>3, <3>1 DEF RemoveDir
  <2>4. CASE RemovalFails(r)
    BY <2>2, <2>4 DEF RemovalFails
  <2> QED BY <2>1, <2>3, <2>4 DEF RemoveAll, OpenDir, Unlink
<1> QED BY <1>1, <1>2, <1>3, <1>4, PruneKept

LEMMA InitializePrune ==
  ASSUME TInv, PruneInv, NEW i \in Invocations,
         (\E force \in BOOLEAN : StartInit(i, force)) \/ Prepare(i) \/ PublishMarker(i) \/ InitFails(i)
  PROVE  PruneInv'
<1> SUFFICES ASSUME NEW j \in Invocations PROVE PruneOK(j)'
  BY DEF PruneInv
<1>1. finAt[i] = "idle"
  BY DEF StartInit, Prepare, PublishMarker, InitFails, PruneInv, PruneOK
<1>2. UNCHANGED <<shards, finAt, view, report>>
  BY DEF StartInit, Prepare, PublishMarker, InitFails, disk
<1>3. finAt[j] # "idle" => initAt'[j] = initAt[j]
  BY <1>1 DEF StartInit, Prepare, PublishMarker, InitFails, TInv, StepTypes
<1>4. finAt[j] # "idle" => TestsEnded(j)'
  <2> SUFFICES ASSUME finAt[j] # "idle" PROVE TestsEnded(j)'
    OBVIOUS
  <2>1. \A ip \in Producers : ip[1] = j => prodAt'[ip] = prodAt[ip]
    BY <1>1 DEF StartInit, Prepare, PublishMarker, InitFails, TInv, StepTypes
  <2>2. TestsEnded(j)
    BY DEF PruneInv, PruneOK
  <2> QED BY <2>1, <2>2 DEF TestsEnded
<1> QED BY <1>2, <1>3, <1>4, PruneKept

\* A test process that can still do something keeps its invocation from finalizing.
LEMMA ProducerIsEarly ==
  ASSUME NEW ip \in Producers, Producer(ip)
  PROVE  prodAt[ip] \notin {"published", "duplicate", "failed"}
  BY DEF Producer, ProducerStarts, ProducerDecides, ProducerRecords, TestsEnd, PublishShard, ProducerFails

LEMMA ProducerPrune ==
  ASSUME TInv, PruneInv, NEW ip \in Producers, Producer(ip)
  PROVE  PruneInv'
<1> SUFFICES ASSUME NEW j \in Invocations PROVE PruneOK(j)'
  BY DEF PruneInv
<1>1. UNCHANGED <<initAt, finAt, view, report>>
  BY DEF Producer, ProducerStarts, ProducerDecides, ProducerRecords, TestsEnd, PublishShard,
         ProducerFails, ElseUnchanged
<1>2. ip[1] = j => finAt[j] = "idle"
  BY ProducerIsEarly DEF PruneInv, PruneOK, TestsEnded
<1>3. \A q \in Producers : q # ip => prodAt'[q] = prodAt[q]
  BY DEF Producer, ProducerStarts, ProducerDecides, ProducerRecords, TestsEnd, PublishShard,
         ProducerFails, ProducerTo, TInv, StepTypes
<1>4. finAt[j] # "idle" => TestsEnded(j)'
  BY <1>2, <1>3 DEF PruneInv, PruneOK, TestsEnded
<1>5. \A p \in Packages : shards'[p] # NoFile /\ shards'[p].token # ip[1] => shards'[p] = shards[p]
  <2>1. CASE PublishShard(ip)
    BY <2>1 DEF PublishShard, TInv, IInv, FinalizeTypes
  <2>2. CASE ~PublishShard(ip)
    BY <2>2 DEF Producer, ProducerStarts, ProducerDecides, ProducerRecords, TestsEnd, ProducerFails, disk
  <2> QED BY <2>1, <2>2
<1> QED BY <1>1, <1>2, <1>4, <1>5, PruneKept

LEMMA FinalizePrune ==
  ASSUME TInv, PruneInv, NEW i \in Invocations, Finalize(i)
  PROVE  PruneInv'
<1> USE DEF TInv, IInv
<1>1. UNCHANGED <<prodAt, initAt, shards>>
  BY DEF Finalize, StartFinalize, LookForRecord, ListShards, ReadShards, Render, EndFinalize, FinalizeFails,
         RestUnchanged, disk
<1>2. \A j \in Invocations : TestsEnded(j)' = TestsEnded(j)
  BY <1>1 DEF TestsEnded
<1>3. \A j \in Invocations \ {i} : finAt'[j] = finAt[j] /\ view'[j] = view[j] /\ report'[j] = report[j]
  BY DEF Finalize, StartFinalize, LookForRecord, ListShards, ReadShards, Render, EndFinalize, FinalizeFails,
         Finalizing, FinalizeTypes
<1>4. \A j \in Invocations \ {i} : PruneOK(j)'
  BY <1>1, <1>2, <1>3 DEF PruneInv, PruneOK
<1>5. PruneOK(i) /\ view[i] \in Views /\ view \in [Invocations -> Views]
  BY DEF PruneInv, FinalizeTypes
<1>6. CASE StartFinalize(i)
  <2>1. TestsEnded(i) /\ initAt[i] \notin {"clearing", "preparing", "publishing"}
        /\ finAt'[i] \in {"verified", finAt[i]}
    BY <1>6 DEF StartFinalize, InitEnded, Finalizing, FinalizeTypes
  <2>2. finAt'[i] \in {"verified", "idle"}
    BY <1>6 DEF StartFinalize, Finalizing, FinalizeTypes
  <2> QED BY <1>1, <1>2, <1>4, <2>1, <2>2 DEF PruneInv, PruneOK
<1>7. CASE LookForRecord(i)
  <2>1. finAt[i] # "idle" /\ finAt'[i] \in {"listing", "idle"}
    BY <1>7 DEF LookForRecord, Finalizing, FinalizeTypes
  <2> QED BY <1>1, <1>2, <1>4, <1>5, <2>1 DEF PruneInv, PruneOK
<1>8. CASE ListShards(i)
  <2>1. /\ finAt[i] # "idle" /\ finAt'[i] \in {"reading", "idle"}
        /\ finAt'[i] = "reading" => view'[i].listed = {p \in Packages : shards[p] # NoFile}
    BY <1>5, <1>8 DEF ListShards, Finalizing, FinalizeTypes, Views
  <2> QED BY <1>1, <1>2, <1>4, <1>5, <2>1 DEF PruneInv, PruneOK
<1>9. CASE ReadShards(i)
  <2> DEFINE good == {p \in view[i].listed : Accepted(i, shards[p])}
  <2>1. /\ finAt[i] = "reading" /\ finAt'[i] = "rendering"
        /\ view'[i].accepted = {shards[p] : p \in good} /\ view'[i].rejected = view[i].listed \ good
    BY <1>5, <1>9 DEF ReadShards, Finalizing, FinalizeTypes, Views
  <2>2. ASSUME NEW p \in Packages, shards[p] # NoFile, shards[p].token = i
        PROVE  shards[p] \in view'[i].accepted \/ p \in view'[i].rejected
    <3>1. p \in view[i].listed
      BY <1>5, <2>1, <2>2 DEF PruneOK
    <3> QED BY <2>1, <3>1
  <2> QED BY <1>1, <1>2, <1>4, <1>5, <2>1, <2>2 DEF PruneInv, PruneOK
<1>10. CASE Render(i)
  <2>1. /\ finAt[i] = "rendering" /\ finAt'[i] = "rendering"
        /\ view'[i].accepted = view[i].accepted /\ view'[i].rejected = view[i].rejected
    BY <1>5, <1>10 DEF Render, Finalizing, FinalizeTypes, Views
  <2> QED BY <1>1, <1>2, <1>4, <1>5, <2>1 DEF PruneInv, PruneOK
<1>11. CASE EndFinalize(i)
  <2>1. /\ finAt[i] = "rendering" /\ finAt'[i] \in {"clearing", "idle"} /\ view[i].rendered = Targets
        /\ finAt'[i] = "clearing" => view[i].rejected = {}
        /\ UNCHANGED report
    BY <1>11 DEF EndFinalize, Rendered, Complete, Finalizing, FinalizeTypes
  <2>2. \A t \in 1..Targets : report[i][t] = view[i].accepted
    BY <2>1 DEF ReportOK
  <2> QED BY <1>1, <1>2, <1>4, <1>5, <2>1, <2>2 DEF PruneInv, PruneOK
<1>12. CASE FinalizeFails(i)
  <2>1. finAt'[i] = "idle"
    BY <1>12 DEF FinalizeFails, FinalizeTypes
  <2> QED BY <1>4, <2>1 DEF PruneInv, PruneOK
<1> QED BY <1>6, <1>7, <1>8, <1>9, <1>10, <1>11, <1>12 DEF Finalize

LEMMA NextPrune == TInv /\ PruneInv /\ [Next]_vars => PruneInv'
<1> SUFFICES ASSUME TInv, PruneInv, [Next]_vars PROVE PruneInv'
  OBVIOUS
<1>1. ASSUME NEW i \in Invocations, NEW force \in {FALSE} \cup {f \in {TRUE} : i \in Forces},
             StartInit(i, force)
      PROVE  PruneInv'
  <2>1. force \in BOOLEAN
    OBVIOUS
  <2> QED BY <1>1, <2>1, InitializePrune
<1>2. ASSUME NEW i \in Invocations, Prepare(i) \/ PublishMarker(i) \/ InitFails(i)
      PROVE  PruneInv'
  BY <1>2, InitializePrune
<1>3. CASE RetentionPasses \/ CollectRun \/ UNCHANGED vars
  <2>1. UNCHANGED <<shards, initAt, prodAt, finAt, view, report>>
    BY <1>3 DEF RetentionPasses, CollectRun, vars, disk, procs
  <2> QED BY <2>1 DEF PruneInv, PruneOK, TestsEnded
<1> QED BY <1>1, <1>2, <1>3, RemoveAllPrune, ProducerPrune, FinalizePrune DEF Next

\* Only os.RemoveAll takes a shard away, from the directory it has opened.
LEMMA ShardGoes ==
  ASSUME TInv, [Next]_vars, NEW p \in Packages, shards[p] # NoFile, shards'[p] = NoFile
  PROVE  \E r \in Removers \cup {GC} : Clearing(r) /\ removal[r].of = dir
<1> USE DEF TInv, IInv, FinalizeTypes
<1>1. ASSUME NEW r \in Removers \cup {GC}, RemoveAll(r) PROVE Clearing(r) /\ removal[r].of = dir
  BY <1>1 DEF RemoveAll, OpenDir, RemoveDir, RemovalFails, Unlink, disk
<1>2. ASSUME NEW ip \in Producers, Producer(ip) PROVE FALSE
  <2>1. CASE PublishShard(ip)
    BY <2>1 DEF PublishShard
  <2>2. CASE ~PublishShard(ip)
    BY <1>2, <2>2 DEF Producer, ProducerStarts, ProducerDecides, ProducerRecords, TestsEnd, ProducerFails, disk
  <2> QED BY <2>1, <2>2
<1>3. ASSUME NEW i \in Invocations, Finalize(i) PROVE FALSE
  BY <1>3 DEF Finalize, StartFinalize, LookForRecord, ListShards, ReadShards, Render, EndFinalize, FinalizeFails,
         RestUnchanged, disk
<1>4. ASSUME NEW i \in Invocations, NEW force, StartInit(i, force) PROVE FALSE
  BY <1>4 DEF StartInit, disk
<1>5. ASSUME NEW i \in Invocations, Prepare(i) \/ PublishMarker(i) \/ InitFails(i) PROVE FALSE
  BY <1>5 DEF Prepare, PublishMarker, InitFails, disk
<1>6. ~(RetentionPasses \/ CollectRun \/ UNCHANGED vars)
  BY DEF RetentionPasses, CollectRun, vars, disk
<1> QED BY <1>1, <1>2, <1>3, <1>4, <1>5, <1>6 DEF Next

\* Whatever the other invocations, gc and failures do: a shard of its own that the cleanup of a Finalize
\* removes is in every report that Finalize wrote.
THEOREM NothingIsPrunedUnreported == Spec => NothingPrunedUnreported
<1>1. ASSUME TInv, PruneInv, [Next]_vars, NEW i \in Invocations, NEW p \in Packages,
             OnlyRemover(<<"finalize", i>>), shards[p] # NoFile, shards'[p] = NoFile, shards[p].token = i
      PROVE  \A t \in 1..Targets : shards[p] \in report[i][t]
  <2>1. PICK r \in Removers \cup {GC} : Clearing(r) /\ removal[r].of = dir
    BY <1>1, ShardGoes
  <2>2. DOMAIN removal = Removers \cup {GC}
    BY <1>1 DEF TInv, DirTypes
  <2>3. r = <<"finalize", i>>
    BY <1>1, <2>1, <2>2 DEF OnlyRemover
  <2>4. finAt[i] = "clearing"
    BY <2>1, <2>3 DEF Clearing
  <2> QED BY <1>1, <2>4 DEF PruneInv, PruneOK
<1>2. Init => TInv /\ PruneInv
  BY InitInv, InitTypes, InitPrune DEF TInv
<1>3. TInv /\ PruneInv /\ [Next]_vars =>
        [\A i \in Invocations, p \in Packages :
           /\ OnlyRemover(<<"finalize", i>>)
           /\ shards[p] # NoFile /\ shards'[p] = NoFile /\ shards[p].token = i
           => \A t \in 1..Targets : shards[p] \in report[i][t]]_vars
  BY <1>1
<1> QED BY <1>2, <1>3, NextTypes, NextPrune, PTL DEF Spec, NothingPrunedUnreported

-----------------------------------------------------------------------------
(* What a healthy run is sure of.                                          *)

\* What the others, and its own test processes, cannot be doing while i owns the run.
Alone(i) ==
  /\ record = NoFile
  /\ gcAt # "clearing"
  /\ \A j \in Invocations : initAt[j] # "clearing" /\ (j # i => finAt[j] = "idle")
  /\ \A ip \in Producers : /\ prodAt[ip] # "recording"
                           /\ ip[1] = i => prodAt[ip] # "deciding"
                           /\ ip[1] # i => prodAt[ip] \notin {"testing", "writing"}

\* The shards there are those its packages have published after its preflight.
PublishedOK(ip) ==
  LET s == shards[ip[2]] IN s # NoFile /\ s.pkg = ip[2] /\ s.token = ip[1] /\ s.at >= created[ip[1]]
ShardsOK(i) ==
  /\ \A p \in Packages : shards[p] # NoFile => <<i, p>> \in Producers /\ prodAt[<<i, p>>] = "published"
  /\ \A ip \in Producers : ip[1] = i =>
       /\ prodAt[ip] = "writing" => stamp[ip] >= created[i]
       /\ prodAt[ip] = "published" => PublishedOK(ip)

AllPublished(i) ==
  Expected[i] = Builds[i] /\ \A ip \in Producers : ip[1] = i => prodAt[ip] = "published"

\* How far Finalize is, and what it can end with when every package has published.
FreshReport(i) == \A t \in 1..Targets : \A s \in report[i][t] : s.at >= created[i]
FinalizeOK(i) ==
  /\ finAt[i] # "idle" \/ exit[i] # "none" => TestsEnded(i)
  /\ finAt[i] \in {"reading", "rendering"} => view[i].at = created[i]
  /\ finAt[i] = "rendering" => \A s \in view[i].accepted : s.at >= created[i]
  /\ exit[i] = "green" => FreshReport(i)
  /\ AllPublished(i) =>
       /\ exit[i] \in {"none", "green"}
       /\ finAt[i] = "reading" => view[i].listed = Builds[i]
       /\ finAt[i] = "rendering" => Complete(i)

Unremoved(i) ==
  LET mine == removal[<<"finalize", i>>] IN mine.of = 0 \/ (mine.of = dir /\ "marker" \in mine.names)

OwnerOK(i) ==
  /\ marker.at = created[i]
  /\ Alone(i)
  /\ finAt[i] # "clearing" => ShardsOK(i) /\ FinalizeOK(i)
  /\ finAt[i] = "clearing" => Unremoved(i)

\* As long as it owns the run nobody disturbs it; only its own cleanup gives the run away, and by then
\* it has told what its packages published.
HealthyOK(i) ==
  /\ Owns(i) => OwnerOK(i)
  /\ ~Owns(i) => finAt[i] \in {"clearing", "idle"}
  /\ ~Owns(i) \/ finAt[i] = "clearing" => Told(i)

StartingOK(i) ==
  /\ created[i] <= epoch
  /\ initAt[i] \in {"clearing", "preparing", "publishing"} =>
       finAt[i] = "idle" /\ exit[i] = "none" /\ TestsIdle(i)

Healthy(i) == i \in calm /\ initAt[i] = "ready"
CalmInv == \A i \in Invocations : StartingOK(i) /\ (Healthy(i) => HealthyOK(i))

\* A directory is open only while its removal goes on.
OpenInv == \A r \in Removers \cup {GC} : removal[r].of # 0 => Clearing(r)

HInv == TInv /\ PruneInv /\ OpenInv /\ CalmInv

LEMMA CalmMeansReported == HInv => HealthyRunIsReported
<1> SUFFICES ASSUME HInv, NEW i \in calm,
                    initAt[i] = "ready", AllPublished(i), finAt[i] = "idle", exit[i] # "none"
             PROVE  Told(i)
  BY DEF HealthyRunIsReported, AllPublished
<1>1. i \in Invocations /\ HealthyOK(i) /\ ReportOK(i)
  BY DEF HInv, TInv, StepTypes, CalmInv, Healthy, IInv
<1>2. CASE Owns(i)
  <2>1. exit[i] = "green" /\ FreshReport(i)
    BY <1>1, <1>2 DEF HealthyOK, OwnerOK, FinalizeOK
  <2> QED BY <1>1, <2>1 DEF ReportOK, Told, FreshReport
<1> QED BY <1>1, <1>2 DEF HealthyOK

LEMMA InitCalm == Init => OpenInv /\ CalmInv
<1> SUFFICES ASSUME Init PROVE OpenInv /\ CalmInv
  OBVIOUS
<1>1. OpenInv
  BY DEF Init, OpenInv, NotOpen
<1>2. \A i \in Invocations : StartingOK(i) /\ ~Healthy(i)
  BY DEF Init, StartingOK, Healthy
<1> QED BY <1>1, <1>2 DEF CalmInv

-----------------------------------------------------------------------------
\* The marker stays, or only grows old.
MarkerKept ==
  \/ marker' = marker
  \/ marker # NoFile /\ marker' # NoFile /\ marker'.token = marker.token /\ marker'.at = marker.at

\* Steps that do not concern i keep what it is sure of,
LEMMA HealthyKept ==
  ASSUME NEW i \in Invocations, HealthyOK(i), MarkerKept, created'[i] = created[i],
         finAt'[i] = finAt[i], exit'[i] = exit[i], view'[i] = view[i], report'[i] = report[i],
         Owns(i) => /\ Alone(i)' /\ shards' = shards
                    /\ \A ip \in Producers : ip[1] = i => prodAt'[ip] = prodAt[ip] /\ stamp'[ip] = stamp[ip]
                    /\ dir' = dir /\ removal'[<<"finalize", i>>] = removal[<<"finalize", i>>]
  PROVE  HealthyOK(i)'
<1>1. Told(i) => Told(i)'
  BY DEF Told, Reported
<1>2. CASE ~Owns(i)
  <2>1. ~Owns(i)'
    BY <1>2 DEF Owns, MarkerKept
  <2> QED BY <1>1, <1>2, <2>1 DEF HealthyOK
<1>3. CASE Owns(i)
  <2>1. Owns(i)' /\ marker'.at = marker.at
    BY <1>3 DEF Owns, MarkerKept
  <2>2. OwnerOK(i)
    BY <1>3 DEF HealthyOK
  <2>3. ShardsOK(i) => ShardsOK(i)'
    <3>1. \A ip \in Producers : ip[1] = i /\ PublishedOK(ip) => PublishedOK(ip)'
      BY <1>3 DEF PublishedOK
    <3>2. \A p \in Packages : <<i, p>> \in Producers => prodAt'[<<i, p>>] = prodAt[<<i, p>>]
      BY <1>3
    <3> QED BY <1>3, <3>1, <3>2 DEF ShardsOK
  <2>4. FinalizeOK(i) => FinalizeOK(i)'
    <3>1. TestsEnded(i)' = TestsEnded(i) /\ AllPublished(i)' = AllPublished(i)
      BY <1>3 DEF TestsEnded, AllPublished
    <3>2. FreshReport(i)' = FreshReport(i) /\ Complete(i)' = Complete(i)
      BY DEF FreshReport, Complete
    <3> QED BY <3>1, <3>2 DEF FinalizeOK
  <2>5. Unremoved(i) => Unremoved(i)'
    BY <1>3 DEF Unremoved
  <2> QED BY <1>1, <1>3, <2>1, <2>2, <2>3, <2>4, <2>5 DEF HealthyOK, OwnerOK
<1> QED BY <1>2, <1>3

\* and once it has given the run away nothing but its own preflight concerns it.
LEMMA GivenAwayKept ==
  ASSUME NEW i \in Invocations, HealthyOK(i), ~Owns(i), ~Owns(i)', created'[i] = created[i],
         finAt'[i] \in {finAt[i], "idle"}, report'[i] = report[i]
  PROVE  HealthyOK(i)'
  BY DEF HealthyOK, Told, Reported

\* What an owner has by the types.
LEMMA OwnerFacts ==
  ASSUME HInv, NEW i \in Invocations, Healthy(i)
  PROVE  /\ HealthyOK(i)
         /\ Owns(i) => marker # NoFile /\ marker.token = i /\ dir # 0 /\ OwnerOK(i) /\ Alone(i)
  BY DEF HInv, TInv, DirTypes, CalmInv, HealthyOK, OwnerOK, Owns

\* Nobody but i removes anything while i owns the run.
LEMMA OwnRemover ==
  ASSUME NEW i \in Invocations, Alone(i), NEW r \in Removers \cup {GC}, Clearing(r)
  PROVE  r = <<"finalize", i>> /\ finAt[i] = "clearing"
<1>1. CASE r = GC
  BY <1>1 DEF GC, Clearing, Alone
<1>2. ASSUME NEW j \in Invocations, r = <<"init", j>> PROVE FALSE
  BY <1>2 DEF Clearing, Alone
<1>3. ASSUME NEW j \in Invocations, r = <<"finalize", j>> PROVE j = i /\ finAt[i] = "clearing"
  BY <1>3 DEF Clearing, Alone
<1> QED BY <1>1, <1>2, <1>3 DEF Removers

LEMMA RemoveAllCalm ==
  ASSUME HInv, NEW r \in Removers \cup {GC}, RemoveAll(r)
  PROVE  OpenInv' /\ CalmInv'
<1> USE DEF HInv, TInv, IInv
<1>t. removal \in [Removers \cup {GC} -> Removals] /\ finAt \in [Invocations -> {"idle", "verified", "listing", "reading", "rendering", "clearing"}]
      /\ \A i \in Invocations : <<"finalize", i>> \in Removers
  BY DEF DirTypes, FinalizeTypes, Removers
<1>c. UNCHANGED <<epoch, created, prodAt, stamp, view, report>>
  BY DEF RemoveAll, OpenDir, RemoveDir, RemovalFails, Unlink, disk
<1>1. CASE OpenDir(r)
  <2>1. /\ UNCHANGED <<disk, initAt, finAt, exit, gcAt, calm>> /\ Clearing(r)
        /\ \A o \in (Removers \cup {GC}) \ {r} : removal'[o] = removal[o]
        /\ removal'[r].of = dir /\ (marker # NoFile => "marker" \in removal'[r].names)
    BY <1>1, <1>t DEF OpenDir
  <2>2. \A o \in Removers \cup {GC} : Clearing(o)' = Clearing(o)
    BY <2>1 DEF Clearing
  <2>3. OpenInv'
    BY <2>1, <2>2 DEF OpenInv
  <2>4. ASSUME NEW i \in Invocations, Healthy(i) PROVE HealthyOK(i)'
    <3>1. CASE r # <<"finalize", i>>
      <4>1. Alone(i) => Alone(i)'
        BY <1>c, <2>1 DEF Alone, disk
      <4>2. removal'[<<"finalize", i>>] = removal[<<"finalize", i>>]
        BY <1>t, <2>1, <3>1
      <4> QED BY <1>c, <2>1, <2>4, <4>1, <4>2, OwnerFacts, HealthyKept DEF MarkerKept, disk
    <3>2. CASE r = <<"finalize", i>>
      <4>1. finAt[i] = "clearing"
        BY <2>1, <3>2 DEF Clearing
      <4>2. Owns(i)' = Owns(i) /\ Told(i)' = Told(i) /\ (Alone(i) => Alone(i)')
        BY <1>c, <2>1 DEF Owns, Told, Reported, Alone, disk
      <4>3. Owns(i) => Unremoved(i)'
        BY <2>1, <3>2 DEF Owns, Unremoved, disk
      <4> QED BY <1>c, <2>1, <2>4, <4>1, <4>2, <4>3, OwnerFacts DEF HealthyOK, OwnerOK, disk
    <3> QED BY <3>1, <3>2
  <2>5. \A i \in Invocations : StartingOK(i)' /\ (Healthy(i)' => Healthy(i))
    BY <1>c, <2>1 DEF CalmInv, StartingOK, TestsIdle, Healthy
  <2> QED BY <2>3, <2>4, <2>5 DEF CalmInv
<1>2. ASSUME NEW ok \in BOOLEAN, Clearing(r), Cleared(r, ok)
      PROVE  /\ OpenInv'
             /\ \A i \in Invocations : StartingOK(i)' /\ (initAt'[i] = "ready" => initAt[i] = "ready")
                                       /\ finAt'[i] \in {finAt[i], "idle"}
  <2>1. NotOpen.of = 0
    BY DEF NotOpen
  <2>2. removal'[r].of = 0 /\ \A o \in (Removers \cup {GC}) \ {r} : removal'[o] = removal[o]
    BY <1>2, <1>t, <2>1 DEF Cleared
  <2>3. CASE r[1] = "init"
    <3>1. PICK j \in Invocations : r = <<"init", j>>
      BY <2>3 DEF Removers, GC
    <3>2. initAt[j] = "clearing" /\ initAt'[j] \in {"preparing", "failed"} /\ UNCHANGED <<finAt, exit>>
          /\ gcAt' = gcAt /\ \A i \in Invocations \ {j} : initAt'[i] = initAt[i]
      BY <1>2, <2>3, <3>1 DEF Clearing, Cleared, GC, StepTypes
    <3>3. \A o \in (Removers \cup {GC}) \ {r} : Clearing(o) => Clearing(o)'
      BY <3>1, <3>2 DEF Clearing, Removers, GC
    <3>4. \A i \in Invocations : StartingOK(i)'
      BY <1>c, <3>2 DEF CalmInv, StartingOK, TestsIdle
    <3> QED BY <2>2, <3>2, <3>3, <3>4 DEF OpenInv
  <2>4. CASE r[1] = "finalize"
    <3>1. PICK j \in Invocations : r = <<"finalize", j>>
      BY <2>4 DEF Removers, GC
    <3>2. finAt[j] = "clearing" /\ finAt'[j] = "idle" /\ UNCHANGED initAt /\ gcAt' = gcAt
          /\ \A i \in Invocations \ {j} : finAt'[i] = finAt[i] /\ exit'[i] = exit[i]
      BY <1>2, <1>t, <2>4, <3>1 DEF Clearing, Cleared, GC, FinalizeTypes
    <3>3. \A o \in (Removers \cup {GC}) \ {r} : Clearing(o) => Clearing(o)'
      BY <3>1, <3>2 DEF Clearing, Removers, GC
    <3>4. initAt[j] \notin {"clearing", "preparing", "publishing"}
      BY <3>2 DEF PruneInv, PruneOK
    <3>5. \A i \in Invocations : StartingOK(i)'
      BY <1>c, <3>2, <3>4 DEF CalmInv, StartingOK, TestsIdle
    <3> QED BY <2>2, <3>2, <3>3, <3>5 DEF OpenInv
  <2>5. CASE r = GC
    <3>1. UNCHANGED <<initAt, finAt, exit>>
      BY <1>2, <2>5 DEF Cleared, GC
    <3>2. \A o \in (Removers \cup {GC}) \ {r} : Clearing(o) => Clearing(o)'
      BY <2>5, <3>1 DEF Clearing, Removers, GC
    <3>3. \A i \in Invocations : StartingOK(i)'
      BY <1>c, <3>1 DEF CalmInv, StartingOK, TestsIdle
    <3> QED BY <2>2, <3>1, <3>2, <3>3 DEF OpenInv
  <2> QED BY <2>3, <2>4, <2>5 DEF Removers
<1>3. CASE RemoveDir(r)
  <2>1. Empty \in BOOLEAN
    BY DEF Empty
  <2>2. /\ OpenInv'
        /\ \A i \in Invocations : StartingOK(i)' /\ (initAt'[i] = "ready" => initAt[i] = "ready")
                                  /\ finAt'[i] \in {finAt[i], "idle"}
    BY <1>2, <1>3, <2>1 DEF RemoveDir
  <2>3. UNCHANGED <<marker, calm>>
    BY <1>3 DEF RemoveDir
  <2>4. ASSUME NEW i \in Invocations, Healthy(i) PROVE HealthyOK(i)'
    <3>1. ~Owns(i)
      <4> SUFFICES ASSUME Owns(i) PROVE FALSE
        OBVIOUS
      <4>1. r = <<"finalize", i>> /\ finAt[i] = "clearing" /\ dir # 0
        BY <1>3, <2>4, OwnerFacts, OwnRemover DEF RemoveDir
      <4>2. Unremoved(i)
        BY <2>4, <4>1, OwnerFacts DEF OwnerOK
      <4> QED BY <1>3, <4>1, <4>2 DEF RemoveDir, Unremoved
    <3>2. ~Owns(i)'
      BY <2>3, <3>1 DEF Owns
    <3> QED BY <1>c, <2>2, <2>4, <3>1, <3>2, OwnerFacts, GivenAwayKept
  <2> QED BY <2>2, <2>3, <2>4 DEF CalmInv, Healthy
<1>4. CASE RemovalFails(r)
  <2>1. calm' = {}
    BY <1>4 DEF RemovalFails
  <2> QED BY <1>2, <1>4, <2>1 DEF RemovalFails, CalmInv, Healthy
<1>5. ASSUME NEW n \in removal[r].names, Unlink(r, n) PROVE OpenInv' /\ CalmInv'
  <2>1. /\ UNCHANGED <<dir, initAt, finAt, exit, gcAt, calm>> /\ Clearing(r)
        /\ marker' \in {marker, NoFile} /\ record' \in {record, NoFile}
        /\ n # "marker" => marker' = marker
    BY <1>5 DEF Unlink
  <2>2. /\ \A o \in (Removers \cup {GC}) \ {r} : removal'[o] = removal[o]
        /\ removal'[r].of = removal[r].of
        /\ n # "marker" /\ "marker" \in removal[r].names => "marker" \in removal'[r].names
    <3>1. PICK names : /\ removal' = [removal EXCEPT ![r].names = names]
                       /\ removal[r].names \ {n} \subseteq names
      BY <1>5 DEF Unlink
    <3>2. removal[r] \in Removals
      BY <1>t
    <3>3. removal'[r] = [removal[r] EXCEPT !.names = names]
      BY <1>t, <3>1
    <3> QED BY <1>t, <3>1, <3>2, <3>3 DEF Removals
  <2>3. OpenInv'
    BY <2>1, <2>2 DEF OpenInv, Clearing
  <2>4. ASSUME NEW i \in Invocations, Healthy(i) PROVE HealthyOK(i)'
    <3>1. CASE ~Owns(i)
      <4>1. ~Owns(i)'
        BY <2>1, <3>1 DEF Owns
      <4> QED BY <1>c, <2>1, <2>4, <3>1, <4>1, OwnerFacts, GivenAwayKept
    <3>2. CASE Owns(i)
      <4>1. r = <<"finalize", i>> /\ finAt[i] = "clearing" /\ OwnerOK(i) /\ Told(i)
        BY <2>1, <2>4, <3>2, OwnerFacts, OwnRemover DEF HealthyOK
      <4>2. Told(i)' /\ finAt'[i] = "clearing"
        BY <1>c, <2>1, <4>1 DEF Told, Reported
      <4>3. CASE marker' = NoFile
        BY <4>2, <4>3 DEF HealthyOK, Owns
      <4>4. CASE marker' = marker /\ n # "marker"
        <5>1. Alone(i)'
          BY <1>c, <2>1, <4>1 DEF OwnerOK, Alone
        <5>2. Unremoved(i)'
          BY <2>1, <2>2, <4>1, <4>4 DEF OwnerOK, Unremoved
        <5> QED BY <1>c, <4>1, <4>2, <4>4, <5>1, <5>2 DEF HealthyOK, OwnerOK
      <4>5. CASE marker' = marker /\ n = "marker" /\ marker' # NoFile
        <5>1. removal[r].of # dir
          BY <1>5, <4>5 DEF Unlink
        <5>2. removal[r].of = 0
          BY <4>1, <5>1 DEF OwnerOK, Unremoved
        <5>3. Unremoved(i)'
          BY <2>2, <4>1, <5>2 DEF Unremoved
        <5>4. Alone(i)'
          BY <1>c, <2>1, <4>1 DEF OwnerOK, Alone
        <5> QED BY <1>c, <4>1, <4>2, <4>5, <5>3, <5>4 DEF HealthyOK, OwnerOK
      <4> QED BY <2>1, <4>3, <4>4, <4>5
    <3> QED BY <3>1, <3>2
  <2>5. \A i \in Invocations : StartingOK(i)' /\ (Healthy(i)' => Healthy(i))
    BY <1>c, <2>1 DEF CalmInv, StartingOK, TestsIdle, Healthy
  <2> QED BY <2>3, <2>4, <2>5 DEF CalmInv
<1> QED BY <1>1, <1>3, <1>4, <1>5 DEF RemoveAll

\* Steps that are of no removal keep open directories open.
LEMMA OpenKept ==
  ASSUME OpenInv, removal' = removal,
         \A j \in Invocations : /\ initAt[j] = "clearing" => initAt'[j] = "clearing"
                                /\ finAt[j] = "clearing" => finAt'[j] = "clearing",
         gcAt = "clearing" => gcAt' = "clearing"
  PROVE  OpenInv'
<1>1. \A r \in Removers \cup {GC} : Clearing(r) => Clearing(r)'
  BY DEF Clearing, Removers, GC
<1> QED BY <1>1 DEF OpenInv

LEMMA StartInitCalm ==
  ASSUME HInv, NEW j \in Invocations, NEW force \in BOOLEAN, StartInit(j, force)
  PROVE  OpenInv' /\ CalmInv'
<1> USE DEF HInv, TInv, IInv
<1>1. /\ UNCHANGED <<disk, epoch, created, stamp, finAt, view, report, gcAt, removal>>
      /\ finAt[j] = "idle" /\ initAt[j] # "clearing"
      /\ initAt'[j] \in {"clearing", "preparing"} /\ exit'[j] = "none"
      /\ \A i \in Invocations \ {j} : initAt'[i] = initAt[i] /\ exit'[i] = exit[i]
      /\ \A ip \in Producers : prodAt'[ip] = IF ip[1] = j THEN "idle" ELSE prodAt[ip]
      /\ IF force THEN calm' = {} ELSE initAt'[j] = "preparing" /\ calm' = calm
  BY DEF StartInit, InitEnded, FinalizeTypes, StepTypes
<1>2. OpenInv'
  BY <1>1, OpenKept
<1>3. \A i \in Invocations : StartingOK(i)'
  BY <1>1 DEF CalmInv, StartingOK, TestsIdle
<1>4. ASSUME NEW i \in Invocations, Healthy(i)' PROVE HealthyOK(i)'
  <2>1. i # j /\ Healthy(i) /\ ~force
    BY <1>1, <1>4 DEF Healthy
  <2>2. Owns(i) => Alone(i)'
    <3>1. Owns(i) => Alone(i)
      BY <2>1, OwnerFacts
    <3> QED BY <1>1, <2>1, <3>1 DEF Alone, disk
  <2> QED BY <1>1, <2>1, <2>2, OwnerFacts, HealthyKept DEF MarkerKept, disk
<1> QED BY <1>2, <1>3, <1>4 DEF CalmInv

LEMMA PrepareCalm ==
  ASSUME HInv, NEW j \in Invocations, Prepare(j) \/ InitFails(j)
  PROVE  OpenInv' /\ CalmInv'
<1> USE DEF HInv, TInv, IInv
<1>1. /\ UNCHANGED <<marker, record, shards, prodAt, stamp, finAt, view, report, exit, gcAt, removal>>
      /\ initAt[j] \in {"preparing", "publishing"} /\ initAt'[j] \in {"publishing", "failed"}
      /\ \A i \in Invocations \ {j} : initAt'[i] = initAt[i] /\ created'[i] = created[i]
      /\ epoch <= epoch' /\ created'[j] <= epoch'
      /\ dir # 0 => dir' = dir
      /\ calm' \subseteq calm
  <2>1. CASE Prepare(j)
    <3>1. dir # 0 => dir' = dir
      BY <2>1 DEF Prepare, MakeDir
    <3>2. epoch \in Nat /\ created \in [Invocations -> Nat]
      BY DEF FinalizeTypes
    <3> QED BY <2>1, <3>1, <3>2 DEF Prepare, StepTypes
  <2>2. CASE InitFails(j)
    <3>1. epoch \in Nat /\ created[j] <= epoch
      BY DEF FinalizeTypes, CalmInv, StartingOK
    <3> QED BY <2>2, <3>1 DEF InitFails, disk, StepTypes
  <2> QED BY <2>1, <2>2
<1>2. OpenInv'
  BY <1>1, OpenKept
<1>3. ASSUME NEW i \in Invocations PROVE StartingOK(i)'
  <2>1. StartingOK(i) /\ created[i] \in Nat /\ epoch \in Nat /\ epoch' \in Nat
    <3>1. epoch' \in Nat
      BY DEF Prepare, InitFails, FinalizeTypes
    <3> QED BY <3>1 DEF CalmInv, FinalizeTypes
  <2>2. created'[i] <= epoch'
    BY <1>1, <2>1 DEF StartingOK
  <2> QED BY <1>1, <2>1, <2>2 DEF StartingOK, TestsIdle
<1>4. ASSUME NEW i \in Invocations, Healthy(i)' PROVE HealthyOK(i)'
  <2>1. i # j /\ Healthy(i)
    BY <1>1, <1>4 DEF Healthy
  <2>2. Owns(i) => Alone(i)'
    <3>1. Owns(i) => Alone(i)
      BY <2>1, OwnerFacts
    <3> QED BY <1>1, <2>1, <3>1 DEF Alone
  <2> QED BY <1>1, <2>1, <2>2, OwnerFacts, HealthyKept DEF MarkerKept
<1> QED BY <1>2, <1>3, <1>4 DEF CalmInv

LEMMA NobodyClears ==
  ASSUME \A r \in Removers \cup {GC} : ~Clearing(r)
  PROVE  gcAt # "clearing" /\ \A k \in Invocations : initAt[k] # "clearing"
<1>1. ASSUME NEW r \in Removers \cup {GC}, r = GC PROVE gcAt # "clearing"
  <2>1. r[1] # "init" /\ r[1] # "finalize" /\ ~Clearing(r)
    BY <1>1 DEF GC
  <2> QED BY <2>1 DEF Clearing
<1>2. ASSUME NEW k \in Invocations, NEW r, r = <<"init", k>> PROVE initAt[k] # "clearing"
  <2>1. r[1] = "init" /\ r[2] = k /\ ~Clearing(r)
    BY <1>2 DEF Removers
  <2> QED BY <2>1 DEF Clearing
<1> QED BY <1>1, <1>2

\* A preflight in an unused directory begins a run that nobody disturbs.
LEMMA PublishMarkerCalm ==
  ASSUME HInv, NEW j \in Invocations, PublishMarker(j)
  PROVE  OpenInv' /\ CalmInv'
<1> USE DEF HInv, TInv, IInv
<1>1. /\ UNCHANGED <<dir, shardsDir, record, shards, epoch, created, prodAt, stamp, finAt, view, report,
                     exit, gcAt, removal>>
      /\ initAt[j] = "publishing" /\ initAt'[j] \in {"ready", "refused"}
      /\ \A i \in Invocations \ {j} : initAt'[i] = initAt[i]
  BY DEF PublishMarker, StepTypes
<1>2. OpenInv'
  BY <1>1, OpenKept
<1>3. \A i \in Invocations : StartingOK(i)'
  BY <1>1 DEF CalmInv, StartingOK, TestsIdle
<1>4. CASE marker # NoFile
  <2>1. marker' = marker /\ calm' = calm /\ initAt'[j] = "refused"
    BY <1>4 DEF PublishMarker, StepTypes
  <2>2. ASSUME NEW i \in Invocations, Healthy(i)' PROVE HealthyOK(i)'
    <3>1. i # j /\ Healthy(i)
      BY <1>1, <2>1, <2>2 DEF Healthy
    <3>2. Owns(i) => Alone(i)'
      <4>1. Owns(i) => Alone(i)
        BY <3>1, OwnerFacts
      <4> QED BY <1>1, <2>1, <3>1, <4>1 DEF Alone
    <3> QED BY <1>1, <2>1, <3>1, <3>2, OwnerFacts, HealthyKept DEF MarkerKept
  <2> QED BY <1>2, <1>3, <2>2 DEF CalmInv
<1>5. CASE marker = NoFile
  <2>1. marker' = [token |-> j, at |-> created[j], old |-> FALSE]
        /\ calm' = IF Unused(j) THEN calm \cup {j} ELSE calm \ {j}
    BY <1>5 DEF PublishMarker
  <2>2. marker' # NoFile
    <3>1. marker' \in [token : Invocations, at : Nat, old : BOOLEAN]
      BY <2>1 DEF FinalizeTypes
    <3> QED BY <3>1, CoordinationAssumption
  <2>3. ASSUME NEW i \in Invocations, Healthy(i)' PROVE HealthyOK(i)'
    <3>1. CASE i # j
      <4>1. Healthy(i)
        BY <1>1, <2>1, <2>3, <3>1 DEF Healthy
      <4>2. ~Owns(i) /\ ~Owns(i)'
        BY <1>5, <2>1, <3>1 DEF Owns
      <4> QED BY <1>1, <4>1, <4>2, OwnerFacts, GivenAwayKept
    <3>2. CASE i = j
      <4>1. Unused(j)
        BY <2>1, <2>3, <3>2 DEF Healthy
      <4>2. finAt[j] = "idle" /\ exit[j] = "none" /\ TestsIdle(j)
        BY <1>1 DEF CalmInv, StartingOK
      <4>3. Alone(j)'
        <5>1. gcAt # "clearing" /\ \A k \in Invocations : initAt[k] # "clearing"
          <6>1. \A r \in Removers \cup {GC} : ~Clearing(r)
            BY <4>1 DEF Unused, DirTypes
          <6> QED BY <6>1, NobodyClears
        <5> QED BY <1>1, <4>1, <4>2, <5>1 DEF Alone, Unused, TestsIdle
      <4>4. ShardsOK(j)'
        BY <1>1, <4>1, <4>2 DEF Unused, TestsIdle, ShardsOK
      <4>5. FinalizeOK(j)'
        BY <1>1, <4>2 DEF FinalizeOK
      <4> QED BY <1>1, <2>1, <2>2, <3>2, <4>2, <4>3, <4>4, <4>5 DEF HealthyOK, OwnerOK, Owns
    <3> QED BY <3>1, <3>2
  <2> QED BY <1>2, <1>3, <2>3 DEF CalmInv
<1> QED BY <1>4, <1>5

\* The test processes of others leave a run alone that is not theirs,
LEMMA OtherProducer ==
  ASSUME HInv, NEW ip \in Producers, Producer(ip), NEW i \in Invocations, Healthy(i), Owns(i), i # ip[1]
  PROVE  Alone(i)' /\ UNCHANGED disk
<1>1. Alone(i) /\ marker # NoFile /\ marker.token = i
  BY OwnerFacts
<1>2. prodAt[ip] \notin {"testing", "writing", "recording"} /\ ~Verified(ip[1]) /\ ~MayRecord(ip[1])
  BY <1>1 DEF Alone, Verified, Owns, MayRecord
<1>3. ProducerStarts(ip) \/ ProducerDecides(ip) \/ (ProducerFails(ip) /\ prodAt[ip] = "deciding")
  BY <1>2 DEF Producer, ProducerRecords, TestsEnd, PublishShard, ProducerFails
<1>4. UNCHANGED <<disk, initAt, finAt, gcAt>>
  BY <1>3 DEF ProducerStarts, ProducerDecides, ProducerFails, ElseUnchanged
<1>5. prodAt'[ip] \in {"failed", "deciding"} /\ \A q \in Producers \ {ip} : prodAt'[q] = prodAt[q]
  <2>1. prodAt \in [Producers -> {"idle", "testing", "deciding", "recording", "writing",
                                  "published", "duplicate", "failed"}]
    BY DEF HInv, TInv, StepTypes
  <2>2. \E s \in {"failed", "deciding"} : ProducerTo(ip, s)
    BY <1>2, <1>3 DEF ProducerStarts, ProducerDecides, ProducerFails
  <2> QED BY <2>1, <2>2 DEF ProducerTo
<1>6. Alone(i)'
  BY <1>1, <1>4, <1>5 DEF Alone, disk
<1> QED BY <1>4, <1>6

\* and its own publish, after its marker, under names that are free.
LEMMA OwnProducer ==
  ASSUME HInv, NEW ip \in Producers, Producer(ip), NEW i \in Invocations, Healthy(i), Owns(i), i = ip[1],
         Healthy(i)'
  PROVE  HealthyOK(i)'
<1> USE DEF HInv, TInv, IInv
<1>1. OwnerOK(i) /\ Alone(i) /\ marker # NoFile /\ marker.token = i
  BY OwnerFacts
<1>2. ~TestsEnded(i)
  BY ProducerIsEarly DEF TestsEnded
<1>3. finAt[i] = "idle" /\ exit[i] = "none" /\ ShardsOK(i) /\ FinalizeOK(i)
  <2>1. finAt[i] = "idle"
    BY <1>2 DEF PruneInv, PruneOK
  <2> QED BY <1>1, <1>2, <2>1 DEF OwnerOK, FinalizeOK
<1>4. UNCHANGED <<epoch, initAt, created, finAt, view, report, exit, gcAt, removal, marker>>
  BY DEF Producer, ProducerStarts, ProducerDecides, ProducerRecords, TestsEnd, PublishShard,
         ProducerFails, ElseUnchanged, disk
<1>5. \A q \in Producers \ {ip} : prodAt'[q] = prodAt[q] /\ stamp'[q] = stamp[q]
  BY DEF Producer, ProducerStarts, ProducerDecides, ProducerRecords, TestsEnd, PublishShard,
         ProducerFails, ProducerTo, StepTypes, FinalizeTypes
<1>6. prodAt[ip] \in {"idle", "testing", "writing"} /\ UNCHANGED record
      /\ (ProducerStarts(ip) \/ TestsEnd(ip) \/ PublishShard(ip) \/ ProducerFails(ip))
  BY <1>1 DEF Alone, Producer, ProducerStarts, ProducerDecides, ProducerRecords, TestsEnd, PublishShard,
              ProducerFails, disk
<1>7. Verified(i)
  BY DEF Verified, HasToken, Healthy
<1>8. prodAt'[ip] \in {"testing", "writing", "published", "duplicate", "failed"}
  <2>1. \E s \in {"testing", "writing", "published", "duplicate", "failed"} : ProducerTo(ip, s)
    BY <1>6, <1>7 DEF ProducerStarts, TestsEnd, PublishShard, ProducerFails
  <2> QED BY <2>1 DEF ProducerTo, StepTypes
<1>9. Alone(i)'
  BY <1>1, <1>4, <1>5, <1>6, <1>8 DEF Alone
<1>10. FinalizeOK(i)'
  <2>1. finAt'[i] = "idle" /\ exit'[i] = "none"
    BY <1>3, <1>4
  <2> QED BY <2>1 DEF FinalizeOK
<1>11. ip[2] \in Packages /\ ip = <<i, ip[2]>>
  BY DEF Producers
<1>12. ShardsOK(i)'
  <2>1. CASE PublishShard(ip) /\ shards[ip[2]] = NoFile
    <3>1. prodAt'[ip] = "published" /\ stamp' = stamp /\ prodAt[ip] = "writing"
          /\ shards' = [shards EXCEPT ![ip[2]] = [pkg |-> ip[2], token |-> i, at |-> stamp[ip]]]
      BY <2>1 DEF PublishShard, ProducerTo, StepTypes
    <3>2. /\ shards'[ip[2]] = [pkg |-> ip[2], token |-> i, at |-> stamp[ip]]
          /\ \A p \in Packages \ {ip[2]} : shards'[p] = shards[p]
      BY <1>11, <3>1 DEF FinalizeTypes
    <3>3. shards'[ip[2]] # NoFile
      <4>1. shards'[ip[2]] \in AnyShard
        BY <1>11, <3>2 DEF FinalizeTypes, AnyShard
      <4> QED BY <4>1, CoordinationAssumption DEF AnyShard
    <3>4. stamp[ip] >= created[i]
      BY <1>3, <3>1 DEF ShardsOK
    <3>5. PublishedOK(ip)'
      BY <1>4, <3>2, <3>3, <3>4 DEF PublishedOK
    <3>6. ASSUME NEW q \in Producers, q[1] = i, q # ip
          PROVE  /\ prodAt'[q] = "writing" => stamp'[q] >= created'[i]
                 /\ prodAt'[q] = "published" => PublishedOK(q)'
      <4>1. q[2] \in Packages /\ q = <<i, q[2]>> /\ q[2] # ip[2]
        BY <1>11, <3>6 DEF Producers
      <4>2. PublishedOK(q)' = PublishedOK(q)
        BY <1>4, <3>2, <4>1 DEF PublishedOK
      <4> QED BY <1>3, <1>4, <1>5, <3>6, <4>2 DEF ShardsOK
    <3>7. \A p \in Packages : shards'[p] # NoFile => <<i, p>> \in Producers /\ prodAt'[<<i, p>>] = "published"
      BY <1>3, <1>5, <1>11, <3>1, <3>2 DEF ShardsOK
    <3> QED BY <3>1, <3>5, <3>6, <3>7 DEF ShardsOK
  <2>2. CASE ~(PublishShard(ip) /\ shards[ip[2]] = NoFile)
    <3>1. UNCHANGED shards /\ prodAt'[ip] # "published"
          /\ (prodAt'[ip] = "writing" => stamp'[ip] = epoch)
      <4>1. CASE ProducerStarts(ip) \/ ProducerFails(ip)
        BY <1>7, <4>1 DEF ProducerStarts, ProducerFails, ProducerTo, StepTypes, disk
      <4>2. CASE TestsEnd(ip)
        BY <4>2 DEF TestsEnd, ProducerTo, StepTypes, FinalizeTypes, disk
      <4>3. CASE PublishShard(ip)
        BY <2>2, <4>3 DEF PublishShard, ProducerTo, StepTypes
      <4> QED BY <1>6, <4>1, <4>2, <4>3
    <3>2. epoch >= created[i]
      <4>1. created[i] <= epoch /\ created[i] \in Nat /\ epoch \in Nat
        BY DEF CalmInv, StartingOK, FinalizeTypes
      <4> QED BY <4>1
    <3>3. prodAt[ip] # "published"
      BY <1>6
    <3>4. \A q \in Producers : PublishedOK(q)' = PublishedOK(q)
      BY <1>4, <3>1 DEF PublishedOK
    <3>5. \A p \in Packages : shards[p] # NoFile => <<i, p>> # ip
      BY <1>3, <3>3 DEF ShardsOK
    <3> QED BY <1>3, <1>4, <1>5, <3>1, <3>2, <3>4, <3>5 DEF ShardsOK
  <2> QED BY <2>1, <2>2
<1> QED BY <1>1, <1>3, <1>4, <1>9, <1>10, <1>12 DEF HealthyOK, OwnerOK, Owns

LEMMA ProducerCalm ==
  ASSUME HInv, NEW ip \in Producers, Producer(ip)
  PROVE  OpenInv' /\ CalmInv'
<1> USE DEF HInv, TInv, IInv
<1>1. /\ UNCHANGED <<epoch, initAt, created, finAt, view, report, exit, gcAt, removal, marker>>
      /\ calm' \subseteq calm
  BY DEF Producer, ProducerStarts, ProducerDecides, ProducerRecords, TestsEnd, PublishShard,
         ProducerFails, ElseUnchanged, disk
<1>2. \A q \in Producers \ {ip} : prodAt'[q] = prodAt[q] /\ stamp'[q] = stamp[q]
  BY DEF Producer, ProducerStarts, ProducerDecides, ProducerRecords, TestsEnd, PublishShard,
         ProducerFails, ProducerTo, StepTypes, FinalizeTypes
<1>3. OpenInv'
  BY <1>1, OpenKept
<1>4. ASSUME NEW i \in Invocations PROVE StartingOK(i)'
  <2>1. ip[1] = i => initAt[i] \notin {"clearing", "preparing", "publishing"}
    <3>1. prodAt[ip] = "idle" => InitEnded(ip[1])
      BY DEF Producer, ProducerStarts, ProducerDecides, ProducerRecords, TestsEnd, PublishShard, ProducerFails
    <3> QED BY <3>1 DEF InitEnded, CalmInv, StartingOK, TestsIdle
  <2> QED BY <1>1, <1>2, <2>1 DEF CalmInv, StartingOK, TestsIdle
<1>5. ASSUME NEW i \in Invocations, Healthy(i)' PROVE HealthyOK(i)'
  <2>1. Healthy(i) /\ HealthyOK(i)
    BY <1>1, <1>5, OwnerFacts DEF Healthy
  <2>2. CASE ~Owns(i)
    <3>1. ~Owns(i)'
      BY <1>1, <2>2 DEF Owns
    <3> QED BY <1>1, <2>1, <2>2, <3>1, GivenAwayKept
  <2>3. CASE Owns(i) /\ i = ip[1]
    BY <1>5, <2>1, <2>3, OwnProducer
  <2>4. CASE Owns(i) /\ i # ip[1]
    <3>1. Alone(i)' /\ UNCHANGED disk
      BY <2>1, <2>4, OtherProducer
    <3>2. \A q \in Producers : q[1] = i => prodAt'[q] = prodAt[q] /\ stamp'[q] = stamp[q]
      BY <1>2, <2>4
    <3> QED BY <1>1, <2>1, <3>1, <3>2, HealthyKept DEF MarkerKept, disk
  <2> QED BY <2>2, <2>3, <2>4
<1> QED BY <1>3, <1>4, <1>5 DEF CalmInv

\* Finalize of another invocation ends at the marker,
LEMMA OtherFinalize ==
  ASSUME HInv, NEW j \in Invocations, Finalize(j), NEW i \in Invocations, i # j, Healthy(i), Healthy(i)'
  PROVE  HealthyOK(i)'
<1> USE DEF HInv, TInv, IInv
<1>1. /\ UNCHANGED <<disk, epoch, initAt, created, prodAt, stamp, gcAt, removal>>
      /\ finAt'[i] = finAt[i] /\ exit'[i] = exit[i] /\ view'[i] = view[i] /\ report'[i] = report[i]
  BY DEF Finalize, StartFinalize, LookForRecord, ListShards, ReadShards, Render, EndFinalize, FinalizeFails,
         RestUnchanged, Finalizing, Exits, FinalizeTypes
<1>2. Owns(i) => Alone(i)'
  <2> SUFFICES ASSUME Owns(i) PROVE Alone(i)'
    OBVIOUS
  <2>1. Alone(i) /\ marker # NoFile /\ marker.token = i
    BY OwnerFacts
  <2>2. finAt[j] = "idle" /\ ~Verified(j)
    BY <2>1 DEF Alone, Verified, Owns
  <2>3. finAt' = finAt
    BY <2>2 DEF Finalize, StartFinalize, LookForRecord, ListShards, ReadShards, Render, EndFinalize,
                FinalizeFails, Finalizing
  <2> QED BY <1>1, <2>1, <2>3 DEF Alone, disk
<1> QED BY <1>1, <1>2, OwnerFacts, HealthyKept DEF MarkerKept, disk

\* and an owner's own one gets everything its packages published into every report.
LEMMA OwnFinalize ==
  ASSUME HInv, NEW i \in Invocations, Finalize(i), Healthy(i), Healthy(i)', Owns(i)
  PROVE  HealthyOK(i)'
<1> USE DEF HInv, TInv, IInv
<1>1. UNCHANGED <<disk, epoch, initAt, created, prodAt, stamp, gcAt, removal>>
  BY DEF Finalize, StartFinalize, LookForRecord, ListShards, ReadShards, Render, EndFinalize, FinalizeFails,
         RestUnchanged
<1>2. OwnerOK(i) /\ Alone(i) /\ marker # NoFile /\ marker.token = i /\ marker.at = created[i] /\ Owns(i)'
  <2>1. OwnerOK(i) /\ marker # NoFile /\ marker.token = i
    BY OwnerFacts
  <2> QED BY <1>1, <2>1 DEF OwnerOK, Owns, disk
<1>3. finAt[i] # "clearing" /\ ShardsOK(i) /\ FinalizeOK(i) /\ view[i] \in Views /\ view \in [Invocations -> Views]
      /\ ReportOK(i)
  <2>1. finAt[i] # "clearing"
    BY DEF Finalize, StartFinalize, LookForRecord, ListShards, ReadShards, Render, EndFinalize, FinalizeFails,
           Finalizing
  <2> QED BY <1>2, <2>1 DEF OwnerOK, FinalizeTypes
<1>4. Alone(i)' /\ ShardsOK(i)' /\ TestsEnded(i)' = TestsEnded(i) /\ AllPublished(i)' = AllPublished(i)
  <2>1. \A j \in Invocations \ {i} : finAt'[j] = finAt[j]
    BY DEF Finalize, StartFinalize, LookForRecord, ListShards, ReadShards, Render, EndFinalize, FinalizeFails,
           Finalizing, FinalizeTypes
  <2>2. Alone(i)'
    BY <1>1, <1>2, <2>1 DEF Alone, disk
  <2>3. \A ip \in Producers : PublishedOK(ip)' = PublishedOK(ip)
    BY <1>1 DEF PublishedOK, disk
  <2>4. ShardsOK(i)'
    BY <1>1, <1>3, <2>3 DEF ShardsOK, disk
  <2> QED BY <1>1, <2>2, <2>4 DEF TestsEnded, AllPublished
<1>5. finAt[i] # "idle" => TestsEnded(i) /\ exit[i] = "none"
  BY <1>3 DEF FinalizeOK, ReportOK
<1>6. ASSUME finAt'[i] # "clearing", FinalizeOK(i)' PROVE HealthyOK(i)'
  BY <1>1, <1>2, <1>4, <1>6 DEF HealthyOK, OwnerOK, disk
<1>7. AllPublished(i) => {p \in Packages : shards[p] # NoFile} = Builds[i]
  <2> SUFFICES ASSUME AllPublished(i) PROVE {p \in Packages : shards[p] # NoFile} = Builds[i]
    OBVIOUS
  <2>1. ASSUME NEW p \in Packages, shards[p] # NoFile PROVE p \in Builds[i]
    BY <1>3, <2>1 DEF ShardsOK, Producers
  <2>2. ASSUME NEW p \in Builds[i] PROVE p \in Packages /\ shards[p] # NoFile
    <3>1. p \in Packages /\ <<i, p>> \in Producers
      BY CoordinationAssumption DEF Producers
    <3> QED BY <1>3, <3>1 DEF AllPublished, ShardsOK, PublishedOK
  <2> QED BY <2>1, <2>2
<1>8. CASE StartFinalize(i)
  <2>1. Verified(i)
    BY DEF Verified, HasToken, Healthy
  <2>2. finAt'[i] = "verified" /\ exit'[i] = "none" /\ TestsEnded(i)
    BY <1>8, <2>1 DEF StartFinalize, Finalizing, Exits, FinalizeTypes
  <2> QED BY <1>4, <1>6, <2>2 DEF FinalizeOK
<1>9. CASE LookForRecord(i)
  <2>1. finAt[i] = "verified" /\ finAt'[i] = "listing" /\ exit' = exit
    BY <1>2, <1>9 DEF LookForRecord, Finalizing, Alone, FinalizeTypes
  <2> QED BY <1>4, <1>5, <1>6, <2>1 DEF FinalizeOK
<1>10. CASE ListShards(i)
  <2>1. /\ finAt[i] = "listing" /\ finAt'[i] = "reading" /\ exit' = exit
        /\ view'[i].at = marker.at /\ view'[i].listed = {p \in Packages : shards[p] # NoFile}
    BY <1>2, <1>3, <1>10 DEF ListShards, Finalizing, FinalizeTypes, Views
  <2>2. view'[i].at = created'[i] /\ (AllPublished(i) => view'[i].listed = Builds[i])
    BY <1>1, <1>2, <1>7, <2>1
  <2> QED BY <1>4, <1>5, <1>6, <2>1, <2>2 DEF FinalizeOK
<1>11. CASE ReadShards(i)
  <2> DEFINE good == {p \in view[i].listed : Accepted(i, shards[p])}
  <2>1. /\ finAt[i] = "reading" /\ finAt'[i] = "rendering" /\ exit' = exit
        /\ view'[i].accepted = {shards[p] : p \in good} /\ view'[i].rejected = view[i].listed \ good
        /\ view'[i].at = view[i].at
    BY <1>3, <1>11 DEF ReadShards, Finalizing, FinalizeTypes, Views
  <2>2. view[i].at = created[i]
    BY <1>3, <2>1 DEF FinalizeOK
  <2>3. \A s \in view'[i].accepted : s.at >= created[i]
    BY <2>1, <2>2 DEF Accepted
  <2>4. ASSUME AllPublished(i) PROVE Complete(i)'
    <3>1. view[i].listed = Builds[i] /\ Expected[i] = Builds[i] /\ Builds[i] \subseteq Packages
      BY <1>3, <2>1, <2>4, CoordinationAssumption DEF FinalizeOK, AllPublished
    <3>2. ASSUME NEW p \in Builds[i] PROVE shards[p].pkg = p /\ Accepted(i, shards[p])
      <4>1. p \in Packages /\ <<i, p>> \in Producers
        BY <3>1 DEF Producers
      <4>2. PublishedOK(<<i, p>>)
        BY <1>3, <2>4, <4>1 DEF AllPublished, ShardsOK
      <4> QED BY <2>2, <3>1, <4>2 DEF PublishedOK, Accepted
    <3>3. good = Builds[i]
      BY <3>1, <3>2
    <3> HIDE DEF good
    <3>4. Expected[i] \subseteq {s.pkg : s \in view'[i].accepted}
      <4> SUFFICES ASSUME NEW p \in Expected[i] PROVE \E s \in view'[i].accepted : s.pkg = p
        OBVIOUS
      <4> QED BY <2>1, <3>1, <3>2, <3>3
    <3>5. view'[i].rejected = {}
      BY <2>1, <3>1, <3>3
    <3> QED BY <3>4, <3>5 DEF Complete
  <2>5. FinalizeOK(i)'
    <3> HIDE DEF good
    <3> QED BY <1>1, <1>4, <1>5, <2>1, <2>2, <2>3, <2>4 DEF FinalizeOK
  <2> QED BY <1>6, <2>1, <2>5
<1>12. CASE Render(i)
  <2>1. /\ finAt[i] = "rendering" /\ finAt'[i] = "rendering" /\ exit' = exit
        /\ view'[i].accepted = view[i].accepted /\ view'[i].rejected = view[i].rejected
        /\ view'[i].at = view[i].at
    BY <1>3, <1>12 DEF Render, Finalizing, FinalizeTypes, Views
  <2>2. Complete(i)' = Complete(i)
    BY <2>1 DEF Complete
  <2>3. FinalizeOK(i)'
    BY <1>1, <1>3, <1>4, <1>5, <2>1, <2>2 DEF FinalizeOK
  <2> QED BY <1>6, <2>1, <2>3
<1>13. CASE EndFinalize(i)
  <2>1. /\ finAt[i] = "rendering" /\ finAt'[i] \in {"clearing", "idle"} /\ view[i].rendered = Targets
        /\ UNCHANGED <<report, view>>
    BY <1>13 DEF EndFinalize, Rendered, Finalizing, FinalizeTypes
  <2>2. FreshReport(i)
    BY <1>3, <2>1 DEF ReportOK, FinalizeOK, FreshReport
  <2>3. CASE Complete(i) /\ i \in Cleaners
    <3>1. finAt'[i] = "clearing"
      BY <1>13, <2>3 DEF EndFinalize, Finalizing, FinalizeTypes
    <3>2. Reported(i)'
      BY <3>1, FinalizeInv DEF ReportOK
    <3>3. Told(i)'
      BY <1>1, <2>1, <2>2, <3>2 DEF Told, FreshReport
    <3>4. removal[<<"finalize", i>>].of = 0
      <4>1. <<"finalize", i>> \in Removers
        BY DEF Removers
      <4>2. ~Clearing(<<"finalize", i>>)
        BY <2>1 DEF Clearing
      <4> QED BY <4>1, <4>2 DEF OpenInv
    <3>5. Unremoved(i)'
      BY <1>1, <3>4 DEF Unremoved
    <3> QED BY <1>1, <1>2, <1>4, <3>1, <3>3, <3>5 DEF HealthyOK, OwnerOK, disk
  <2>4. CASE ~(Complete(i) /\ i \in Cleaners)
    <3>1. finAt'[i] = "idle" /\ exit'[i] = IF Complete(i) THEN "green" ELSE "failure"
      BY <1>13, <2>4 DEF EndFinalize, Finalizing, Exits, FinalizeTypes
    <3>2. AllPublished(i) => Complete(i)
      BY <1>3, <2>1 DEF FinalizeOK
    <3>3. FreshReport(i)'
      BY <1>1, <2>1, <2>2 DEF FreshReport
    <3>4. FinalizeOK(i)'
      BY <1>4, <1>5, <2>1, <3>1, <3>2, <3>3 DEF FinalizeOK
    <3> QED BY <1>6, <3>1, <3>4
  <2> QED BY <2>3, <2>4
<1>14. CASE FinalizeFails(i)
  BY <1>14 DEF FinalizeFails, Healthy
<1> QED BY <1>8, <1>9, <1>10, <1>11, <1>12, <1>13, <1>14 DEF Finalize

LEMMA FinalizeCalm ==
  ASSUME HInv, NEW j \in Invocations, Finalize(j)
  PROVE  OpenInv' /\ CalmInv'
<1> USE DEF HInv, TInv, IInv
<1>1. /\ UNCHANGED <<disk, epoch, initAt, created, prodAt, stamp, gcAt, removal>>
      /\ calm' \in {calm, {}}
      /\ \A i \in Invocations \ {j} : finAt'[i] = finAt[i] /\ exit'[i] = exit[i]
      /\ finAt[j] # "clearing"
  BY DEF Finalize, StartFinalize, LookForRecord, ListShards, ReadShards, Render, EndFinalize, FinalizeFails,
         RestUnchanged, Finalizing, Exits, FinalizeTypes
<1>2. OpenInv'
  BY <1>1, OpenKept
<1>3. ASSUME NEW i \in Invocations PROVE StartingOK(i)'
  <2>1. i = j => initAt[i] \notin {"clearing", "preparing", "publishing"}
    BY DEF Finalize, StartFinalize, LookForRecord, ListShards, ReadShards, Render, EndFinalize, FinalizeFails,
           InitEnded, Finalizing, PruneInv, PruneOK
  <2> QED BY <1>1, <2>1 DEF CalmInv, StartingOK, TestsIdle
<1>4. ASSUME NEW i \in Invocations, Healthy(i)' PROVE HealthyOK(i)'
  <2>1. Healthy(i)
    BY <1>1, <1>4 DEF Healthy
  <2>2. CASE i # j
    BY <1>4, <2>1, <2>2, OtherFinalize
  <2>3. CASE i = j /\ Owns(i)
    BY <1>4, <2>1, <2>3, OwnFinalize
  <2>4. CASE i = j /\ ~Owns(i)
    <3>1. finAt[i] = "idle" /\ HealthyOK(i)
      BY <1>1, <2>1, <2>4, OwnerFacts DEF HealthyOK
    <3>2. ~Verified(i) /\ StartFinalize(i)
      BY <2>4, <3>1 DEF Verified, Finalize, LookForRecord, ListShards, ReadShards, Render, EndFinalize,
                        FinalizeFails, Finalizing
    <3>3. finAt'[i] = "idle" /\ report' = report
      BY <3>1, <3>2 DEF StartFinalize
    <3>4. ~Owns(i)'
      BY <1>1, <2>4 DEF Owns, disk
    <3> QED BY <1>1, <2>4, <3>1, <3>3, <3>4, GivenAwayKept
  <2> QED BY <2>2, <2>3, <2>4
<1> QED BY <1>2, <1>3, <1>4 DEF CalmInv

LEMMA GCCalm ==
  ASSUME HInv, RetentionPasses \/ CollectRun \/ UNCHANGED vars
  PROVE  OpenInv' /\ CalmInv'
<1> USE DEF HInv, TInv, IInv
<1>1. /\ UNCHANGED <<dir, record, shards, epoch, initAt, created, prodAt, stamp, finAt, view, report, exit, removal>>
      /\ gcAt # "clearing" => gcAt' = gcAt \/ calm' = {}
      /\ gcAt = "clearing" => gcAt' = "clearing"
      /\ calm' \subseteq calm
  BY DEF RetentionPasses, CollectRun, vars, disk, procs
<1>2. MarkerKept
  <2>1. CASE RetentionPasses
    <3>1. marker \in [token : Invocations, at : Nat, old : BOOLEAN]
      BY <2>1 DEF RetentionPasses, FinalizeTypes
    <3>2. marker' \in [token : Invocations, at : Nat, old : BOOLEAN] /\ marker'.token = marker.token
          /\ marker'.at = marker.at
      BY <2>1, <3>1 DEF RetentionPasses
    <3> QED BY <3>1, <3>2, CoordinationAssumption DEF MarkerKept
  <2>2. CASE CollectRun \/ UNCHANGED vars
    BY <2>2 DEF CollectRun, vars, disk, MarkerKept
  <2> QED BY <2>1, <2>2
<1>3. OpenInv'
  BY <1>1, OpenKept
<1>4. \A i \in Invocations : StartingOK(i)'
  BY <1>1 DEF CalmInv, StartingOK, TestsIdle
<1>5. ASSUME NEW i \in Invocations, Healthy(i)' PROVE HealthyOK(i)'
  <2>1. Healthy(i) /\ calm' # {}
    BY <1>1, <1>5 DEF Healthy
  <2>2. Owns(i) => Alone(i)'
    <3>1. Owns(i) => Alone(i)
      BY <2>1, OwnerFacts
    <3> QED BY <1>1, <2>1, <3>1 DEF Alone
  <2> QED BY <1>1, <1>2, <2>1, <2>2, OwnerFacts, HealthyKept
<1> QED BY <1>3, <1>4, <1>5 DEF CalmInv

LEMMA NextCalm == HInv /\ [Next]_vars => OpenInv' /\ CalmInv'
<1> SUFFICES ASSUME HInv, [Next]_vars PROVE OpenInv' /\ CalmInv'
  OBVIOUS
<1>1. ASSUME NEW i \in Invocations, NEW force \in {FALSE} \cup {f \in {TRUE} : i \in Forces},
             StartInit(i, force)
      PROVE  OpenInv' /\ CalmInv'
  <2>1. force \in BOOLEAN
    OBVIOUS
  <2> QED BY <1>1, <2>1, StartInitCalm
<1> QED BY <1>1, PrepareCalm, PublishMarkerCalm, GCCalm, RemoveAllCalm, ProducerCalm, FinalizeCalm DEF Next

\* A run whose preflight found the directory unused and whose packages all published is reported, completely
\* and with nothing of an earlier run, when its Finalize ends: whatever other invocations of the id start
\* after that preflight, short of --force, gc and failures, and however their steps interleave with its own.
THEOREM HealthyRunsAreReported == Spec => []HealthyRunIsReported
<1>1. Init => HInv
  BY InitInv, InitTypes, InitPrune, InitCalm DEF HInv, TInv
<1>2. HInv /\ [Next]_vars => HInv'
  BY NextTypes, NextPrune, NextCalm DEF HInv
<1> QED BY <1>1, <1>2, CalmMeansReported, PTL DEF Spec
=============================================================================

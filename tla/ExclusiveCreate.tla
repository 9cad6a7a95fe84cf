--------------------------- MODULE ExclusiveCreate ---------------------------
(***************************************************************************)
(* What writeAndPublish promises the run marker, the configuration-error   *)
(* record and the shards of report/coordination: of several writers of one *)
(* name one creates the file, the file is never replaced, and a writer     *)
(* that is told it published is the one whose file it is.                  *)
(***************************************************************************)
CONSTANTS Writers, NoOne

VARIABLES
  owner,  \* the writer whose file has the final name, or NoOne
  told    \* what each writer has been told
vars == <<owner, told>>

Init ==
  /\ owner = NoOne
  /\ told = [w \in Writers |-> "pending"]

Create(w) ==
  /\ told[w] = "pending" /\ owner = NoOne
  /\ owner' = w
  /\ UNCHANGED told

\* A failed or crashed writer may have created the file.
Answer(w, v) ==
  /\ told[w] = "pending"
  /\ v = "published" => owner = w
  /\ v = "duplicate" => owner # NoOne
  /\ told' = [told EXCEPT ![w] = v]
  /\ UNCHANGED owner

Next ==
  \E w \in Writers :
    Create(w) \/ \E v \in {"published", "duplicate", "failed", "crashed"} : Answer(w, v)

Spec == Init /\ [][Next]_vars
=============================================================================

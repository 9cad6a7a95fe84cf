------------------------------- MODULE MCPoll -------------------------------
(***************************************************************************)
(* One poll, of either kind, and a test that advances its clock, which     *)
(* stands for the other polls of that clock too.                           *)
(***************************************************************************)
EXTENDS Poll

EitherKind == [Polls -> {"Eventually", "Consistently"}]
=============================================================================

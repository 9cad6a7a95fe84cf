------------------------------ MODULE MCPublish ------------------------------
(* Three writers, two of which share a PID. *)
EXTENDS Publish
CONSTANTS w1, w2, w3, here, there

SharedPid == [w \in Writers |-> IF w = w3 THEN there ELSE here]
=============================================================================

----------------------------- MODULE MCGroupRun -----------------------------
(***************************************************************************)
(* The plan GroupRun is checked on: a group of a batch of two and an inner *)
(* group of one spec, which declares a mark; then a free batch of one and  *)
(* a free spec.  The outer group has two hooks of each kind, the inner one *)
(* has one.  These are three units; the last of four shards is empty.      *)
(***************************************************************************)
EXTENDS GroupRun

PlanStart   == <<1, 3>>
PlanEnd     == <<3, 3>>
PlanDepth   == <<1, 2>>
PlanBatches == {<<1, 2>>, <<4, 4>>}
PlanMarks   == {2}
PlanHooks   == <<2, 1>>

SomeShards == {0, 1, 3, NoShard}
=============================================================================

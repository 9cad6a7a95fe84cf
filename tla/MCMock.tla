------------------------------- MODULE MCMock -------------------------------
(***************************************************************************)
(* Two goroutines, two expectations of one method that accept its one      *)
(* argument, and a spy.                                                    *)
(***************************************************************************)
EXTENDS MockController, TLC

Matchers  == {{1}}
Symmetric == Permutations(Threads)
=============================================================================

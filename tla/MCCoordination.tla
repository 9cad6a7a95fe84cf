---------------------------- MODULE MCCoordination ----------------------------
(* An invocation and one that uses the same run id. *)
EXTENDS Coordination
CONSTANTS a, b, p, q

Inits(ofA, ofB) == [i \in Invocations |-> IF i = a THEN ofA ELSE ofB]
Environment(inits_, gc, fails) == [preflights |-> inits_, gcRuns |-> gc, failing |-> fails]

\* A run id used twice by a, by a b without a preflight, with gc running, or with failures.
SharedId == {Environment(Inits(2, 1), FALSE, FALSE),
             Environment(Inits(1, 0), FALSE, FALSE),
             Environment(Inits(1, 1), TRUE, FALSE),
             Environment(Inits(1, 1), FALSE, TRUE)}
BothPackages == [i \in Invocations |-> IF i = a THEN {p, q} ELSE {p}]
=============================================================================

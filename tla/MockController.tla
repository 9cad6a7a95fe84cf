---------------------------- MODULE MockController ----------------------------
(***************************************************************************)
(* mock: a Controller with its Methods, Expectations and Spies, used by    *)
(* several goroutines at once.  A call records itself, matches the         *)
(* expectations, claims one, and answers; the lock is held in each of      *)
(* these steps and free in between, while user matchers, captors and Do    *)
(* callbacks run.                                                          *)
(*                                                                         *)
(* Expectations and calls are numbered by their place in exps and calls;   *)
(* the matchers of an expectation are the set of arguments they accept.    *)
(***************************************************************************)
EXTENDS Naturals, Sequences, FiniteSets

CONSTANTS
  Threads, Methods, Spies,
  Arguments,     \* the argument lists of calls
  Accepts,       \* the sets of them that the matchers of an Expect accept
  Exactly,       \* the n of Times(n); 0 is Never
  AtLeasts,      \* the n of AtLeast(n)
  AtMosts,       \* the n of AtMost(n)
  MaxExps, MaxConfigs, MaxCalls, MaxResets   \* bounds on what a test does
ASSUME MockAssumption ==
  /\ Methods \cap Spies = {}
  /\ Accepts \subseteq SUBSET Arguments
  /\ Exactly \subseteq Nat /\ AtLeasts \subseteq Nat /\ AtMosts \subseteq Nat
  /\ MaxExps \in Nat /\ MaxConfigs \in Nat /\ MaxCalls \in Nat /\ MaxResets \in Nat

Unbounded == MaxCalls + 1   \* no maximum (the code's -1): more than there are calls

VARIABLES
  exps,      \* every Expectation ever declared, its captor's values included
  calls,     \* every call ever made, finished or not
  seq,       \* Controller.seq
  log,       \* Controller.calls
  orders,    \* Controller.orders, of two expectations each
  verified,  \* Controller.verified
  spied,     \* how many calls each Spy keeps
  stack,     \* the calls each goroutine is in, the innermost last
  errors,    \* t.Errorf, once for each thing wrong
  resets, configs   \* history: Resets, and configurations of expectations, so far
vars == <<exps, calls, seq, log, orders, verified, spied, stack, errors, resets, configs>>

Init ==
  /\ exps = <<>> /\ calls = <<>> /\ seq = 0 /\ log = <<>>
  /\ orders = {} /\ verified = FALSE
  /\ spied = [s \in Spies |-> 0]
  /\ stack = [t \in Threads |-> <<>>]
  /\ errors = {} /\ resets = 0 /\ configs = 0

-----------------------------------------------------------------------------
(* Expectations.                                                           *)

\* bounds: without a count method exactly one call is expected.
Lower(e) == IF exps[e].kind = "default" THEN 1 ELSE exps[e].min
Upper(e) == IF exps[e].kind = "default" THEN 1 ELSE exps[e].max

HasCapacity(e) == Upper(e) = Unbounded \/ exps[e].got < Upper(e)
Prohibits(e)   == Upper(e) = 0

\* The expectations a Method holds: those declared since the last Reset.
Held(m) == {e \in DOMAIN exps : exps[e].m = m /\ exps[e].age = resets}

Expect(m, accepts) ==
  /\ Len(exps) < MaxExps
  /\ exps' = Append(exps, [m |-> m, accepts |-> accepts, age |-> resets,
                           kind |-> "default", min |-> 0, max |-> 0,
                           responses |-> 0, do |-> FALSE,
                           got |-> 0, firstSeq |-> 0, captured |-> <<>>])
  /\ UNCHANGED <<calls, seq, log, orders, verified, spied, stack, errors, resets, configs>>

Configure(e, changed) ==
  /\ configs < MaxConfigs /\ configs' = configs + 1
  /\ exps' = [exps EXCEPT ![e] = changed]
  /\ UNCHANGED <<calls, seq, log, orders, verified, spied, stack, errors, resets>>

Bound(e, kind, min, max) ==
  Configure(e, [exps[e] EXCEPT !.kind = kind, !.min = min, !.max = max])

SetCount(e) == \E n \in Exactly : Bound(e, "exact", n, n)   \* Times, Never
AnyTimes(e) == Bound(e, "exact", 0, Unbounded)

\* AtLeast and AtMost keep the other bound of a range they built; a range that would be empty panics
\* and leaves the expectation as it was.
AtLeast(e) ==
  LET max == IF exps[e].kind = "range" THEN exps[e].max ELSE Unbounded
  IN  \E n \in AtLeasts : n <= max /\ Bound(e, "range", n, max)
AtMost(e) ==
  LET min == IF exps[e].kind = "range" THEN exps[e].min ELSE 0
  IN  \E n \in AtMosts : min <= n /\ Bound(e, "range", min, n)

Return(e) == Configure(e, [exps[e] EXCEPT !.responses = @ + 1])
Do(e)     == Configure(e, [exps[e] EXCEPT !.do = TRUE])

InOrder(e, f) ==
  /\ configs < MaxConfigs /\ configs' = configs + 1
  /\ orders' = orders \cup {<<e, f>>}
  /\ UNCHANGED <<exps, calls, seq, log, verified, spied, stack, errors, resets>>

-----------------------------------------------------------------------------
(* Method.Call and Spy.Call.                                               *)

Top(t)      == stack[t][Len(stack[t])]
In(t, at)   == stack[t] # <<>> /\ calls[Top(t)].at = at
InFlight    == \E t \in Threads : stack[t] # <<>>
Pop(t)      == [stack EXCEPT ![t] = SubSeq(@, 1, Len(@) - 1)]

NewCall(name, arg) ==
  [name |-> name, arg |-> arg, seq |-> 0, at |-> "begun", age |-> 0, seen |-> {},
   exp |-> 0, n |-> 0, reply |-> 0]

\* A call that goroutine t makes, from its own code or from a Do callback.  A Spy keeps the call under
\* a lock of its own before it goes to the controller's log.
Begin(t, name) ==
  /\ Len(calls) < MaxCalls
  /\ \E arg \in Arguments : calls' = Append(calls, NewCall(name, arg))
  /\ stack' = [stack EXCEPT ![t] = Append(@, Len(calls) + 1)]
  /\ spied' = [s \in Spies |-> IF s = name THEN spied[s] + 1 ELSE spied[s]]
  /\ UNCHANGED <<exps, seq, log, orders, verified, errors, resets, configs>>
MakeCall(t, name) == stack[t] = <<>> /\ Begin(t, name)

Record(t) ==
  LET c == Top(t) IN
  /\ In(t, "begun")
  /\ seq' = seq + 1 /\ log' = Append(log, c)
  /\ IF calls[c].name \in Spies
     THEN /\ calls' = [calls EXCEPT ![c].seq = seq', ![c].at = "done"]
          /\ stack' = Pop(t)
     ELSE /\ calls' = [calls EXCEPT ![c].seq = seq', ![c].at = "recorded"]
          /\ UNCHANGED stack
  /\ UNCHANGED <<exps, orders, verified, spied, errors, resets, configs>>

\* The list of expectations is copied under the lock; matchers run outside it.
Match(t) ==
  LET c == Top(t) IN
  /\ In(t, "recorded")
  /\ calls' = [calls EXCEPT ![c].at = "matched", ![c].age = resets,
                 ![c].seen = {e \in Held(calls[c].name) : calls[c].arg \in exps[e].accepts}]
  /\ UNCHANGED <<exps, seq, log, orders, verified, spied, stack, errors, resets, configs>>

First(S) == CHOOSE e \in S : \A f \in S : e <= f

Forbid(t) ==
  LET c == Top(t) IN
  /\ In(t, "matched") /\ \E e \in calls[c].seen : Prohibits(e)
  /\ calls' = [calls EXCEPT ![c].at = "rejected"]
  /\ UNCHANGED <<exps, seq, log, orders, verified, spied, stack, errors, resets, configs>>

\* Mutant: capacity is not looked at again under the lock.
Open_Matched(c) == calls[c].seen
Open(c) == {e \in calls[c].seen : HasCapacity(e)}
MayClaim(c) == Open(c) # {} /\ \A e \in calls[c].seen : ~Prohibits(e)

Claim(t) ==
  LET c == Top(t)
      e == First(Open(c))
      n == exps[e].got + 1
  IN
  /\ In(t, "matched") /\ MayClaim(c)
  /\ exps' = [exps EXCEPT ![e].got = n,
                          ![e].firstSeq = IF @ = 0 THEN calls[c].seq ELSE @]
  /\ calls' = [calls EXCEPT ![c].at = "claimed", ![c].exp = e, ![c].n = n]
  /\ UNCHANGED <<seq, log, orders, verified, spied, stack, errors, resets, configs>>

Reject(t) ==
  LET c == Top(t) IN
  /\ In(t, "matched") /\ Open(c) = {} /\ \A e \in calls[c].seen : ~Prohibits(e)
  /\ calls' = [calls EXCEPT ![c].at = "rejected"]
  /\ UNCHANGED <<exps, seq, log, orders, verified, spied, stack, errors, resets, configs>>

\* A forbidden or unexpected call is reported outside the lock and answered with a zero Result.
ReportRejected(t) ==
  LET c == Top(t) IN
  /\ In(t, "rejected")
  /\ errors' = errors \cup {<<"call", c>>}
  /\ calls' = [calls EXCEPT ![c].at = "done"]
  /\ stack' = Pop(t)
  /\ UNCHANGED <<exps, seq, log, orders, verified, spied, resets, configs>>

NotifyClaim(t) ==
  LET c == Top(t) IN
  /\ In(t, "claimed")
  /\ exps' = [exps EXCEPT ![calls[c].exp].captured = Append(@, c)]
  /\ calls' = [calls EXCEPT ![c].at = "noted"]
  /\ UNCHANGED <<seq, log, orders, verified, spied, stack, errors, resets, configs>>

\* The n-th claim gets the n-th response, and the last one once they are used up.
\* Mutant: the count is read when the call is answered.
Response_Current(c) == LET e == exps[calls[c].exp] IN IF e.got < e.responses THEN e.got ELSE e.responses
Response(c) == LET of == exps[calls[c].exp].responses
               IN  IF calls[c].n < of THEN calls[c].n ELSE of
Respond(t) ==
  LET c == Top(t) IN
  /\ In(t, "noted") /\ ~exps[calls[c].exp].do
  /\ calls' = [calls EXCEPT ![c].at = "done", ![c].reply = Response(c)]
  /\ stack' = Pop(t)
  /\ UNCHANGED <<exps, seq, log, orders, verified, spied, errors, resets, configs>>

\* Do wins over Return; its callback runs outside the lock and may call other methods.
EnterDo(t) ==
  LET c == Top(t) IN
  /\ In(t, "noted") /\ exps[calls[c].exp].do
  /\ calls' = [calls EXCEPT ![c].at = "doing"]
  /\ UNCHANGED <<exps, seq, log, orders, verified, spied, stack, errors, resets, configs>>
CallFromDo(t, name) == In(t, "doing") /\ Begin(t, name)
LeaveDo(t) ==
  LET c == Top(t) IN
  /\ In(t, "doing")
  /\ calls' = [calls EXCEPT ![c].at = "done"]
  /\ stack' = Pop(t)
  /\ UNCHANGED <<exps, seq, log, orders, verified, spied, errors, resets, configs>>

-----------------------------------------------------------------------------
(* Verify and Reset, which the test calls.                                 *)

\* Mutant: only expectations that were never claimed are unmet.
Unmet_NeverClaimed == {e \in DOMAIN exps : exps[e].age = resets /\ exps[e].got = 0 /\ Lower(e) > 0}
Unmet      == {e \in DOMAIN exps : exps[e].age = resets /\ exps[e].got < Lower(e)}
Misordered(a, b) ==
  /\ exps[a].firstSeq # 0 /\ exps[b].firstSeq # 0
  /\ exps[a].firstSeq > exps[b].firstSeq

Verify ==
  /\ ~verified /\ verified' = TRUE
  /\ errors' = errors \cup {<<"unmet", e>> : e \in Unmet}
                      \cup {<<"order", o>> : o \in {p \in orders : Misordered(p[1], p[2])}}
  /\ UNCHANGED <<exps, calls, seq, log, orders, spied, stack, resets, configs>>

Reset ==
  /\ resets < MaxResets /\ resets' = resets + 1
  /\ seq' = 0 /\ log' = <<>> /\ orders' = {} /\ verified' = FALSE
  /\ spied' = [s \in Spies |-> 0]
  /\ UNCHANGED <<exps, calls, stack, errors, configs>>

\* A test arranges, then acts: it declares before the calls and configures an expectation before it
\* declares the next one.  The code accepts declarations at any time.
Arranging == ~InFlight /\ log = <<>>

Declare ==
  \/ \E m \in Methods, a \in Accepts : Expect(m, a)
  \/ \E e \in {e \in DOMAIN exps : e = Len(exps) /\ exps[e].age = resets} :
       (SetCount(e) \/ AnyTimes(e) \/ AtLeast(e) \/ AtMost(e) \/ Return(e) \/ Do(e))
  \/ \E e, f \in DOMAIN exps : e # f /\ InOrder(e, f)

Step(t) ==
  \/ Record(t) \/ Match(t) \/ Forbid(t) \/ Claim(t) \/ Reject(t)
  \/ ReportRejected(t) \/ NotifyClaim(t) \/ Respond(t)
  \/ EnterDo(t) \/ LeaveDo(t)

Next ==
  \/ Arranging /\ Declare
  \/ \E t \in Threads, name \in Methods \cup Spies : MakeCall(t, name) \/ CallFromDo(t, name)
  \/ \E t \in Threads : Step(t)
  \/ Verify \/ Reset

Spec == Init /\ [][Next]_vars

-----------------------------------------------------------------------------
(* Properties.                                                             *)

Claims(e) == {c \in DOMAIN calls : calls[c].exp = e}

\* Concurrent calls share an expectation fairly: each claim gets a number of its own, and no claim is
\* made beyond the maximum.  A prohibition rejects the calls that match it whatever other expectations
\* there are and in whatever order they were declared (Method.Call and its comment).
WithinBounds ==
  /\ \A e \in DOMAIN exps :
       LET n == Cardinality(Claims(e)) IN
       /\ {calls[c].n : c \in Claims(e)} = 1..n
       /\ Upper(e) = Unbounded \/ n <= Upper(e)
  /\ \A e \in DOMAIN exps, c \in DOMAIN calls :
       (/\ Prohibits(e) /\ calls[c].age = exps[e].age
        /\ calls[c].name = exps[e].m /\ calls[c].arg \in exps[e].accepts
        /\ calls[c].at \notin {"begun", "recorded"})
       => calls[c].exp = 0

\* However calls overlap, the log is numbered 1, 2, ... without a gap, after a Reset too (record), and
\* the calls an expectation has answered have had its responses in turn: none of them is left out, and
\* only the last is repeated (respond).
RepliesInTurn ==
  /\ seq = Len(log) /\ \A i \in DOMAIN log : calls[log[i]].seq = i
  /\ \A e \in DOMAIN exps :
       (~exps[e].do /\ \A c \in Claims(e) : calls[c].at = "done") =>
         LET n == Cardinality(Claims(e))
             r == exps[e].responses
         IN /\ {calls[c].reply : c \in Claims(e)} \ {0} = 1..(IF n < r THEN n ELSE r)
            /\ \A c, d \in Claims(e) : c # d /\ calls[c].reply = calls[d].reply => calls[c].reply = r

\* When a Verify reports nothing with no call in flight and no call was reported before, then every
\* expectation has been claimed as often as it wants, every logged call of a method was claimed, and
\* captors hold exactly the claimed calls (Verify, Method.Call, notifyClaim).
Silent == \A i \in DOMAIN log : <<"call", log[i]>> \notin errors
SilenceMeansMet ==
  [][(verified' /\ ~verified /\ errors' = errors /\ Silent /\ ~InFlight) =>
       /\ \A e \in DOMAIN exps : exps[e].age = resets =>
            /\ Cardinality(Claims(e)) >= Lower(e)
            /\ {exps[e].captured[i] : i \in DOMAIN exps[e].captured} = Claims(e)
            /\ Len(exps[e].captured) = Cardinality(Claims(e))
       /\ \A i \in DOMAIN log : calls[log[i]].name \in Methods => calls[log[i]].exp # 0]_vars
=============================================================================

--------------------------------- MODULE Poll ---------------------------------
(***************************************************************************)
(* assert.poll (Eventually, Consistently) of several goroutines on one     *)
(* ManualClock, whose time passes when a test or a polled callback calls   *)
(* Advance.  Advance holds the clock's lock while it fires the due timers  *)
(* one by one; a poll receives from a timer's channel without that lock.   *)
(*                                                                         *)
(* Timers are numbered in the order NewTimer made them.                    *)
(***************************************************************************)
EXTENDS Naturals, Sequences, FiniteSets

CONSTANTS
  Polls,        \* the goroutines that poll, once each
  Modes,        \* which of them call Eventually and which Consistently
  Timeout, Interval,
  MaxNow,       \* bound on the clock; a poll starts only when it can time out before
  MaxStep       \* bound on what one Advance adds
ASSUME PollAssumption ==
  /\ Modes \subseteq [Polls -> {"Eventually", "Consistently"}]
  /\ Timeout \in Nat \ {0} /\ Interval \in Nat \ {0}
  /\ MaxNow \in Nat /\ MaxStep \in Nat \ {0}

Nobody == "nobody"
Test   == "test"
ASSUME PollNames == Nobody \notin Polls /\ Test \notin Polls

VARIABLES
  mode,       \* "Eventually" or "Consistently"
  at,         \* progress in poll
  seen,       \* what the attempts of a poll gave
  verdict,    \* PollResult.Termination; "exited" for a Goexit through poll, "none" before the end
  cancelled,  \* the context of the polls is done
  now, timers,   \* ManualClock; a timer is pending, fired into its channel, received or stopped
  holder         \* who is in Advance, holding ManualClock.mu
vars == <<mode, at, seen, verdict, cancelled, now, timers, holder>>

Init ==
  /\ mode \in Modes
  /\ at = [p \in Polls |-> "idle"]
  /\ seen = [p \in Polls |-> <<>>]
  /\ verdict = [p \in Polls |-> "none"]
  /\ cancelled = FALSE
  /\ now = 0 /\ timers = <<>> /\ holder = Nobody

-----------------------------------------------------------------------------
(* ManualClock.                                                            *)

TimersOf(p, kind) == {i \in DOMAIN timers : timers[i].of = p /\ timers[i].kind = kind}
Latest(S)         == CHOOSE i \in S : \A j \in S : j <= i
Deadline(p)       == Latest(TimersOf(p, "deadline"))
Attempt(p)        == Latest(TimersOf(p, "next"))

NewTimer(p, kind, d) ==
  Append(timers, [of |-> p, kind |-> kind, due |-> now + d, state |-> "pending"])
Ready(i)    == timers[i].state = "fired"
Receive(i)  == timers' = [timers EXCEPT ![i].state = "received"]
Stop(i)     == IF timers[i].state = "pending" THEN [timers EXCEPT ![i].state = "stopped"] ELSE timers

Due == {i \in DOMAIN timers : timers[i].state = "pending" /\ timers[i].due <= now}

\* Earliest first; a stable sort keeps the order of making among equals.
Earliest == CHOOSE i \in Due : \A j \in Due :
              timers[i].due < timers[j].due \/ (timers[i].due = timers[j].due /\ i <= j)

\* A callback that calls Advance does so on the goroutine of its poll.
Advance(who) ==
  /\ holder = Nobody /\ (who \in Polls => at[who] = "attempt")
  /\ \E d \in 1..MaxStep : now + d <= MaxNow /\ now' = now + d
  /\ holder' = who
  /\ UNCHANGED <<mode, at, seen, verdict, cancelled, timers>>

\* Mutant: a channel without a buffer, and a send that does not wait.
Fire_Unbuffered ==
  /\ holder # Nobody /\ Due # {}
  /\ timers' = [timers EXCEPT ![Earliest].state =
                  IF at[timers[Earliest].of] = "waiting" THEN "fired" ELSE "received"]
  /\ UNCHANGED <<mode, at, seen, verdict, cancelled, now, holder>>

\* The channel of a timer has room for its one value.
Fire ==
  /\ holder # Nobody /\ Due # {}
  /\ timers' = [timers EXCEPT ![Earliest].state = "fired"]
  /\ UNCHANGED <<mode, at, seen, verdict, cancelled, now, holder>>

AdvanceReturns ==
  /\ holder # Nobody /\ Due = {}
  /\ holder' = Nobody
  /\ UNCHANGED <<mode, at, seen, verdict, cancelled, now, timers>>

-----------------------------------------------------------------------------
(* poll.                                                                   *)

Go(p, to) == at' = [at EXCEPT ![p] = to]
Settle(p, v) == verdict' = [verdict EXCEPT ![p] = v]

\* The deadline timer starts before the first attempt.
Start(p) ==
  /\ at[p] = "idle" /\ holder = Nobody /\ now + Timeout <= MaxNow
  /\ timers' = NewTimer(p, "deadline", Timeout)
  /\ Go(p, "checking")
  /\ UNCHANGED <<mode, seen, verdict, cancelled, now, holder>>

\* A missing callback or matcher, or a bad option: nothing runs, no timer is made.
Invalid(p) ==
  /\ at[p] = "idle"
  /\ Settle(p, "invalid") /\ Go(p, "done")
  /\ UNCHANGED <<mode, seen, cancelled, now, timers, holder>>

CheckContext(p) ==
  /\ at[p] = "checking" /\ cancelled
  /\ Settle(p, "cancelled") /\ Go(p, "ending")
  /\ UNCHANGED <<mode, seen, cancelled, now, timers, holder>>

StartAttempt(p) ==
  /\ at[p] = "checking" /\ ~cancelled /\ Go(p, "arming")
  /\ UNCHANGED <<mode, seen, verdict, cancelled, now, timers, holder>>

\* The interval is measured from the start of the attempt.
Arm(p) ==
  /\ at[p] = "arming" /\ holder = Nobody
  /\ timers' = NewTimer(p, "next", Interval)
  /\ Go(p, "attempt")
  /\ UNCHANGED <<mode, seen, verdict, cancelled, now, holder>>

\* The outcomes that settle a poll, and the Termination they give.
Final(p, outcome) ==
  CASE outcome = "panic"                                  -> "panic"
    [] outcome = "exit"                                   -> "exited"
    [] outcome = "match" /\ mode[p] = "Eventually"        -> "matched"
    [] outcome = "mismatch" /\ mode[p] = "Consistently"   -> "mismatch"
    [] OTHER                                              -> "none"

AttemptEnds(p, outcome) ==
  /\ at[p] = "attempt" /\ holder # p
  /\ seen' = [seen EXCEPT ![p] = Append(@, outcome)]
  /\ Settle(p, Final(p, outcome))
  /\ Go(p, IF verdict'[p] = "none" THEN "waiting"
           ELSE IF outcome = "exit" THEN "released" ELSE "ending")
  /\ UNCHANGED <<mode, cancelled, now, timers, holder>>

TimedOut(p) == Settle(p, IF mode[p] = "Eventually" THEN "timeout" ELSE "held")

\* select takes any channel that is ready.
SeeDeadline(p) ==
  /\ at[p] \in {"waiting", "rechecking"} /\ Ready(Deadline(p))
  /\ Receive(Deadline(p)) /\ TimedOut(p) /\ Go(p, "ending")
  /\ UNCHANGED <<mode, seen, cancelled, now, holder>>
SeeContext(p) ==
  /\ at[p] = "waiting" /\ cancelled
  /\ Settle(p, "cancelled") /\ Go(p, "ending")
  /\ UNCHANGED <<mode, seen, cancelled, now, timers, holder>>
SeeNext(p) ==
  /\ at[p] = "waiting" /\ Ready(Attempt(p))
  /\ Receive(Attempt(p)) /\ Go(p, "rechecking")
  /\ UNCHANGED <<mode, seen, verdict, cancelled, now, holder>>

\* Mutant: the deadline is not looked at again.
NotYet_Unchecked(p) ==
  /\ at[p] = "rechecking" /\ Go(p, "checking")
  /\ UNCHANGED <<mode, seen, verdict, cancelled, now, timers, holder>>
NotYet(p) ==
  /\ at[p] = "rechecking" /\ ~Ready(Deadline(p)) /\ Go(p, "checking")
  /\ UNCHANGED <<mode, seen, verdict, cancelled, now, timers, holder>>

\* finish reads the clock for Elapsed; then the deferred functions stop the attempt's timer, if one was
\* made, and the deadline.  A Goexit runs only the deferred ones.
Finish(p) ==
  /\ at[p] = "ending" /\ holder = Nobody /\ Go(p, "released")
  /\ UNCHANGED <<mode, seen, verdict, cancelled, now, timers, holder>>

\* Mutant: a Goexit skips what finish would do.
StopNext_NotOnExit(p) ==
  /\ at[p] = "released" /\ holder = Nobody
  /\ timers' = IF TimersOf(p, "next") = {} \/ verdict[p] = "exited" THEN timers ELSE Stop(Attempt(p))
  /\ Go(p, "stopping")
  /\ UNCHANGED <<mode, seen, verdict, cancelled, now, holder>>

StopNext(p) ==
  /\ at[p] = "released" /\ holder = Nobody
  /\ timers' = IF TimersOf(p, "next") = {} THEN timers ELSE Stop(Attempt(p))
  /\ Go(p, "stopping")
  /\ UNCHANGED <<mode, seen, verdict, cancelled, now, holder>>
StopDeadline(p) ==
  /\ at[p] = "stopping" /\ holder = Nobody
  /\ timers' = Stop(Deadline(p)) /\ Go(p, "done")
  /\ UNCHANGED <<mode, seen, verdict, cancelled, now, holder>>

Cancel ==
  /\ ~cancelled /\ cancelled' = TRUE
  /\ UNCHANGED <<mode, at, seen, verdict, now, timers, holder>>

Outcomes == {"match", "mismatch", "panic", "exit"}

Step(p) ==
  \/ Start(p) \/ CheckContext(p) \/ StartAttempt(p) \/ Arm(p)
  \/ \E outcome \in Outcomes : AttemptEnds(p, outcome)
  \/ SeeDeadline(p) \/ SeeContext(p) \/ SeeNext(p) \/ NotYet(p)
  \/ Finish(p) \/ StopNext(p) \/ StopDeadline(p)

Clock == Fire \/ AdvanceReturns

Next ==
  \/ \E p \in Polls : Step(p) \/ Invalid(p)
  \/ Clock \/ Cancel
  \/ \E who \in Polls \cup {Test} : Advance(who)

Spec == Init /\ [][Next]_vars

\* Callbacks return, goroutines run, and the test lets time pass.
FairSpec ==
  /\ Spec
  /\ \A p \in Polls : WF_vars(Step(p))
  /\ WF_vars(Clock) /\ WF_vars(Advance(Test))

-----------------------------------------------------------------------------
(* Properties.                                                             *)

\* Of an interval and a timeout that are due together the timeout wins, as poll.go says: no attempt
\* starts on an interval that ended when the timeout had passed, whatever select picks and however
\* far one Advance goes.
TimeoutWins(p) ==
  \A i \in TimersOf(p, "next") : (i # Attempt(p)) => timers[i].due < timers[Deadline(p)].due

\* A verdict is about attempts that were made in time: the timeout wins ties; an Eventually times out
\* only after attempts that all failed and a Consistently holds only after attempts that all matched,
\* neither before its timeout; and a settling attempt is the last (poll, finish).
Unsettling(p) == IF mode[p] = "Eventually" THEN "mismatch" ELSE "match"
VerdictIsObserved ==
  \A p \in Polls :
    LET n    == Len(seen[p])
        last == seen[p][n]
    IN
    /\ TimeoutWins(p)
    /\ \A i \in 1..n : i < n => seen[p][i] = Unsettling(p)
    /\ verdict[p] \in {"timeout", "held"} =>
         /\ verdict[p] = (IF mode[p] = "Eventually" THEN "timeout" ELSE "held")
         /\ n > 0 /\ last = Unsettling(p) /\ now >= timers[Deadline(p)].due
    /\ verdict[p] \in {"matched", "mismatch"} =>
         n > 0 /\ last # Unsettling(p) /\ last = (IF verdict[p] = "matched" THEN "match" ELSE "mismatch")
    /\ verdict[p] \in {"panic", "exited"} => n > 0 /\ last = (IF verdict[p] = "panic" THEN "panic" ELSE "exit")

\* However a poll ends, a Goexit included, it leaves no timer in the clock, and while it runs at most
\* the latest attempt's timer is pending (ManualClock.Pending).
TimersReleased ==
  \A p \in Polls :
    /\ \A i \in TimersOf(p, "next") : timers[i].state = "pending" => i = Attempt(p)
    /\ at[p] = "done" => \A i \in DOMAIN timers : timers[i].of = p => timers[i].state # "pending"

\* A poll that starts ends when time passes.
EveryPollEnds == \A p \in Polls : at[p] = "checking" ~> at[p] = "done"
=============================================================================

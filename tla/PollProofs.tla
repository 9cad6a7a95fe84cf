------------------------------ MODULE PollProofs ------------------------------
(***************************************************************************)
(* Proofs about Poll, for any number of polls on one clock, any timeout    *)
(* and interval, and any bounds on the clock.                              *)
(***************************************************************************)
EXTENDS Poll, SequenceTheorems, WellFoundedInduction, TLAPS

Places == {"idle", "checking", "arming", "attempt", "waiting", "rechecking", "ending", "released",
           "stopping", "done"}
Verdicts == {"none", "invalid", "cancelled", "panic", "exited", "matched", "mismatch", "timeout", "held"}
Timer == [of : Polls, kind : {"deadline", "next"}, due : Nat,
          state : {"pending", "fired", "received", "stopped"}]

PollType ==
  /\ mode \in [Polls -> {"Eventually", "Consistently"}]
  /\ at \in [Polls -> Places]
  /\ seen \in [Polls -> Seq(Outcomes)]
  /\ verdict \in [Polls -> Verdicts]
  /\ now \in Nat /\ timers \in Seq(Timer)

Spent(i) == timers[i].state \in {"fired", "received"}

\* Timers fire when they are due, the earlier ones and of equals the older ones first.
FireInv ==
  /\ \A i \in DOMAIN timers : Spent(i) => timers[i].due <= now
  /\ \A i, j \in DOMAIN timers :
       Spent(i) /\ timers[j].state = "pending" =>
         timers[i].due < timers[j].due \/ (timers[i].due = timers[j].due /\ i <= j)

\* A poll has one deadline, older than the timers of its attempts.
Running(p) == at[p] # "idle" /\ verdict[p] # "invalid"
DeadlineOK(p) ==
  /\ at[p] = "idle" => verdict[p] = "none"
  /\ verdict[p] = "invalid" => at[p] = "done"
  /\ ~Running(p) => TimersOf(p, "deadline") = {} /\ TimersOf(p, "next") = {}
  /\ Running(p) =>
       \E d \in DOMAIN timers :
         /\ TimersOf(p, "deadline") = {d}
         /\ \A i \in TimersOf(p, "next") : d < i
         /\ timers[d].state = "received" => at[p] \in {"ending", "released", "stopping", "done"}
         /\ timers[d].state = "stopped" => at[p] = "done"
         /\ at[p] = "done" => timers[d].state # "pending"
         /\ verdict[p] \in {"timeout", "held"} => timers[d].due <= now

\* Attempts but the last have had their timers received before the deadline was due; so has the last
\* when another is about to start.
NextOK(p) ==
  /\ \A i \in TimersOf(p, "next") :
       (\E j \in TimersOf(p, "next") : i < j) \/ at[p] \in {"checking", "arming"} =>
         /\ timers[i].state = "received"
         /\ \A d \in TimersOf(p, "deadline") : timers[i].due < timers[d].due
  /\ at[p] \in {"attempt", "waiting", "rechecking"} => TimersOf(p, "next") # {}
  /\ at[p] = "rechecking" =>
       \E i \in TimersOf(p, "next") :
         timers[i].state = "received" /\ \A j \in TimersOf(p, "next") : j <= i
  /\ at[p] \in {"stopping", "done"} => \A i \in TimersOf(p, "next") : timers[i].state # "pending"
TimersInv == \A p \in Polls : DeadlineOK(p) /\ NextOK(p)

\* What a poll has seen, and what it makes of it.
SeenOK(p) ==
  LET n == Len(seen[p]) IN
  /\ at[p] \in {"checking", "arming", "attempt", "waiting", "rechecking"} => verdict[p] = "none"
  /\ at[p] \in {"waiting", "rechecking"} => n > 0
  /\ verdict[p] \in {"none", "timeout", "held"} => \A i \in 1..n : seen[p][i] = Unsettling(p)
  /\ \A i \in 1..n : i < n => seen[p][i] = Unsettling(p)
  /\ verdict[p] \in {"timeout", "held"} =>
       n > 0 /\ verdict[p] = (IF mode[p] = "Eventually" THEN "timeout" ELSE "held")
  /\ verdict[p] \in {"matched", "mismatch"} =>
       /\ n > 0 /\ seen[p][n] # Unsettling(p)
       /\ seen[p][n] = (IF verdict[p] = "matched" THEN "match" ELSE "mismatch")
  /\ verdict[p] \in {"panic", "exited"} =>
       n > 0 /\ seen[p][n] = (IF verdict[p] = "panic" THEN "panic" ELSE "exit")
SeenInv == \A p \in Polls : SeenOK(p)

IInv == PollType /\ FireInv /\ TimersInv /\ SeenInv

-----------------------------------------------------------------------------
(* The latest timer and the earliest due one.                              *)

LEMMA LatestIs ==
  ASSUME NEW S \in SUBSET Nat, NEW i \in S, \A j \in S : j <= i
  PROVE  Latest(S) = i
<1>1. \A k \in S : (\A j \in S : j <= k) => k = i
  OBVIOUS
<1> QED BY <1>1 DEF Latest

LEMMA LeastExists ==
  ASSUME NEW S \in SUBSET Nat, S # {}
  PROVE  \E n \in S : \A m \in S : n <= m
<1> DEFINE R == OpToRel(<, Nat)
<1>1. IsWellFoundedOn(R, Nat)
  BY NatLessThanWellFounded
<1>2. \A m, n \in Nat : m < n => <<m, n>> \in R
  BY DEF OpToRel
<1> HIDE DEF R
<1>3. PICK n \in S : \A m \in S : <<m, n>> \notin R
  BY <1>1, WFMin
<1>4. ASSUME NEW m \in S, ~(n <= m) PROVE FALSE
  <2>1. m \in Nat /\ n \in Nat
    OBVIOUS
  <2>2. m < n
    BY <1>4, <2>1
  <2> QED BY <1>2, <1>3, <2>1, <2>2
<1> QED BY <1>4

LEMMA GreatestExists ==
  ASSUME NEW n \in Nat, NEW S \in SUBSET (1..n), S # {}
  PROVE  \E i \in S : \A j \in S : j <= i
<1> DEFINE D == {n - i : i \in S}
<1>0. \A i \in S : i \in Nat /\ n - i \in Nat
  OBVIOUS
<1>1. D \in SUBSET Nat /\ D # {}
  BY <1>0
<1>2. PICK m \in D : \A k \in D : m <= k
  BY <1>1, LeastExists
<1>3. PICK i \in S : m = n - i
  OBVIOUS
<1>4. \A j \in S : n - i <= n - j
  BY <1>2, <1>3
<1> QED BY <1>0, <1>4

LEMMA LatestOf ==
  ASSUME PollType, NEW p \in Polls, NEW kind, TimersOf(p, kind) # {}
  PROVE  /\ Latest(TimersOf(p, kind)) \in TimersOf(p, kind)
         /\ \A j \in TimersOf(p, kind) : j <= Latest(TimersOf(p, kind))
<1>1. TimersOf(p, kind) \in SUBSET (1..Len(timers)) /\ Len(timers) \in Nat
  BY DEF PollType, TimersOf
<1>2. PICK i \in TimersOf(p, kind) : \A j \in TimersOf(p, kind) : j <= i
  BY <1>1, GreatestExists
<1>3. TimersOf(p, kind) \in SUBSET Nat
  BY <1>1
<1>4. Latest(TimersOf(p, kind)) = i
  BY <1>2, <1>3, LatestIs
<1> QED BY <1>2, <1>4

LEMMA EarliestIs ==
  ASSUME PollType, Due # {}
  PROVE  /\ Earliest \in Due
         /\ \A j \in Due : \/ timers[Earliest].due < timers[j].due
                           \/ timers[Earliest].due = timers[j].due /\ Earliest <= j
<1> DEFINE D == {timers[i].due : i \in Due}
<1>1. Due \in SUBSET (1..Len(timers)) /\ \A i \in Due : timers[i] \in Timer
  BY DEF PollType, Due
<1>2. \A i \in Due : timers[i].due \in Nat
  BY <1>1 DEF Timer
<1>3. D \in SUBSET Nat /\ D # {}
  BY <1>2
<1>4. PICK m \in D : \A k \in D : m <= k
  BY <1>3, LeastExists
<1> DEFINE E == {i \in Due : timers[i].due = m}
<1>5. E \in SUBSET Nat /\ E # {}
  BY <1>1, <1>4
<1>6. PICK i \in E : \A j \in E : i <= j
  BY <1>5, LeastExists
<1>7. i \in Due /\ \A j \in Due : timers[i].due < timers[j].due \/ (timers[i].due = timers[j].due /\ i <= j)
  BY <1>2, <1>3, <1>4, <1>6
<1> QED BY <1>7 DEF Earliest

-----------------------------------------------------------------------------
(* How a step changes the timers.                                          *)

\* Timer i gets another state; the others stay as they are.
StateSet(i, state) ==
  /\ timers' \in Seq(Timer) /\ DOMAIN timers' = DOMAIN timers
  /\ \A j \in DOMAIN timers :
       /\ timers'[j].of = timers[j].of /\ timers'[j].kind = timers[j].kind /\ timers'[j].due = timers[j].due
       /\ j # i => timers'[j] = timers[j]
  /\ timers'[i].state = state

LEMMA StateStep ==
  ASSUME PollType, NEW i \in DOMAIN timers, NEW s \in {"fired", "received", "stopped"},
         timers' = [timers EXCEPT ![i].state = s]
  PROVE  StateSet(i, s)
<1> DEFINE r == [timers[i] EXCEPT !.state = s]
<1>1. timers \in Seq(Timer) /\ i \in 1..Len(timers) /\ timers[i] \in Timer
  BY DEF PollType
<1>2. /\ r \in Timer /\ r.of = timers[i].of /\ r.kind = timers[i].kind
      /\ r.due = timers[i].due /\ r.state = s
  BY <1>1 DEF Timer
<1>3. timers' = [timers EXCEPT ![i] = r]
  OBVIOUS
<1> HIDE DEF r
<1>4. timers' \in Seq(Timer) /\ Len(timers') = Len(timers)
      /\ \A j \in 1..Len(timers) : timers'[j] = IF j = i THEN r ELSE timers[j]
  BY <1>1, <1>2, <1>3, ExceptSeq
<1>5. DOMAIN timers' = DOMAIN timers
  BY <1>1, <1>4
<1> QED BY <1>1, <1>2, <1>4, <1>5 DEF StateSet

LEMMA SameSets ==
  ASSUME NEW i, NEW s, StateSet(i, s), NEW p, NEW kind
  PROVE  TimersOf(p, kind)' = TimersOf(p, kind)
  BY DEF StateSet, TimersOf

\* A timer that is received or stopped keeps the order in which timers fire.
LEMMA StateKeepsFire ==
  ASSUME FireInv, NEW i \in DOMAIN timers, NEW s \in {"received", "stopped"}, StateSet(i, s), now' = now,
         s = "received" => timers[i].state = "fired"
  PROVE  FireInv'
<1>1. /\ \A j \in DOMAIN timers : Spent(j)' => Spent(j)
      /\ \A j \in DOMAIN timers : timers'[j].state = "pending" => timers[j].state = "pending"
  BY DEF StateSet, Spent
<1> QED BY <1>1 DEF FireInv, StateSet

\* A new timer is the last, and due later than any that has fired.
Added(p, kind, d) ==
  /\ timers' \in Seq(Timer) /\ Len(timers) + 1 \notin DOMAIN timers
  /\ DOMAIN timers' = DOMAIN timers \cup {Len(timers) + 1}
  /\ \A j \in DOMAIN timers : timers'[j] = timers[j] /\ j < Len(timers) + 1
  /\ timers'[Len(timers) + 1].of = p /\ timers'[Len(timers) + 1].kind = kind
  /\ timers'[Len(timers) + 1].due = now + d /\ timers'[Len(timers) + 1].state = "pending"

LEMMA AddStep ==
  ASSUME PollType, NEW p \in Polls, NEW kind \in {"deadline", "next"}, NEW d \in Nat \ {0},
         timers' = NewTimer(p, kind, d)
  PROVE  Added(p, kind, d)
<1>1. timers \in Seq(Timer) /\ Len(timers) \in Nat
  BY DEF PollType
<1>2. PICK r : r = [of |-> p, kind |-> kind, due |-> now + d, state |-> "pending"]
  OBVIOUS
<1>3. now + d \in Nat
  BY DEF PollType
<1>4. r \in Timer /\ r.of = p /\ r.kind = kind /\ r.due = now + d /\ r.state = "pending"
  BY <1>2, <1>3 DEF Timer
<1>5. timers' = Append(timers, r)
  BY <1>2 DEF NewTimer
<1>6. /\ timers' \in Seq(Timer) /\ Len(timers') = Len(timers) + 1
      /\ \A j \in 1..Len(timers) : timers'[j] = timers[j]
      /\ timers'[Len(timers) + 1] = r
  BY <1>1, <1>4, <1>5, AppendProperties
<1>7. /\ DOMAIN timers = 1..Len(timers) /\ DOMAIN timers' = 1..(Len(timers) + 1)
      /\ 1..(Len(timers) + 1) = (1..Len(timers)) \cup {Len(timers) + 1}
      /\ \A j \in 1..Len(timers) : j < Len(timers) + 1
      /\ Len(timers) + 1 \notin 1..Len(timers)
  BY <1>1, <1>6
<1> QED BY <1>4, <1>6, <1>7 DEF Added

LEMMA AddKeepsFire ==
  ASSUME PollType, FireInv, NEW p \in Polls, NEW kind, NEW d \in Nat \ {0}, Added(p, kind, d), now' = now
  PROVE  FireInv'
<1>1. PICK k : k = Len(timers) + 1
  OBVIOUS
<1>2. /\ DOMAIN timers' = DOMAIN timers \cup {k} /\ \A j \in DOMAIN timers : timers'[j] = timers[j] /\ j < k
      /\ timers'[k].due = now + d /\ timers'[k].state = "pending"
  BY <1>1 DEF Added
<1>3. \A i \in DOMAIN timers : (Spent(i)' <=> Spent(i)) /\ timers[i].due \in Nat
  <2>1. \A i \in DOMAIN timers : timers[i] \in Timer
    BY DEF PollType
  <2> QED BY <1>2, <2>1 DEF Spent, Timer
<1>4. ~Spent(k)'
  BY <1>2 DEF Spent
<1>5. \A i \in DOMAIN timers : Spent(i) => timers[i].due < now + d
  <2> SUFFICES ASSUME NEW i \in DOMAIN timers, Spent(i) PROVE timers[i].due < now + d
    OBVIOUS
  <2>1. timers[i].due <= now /\ timers[i].due \in Nat /\ now \in Nat
    BY <1>3 DEF FireInv, PollType
  <2> QED BY <2>1
<1>6. \A i \in DOMAIN timers' : Spent(i)' => timers'[i].due <= now
  BY <1>2, <1>3, <1>4 DEF FireInv
<1>7. ASSUME NEW i \in DOMAIN timers', NEW j \in DOMAIN timers', Spent(i)', timers'[j].state = "pending"
      PROVE  timers'[i].due < timers'[j].due \/ (timers'[i].due = timers'[j].due /\ i <= j)
  <2>1. i \in DOMAIN timers /\ Spent(i) /\ timers'[i] = timers[i]
    BY <1>2, <1>3, <1>4, <1>7
  <2>2. CASE j = k
    BY <1>2, <1>5, <2>1, <2>2
  <2>3. CASE j \in DOMAIN timers
    BY <1>2, <1>7, <2>1, <2>3 DEF FireInv
  <2> QED BY <1>2, <2>2, <2>3
<1> QED BY <1>6, <1>7 DEF FireInv

-----------------------------------------------------------------------------
(* What a step of one poll means to another.                               *)

SameTimers(p) ==
  \A kind \in {"deadline", "next"} :
    TimersOf(p, kind)' = TimersOf(p, kind) /\ \A i \in TimersOf(p, kind) : timers'[i] = timers[i]
Same(p) == at'[p] = at[p] /\ verdict'[p] = verdict[p] /\ seen'[p] = seen[p] /\ mode' = mode

LEMMA Unaffected ==
  ASSUME PollType, NEW p \in Polls, DeadlineOK(p), NextOK(p), Same(p), SameTimers(p),
         DOMAIN timers \subseteq DOMAIN timers', now' \in Nat, now <= now'
  PROVE  DeadlineOK(p)' /\ NextOK(p)'
<1>1. DeadlineOK(p)'
  <2>1. CASE ~Running(p)
    BY <2>1 DEF DeadlineOK, Running, Same, SameTimers
  <2>2. CASE Running(p)
    <3>1. PICK d \in DOMAIN timers :
            /\ TimersOf(p, "deadline") = {d}
            /\ \A i \in TimersOf(p, "next") : d < i
            /\ timers[d].state = "received" => at[p] \in {"ending", "released", "stopping", "done"}
            /\ timers[d].state = "stopped" => at[p] = "done"
            /\ at[p] = "done" => timers[d].state # "pending"
            /\ verdict[p] \in {"timeout", "held"} => timers[d].due <= now
      BY <2>2 DEF DeadlineOK
    <3>2. d \in DOMAIN timers' /\ timers'[d] = timers[d] /\ timers[d] \in Timer
      <4>1. d \in TimersOf(p, "deadline")
        BY <3>1
      <4>2. timers'[d] = timers[d]
        BY <4>1 DEF SameTimers
      <4> QED BY <4>2 DEF PollType
    <3>3. verdict[p] \in {"timeout", "held"} => timers[d].due <= now'
      <4>1. timers[d].due \in Nat /\ now \in Nat
        BY <3>2 DEF Timer, PollType
      <4> QED BY <3>1, <4>1
    <3> QED BY <2>2, <3>1, <3>2, <3>3 DEF DeadlineOK, Running, Same, SameTimers
  <2> QED BY <2>1, <2>2
<1>2. NextOK(p)'
  BY DEF NextOK, Same, SameTimers
<1> QED BY <1>1, <1>2

LEMMA UnaffectedSeen ==
  ASSUME NEW p \in Polls, SeenOK(p), Same(p)
  PROVE  SeenOK(p)'
  BY DEF SeenOK, Same, Unsettling

OthersKept(p) == \A q \in Polls : q # p => Same(q) /\ SameTimers(q)

LEMMA StepOf ==
  ASSUME IInv, NEW p \in Polls, OthersKept(p), DOMAIN timers \subseteq DOMAIN timers', now' = now,
         PollType', FireInv', DeadlineOK(p)', NextOK(p)', SeenOK(p)'
  PROVE  IInv'
<1>1. ASSUME NEW q \in Polls PROVE DeadlineOK(q)' /\ NextOK(q)' /\ SeenOK(q)'
  <2>1. CASE q = p
    BY <2>1
  <2>2. CASE q # p
    <3>1. Same(q) /\ SameTimers(q) /\ DeadlineOK(q) /\ NextOK(q) /\ SeenOK(q) /\ PollType
      BY <2>2 DEF OthersKept, IInv, TimersInv, SeenInv
    <3>2. now' \in Nat /\ now <= now'
      BY <3>1 DEF PollType
    <3> QED BY <3>1, <3>2, Unaffected, UnaffectedSeen
  <2> QED BY <2>1, <2>2
<1> QED BY <1>1 DEF IInv, TimersInv, SeenInv

LEMMA OthersWhenSet ==
  ASSUME NEW p \in Polls, NEW i \in DOMAIN timers, NEW s, StateSet(i, s), timers[i].of = p,
         \A q \in Polls : q # p => Same(q)
  PROVE  OthersKept(p)
<1> SUFFICES ASSUME NEW q \in Polls, q # p, NEW kind \in {"deadline", "next"}
             PROVE  TimersOf(q, kind)' = TimersOf(q, kind) /\ \A j \in TimersOf(q, kind) : timers'[j] = timers[j]
  BY DEF OthersKept, SameTimers
<1>1. \A j \in TimersOf(q, kind) : j \in DOMAIN timers /\ j # i
  BY DEF TimersOf
<1> QED BY <1>1, SameSets DEF StateSet

LEMMA OthersWhenAdded ==
  ASSUME NEW p \in Polls, NEW k, NEW d, Added(p, k, d), \A q \in Polls : q # p => Same(q)
  PROVE  OthersKept(p)
<1> SUFFICES ASSUME NEW q \in Polls, q # p, NEW kind \in {"deadline", "next"}
             PROVE  TimersOf(q, kind)' = TimersOf(q, kind) /\ \A j \in TimersOf(q, kind) : timers'[j] = timers[j]
  BY DEF OthersKept, SameTimers
<1> QED BY DEF Added, TimersOf

LEMMA OthersWhenQuiet ==
  ASSUME NEW p \in Polls, timers' = timers, \A q \in Polls : q # p => Same(q)
  PROVE  OthersKept(p)
  BY DEF OthersKept, SameTimers, TimersOf

\* The facts of a poll that is under way, about its one deadline.
LEMMA TheDeadline ==
  ASSUME PollType, NEW p \in Polls, DeadlineOK(p), Running(p)
  PROVE  \E d \in DOMAIN timers :
           /\ d = Deadline(p) /\ TimersOf(p, "deadline") = {d} /\ timers[d] \in Timer
           /\ timers[d].of = p /\ timers[d].kind = "deadline"
           /\ \A i \in TimersOf(p, "next") : d < i /\ i # d
           /\ timers[d].state = "received" => at[p] \in {"ending", "released", "stopping", "done"}
           /\ timers[d].state = "stopped" => at[p] = "done"
           /\ at[p] = "done" => timers[d].state # "pending"
           /\ verdict[p] \in {"timeout", "held"} => timers[d].due <= now
<1>1. PICK d \in DOMAIN timers :
        /\ TimersOf(p, "deadline") = {d}
        /\ \A i \in TimersOf(p, "next") : d < i
        /\ timers[d].state = "received" => at[p] \in {"ending", "released", "stopping", "done"}
        /\ timers[d].state = "stopped" => at[p] = "done"
        /\ at[p] = "done" => timers[d].state # "pending"
        /\ verdict[p] \in {"timeout", "held"} => timers[d].due <= now
  BY DEF DeadlineOK
<1>2. d \in Nat /\ timers[d] \in Timer
  BY DEF PollType
<1>3. d = Deadline(p)
  <2>1. {d} \in SUBSET Nat /\ d \in {d} /\ \A j \in {d} : j <= d
    BY <1>2
  <2> QED BY <1>1, <2>1, LatestIs DEF Deadline
<1>4. timers[d].of = p /\ timers[d].kind = "deadline"
  <2>1. d \in TimersOf(p, "deadline")
    BY <1>1
  <2> QED BY <2>1 DEF TimersOf
<1>5. \A i \in TimersOf(p, "next") : i # d
  BY <1>4 DEF TimersOf
<1> QED BY <1>1, <1>2, <1>3, <1>4, <1>5

-----------------------------------------------------------------------------
(* The steps of a poll that leave its timers alone.                        *)

\* Where such a step may go, and that it settles nothing by time.
Calm(p) ==
  /\ timers' = timers /\ now' = now /\ mode' = mode
  /\ \E to \in Places \ {"idle", "done"} : at' = [at EXCEPT ![p] = to]
  /\ at[p] \in {"checking", "arming", "attempt", "waiting", "rechecking", "ending"}
  /\ \E v \in Verdicts \ {"invalid"} :
       verdict' = [verdict EXCEPT ![p] = v] /\ (v \in {"timeout", "held"} => v = verdict[p])
  /\ \E x \in Seq(Outcomes) : seen' = [seen EXCEPT ![p] = x]
  /\ at[p] = "ending" => at'[p] = "released"

LEMMA CalmStep ==
  ASSUME IInv, NEW p \in Polls, Calm(p)
  PROVE  /\ PollType' /\ FireInv' /\ OthersKept(p) /\ DeadlineOK(p)'
         /\ \A kind \in {"deadline", "next"} : TimersOf(p, kind)' = TimersOf(p, kind)
<1> USE DEF IInv
<1>1. PollType'
  BY DEF Calm, PollType
<1>2. FireInv'
  BY DEF Calm, FireInv, Spent
<1>3. OthersKept(p)
  <2>1. \A q \in Polls : q # p => Same(q)
    BY DEF Calm, Same, PollType
  <2> QED BY <2>1, OthersWhenQuiet DEF Calm
<1>4. \A kind \in {"deadline", "next"} : TimersOf(p, kind)' = TimersOf(p, kind)
  BY DEF Calm, TimersOf
<1>5. /\ at'[p] \notin {"idle", "done"} /\ verdict'[p] # "invalid"
      /\ verdict'[p] \in {"timeout", "held"} => verdict[p] = verdict'[p]
      /\ at[p] \in {"ending", "released", "stopping", "done"} => at'[p] \in {"ending", "released", "stopping"}
  BY DEF Calm, PollType
<1>6. DeadlineOK(p)'
  <2>1. DeadlineOK(p) /\ Running(p)
    BY DEF TimersInv, DeadlineOK, Running, Calm
  <2>2. PICK d \in DOMAIN timers :
           /\ TimersOf(p, "deadline") = {d} /\ \A i \in TimersOf(p, "next") : d < i
           /\ timers[d].state = "received" => at[p] \in {"ending", "released", "stopping", "done"}
           /\ timers[d].state = "stopped" => at[p] = "done"
           /\ verdict[p] \in {"timeout", "held"} => timers[d].due <= now
    BY <2>1 DEF DeadlineOK
  <2>3. timers' = timers /\ now' = now /\ at[p] # "done"
    BY DEF Calm
  <2> QED BY <1>4, <1>5, <2>2, <2>3 DEF DeadlineOK, Running
<1> QED BY <1>1, <1>2, <1>3, <1>4, <1>6

CalmSteps(p) ==
  \/ CheckContext(p) \/ StartAttempt(p) \/ SeeContext(p) \/ NotYet(p) \/ Finish(p)
  \/ \E outcome \in Outcomes : AttemptEnds(p, outcome)

LEMMA CalmStepsAreCalm ==
  ASSUME IInv, NEW p \in Polls, CalmSteps(p)
  PROVE  Calm(p)
<1> USE DEF IInv, Places, Verdicts
<1>1. /\ at \in [Polls -> Places] /\ seen \in [Polls -> Seq(Outcomes)] /\ verdict \in [Polls -> Verdicts]
      /\ seen = [seen EXCEPT ![p] = seen[p]] /\ verdict = [verdict EXCEPT ![p] = verdict[p]]
  BY DEF PollType
<1>2. at[p] # "done" => verdict[p] # "invalid"
  BY DEF TimersInv, DeadlineOK
<1>3. CASE CheckContext(p) \/ SeeContext(p)
  BY <1>1, <1>3 DEF CheckContext, SeeContext, Go, Settle, Calm
<1>4. CASE StartAttempt(p) \/ NotYet(p)
  BY <1>1, <1>2, <1>4 DEF StartAttempt, NotYet, Go, Calm
<1>5. CASE Finish(p)
  BY <1>1, <1>2, <1>5 DEF Finish, Go, Calm
<1>6. ASSUME NEW outcome \in Outcomes, AttemptEnds(p, outcome) PROVE Calm(p)
  <2>1. Append(seen[p], outcome) \in Seq(Outcomes)
    BY <1>1
  <2>2. Final(p, outcome) \in {"none", "panic", "exited", "matched", "mismatch"}
    BY <1>6 DEF Final, Outcomes
  <2>3. /\ at' = [at EXCEPT ![p] = "waiting"] \/ at' = [at EXCEPT ![p] = "ending"]
           \/ at' = [at EXCEPT ![p] = "released"]
        /\ at[p] = "attempt" /\ UNCHANGED <<timers, now, mode>>
        /\ seen' = [seen EXCEPT ![p] = Append(seen[p], outcome)]
        /\ verdict' = [verdict EXCEPT ![p] = Final(p, outcome)]
    BY <1>6 DEF AttemptEnds, Go, Settle
  <2> QED BY <1>1, <2>1, <2>2, <2>3 DEF Calm
<1> QED BY <1>3, <1>4, <1>5, <1>6 DEF CalmSteps

LEMMA CalmNext ==
  ASSUME IInv, NEW p \in Polls, CalmSteps(p)
  PROVE  NextOK(p)'
<1> USE DEF IInv
<1>1. /\ timers' = timers /\ at \in [Polls -> Places] /\ at[p] # "idle"
      /\ \A kind \in {"deadline", "next"} : TimersOf(p, kind)' = TimersOf(p, kind)
  <2>1. Calm(p)
    BY CalmStepsAreCalm
  <2> QED BY <2>1, CalmStep DEF Calm, PollType
<1>2. NextOK(p)
  BY DEF TimersInv
<1>3. CASE CheckContext(p) \/ SeeContext(p) \/ Finish(p)
  <2>1. at'[p] \in {"ending", "released"}
    BY <1>1, <1>3 DEF CheckContext, SeeContext, Finish, Go
  <2> QED BY <1>1, <1>2, <2>1 DEF NextOK
<1>4. CASE StartAttempt(p)
  <2>1. at[p] = "checking" /\ at'[p] = "arming"
    BY <1>1, <1>4 DEF StartAttempt, Go
  <2> QED BY <1>1, <1>2, <2>1 DEF NextOK
<1>5. CASE NotYet(p)
  <2>1. at[p] = "rechecking" /\ at'[p] = "checking" /\ ~Ready(Deadline(p))
    BY <1>1, <1>5 DEF NotYet, Go
  <2>2. DeadlineOK(p) /\ Running(p)
    BY <2>1 DEF TimersInv, DeadlineOK, Running
  <2>3. PICK d \in DOMAIN timers :
          /\ d = Deadline(p) /\ TimersOf(p, "deadline") = {d} /\ timers[d] \in Timer
          /\ \A i \in TimersOf(p, "next") : d < i
          /\ timers[d].state = "received" => at[p] \in {"ending", "released", "stopping", "done"}
          /\ timers[d].state = "stopped" => at[p] = "done"
    BY <2>2, TheDeadline
  <2>4. timers[d].state = "pending"
    BY <2>1, <2>3 DEF Ready, Timer
  <2>5. PICK last \in TimersOf(p, "next") :
          timers[last].state = "received" /\ \A j \in TimersOf(p, "next") : j <= last
    BY <1>2, <2>1 DEF NextOK
  <2>6. ASSUME NEW i \in TimersOf(p, "next")
        PROVE  timers[i].state = "received" /\ timers[i].due < timers[d].due
    <3>0. i \in Nat /\ last \in Nat /\ i <= last /\ d \in Nat /\ i \in DOMAIN timers /\ d < i
      BY <2>3, <2>5 DEF TimersOf, PollType
    <3>1. CASE i < last
      BY <1>2, <2>3, <2>5, <3>1 DEF NextOK
    <3>2. CASE i = last
      BY <2>4, <2>5, <3>0, <3>2 DEF FireInv, Spent
    <3> QED BY <3>0, <3>1, <3>2
  <2> QED BY <1>1, <2>1, <2>3, <2>6 DEF NextOK
<1>6. ASSUME NEW outcome \in Outcomes, AttemptEnds(p, outcome) PROVE NextOK(p)'
  <2>1. at[p] = "attempt" /\ at'[p] \in {"waiting", "ending", "released"}
    BY <1>1, <1>6 DEF AttemptEnds, Go
  <2> QED BY <1>1, <1>2, <2>1 DEF NextOK
<1> QED BY <1>3, <1>4, <1>5, <1>6 DEF CalmSteps

LEMMA CalmSeen ==
  ASSUME IInv, NEW p \in Polls, CalmSteps(p)
  PROVE  SeenOK(p)'
<1> USE DEF IInv
<1>1. /\ at \in [Polls -> Places] /\ seen \in [Polls -> Seq(Outcomes)] /\ verdict \in [Polls -> Verdicts]
      /\ Len(seen[p]) \in Nat
  BY DEF PollType
<1>2. SeenOK(p)
  BY DEF SeenInv
<1>3. CASE CheckContext(p) \/ SeeContext(p)
  <2>1. at'[p] = "ending" /\ verdict'[p] = "cancelled" /\ verdict[p] = "none" /\ UNCHANGED <<seen, mode>>
    BY <1>1, <1>2, <1>3 DEF CheckContext, SeeContext, Go, Settle, SeenOK
  <2> QED BY <1>2, <2>1 DEF SeenOK, Unsettling
<1>4. CASE StartAttempt(p) \/ NotYet(p)
  <2>1. /\ at[p] \in {"checking", "rechecking"} /\ at'[p] \in {"arming", "checking"}
        /\ UNCHANGED <<seen, mode, verdict>>
    BY <1>1, <1>4 DEF StartAttempt, NotYet, Go
  <2> QED BY <1>2, <2>1 DEF SeenOK, Unsettling
<1>5. CASE Finish(p)
  <2>1. at'[p] = "released" /\ UNCHANGED <<seen, mode, verdict>>
    BY <1>1, <1>5 DEF Finish, Go
  <2> QED BY <1>2, <2>1 DEF SeenOK, Unsettling
<1>6. ASSUME NEW outcome \in Outcomes, AttemptEnds(p, outcome) PROVE SeenOK(p)'
  <2>1. /\ at[p] = "attempt" /\ mode' = mode
        /\ seen'[p] = Append(seen[p], outcome) /\ verdict'[p] = Final(p, outcome)
        /\ at'[p] \in {"waiting", "ending", "released"} /\ (at'[p] = "waiting" => verdict'[p] = "none")
    BY <1>1, <1>6 DEF AttemptEnds, Go, Settle
  <2>2. \A i \in 1..Len(seen[p]) : seen[p][i] = Unsettling(p)
    BY <1>2, <2>1 DEF SeenOK
  <2>3. PICK n : n = Len(seen[p]) + 1
    OBVIOUS
  <2>4. /\ Len(seen'[p]) = n /\ n > 0 /\ seen'[p][n] = outcome
        /\ \A i \in 1..n : i < n => seen'[p][i] = Unsettling(p)
    <3>1. /\ Len(seen'[p]) = n /\ seen'[p][n] = outcome
          /\ \A i \in 1..Len(seen[p]) : seen'[p][i] = seen[p][i]
      BY <1>1, <2>1, <2>3, AppendProperties
    <3>2. n > 0 /\ \A i \in 1..n : i < n => i \in 1..Len(seen[p])
      BY <1>1, <2>3
    <3> QED BY <2>2, <3>1, <3>2
  <2>5. Unsettling(p)' = Unsettling(p)
    BY <2>1 DEF Unsettling
  <2>6. mode[p] \in {"Eventually", "Consistently"}
    BY DEF PollType
  <2>7. /\ verdict'[p] \in {"none", "panic", "exited", "matched", "mismatch"}
        /\ verdict'[p] = "none" => outcome = Unsettling(p)
        /\ verdict'[p] \in {"matched", "mismatch"} =>
             /\ outcome # Unsettling(p)
             /\ outcome = (IF verdict'[p] = "matched" THEN "match" ELSE "mismatch")
        /\ verdict'[p] \in {"panic", "exited"} =>
             outcome = (IF verdict'[p] = "panic" THEN "panic" ELSE "exit")
    BY <2>1, <2>6 DEF Final, Outcomes, Unsettling
  <2>8. verdict'[p] = "none" => \A i \in 1..n : seen'[p][i] = Unsettling(p)
    <3>1. n \in Nat /\ \A i \in 1..n : i < n \/ i = n
      BY <1>1, <2>3
    <3> QED BY <2>4, <2>7, <3>1
  <2> QED BY <2>1, <2>4, <2>5, <2>7, <2>8 DEF SeenOK
<1> QED BY <1>3, <1>4, <1>5, <1>6 DEF CalmSteps

LEMMA CalmInv ==
  ASSUME IInv, NEW p \in Polls, CalmSteps(p)
  PROVE  IInv'
<1>1. Calm(p)
  BY CalmStepsAreCalm
<1>2. now' = now /\ DOMAIN timers' = DOMAIN timers
  BY <1>1 DEF Calm
<1>3. PollType' /\ FireInv' /\ OthersKept(p) /\ DeadlineOK(p)'
  BY <1>1, CalmStep
<1> QED BY <1>2, <1>3, CalmNext, CalmSeen, StepOf

-----------------------------------------------------------------------------
(* The steps of a poll that make a timer, receive from one or stop one.    *)

LEMMA StartInv ==
  ASSUME IInv, NEW p \in Polls, Start(p)
  PROVE  IInv'
<1> USE DEF IInv
<1>1. /\ at[p] = "idle" /\ at' = [at EXCEPT ![p] = "checking"] /\ UNCHANGED <<mode, seen, verdict, now>>
      /\ timers' = NewTimer(p, "deadline", Timeout)
  BY DEF Start, Go
<1>2. Added(p, "deadline", Timeout)
  BY <1>1, AddStep, PollAssumption
<1>3. PICK k : k = Len(timers) + 1
  OBVIOUS
<1>4. /\ DOMAIN timers' = DOMAIN timers \cup {k} /\ \A j \in DOMAIN timers : timers'[j] = timers[j]
      /\ timers'[k].of = p /\ timers'[k].kind = "deadline" /\ timers'[k].state = "pending"
      /\ timers' \in Seq(Timer)
  BY <1>2, <1>3 DEF Added
<1>5. PollType'
  BY <1>1, <1>4 DEF PollType, Places
<1>6. FireInv'
  BY <1>1, <1>2, AddKeepsFire, PollAssumption
<1>7. OthersKept(p)
  <2>1. \A q \in Polls : q # p => Same(q)
    BY <1>1 DEF Same, PollType
  <2> QED BY <1>2, <2>1, OthersWhenAdded
<1>8. at'[p] = "checking" /\ verdict'[p] = "none" /\ verdict[p] = "none"
  BY <1>1 DEF TimersInv, DeadlineOK, PollType
<1>9. TimersOf(p, "deadline") = {} /\ TimersOf(p, "next") = {}
  BY <1>1 DEF TimersInv, DeadlineOK, Running
<1>10. TimersOf(p, "deadline")' = {k} /\ TimersOf(p, "next")' = {}
  BY <1>4, <1>9 DEF TimersOf
<1>11. DeadlineOK(p)'
  BY <1>4, <1>8, <1>10 DEF DeadlineOK, Running
<1>12. NextOK(p)'
  BY <1>8, <1>10 DEF NextOK
<1>13. SeenOK(p)'
  BY <1>1, <1>8 DEF SeenInv, SeenOK, Unsettling
<1> QED BY <1>1, <1>4, <1>5, <1>6, <1>7, <1>11, <1>12, <1>13, StepOf

LEMMA ArmInv ==
  ASSUME IInv, NEW p \in Polls, Arm(p)
  PROVE  IInv'
<1> USE DEF IInv
<1>1. /\ at[p] = "arming" /\ at' = [at EXCEPT ![p] = "attempt"] /\ UNCHANGED <<mode, seen, verdict, now>>
      /\ timers' = NewTimer(p, "next", Interval)
  BY DEF Arm, Go
<1>2. Added(p, "next", Interval)
  BY <1>1, AddStep, PollAssumption
<1>3. PICK k : k = Len(timers) + 1
  OBVIOUS
<1>4. /\ DOMAIN timers' = DOMAIN timers \cup {k}
      /\ \A j \in DOMAIN timers : timers'[j] = timers[j] /\ j < k
      /\ timers'[k].of = p /\ timers'[k].kind = "next" /\ timers'[k].state = "pending"
      /\ timers' \in Seq(Timer)
  BY <1>2, <1>3 DEF Added
<1>5. PollType'
  BY <1>1, <1>4 DEF PollType, Places
<1>6. FireInv'
  BY <1>1, <1>2, AddKeepsFire, PollAssumption
<1>7. OthersKept(p)
  <2>1. \A q \in Polls : q # p => Same(q)
    BY <1>1 DEF Same, PollType
  <2> QED BY <1>2, <2>1, OthersWhenAdded
<1>8. at'[p] = "attempt" /\ verdict'[p] = "none" /\ verdict[p] = "none"
  BY <1>1 DEF SeenInv, SeenOK, PollType
<1>9. /\ TimersOf(p, "deadline")' = TimersOf(p, "deadline")
      /\ TimersOf(p, "next")' = TimersOf(p, "next") \cup {k}
  BY <1>4 DEF TimersOf
<1>10. DeadlineOK(p) /\ NextOK(p) /\ Running(p)
  BY <1>1, <1>8 DEF TimersInv, Running
<1>11. PICK d \in DOMAIN timers :
          /\ TimersOf(p, "deadline") = {d} /\ \A i \in TimersOf(p, "next") : d < i
          /\ timers[d].state = "received" => at[p] \in {"ending", "released", "stopping", "done"}
          /\ timers[d].state = "stopped" => at[p] = "done"
  BY <1>10 DEF DeadlineOK
<1>12. DeadlineOK(p)'
  BY <1>1, <1>4, <1>8, <1>9, <1>11 DEF DeadlineOK, Running
<1>13. NextOK(p)'
  <2>1. \A i \in TimersOf(p, "next") :
           /\ i < k /\ timers'[i].state = "received" /\ timers'[i].due < timers'[d].due
    BY <1>1, <1>4, <1>10, <1>11 DEF NextOK, TimersOf
  <2>2. ~(k < k)
    BY <1>3 DEF PollType
  <2>3. \A i \in TimersOf(p, "next") : ~(k < i)
    <3> SUFFICES ASSUME NEW i \in TimersOf(p, "next") PROVE ~(k < i)
      OBVIOUS
    <3>1. i \in Nat /\ k \in Nat /\ i < k
      BY <1>3, <2>1 DEF PollType, TimersOf
    <3> QED BY <3>1
  <2> QED BY <1>8, <1>9, <1>11, <2>1, <2>2, <2>3 DEF NextOK
<1>14. SeenOK(p)'
  BY <1>1, <1>8 DEF SeenInv, SeenOK, Unsettling
<1> QED BY <1>1, <1>4, <1>5, <1>6, <1>7, <1>12, <1>13, <1>14, StepOf

LEMMA SeeDeadlineInv ==
  ASSUME IInv, NEW p \in Polls, SeeDeadline(p)
  PROVE  IInv'
<1> USE DEF IInv
<1>1. /\ at[p] \in {"waiting", "rechecking"} /\ at' = [at EXCEPT ![p] = "ending"]
      /\ UNCHANGED <<mode, seen, now>>
      /\ verdict' = [verdict EXCEPT ![p] = IF mode[p] = "Eventually" THEN "timeout" ELSE "held"]
  BY DEF SeeDeadline, Go, TimedOut, Settle
<1>2. verdict[p] = "none" /\ Len(seen[p]) > 0 /\ SeenOK(p) /\ NextOK(p) /\ DeadlineOK(p) /\ Running(p)
  BY <1>1 DEF SeenInv, SeenOK, TimersInv, Running
<1>3. PICK d \in DOMAIN timers :
        /\ d = Deadline(p) /\ TimersOf(p, "deadline") = {d}
        /\ timers[d].of = p /\ \A i \in TimersOf(p, "next") : d < i /\ i # d
  BY <1>2, TheDeadline
<1>4. timers[d].state = "fired" /\ timers' = [timers EXCEPT ![d].state = "received"]
  BY <1>3 DEF SeeDeadline, Ready, Receive
<1>5. StateSet(d, "received")
  BY <1>4, StateStep
<1>6. PollType'
  BY <1>1, <1>5 DEF PollType, StateSet, Places, Verdicts
<1>7. FireInv'
  BY <1>1, <1>4, <1>5, StateKeepsFire
<1>8. OthersKept(p)
  <2>1. \A q \in Polls : q # p => Same(q)
    BY <1>1 DEF Same, PollType
  <2> QED BY <1>3, <1>5, <2>1, OthersWhenSet
<1>9. at'[p] = "ending" /\ verdict'[p] = (IF mode[p] = "Eventually" THEN "timeout" ELSE "held")
  BY <1>1 DEF PollType
<1>10. \A kind \in {"deadline", "next"} : TimersOf(p, kind)' = TimersOf(p, kind)
  BY <1>5, SameSets
<1>11. /\ DOMAIN timers' = DOMAIN timers /\ timers'[d].state = "received" /\ timers'[d].due = timers[d].due
       /\ \A j \in DOMAIN timers : j # d => timers'[j] = timers[j]
  BY <1>5 DEF StateSet
<1>12. timers[d].due <= now
  BY <1>4 DEF FireInv, Spent
<1>13. DeadlineOK(p)'
  BY <1>1, <1>3, <1>9, <1>10, <1>11, <1>12 DEF DeadlineOK, Running
<1>14. NextOK(p)'
  <2>1. \A i \in TimersOf(p, "next") : timers'[i] = timers[i]
    BY <1>3, <1>11 DEF TimersOf
  <2> QED BY <1>2, <1>3, <1>9, <1>10, <1>11, <2>1 DEF NextOK
<1>15. SeenOK(p)'
  BY <1>1, <1>2, <1>9 DEF SeenOK, Unsettling
<1> QED BY <1>1, <1>6, <1>7, <1>8, <1>11, <1>13, <1>14, <1>15, StepOf

LEMMA SeeNextInv ==
  ASSUME IInv, NEW p \in Polls, SeeNext(p)
  PROVE  IInv'
<1> USE DEF IInv
<1>1. /\ at[p] = "waiting" /\ at' = [at EXCEPT ![p] = "rechecking"] /\ UNCHANGED <<mode, seen, now, verdict>>
  BY DEF SeeNext, Go
<1>2. verdict[p] = "none" /\ SeenOK(p) /\ NextOK(p) /\ DeadlineOK(p) /\ Running(p) /\ TimersOf(p, "next") # {}
  BY <1>1 DEF SeenInv, SeenOK, TimersInv, NextOK, Running
<1>3. PICK d \in DOMAIN timers :
        /\ TimersOf(p, "deadline") = {d} /\ \A i \in TimersOf(p, "next") : d < i /\ i # d
        /\ timers[d].state = "received" => at[p] \in {"ending", "released", "stopping", "done"}
        /\ timers[d].state = "stopped" => at[p] = "done"
  BY <1>2, TheDeadline
<1>4. PICK k : k = Attempt(p)
  OBVIOUS
<1>5. k \in TimersOf(p, "next") /\ \A i \in TimersOf(p, "next") : i <= k
  BY <1>2, <1>4, LatestOf DEF Attempt
<1>6. k \in DOMAIN timers /\ timers[k].of = p
  BY <1>5 DEF TimersOf
<1>7. timers[k].state = "fired" /\ timers' = [timers EXCEPT ![k].state = "received"]
  BY <1>4 DEF SeeNext, Ready, Receive
<1>8. StateSet(k, "received")
  BY <1>6, <1>7, StateStep
<1>9. PollType'
  BY <1>1, <1>8 DEF PollType, StateSet, Places
<1>10. FireInv'
  BY <1>1, <1>6, <1>7, <1>8, StateKeepsFire
<1>11. OthersKept(p)
  <2>1. \A q \in Polls : q # p => Same(q)
    BY <1>1 DEF Same, PollType
  <2> QED BY <1>6, <1>8, <2>1, OthersWhenSet
<1>12. at'[p] = "rechecking"
  BY <1>1 DEF PollType
<1>13. \A kind \in {"deadline", "next"} : TimersOf(p, kind)' = TimersOf(p, kind)
  BY <1>8, SameSets
<1>14. /\ DOMAIN timers' = DOMAIN timers /\ timers'[k].state = "received"
       /\ \A j \in DOMAIN timers : j # k => timers'[j] = timers[j]
       /\ \A j \in DOMAIN timers : timers'[j].due = timers[j].due
  BY <1>8 DEF StateSet
<1>15. DeadlineOK(p)'
  <2>1. timers'[d] = timers[d]
    BY <1>3, <1>5, <1>14
  <2> QED BY <1>1, <1>2, <1>3, <1>12, <1>13, <1>14, <2>1 DEF DeadlineOK, Running
<1>16. NextOK(p)'
  <2>1. \A i \in TimersOf(p, "next") : i \in DOMAIN timers /\ (timers[i].state = "received" => timers'[i].state = "received")
    BY <1>14 DEF TimersOf
  <2>2. \A i \in TimersOf(p, "deadline") : timers'[i].due = timers[i].due
    BY <1>14 DEF TimersOf
  <2> QED BY <1>1, <1>2, <1>5, <1>12, <1>13, <1>14, <2>1, <2>2 DEF NextOK
<1>17. SeenOK(p)'
  BY <1>1, <1>2, <1>12 DEF SeenOK, Unsettling
<1> QED BY <1>1, <1>9, <1>10, <1>11, <1>14, <1>15, <1>16, <1>17, StepOf

\* What the deferred functions of a poll do with a timer of it.
LEMMA StopStep ==
  ASSUME IInv, NEW p \in Polls, NEW i \in DOMAIN timers, timers[i].of = p, timers' = Stop(i),
         NEW to \in Places, at' = [at EXCEPT ![p] = to], UNCHANGED <<mode, seen, verdict, now>>
  PROVE  /\ PollType' /\ FireInv' /\ OthersKept(p) /\ DOMAIN timers' = DOMAIN timers
         /\ \A kind \in {"deadline", "next"} : TimersOf(p, kind)' = TimersOf(p, kind)
         /\ \A j \in DOMAIN timers : j # i => timers'[j] = timers[j]
         /\ \A j \in DOMAIN timers : timers'[j].due = timers[j].due
         /\ timers'[i].state = (IF timers[i].state = "pending" THEN "stopped" ELSE timers[i].state)
<1> USE DEF IInv
<1>1. \A q \in Polls : q # p => Same(q)
  BY DEF Same, PollType
<1>2. CASE timers[i].state = "pending"
  <2>1. StateSet(i, "stopped")
    BY <1>2, StateStep DEF Stop
  <2>2. PollType'
    BY <2>1 DEF PollType, StateSet
  <2>3. FireInv'
    BY <2>1, StateKeepsFire
  <2>4. OthersKept(p)
    BY <1>1, <2>1, OthersWhenSet
  <2>5. \A kind \in {"deadline", "next"} : TimersOf(p, kind)' = TimersOf(p, kind)
    BY <2>1, SameSets
  <2> QED BY <1>2, <2>1, <2>2, <2>3, <2>4, <2>5 DEF StateSet
<1>3. CASE timers[i].state # "pending"
  <2>1. timers' = timers
    BY <1>3 DEF Stop
  <2>2. PollType' /\ FireInv'
    BY <2>1 DEF PollType, FireInv, Spent
  <2>3. OthersKept(p)
    BY <1>1, <2>1, OthersWhenQuiet
  <2>4. \A kind \in {"deadline", "next"} : TimersOf(p, kind)' = TimersOf(p, kind)
    BY <2>1 DEF TimersOf
  <2> QED BY <1>3, <2>1, <2>2, <2>3, <2>4
<1> QED BY <1>2, <1>3

LEMMA StopNextInv ==
  ASSUME IInv, NEW p \in Polls, StopNext(p)
  PROVE  IInv'
<1> USE DEF IInv
<1>1. /\ at[p] = "released" /\ at' = [at EXCEPT ![p] = "stopping"] /\ UNCHANGED <<mode, seen, now, verdict>>
      /\ "stopping" \in Places
  BY DEF StopNext, Go, Places
<1>2. SeenOK(p) /\ NextOK(p) /\ DeadlineOK(p) /\ Running(p) /\ at'[p] = "stopping"
  BY <1>1 DEF SeenInv, TimersInv, DeadlineOK, Running, PollType
<1>3. PICK d \in DOMAIN timers :
        /\ TimersOf(p, "deadline") = {d} /\ \A i \in TimersOf(p, "next") : d < i /\ i # d
        /\ timers[d].state = "stopped" => at[p] = "done"
        /\ verdict[p] \in {"timeout", "held"} => timers[d].due <= now
  BY <1>2, TheDeadline
<1>4. SeenOK(p)'
  BY <1>1, <1>2 DEF SeenOK, Unsettling
<1>5. CASE TimersOf(p, "next") = {}
  <2>1. timers' = timers
    BY <1>5 DEF StopNext
  <2>2. PollType' /\ FireInv'
    BY <1>1, <2>1 DEF PollType, FireInv, Spent
  <2>3. OthersKept(p)
    <3>1. \A q \in Polls : q # p => Same(q)
      BY <1>1 DEF Same, PollType
    <3> QED BY <2>1, <3>1, OthersWhenQuiet
  <2>4. \A kind \in {"deadline", "next"} : TimersOf(p, kind)' = TimersOf(p, kind)
    BY <2>1 DEF TimersOf
  <2>5. DeadlineOK(p)'
    BY <1>1, <1>2, <1>3, <2>1, <2>4 DEF DeadlineOK, Running
  <2>6. NextOK(p)'
    BY <1>2, <1>5, <2>4 DEF NextOK
  <2> QED BY <1>1, <1>4, <2>1, <2>2, <2>3, <2>5, <2>6, StepOf
<1>6. CASE TimersOf(p, "next") # {}
  <2>1. PICK k : k = Attempt(p)
    OBVIOUS
  <2>2. k \in TimersOf(p, "next") /\ \A i \in TimersOf(p, "next") : i <= k
    BY <1>6, <2>1, LatestOf DEF Attempt
  <2>3. k \in DOMAIN timers /\ timers[k].of = p /\ k # d /\ timers' = Stop(k)
    BY <1>3, <1>6, <2>1, <2>2 DEF TimersOf, StopNext
  <2>4. /\ PollType' /\ FireInv' /\ OthersKept(p) /\ DOMAIN timers' = DOMAIN timers
        /\ \A kind \in {"deadline", "next"} : TimersOf(p, kind)' = TimersOf(p, kind)
        /\ \A j \in DOMAIN timers : j # k => timers'[j] = timers[j]
        /\ \A j \in DOMAIN timers : timers'[j].due = timers[j].due
        /\ timers'[k].state = (IF timers[k].state = "pending" THEN "stopped" ELSE timers[k].state)
    BY <1>1, <2>3, StopStep
  <2>5. DeadlineOK(p)'
    <3>1. timers'[d] = timers[d]
      BY <2>3, <2>4
    <3> QED BY <1>1, <1>2, <1>3, <2>4, <3>1 DEF DeadlineOK, Running
  <2>6. NextOK(p)'
    <3>1. ASSUME NEW i \in TimersOf(p, "next")
          PROVE  /\ timers'[i].state # "pending"
                 /\ (\E j \in TimersOf(p, "next") : i < j) =>
                      /\ timers'[i].state = "received"
                      /\ timers'[i].due < timers'[d].due
      <4>0. i \in DOMAIN timers /\ i \in Nat /\ k \in Nat /\ i <= k
        BY <2>2, <2>3 DEF TimersOf, PollType
      <4>1. CASE i = k
        <5>1. \A j \in TimersOf(p, "next") : ~(i < j)
          <6> SUFFICES ASSUME NEW j \in TimersOf(p, "next") PROVE ~(i < j)
            OBVIOUS
          <6>1. j \in Nat /\ j <= k
            BY <2>2 DEF TimersOf, PollType
          <6> QED BY <4>0, <4>1, <6>1
        <5> QED BY <2>4, <4>1, <5>1
      <4>2. CASE i # k
        <5>1. i < k
          BY <4>0, <4>2
        <5>2. timers[i].state = "received" /\ timers[i].due < timers[d].due
          BY <1>2, <1>3, <2>2, <5>1 DEF NextOK
        <5> QED BY <1>3, <2>4, <4>0, <4>2, <5>2
      <4> QED BY <4>1, <4>2
    <3> QED BY <1>2, <1>3, <2>4, <3>1 DEF NextOK
  <2> QED BY <1>1, <1>4, <2>4, <2>5, <2>6, StepOf
<1> QED BY <1>5, <1>6

LEMMA StopDeadlineInv ==
  ASSUME IInv, NEW p \in Polls, StopDeadline(p)
  PROVE  IInv'
<1> USE DEF IInv
<1>1. /\ at[p] = "stopping" /\ at' = [at EXCEPT ![p] = "done"] /\ UNCHANGED <<mode, seen, now, verdict>>
      /\ "done" \in Places
  BY DEF StopDeadline, Go, Places
<1>2. SeenOK(p) /\ NextOK(p) /\ DeadlineOK(p) /\ Running(p) /\ at'[p] = "done"
  BY <1>1 DEF SeenInv, TimersInv, DeadlineOK, Running, PollType
<1>3. PICK d \in DOMAIN timers :
        /\ d = Deadline(p) /\ TimersOf(p, "deadline") = {d} /\ timers[d].of = p
        /\ \A i \in TimersOf(p, "next") : d < i /\ i # d
        /\ verdict[p] \in {"timeout", "held"} => timers[d].due <= now
  BY <1>2, TheDeadline
<1>4. timers' = Stop(d)
  BY <1>3 DEF StopDeadline
<1>5. /\ PollType' /\ FireInv' /\ OthersKept(p) /\ DOMAIN timers' = DOMAIN timers
      /\ \A kind \in {"deadline", "next"} : TimersOf(p, kind)' = TimersOf(p, kind)
      /\ \A j \in DOMAIN timers : j # d => timers'[j] = timers[j]
      /\ \A j \in DOMAIN timers : timers'[j].due = timers[j].due
      /\ timers'[d].state = (IF timers[d].state = "pending" THEN "stopped" ELSE timers[d].state)
  BY <1>1, <1>3, <1>4, StopStep
<1>6. DeadlineOK(p)'
  BY <1>1, <1>2, <1>3, <1>5 DEF DeadlineOK, Running
<1>7. NextOK(p)'
  <2>1. \A i \in TimersOf(p, "next") : timers'[i] = timers[i]
    BY <1>3, <1>5 DEF TimersOf
  <2>2. timers'[d].due = timers[d].due
    BY <1>5
  <2> QED BY <1>1, <1>2, <1>3, <1>5, <2>1, <2>2 DEF NextOK
<1>8. SeenOK(p)'
  BY <1>1, <1>2 DEF SeenOK, Unsettling
<1> QED BY <1>1, <1>5, <1>6, <1>7, <1>8, StepOf

LEMMA InvalidInv ==
  ASSUME IInv, NEW p \in Polls, Invalid(p)
  PROVE  IInv'
<1> USE DEF IInv
<1>1. /\ at[p] = "idle" /\ at' = [at EXCEPT ![p] = "done"] /\ UNCHANGED <<mode, seen, now, timers>>
      /\ verdict' = [verdict EXCEPT ![p] = "invalid"]
  BY DEF Invalid, Go, Settle
<1>2. at'[p] = "done" /\ verdict'[p] = "invalid" /\ verdict[p] = "none"
  BY <1>1 DEF TimersInv, DeadlineOK, PollType
<1>3. PollType' /\ FireInv'
  BY <1>1 DEF PollType, FireInv, Spent, Places, Verdicts
<1>4. OthersKept(p)
  <2>1. \A q \in Polls : q # p => Same(q)
    BY <1>1 DEF Same, PollType
  <2> QED BY <1>1, <2>1, OthersWhenQuiet
<1>5. TimersOf(p, "deadline")' = {} /\ TimersOf(p, "next")' = {}
  <2>1. TimersOf(p, "deadline") = {} /\ TimersOf(p, "next") = {}
    BY <1>1 DEF TimersInv, DeadlineOK, Running
  <2> QED BY <1>1, <2>1 DEF TimersOf
<1>6. DeadlineOK(p)' /\ NextOK(p)'
  BY <1>2, <1>5 DEF DeadlineOK, NextOK, Running
<1>7. SeenOK(p)'
  BY <1>1, <1>2 DEF SeenInv, SeenOK, Unsettling
<1> QED BY <1>1, <1>3, <1>4, <1>6, <1>7, StepOf

-----------------------------------------------------------------------------
(* The clock.                                                              *)

\* The earliest due timer fires; nothing that has been received, stopped or fired changes.
LEMMA FireStepInv ==
  ASSUME IInv, Fire
  PROVE  IInv'
<1> USE DEF IInv
<1>1. PICK e : e = Earliest
  OBVIOUS
<1>2. /\ e \in Due
      /\ \A j \in Due : timers[e].due < timers[j].due \/ (timers[e].due = timers[j].due /\ e <= j)
  BY <1>1, EarliestIs DEF Fire
<1>3. /\ e \in DOMAIN timers /\ timers[e].state = "pending" /\ timers[e].due <= now
      /\ timers' = [timers EXCEPT ![e].state = "fired"] /\ UNCHANGED <<mode, at, seen, verdict, now>>
  BY <1>1, <1>2 DEF Fire, Due
<1>4. StateSet(e, "fired")
  BY <1>3, StateStep
<1>5. /\ timers' \in Seq(Timer) /\ DOMAIN timers' = DOMAIN timers
      /\ \A j \in DOMAIN timers : j # e => timers'[j] = timers[j]
      /\ \A j \in DOMAIN timers : timers'[j].due = timers[j].due
      /\ timers'[e].state = "fired"
  BY <1>4 DEF StateSet
<1>6. \A j \in DOMAIN timers : timers[j].due \in Nat
  <2>1. \A j \in DOMAIN timers : timers[j] \in Timer
    BY DEF PollType
  <2> QED BY <2>1 DEF Timer
<1>7. PollType'
  BY <1>3, <1>5 DEF PollType
<1>8. FireInv'
  <2>1. \A i \in DOMAIN timers : Spent(i)' => i = e \/ Spent(i)
    BY <1>5 DEF Spent
  <2>2. \A j \in DOMAIN timers : timers'[j].state = "pending" => j # e /\ timers[j].state = "pending"
    BY <1>5
  <2>3. ASSUME NEW j \in DOMAIN timers, timers[j].state = "pending"
        PROVE  timers[e].due < timers[j].due \/ (timers[e].due = timers[j].due /\ e <= j)
    <3>1. CASE timers[j].due <= now
      <4>1. j \in Due
        BY <2>3, <3>1 DEF Due
      <4> QED BY <1>2, <4>1
    <3>2. CASE ~(timers[j].due <= now)
      <4>1. now \in Nat
        BY DEF PollType
      <4> QED BY <1>3, <1>6, <3>2, <4>1
    <3> QED BY <3>1, <3>2
  <2> QED BY <1>3, <1>5, <2>1, <2>2, <2>3 DEF FireInv
<1>9. \A p, kind : TimersOf(p, kind)' = TimersOf(p, kind)
  BY <1>4, SameSets
<1>10. \A j \in DOMAIN timers :
         /\ timers'[j].state = "received" <=> timers[j].state = "received"
         /\ timers'[j].state = "stopped" <=> timers[j].state = "stopped"
         /\ timers'[j].state = "pending" => timers[j].state = "pending"
  BY <1>3, <1>5
<1>11. ASSUME NEW p \in Polls PROVE DeadlineOK(p)' /\ NextOK(p)' /\ SeenOK(p)'
  <2>1. DeadlineOK(p) /\ NextOK(p) /\ SeenOK(p)
    BY DEF TimersInv, SeenInv
  <2>2. DeadlineOK(p)'
    <3>1. CASE ~Running(p)
      BY <1>3, <1>9, <2>1, <3>1 DEF DeadlineOK, Running
    <3>2. CASE Running(p)
      <4>1. PICK d \in DOMAIN timers :
               /\ TimersOf(p, "deadline") = {d} /\ \A i \in TimersOf(p, "next") : d < i
               /\ timers[d].state = "received" => at[p] \in {"ending", "released", "stopping", "done"}
               /\ timers[d].state = "stopped" => at[p] = "done"
               /\ at[p] = "done" => timers[d].state # "pending"
               /\ verdict[p] \in {"timeout", "held"} => timers[d].due <= now
        BY <2>1, <3>2 DEF DeadlineOK
      <4> QED BY <1>3, <1>5, <1>9, <1>10, <2>1, <3>2, <4>1 DEF DeadlineOK, Running
    <3> QED BY <3>1, <3>2
  <2>3. NextOK(p)'
    <3>1. \A kind : \A i \in TimersOf(p, kind) : i \in DOMAIN timers
      BY DEF TimersOf
    <3>2. \A kind : \A i \in TimersOf(p, kind) :
             /\ timers'[i].due = timers[i].due
             /\ timers[i].state = "received" => timers'[i].state = "received"
             /\ timers'[i].state = "pending" => timers[i].state = "pending"
      BY <1>5, <1>10, <3>1
    <3> QED BY <1>3, <1>9, <2>1, <3>2 DEF NextOK
  <2>4. SeenOK(p)'
    BY <1>3, <2>1 DEF SeenOK, Unsettling
  <2> QED BY <2>2, <2>3, <2>4
<1> QED BY <1>7, <1>8, <1>11 DEF TimersInv, SeenInv

\* Time passes, a context is cancelled, an Advance ends.
LEMMA ClockInv ==
  ASSUME IInv, UNCHANGED <<mode, at, seen, verdict, timers>>, now' \in Nat, now <= now'
  PROVE  IInv'
<1> USE DEF IInv
<1>1. PollType'
  BY DEF PollType
<1>2. FireInv'
  <2>1. \A i \in DOMAIN timers : Spent(i) => timers[i].due <= now'
    <3> SUFFICES ASSUME NEW i \in DOMAIN timers, Spent(i) PROVE timers[i].due <= now'
      OBVIOUS
    <3>1. timers[i] \in Timer
      BY DEF PollType
    <3>2. timers[i].due \in Nat /\ now \in Nat /\ timers[i].due <= now
      BY <3>1 DEF Timer, PollType, FireInv
    <3> QED BY <3>2
  <2> QED BY <2>1 DEF FireInv, Spent
<1>3. ASSUME NEW p \in Polls PROVE DeadlineOK(p)' /\ NextOK(p)' /\ SeenOK(p)'
  <2>1. DeadlineOK(p) /\ NextOK(p) /\ SeenOK(p)
    BY DEF TimersInv, SeenInv
  <2>2. Same(p) /\ SameTimers(p)
    BY DEF Same, SameTimers, TimersOf
  <2> QED BY <2>1, <2>2, Unaffected, UnaffectedSeen
<1> QED BY <1>1, <1>2, <1>3 DEF TimersInv, SeenInv

LEMMA NextInv == IInv /\ [Next]_vars => IInv'
<1> SUFFICES ASSUME IInv, [Next]_vars PROVE IInv'
  OBVIOUS
<1>0. now \in Nat
  BY DEF IInv, PollType
<1>1. ASSUME NEW p \in Polls, Step(p) PROVE IInv'
  BY <1>1, StartInv, ArmInv, SeeDeadlineInv, SeeNextInv, StopNextInv, StopDeadlineInv, CalmInv
     DEF Step, CalmSteps
<1>2. ASSUME NEW p \in Polls, Invalid(p) PROVE IInv'
  BY <1>2, InvalidInv
<1>3. CASE Clock
  <2>1. now <= now
    BY <1>0
  <2> QED BY <1>0, <1>3, <2>1, FireStepInv, ClockInv DEF Clock, AdvanceReturns
<1>4. CASE Cancel \/ UNCHANGED vars
  <2>1. now <= now
    BY <1>0
  <2> QED BY <1>0, <1>4, <2>1, ClockInv DEF Cancel, vars
<1>5. ASSUME NEW who \in Polls \cup {Test}, Advance(who) PROVE IInv'
  <2>1. PICK d \in 1..MaxStep : now' = now + d
    BY <1>5 DEF Advance
  <2>2. now' \in Nat /\ now <= now'
    BY <1>0, <2>1, PollAssumption
  <2> QED BY <1>5, <2>2, ClockInv DEF Advance
<1> QED BY <1>1, <1>2, <1>3, <1>4, <1>5 DEF Next

LEMMA InitInv == Init => IInv
<1> SUFFICES ASSUME Init PROVE IInv
  OBVIOUS
<1>1. PollType
  BY PollAssumption DEF Init, PollType, Places, Verdicts
<1>2. DOMAIN timers = {}
  BY DEF Init
<1>3. \A p, kind : TimersOf(p, kind) = {}
  BY <1>2 DEF TimersOf
<1>4. FireInv
  BY <1>2 DEF FireInv
<1>5. ASSUME NEW p \in Polls PROVE DeadlineOK(p) /\ NextOK(p) /\ SeenOK(p)
  BY <1>3 DEF Init, DeadlineOK, NextOK, SeenOK, Running
<1> QED BY <1>1, <1>4, <1>5 DEF IInv, TimersInv, SeenInv

-----------------------------------------------------------------------------
\* An attempt before the latest had its interval end before the timeout did.
LEMMA TimeoutIsFirst ==
  ASSUME IInv, NEW p \in Polls, NEW i \in TimersOf(p, "next"), i # Attempt(p)
  PROVE  timers[i].state = "received" /\ timers[i].due < timers[Deadline(p)].due
<1> USE DEF IInv
<1>1. PollType /\ DeadlineOK(p) /\ NextOK(p) /\ Running(p)
  BY DEF TimersInv, DeadlineOK
<1>2. PICK d \in DOMAIN timers : d = Deadline(p) /\ TimersOf(p, "deadline") = {d}
  BY <1>1, TheDeadline
<1>3. PICK k : k = Attempt(p)
  OBVIOUS
<1>4. k \in TimersOf(p, "next") /\ i <= k /\ i # k
  BY <1>1, <1>3, LatestOf DEF Attempt
<1>5. i \in Nat /\ k \in Nat
  BY <1>1, <1>4 DEF TimersOf, PollType
<1>6. i < k
  BY <1>4, <1>5
<1> QED BY <1>1, <1>2, <1>4, <1>6 DEF NextOK

\* However a poll ends it leaves no timer in the clock, and while it runs at most the timer of its latest
\* attempt is pending.
THEOREM TimersAreReleased == Spec => []TimersReleased
<1>1. IInv => TimersReleased
  <2> SUFFICES ASSUME IInv, NEW p \in Polls
               PROVE  /\ \A i \in TimersOf(p, "next") : timers[i].state = "pending" => i = Attempt(p)
                      /\ at[p] = "done" => \A i \in DOMAIN timers : timers[i].of = p => timers[i].state # "pending"
    BY DEF TimersReleased
  <2>1. \A i \in TimersOf(p, "next") : timers[i].state = "pending" => i = Attempt(p)
    BY TimeoutIsFirst
  <2>2. ASSUME at[p] = "done", NEW i \in DOMAIN timers, timers[i].of = p PROVE timers[i].state # "pending"
    <3>1. timers[i] \in Timer /\ DeadlineOK(p) /\ NextOK(p)
      BY DEF IInv, PollType, TimersInv
    <3>2. CASE timers[i].kind = "next"
      <4>1. i \in TimersOf(p, "next")
        BY <2>2, <3>2 DEF TimersOf
      <4> QED BY <2>2, <3>1, <4>1 DEF NextOK
    <3>3. CASE timers[i].kind = "deadline"
      <4>1. i \in TimersOf(p, "deadline")
        BY <2>2, <3>3 DEF TimersOf
      <4>2. Running(p)
        BY <3>1, <4>1 DEF DeadlineOK
      <4>3. PICK d \in DOMAIN timers :
               TimersOf(p, "deadline") = {d} /\ (at[p] = "done" => timers[d].state # "pending")
        BY <3>1, <4>2 DEF DeadlineOK
      <4> QED BY <2>2, <4>1, <4>3
    <3> QED BY <3>1, <3>2, <3>3 DEF Timer
  <2> QED BY <2>1, <2>2
<1> QED BY <1>1, InitInv, NextInv, PTL DEF Spec

\* A verdict is about attempts made in time: of an interval and a timeout due together the timeout wins, an
\* Eventually times out only after failures, a Consistently holds only after matches, neither early,
\* and the attempt that settles a poll is its last.
THEOREM VerdictsAreObserved == Spec => []VerdictIsObserved
<1>1. IInv => VerdictIsObserved
  <2> SUFFICES ASSUME IInv PROVE VerdictIsObserved
    OBVIOUS
  <2>1. \A p \in Polls : TimeoutWins(p)
    BY TimeoutIsFirst DEF TimeoutWins
  <2>2. \A p \in Polls : SeenOK(p) /\ Len(seen[p]) \in Nat
    BY DEF IInv, SeenInv, PollType
  <2>3. ASSUME NEW p \in Polls, verdict[p] \in {"timeout", "held"}
        PROVE  /\ seen[p][Len(seen[p])] = Unsettling(p)
               /\ now >= timers[Deadline(p)].due
    <3>1. seen[p][Len(seen[p])] = Unsettling(p)
      <4>1. Len(seen[p]) > 0 /\ Len(seen[p]) \in Nat /\ \A i \in 1..Len(seen[p]) : seen[p][i] = Unsettling(p)
        BY <2>2, <2>3 DEF SeenOK
      <4>2. Len(seen[p]) \in 1..Len(seen[p])
        BY <4>1
      <4> QED BY <4>1, <4>2
    <3>2. PollType /\ DeadlineOK(p) /\ Running(p)
      BY <2>3 DEF IInv, TimersInv, DeadlineOK, Running
    <3>3. PICK d \in DOMAIN timers : d = Deadline(p) /\ timers[d] \in Timer /\ timers[d].due <= now
      BY <2>3, <3>2, TheDeadline
    <3>4. timers[d].due \in Nat /\ now \in Nat
      BY <3>2, <3>3 DEF Timer, PollType
    <3> QED BY <3>1, <3>3, <3>4
  <2>4. ASSUME NEW p \in Polls
        PROVE  LET n == Len(seen[p])
                   last == seen[p][n]
               IN  /\ \A i \in 1..n : i < n => seen[p][i] = Unsettling(p)
                   /\ verdict[p] \in {"timeout", "held"} =>
                        n > 0 /\ verdict[p] = (IF mode[p] = "Eventually" THEN "timeout" ELSE "held")
                   /\ verdict[p] \in {"matched", "mismatch"} =>
                        /\ n > 0 /\ last # Unsettling(p)
                        /\ last = (IF verdict[p] = "matched" THEN "match" ELSE "mismatch")
                   /\ verdict[p] \in {"panic", "exited"} =>
                        n > 0 /\ last = (IF verdict[p] = "panic" THEN "panic" ELSE "exit")
    BY <2>2 DEF SeenOK
  <2> QED BY <2>1, <2>3, <2>4 DEF VerdictIsObserved
<1> QED BY <1>1, InitInv, NextInv, PTL DEF Spec
=============================================================================

------------------------------ MODULE MockProofs ------------------------------
(***************************************************************************)
(* Proofs about MockController, for any goroutines, methods, arguments and *)
(* bounds on what a test does.                                             *)
(***************************************************************************)
EXTENDS MockController, SequenceTheorems, FiniteSetTheorems, WellFoundedInduction, TLAPS

Expectation ==
  [m : Methods, accepts : SUBSET Arguments, age : Nat, kind : {"default", "exact", "range"},
   min : Nat, max : Nat, responses : Nat, do : BOOLEAN, got : Nat, firstSeq : Nat, captured : Seq(Nat)]
Progress == {"begun", "recorded", "matched", "rejected", "claimed", "noted", "doing", "done"}
CallRecord ==
  [name : Methods \cup Spies, arg : Arguments, seq : Nat, at : Progress, age : Nat,
   seen : SUBSET Nat, exp : Nat, n : Nat, reply : Nat]

MockType ==
  /\ exps \in Seq(Expectation) /\ calls \in Seq(CallRecord)
  /\ seq \in Nat /\ log \in Seq(Nat)
  /\ stack \in [Threads -> Seq(Nat)]
  /\ resets \in Nat

\* A call under way is on the stack of its goroutine.
StackInv ==
  /\ \A t \in Threads : \A i \in 1..Len(stack[t]) : stack[t][i] \in DOMAIN calls
  /\ \A c \in DOMAIN calls : calls[c].at # "done" =>
       \E t \in Threads : \E i \in 1..Len(stack[t]) : stack[t][i] = c

\* The log is numbered, and what is in it has begun.
LogInv ==
  /\ seq = Len(log)
  /\ \A i \in 1..Len(log) : log[i] \in DOMAIN calls /\ calls[log[i]].seq = i /\ calls[log[i]].at # "begun"

\* What a call has matched is of the age of its look at the expectations, and what it claims is of them.
Early     == {"begun", "recorded"}
Unclaimed == Early \cup {"matched", "rejected"}
CallOK(c) ==
  /\ calls[c].age <= resets
  /\ calls[c].at \in Early => calls[c].seen = {}
  /\ calls[c].at \in Unclaimed => calls[c].exp = 0
  /\ calls[c].at \in {"claimed", "noted", "doing"} => calls[c].exp # 0
  /\ \A e \in calls[c].seen : e \in DOMAIN exps /\ exps[e].age = calls[c].age
  /\ calls[c].exp # 0 => calls[c].exp \in calls[c].seen
CallInv ==
  /\ \A e \in DOMAIN exps : exps[e].age <= resets
  /\ \A c \in DOMAIN calls : CallOK(c)

\* Before the first call of an age is logged its expectations are untouched: those of them that exist
\* meet no call under way, and what has looked for expectations found none to claim.
FreshInv ==
  log = <<>> =>
    /\ \A e \in DOMAIN exps : exps[e].age = resets =>
         exps[e].got = 0 /\ \A c \in DOMAIN calls : calls[c].at \in {"begun", "done"}
    /\ \A c \in DOMAIN calls : calls[c].age = resets /\ calls[c].at \notin Early => calls[c].exp = 0

\* Claims are numbered, and stay within the maximum.
ClaimOK(e) ==
  /\ IsFiniteSet(Claims(e)) /\ Cardinality(Claims(e)) = exps[e].got
  /\ \A c \in Claims(e) : calls[c].n \in 1..exps[e].got
  /\ \A n \in 1..exps[e].got : \E c \in Claims(e) : calls[c].n = n
  /\ \A c, d \in Claims(e) : c # d => calls[c].n # calls[d].n
  /\ Upper(e) = Unbounded \/ exps[e].got <= Upper(e)
ClaimInv == \A e \in DOMAIN exps : ClaimOK(e)

\* A prohibition that a call has looked at is one it has seen; a call that has seen one claims nothing.
ProhibitInv ==
  \A e \in DOMAIN exps, c \in DOMAIN calls :
    /\ (/\ calls[c].age = exps[e].age /\ calls[c].at \notin Early
        /\ calls[c].name = exps[e].m /\ calls[c].arg \in exps[e].accepts)
       => e \in calls[c].seen \/ (calls[c].at = "done" /\ calls[c].exp = 0)
    /\ Prohibits(e) /\ e \in calls[c].seen => calls[c].exp = 0

\* A finished call of an expectation has had the response of its turn.
ReplyInv ==
  \A c \in DOMAIN calls :
    /\ calls[c].at # "done" => calls[c].reply = 0
    /\ calls[c].at = "doing" => exps[calls[c].exp].do
    /\ (calls[c].exp # 0 /\ calls[c].at = "done" /\ ~exps[calls[c].exp].do) => calls[c].reply = Response(c)

IInv == MockType /\ StackInv /\ LogInv /\ CallInv /\ FreshInv /\ ClaimInv /\ ProhibitInv /\ ReplyInv

-----------------------------------------------------------------------------
(* How a step changes one call or one expectation.                         *)

LEMMA TopIsCall ==
  ASSUME MockType, StackInv, NEW t \in Threads, NEW a, In(t, a)
  PROVE  /\ Top(t) \in DOMAIN calls /\ Top(t) \in Nat /\ calls[Top(t)].at = a
         /\ calls[Top(t)] \in CallRecord
         /\ Len(stack[t]) \in Nat /\ Len(stack[t]) # 0
<1>1. Len(stack[t]) \in Nat /\ Len(stack[t]) # 0
  BY DEF MockType, In
<1>2. Top(t) \in DOMAIN calls
  BY <1>1 DEF StackInv, Top
<1> QED BY <1>1, <1>2 DEF In, MockType

\* Nothing but c changes, and of c its place in the code and what it has found.
Kept(c) ==
  /\ DOMAIN calls' = DOMAIN calls /\ calls' \in Seq(CallRecord)
  /\ \A d \in DOMAIN calls : d # c => calls'[d] = calls[d]
  /\ calls'[c].name = calls[c].name /\ calls'[c].arg = calls[c].arg
KeptSeen(c)  == calls'[c].age = calls[c].age /\ calls'[c].seen = calls[c].seen
KeptClaim(c) == calls'[c].exp = calls[c].exp /\ calls'[c].n = calls[c].n
KeptRest(c)  == calls'[c].seq = calls[c].seq /\ calls'[c].reply = calls[c].reply

LEMMA OneCall ==
  ASSUME MockType, NEW c \in DOMAIN calls, NEW r \in CallRecord, calls' = [calls EXCEPT ![c] = r]
  PROVE  /\ calls' \in Seq(CallRecord) /\ DOMAIN calls' = DOMAIN calls
         /\ calls'[c] = r /\ \A d \in DOMAIN calls : d # c => calls'[d] = calls[d]
<1>1. calls \in Seq(CallRecord) /\ c \in 1..Len(calls)
  BY DEF MockType
<1> QED BY <1>1, ExceptSeq, Zenon

LEMMA AtStep ==
  ASSUME MockType, NEW c \in DOMAIN calls, NEW a \in Progress, calls' = [calls EXCEPT ![c].at = a]
  PROVE  Kept(c) /\ KeptSeen(c) /\ KeptClaim(c) /\ KeptRest(c) /\ calls'[c].at = a
<1> DEFINE r == [calls[c] EXCEPT !.at = a]
<1>1. calls[c] \in CallRecord
  BY DEF MockType
<1>2. /\ r \in CallRecord /\ r.at = a
      /\ r.name = calls[c].name /\ r.arg = calls[c].arg /\ r.age = calls[c].age
      /\ r.seen = calls[c].seen /\ r.exp = calls[c].exp /\ r.n = calls[c].n
      /\ r.seq = calls[c].seq /\ r.reply = calls[c].reply
  BY <1>1 DEF CallRecord
<1>3. calls' = [calls EXCEPT ![c] = r]
  OBVIOUS
<1> HIDE DEF r
<1> QED BY <1>2, <1>3, OneCall DEF Kept, KeptSeen, KeptClaim, KeptRest

LEMMA RecordStep ==
  ASSUME MockType, NEW c \in DOMAIN calls, NEW a \in Progress, NEW q \in Nat,
         calls' = [calls EXCEPT ![c].seq = q, ![c].at = a]
  PROVE  /\ Kept(c) /\ KeptSeen(c) /\ KeptClaim(c)
         /\ calls'[c].at = a /\ calls'[c].seq = q /\ calls'[c].reply = calls[c].reply
<1> DEFINE r == [calls[c] EXCEPT !.seq = q, !.at = a]
<1>1. calls[c] \in CallRecord
  BY DEF MockType
<1>2. /\ r \in CallRecord /\ r.at = a
      /\ r.name = calls[c].name /\ r.arg = calls[c].arg /\ r.age = calls[c].age
      /\ r.seen = calls[c].seen /\ r.exp = calls[c].exp /\ r.n = calls[c].n
      /\ r.seq = q /\ r.reply = calls[c].reply
  BY <1>1 DEF CallRecord
<1>3. calls' = [calls EXCEPT ![c] = r]
  OBVIOUS
<1> HIDE DEF r
<1> QED BY <1>2, <1>3, OneCall DEF Kept, KeptSeen, KeptClaim

LEMMA RespondStep ==
  ASSUME MockType, NEW c \in DOMAIN calls, NEW a \in Progress, NEW q \in Nat,
         calls' = [calls EXCEPT ![c].at = a, ![c].reply = q]
  PROVE  /\ Kept(c) /\ KeptSeen(c) /\ KeptClaim(c)
         /\ calls'[c].at = a /\ calls'[c].seq = calls[c].seq /\ calls'[c].reply = q
<1> DEFINE r == [calls[c] EXCEPT !.at = a, !.reply = q]
<1>1. calls[c] \in CallRecord
  BY DEF MockType
<1>2. /\ r \in CallRecord /\ r.at = a
      /\ r.name = calls[c].name /\ r.arg = calls[c].arg /\ r.age = calls[c].age
      /\ r.seen = calls[c].seen /\ r.exp = calls[c].exp /\ r.n = calls[c].n
      /\ r.seq = calls[c].seq /\ r.reply = q
  BY <1>1 DEF CallRecord
<1>3. calls' = [calls EXCEPT ![c] = r]
  OBVIOUS
<1> HIDE DEF r
<1> QED BY <1>2, <1>3, OneCall DEF Kept, KeptSeen, KeptClaim

LEMMA MatchStep ==
  ASSUME MockType, NEW c \in DOMAIN calls, NEW q \in Nat, NEW S \in SUBSET Nat,
         calls' = [calls EXCEPT ![c].at = "matched", ![c].age = q, ![c].seen = S]
  PROVE  /\ Kept(c) /\ KeptClaim(c) /\ KeptRest(c)
         /\ calls'[c].at = "matched" /\ calls'[c].age = q /\ calls'[c].seen = S
<1> DEFINE r == [calls[c] EXCEPT !.at = "matched", !.age = q, !.seen = S]
<1>1. calls[c] \in CallRecord
  BY DEF MockType
<1>2. /\ r \in CallRecord /\ r.at = "matched"
      /\ r.name = calls[c].name /\ r.arg = calls[c].arg /\ r.age = q
      /\ r.seen = S /\ r.exp = calls[c].exp /\ r.n = calls[c].n
      /\ r.seq = calls[c].seq /\ r.reply = calls[c].reply
  BY <1>1 DEF CallRecord, Progress
<1>3. calls' = [calls EXCEPT ![c] = r]
  OBVIOUS
<1> HIDE DEF r
<1> QED BY <1>2, <1>3, OneCall DEF Kept, KeptClaim, KeptRest

LEMMA ClaimStep ==
  ASSUME MockType, NEW c \in DOMAIN calls, NEW e \in Nat, NEW n \in Nat,
         calls' = [calls EXCEPT ![c].at = "claimed", ![c].exp = e, ![c].n = n]
  PROVE  /\ Kept(c) /\ KeptSeen(c) /\ KeptRest(c)
         /\ calls'[c].at = "claimed" /\ calls'[c].exp = e /\ calls'[c].n = n
<1> DEFINE r == [calls[c] EXCEPT !.at = "claimed", !.exp = e, !.n = n]
<1>1. calls[c] \in CallRecord
  BY DEF MockType
<1>2. /\ r \in CallRecord /\ r.at = "claimed"
      /\ r.name = calls[c].name /\ r.arg = calls[c].arg /\ r.age = calls[c].age
      /\ r.seen = calls[c].seen /\ r.exp = e /\ r.n = n
      /\ r.seq = calls[c].seq /\ r.reply = calls[c].reply
  BY <1>1 DEF CallRecord, Progress
<1>3. calls' = [calls EXCEPT ![c] = r]
  OBVIOUS
<1> HIDE DEF r
<1> QED BY <1>2, <1>3, OneCall DEF Kept, KeptSeen, KeptRest

\* A step of a goroutine through a call that leaves alone what the call has seen and claimed.
Forward(a, b) == /\ a # "done"
                 /\ b \in Early => a \in Early
                 /\ b \in Unclaimed => a \in Unclaimed
SameExps ==
  /\ exps' \in Seq(Expectation) /\ DOMAIN exps' = DOMAIN exps
  /\ \A e \in DOMAIN exps :
       /\ exps'[e].m = exps[e].m /\ exps'[e].accepts = exps[e].accepts /\ exps'[e].age = exps[e].age
       /\ exps'[e].kind = exps[e].kind /\ exps'[e].min = exps[e].min /\ exps'[e].max = exps[e].max
       /\ exps'[e].responses = exps[e].responses /\ exps'[e].do = exps[e].do
       /\ exps'[e].got = exps[e].got

LEMMA OneExp ==
  ASSUME MockType, NEW e \in DOMAIN exps, NEW r \in Expectation, exps' = [exps EXCEPT ![e] = r]
  PROVE  /\ exps' \in Seq(Expectation) /\ DOMAIN exps' = DOMAIN exps
         /\ exps'[e] = r /\ \A f \in DOMAIN exps : f # e => exps'[f] = exps[f]
<1>1. exps \in Seq(Expectation) /\ e \in 1..Len(exps)
  BY DEF MockType
<1> QED BY <1>1, ExceptSeq, Zenon

LEMMA CaptureStep ==
  ASSUME MockType, NEW e \in DOMAIN exps, NEW c \in Nat,
         exps' = [exps EXCEPT ![e].captured = Append(@, c)]
  PROVE  /\ SameExps /\ exps'[e].captured = Append(exps[e].captured, c)
         /\ \A f \in DOMAIN exps : f # e => exps'[f] = exps[f]
<1> DEFINE q == Append(exps[e].captured, c)
           r == [exps[e] EXCEPT !.captured = q]
<1>1. exps[e] \in Expectation /\ q \in Seq(Nat)
  <2>1. exps[e] \in Expectation
    BY DEF MockType
  <2>2. exps[e].captured \in Seq(Nat)
    BY <2>1 DEF Expectation
  <2> QED BY <2>1, <2>2
<1>2. exps' = [exps EXCEPT ![e] = r]
  OBVIOUS
<1> HIDE DEF q
<1>3. /\ r \in Expectation
      /\ r.m = exps[e].m /\ r.accepts = exps[e].accepts /\ r.age = exps[e].age
      /\ r.kind = exps[e].kind /\ r.min = exps[e].min /\ r.max = exps[e].max
      /\ r.responses = exps[e].responses /\ r.do = exps[e].do /\ r.got = exps[e].got
      /\ r.captured = q
  BY <1>1 DEF Expectation
<1> HIDE DEF r
<1> QED BY <1>2, <1>3, OneExp DEF SameExps, q

LEMMA GotStep ==
  ASSUME MockType, NEW e \in DOMAIN exps, NEW n \in Nat, NEW q \in Nat,
         exps' = [exps EXCEPT ![e].got = n, ![e].firstSeq = IF @ = 0 THEN q ELSE @]
  PROVE  /\ exps' \in Seq(Expectation) /\ DOMAIN exps' = DOMAIN exps
         /\ \A f \in DOMAIN exps : f # e => exps'[f] = exps[f]
         /\ exps'[e].m = exps[e].m /\ exps'[e].accepts = exps[e].accepts /\ exps'[e].age = exps[e].age
         /\ exps'[e].kind = exps[e].kind /\ exps'[e].min = exps[e].min /\ exps'[e].max = exps[e].max
         /\ exps'[e].responses = exps[e].responses /\ exps'[e].do = exps[e].do
         /\ exps'[e].got = n /\ exps'[e].captured = exps[e].captured
<1> DEFINE r == [exps[e] EXCEPT !.got = n, !.firstSeq = IF @ = 0 THEN q ELSE @]
<1>1. exps[e] \in Expectation
  BY DEF MockType
<1>2. /\ r \in Expectation
      /\ r.m = exps[e].m /\ r.accepts = exps[e].accepts /\ r.age = exps[e].age
      /\ r.kind = exps[e].kind /\ r.min = exps[e].min /\ r.max = exps[e].max
      /\ r.responses = exps[e].responses /\ r.do = exps[e].do /\ r.got = n
      /\ r.captured = exps[e].captured
  BY <1>1 DEF Expectation
<1>3. exps' = [exps EXCEPT ![e] = r]
  OBVIOUS
<1> HIDE DEF r
<1> QED BY <1>2, <1>3, OneExp

\* What a configuration changes: neither which calls an expectation meets nor how often it was claimed.
Configured(e) ==
  /\ exps' \in Seq(Expectation) /\ DOMAIN exps' = DOMAIN exps
  /\ \A f \in DOMAIN exps : f # e => exps'[f] = exps[f]
  /\ exps'[e].m = exps[e].m /\ exps'[e].accepts = exps[e].accepts /\ exps'[e].age = exps[e].age
  /\ exps'[e].got = exps[e].got /\ exps'[e].captured = exps[e].captured

LEMMA BoundStep ==
  ASSUME MockType, NEW e \in DOMAIN exps, NEW k \in {"exact", "range"}, NEW min \in Nat, NEW max \in Nat,
         exps' = [exps EXCEPT ![e] = [exps[e] EXCEPT !.kind = k, !.min = min, !.max = max]]
  PROVE  Configured(e)
<1> DEFINE r == [exps[e] EXCEPT !.kind = k, !.min = min, !.max = max]
<1>1. exps[e] \in Expectation
  BY DEF MockType
<1>2. /\ r \in Expectation
      /\ r.m = exps[e].m /\ r.accepts = exps[e].accepts /\ r.age = exps[e].age /\ r.got = exps[e].got
      /\ r.captured = exps[e].captured
  BY <1>1 DEF Expectation
<1>3. exps' = [exps EXCEPT ![e] = r]
  OBVIOUS
<1> HIDE DEF r
<1> QED BY <1>2, <1>3, OneExp DEF Configured

LEMMA ReturnStep ==
  ASSUME MockType, NEW e \in DOMAIN exps,
         exps' = [exps EXCEPT ![e] = [exps[e] EXCEPT !.responses = @ + 1]]
  PROVE  Configured(e)
<1> DEFINE q == exps[e].responses + 1
           r == [exps[e] EXCEPT !.responses = q]
<1>1. exps[e] \in Expectation /\ q \in Nat
  <2>1. exps[e] \in Expectation
    BY DEF MockType
  <2>2. exps[e].responses \in Nat
    BY <2>1 DEF Expectation
  <2> QED BY <2>1, <2>2
<1>2. exps' = [exps EXCEPT ![e] = r]
  OBVIOUS
<1> HIDE DEF q
<1>3. /\ r \in Expectation
      /\ r.m = exps[e].m /\ r.accepts = exps[e].accepts /\ r.age = exps[e].age /\ r.got = exps[e].got
      /\ r.captured = exps[e].captured
  BY <1>1 DEF Expectation
<1> HIDE DEF r
<1> QED BY <1>2, <1>3, OneExp DEF Configured

LEMMA DoStep ==
  ASSUME MockType, NEW e \in DOMAIN exps, exps' = [exps EXCEPT ![e] = [exps[e] EXCEPT !.do = TRUE]]
  PROVE  Configured(e)
<1> DEFINE r == [exps[e] EXCEPT !.do = TRUE]
<1>1. exps[e] \in Expectation
  BY DEF MockType
<1>2. /\ r \in Expectation
      /\ r.m = exps[e].m /\ r.accepts = exps[e].accepts /\ r.age = exps[e].age /\ r.got = exps[e].got
      /\ r.captured = exps[e].captured
  BY <1>1 DEF Expectation
<1>3. exps' = [exps EXCEPT ![e] = r]
  OBVIOUS
<1> HIDE DEF r
<1> QED BY <1>2, <1>3, OneExp DEF Configured

\* Every configuration is one of these.
LEMMA ConfigureStep ==
  ASSUME MockType, NEW e \in DOMAIN exps,
         SetCount(e) \/ AnyTimes(e) \/ AtLeast(e) \/ AtMost(e) \/ Return(e) \/ Do(e)
  PROVE  Configured(e) /\ UNCHANGED <<calls, seq, log, stack, resets>>
<1>1. Unbounded \in Nat
  BY MockAssumption DEF Unbounded
<1>2. exps[e].min \in Nat /\ exps[e].max \in Nat
  <2>1. exps[e] \in Expectation
    BY DEF MockType
  <2> QED BY <2>1 DEF Expectation
<1>3. ASSUME NEW k \in {"exact", "range"}, NEW min \in Nat, NEW max \in Nat, Bound(e, k, min, max)
      PROVE  Configured(e)
  BY <1>3, BoundStep DEF Bound, Configure
<1>4. CASE SetCount(e)
  BY <1>3, <1>4, MockAssumption DEF SetCount, Bound, Configure
<1>5. CASE AnyTimes(e)
  BY <1>1, <1>3, <1>5 DEF AnyTimes, Bound, Configure
<1>6. CASE AtLeast(e)
  BY <1>1, <1>2, <1>3, <1>6, MockAssumption DEF AtLeast, Bound, Configure
<1>7. CASE AtMost(e)
  BY <1>1, <1>2, <1>3, <1>7, MockAssumption DEF AtMost, Bound, Configure
<1>8. CASE Return(e)
  BY <1>8, ReturnStep DEF Return, Configure
<1>9. CASE Do(e)
  BY <1>9, DoStep DEF Do, Configure
<1> QED BY <1>4, <1>5, <1>6, <1>7, <1>8, <1>9

-----------------------------------------------------------------------------
(* The steps of a call that neither look for expectations nor claim one.   *)

Quiet(t) ==
  \/ Record(t) \/ Forbid(t) \/ Reject(t) \/ ReportRejected(t)
  \/ NotifyClaim(t) \/ Respond(t) \/ EnterDo(t) \/ LeaveDo(t)

\* Such a step moves the innermost call of t ahead, and takes it off the stack when it is done.
Moved(t) ==
  LET c == Top(t) IN
  /\ c \in DOMAIN calls /\ Kept(c) /\ KeptSeen(c) /\ KeptClaim(c) /\ SameExps
  /\ Forward(calls[c].at, calls'[c].at) /\ calls'[c].at # "begun"
  /\ calls[c].at \in Early => /\ calls[c].at = "begun" /\ log' # <<>>
                              /\ calls'[c].at \notin Early => calls[c].name \in Spies
  /\ calls[c].at \in {"claimed", "noted", "doing"} \/ calls'[c].at \notin {"claimed", "noted", "doing"}
  /\ resets' = resets /\ (log = <<>> \/ log' # <<>>)
Lifted(t) ==
  LET c == Top(t) IN
  \/ stack' = stack /\ calls'[c].at # "done"
  \/ stack' = Pop(t) /\ calls'[c].at = "done"

LEMMA ResponseIsNumber ==
  ASSUME MockType, CallInv, NEW c \in DOMAIN calls, calls[c].at = "noted"
  PROVE  Response(c) \in Nat
<1>1. calls[c] \in CallRecord
  BY DEF MockType
<1>2. calls[c].exp \in DOMAIN exps
  <2>1. CallOK(c)
    BY DEF CallInv
  <2> QED BY <2>1 DEF CallOK
<1>3. exps[calls[c].exp] \in Expectation
  BY <1>2 DEF MockType
<1> QED BY <1>1, <1>2, <1>3 DEF Response, Expectation, CallRecord

LEMMA QuietMoves ==
  ASSUME MockType, StackInv, CallInv, NEW t \in Threads, Quiet(t)
  PROVE  Moved(t) /\ Lifted(t) /\ calls[Top(t)].at # "done"
<1> DEFINE c == Top(t)
<1>0. PICK a : In(t, a)
  BY DEF Quiet, Record, Forbid, Reject, ReportRejected, NotifyClaim, Respond, EnterDo, LeaveDo
<1>1. c \in DOMAIN calls /\ c \in Nat /\ calls[c] \in CallRecord
  BY <1>0, TopIsCall
<1>2. UNCHANGED exps => SameExps
  BY DEF SameExps, MockType
<1> HIDE DEF c
<1> USE DEF In, Moved, Lifted, Forward, Early, Unclaimed, Progress
<1>3. CASE Record(t)
  <2>1. seq' \in Nat /\ log' # <<>>
    <3>1. log \in Seq(Nat) /\ seq \in Nat /\ log' = Append(log, c) /\ seq' = seq + 1
      BY <1>3 DEF Record, MockType, c
    <3> QED BY <1>1, <3>1, AppendProperties
  <2>2. PICK b \in {"recorded", "done"} :
          calls' = [calls EXCEPT ![c].seq = seq', ![c].at = b] /\ (b = "done" <=> calls[c].name \in Spies)
    BY <1>3 DEF Record, c
  <2>3. Kept(c) /\ KeptSeen(c) /\ KeptClaim(c) /\ calls'[c].at = b
    BY <1>1, <2>1, <2>2, RecordStep
  <2> QED BY <1>1, <1>2, <1>3, <2>1, <2>2, <2>3 DEF Record, c
<1>4. CASE Forbid(t) \/ Reject(t)
  <2>1. Kept(c) /\ KeptSeen(c) /\ KeptClaim(c) /\ calls'[c].at = "rejected"
    BY <1>1, <1>4, AtStep DEF Forbid, Reject, c
  <2> QED BY <1>1, <1>2, <1>4, <2>1 DEF Forbid, Reject, c
<1>5. CASE ReportRejected(t) \/ LeaveDo(t)
  <2>1. Kept(c) /\ KeptSeen(c) /\ KeptClaim(c) /\ calls'[c].at = "done"
    BY <1>1, <1>5, AtStep DEF ReportRejected, LeaveDo, c
  <2> QED BY <1>1, <1>2, <1>5, <2>1 DEF ReportRejected, LeaveDo, c
<1>6. CASE NotifyClaim(t)
  <2>1. Kept(c) /\ KeptSeen(c) /\ KeptClaim(c) /\ calls'[c].at = "noted"
    BY <1>1, <1>6, AtStep DEF NotifyClaim, c
  <2>2. calls[c].exp \in DOMAIN exps
    BY <1>1, <1>6 DEF NotifyClaim, c, CallInv, CallOK
  <2>3. SameExps
    BY <1>1, <1>6, <2>2, CaptureStep DEF NotifyClaim, c
  <2> QED BY <1>1, <1>6, <2>1, <2>3 DEF NotifyClaim, c
<1>7. CASE Respond(t)
  <2>1. Response(c) \in Nat
    BY <1>1, <1>7, ResponseIsNumber DEF Respond, c
  <2>2. Kept(c) /\ KeptSeen(c) /\ KeptClaim(c) /\ calls'[c].at = "done"
    BY <1>1, <1>7, <2>1, RespondStep DEF Respond, c
  <2> QED BY <1>1, <1>2, <1>7, <2>2 DEF Respond, c
<1>8. CASE EnterDo(t)
  <2>1. Kept(c) /\ KeptSeen(c) /\ KeptClaim(c) /\ calls'[c].at = "doing"
    BY <1>1, <1>8, AtStep DEF EnterDo, c
  <2> QED BY <1>1, <1>2, <1>8, <2>1 DEF EnterDo, c
<1> QED BY <1>3, <1>4, <1>5, <1>6, <1>7, <1>8 DEF Quiet

\* A call that leaves the stack is done; the others stay where they are.
LEMMA StackMoves ==
  ASSUME MockType, StackInv, NEW t \in Threads, stack[t] # <<>>,
         DOMAIN calls' = DOMAIN calls, \A d \in DOMAIN calls : d # Top(t) => calls'[d] = calls[d],
         calls[Top(t)].at # "done", Lifted(t)
  PROVE  stack' \in [Threads -> Seq(Nat)] /\ StackInv'
<1> DEFINE c == Top(t)
<1>1. CASE stack' = stack
  BY <1>1 DEF StackInv, MockType
<1>2. CASE stack' = Pop(t) /\ calls'[c].at = "done"
  <2>1. stack[t] \in Seq(Nat) /\ Len(stack[t]) \in Nat /\ Len(stack[t]) # 0
    BY DEF MockType
  <2> DEFINE n == Len(stack[t]) - 1
             p == SubSeq(stack[t], 1, n)
  <2>2. n \in Nat /\ \A i \in 1..n : i \in 1..Len(stack[t])
    BY <2>1
  <2>3. p \in Seq(Nat) /\ Len(p) = n /\ \A i \in 1..n : p[i] = stack[t][i]
    <3>1. \A i \in 1..n : stack[t][i] \in Nat
      BY <2>1, <2>2
    <3>2. /\ p \in Seq(Nat) /\ Len(p) = IF 1 <= n THEN n - 1 + 1 ELSE 0
          /\ \A i \in 1..(n - 1 + 1) : p[i] = stack[t][1 + i - 1]
      BY <2>2, <3>1, SubSeqProperties
    <3> HIDE DEF p, n
    <3> QED BY <2>2, <3>2
  <2>4. stack' = [stack EXCEPT ![t] = p]
    BY <1>2 DEF Pop
  <2>c. c = stack[t][n + 1]
    BY <2>1 DEF Top
  <2>d. \A i \in 1..Len(stack[t]) : i \in 1..n \/ i = n + 1
    BY <2>1
  <2> HIDE DEF p, n, c
  <2>5. stack' \in [Threads -> Seq(Nat)] /\ stack'[t] = p /\ \A u \in Threads : u # t => stack'[u] = stack[u]
    BY <2>3, <2>4 DEF MockType
  <2>6. \A u \in Threads : \A i \in 1..Len(stack'[u]) : stack'[u][i] \in DOMAIN calls
    BY <2>2, <2>3, <2>5 DEF StackInv
  <2>7. ASSUME NEW d \in DOMAIN calls, calls'[d].at # "done"
        PROVE  \E u \in Threads : \E i \in 1..Len(stack'[u]) : stack'[u][i] = d
    <3>1. d # c /\ calls[d].at # "done"
      BY <1>2, <2>7 DEF c
    <3>2. PICK u \in Threads : \E i \in 1..Len(stack[u]) : stack[u][i] = d
      BY <3>1 DEF StackInv
    <3>3. CASE u # t
      BY <2>5, <3>2, <3>3
    <3>4. CASE u = t
      BY <2>3, <2>5, <2>c, <2>d, <3>1, <3>2, <3>4
    <3> QED BY <3>3, <3>4
  <2> QED BY <2>5, <2>6, <2>7 DEF StackInv
<1> QED BY <1>1, <1>2 DEF Lifted

\* The log grows by the call that is recorded.
LEMMA LogGrows ==
  ASSUME MockType, StackInv, CallInv, LogInv, NEW t \in Threads, Quiet(t)
  PROVE  seq' \in Nat /\ log' \in Seq(Nat) /\ LogInv'
<1> DEFINE c == Top(t)
<1>1. Moved(t)
  BY QuietMoves
<1>2. CASE Record(t)
  <2>1. /\ log \in Seq(Nat) /\ seq \in Nat /\ seq = Len(log)
        /\ log' = Append(log, c) /\ seq' = seq + 1 /\ calls[c].at = "begun"
    BY <1>2 DEF Record, In, MockType, LogInv
  <2>2. c \in DOMAIN calls /\ c \in Nat /\ calls'[c].seq = seq' /\ calls'[c].at # "begun"
    <3>1. PICK a : In(t, a)
      BY <1>2 DEF Record
    <3>2. c \in DOMAIN calls /\ c \in Nat
      BY <3>1, TopIsCall
    <3>3. PICK b \in {"recorded", "done"} : calls' = [calls EXCEPT ![c].seq = seq', ![c].at = b]
      BY <1>2 DEF Record
    <3>4. seq' \in Nat
      BY <2>1
    <3> HIDE DEF c
    <3> QED BY <3>2, <3>3, <3>4, RecordStep DEF Progress
  <2> HIDE DEF c
  <2>3. /\ log' \in Seq(Nat) /\ Len(log') = Len(log) + 1
        /\ \A i \in 1..Len(log) : log'[i] = log[i]
        /\ log'[Len(log) + 1] = c
    BY <2>1, <2>2, AppendProperties
  <2>4. Len(log) \in Nat /\ \A i \in 1..Len(log') : i \in 1..Len(log) \/ i = Len(log) + 1
    BY <2>1, <2>3
  <2>5. \A i \in 1..Len(log) : log[i] \in DOMAIN calls /\ log[i] # c /\ calls'[log[i]] = calls[log[i]]
    BY <1>1, <2>1 DEF LogInv, Moved, Kept, c
  <2>6. ASSUME NEW i \in 1..Len(log')
        PROVE  log'[i] \in DOMAIN calls' /\ calls'[log'[i]].seq = i /\ calls'[log'[i]].at # "begun"
    <3>1. CASE i \in 1..Len(log)
      BY <1>1, <2>3, <2>5, <3>1 DEF LogInv, Moved, Kept
    <3>2. CASE i = Len(log) + 1
      BY <1>1, <2>1, <2>2, <2>3, <3>2 DEF Moved, Kept
    <3> QED BY <2>4, <3>1, <3>2
  <2> QED BY <2>1, <2>3, <2>6 DEF LogInv
<1>3. CASE Forbid(t) \/ Reject(t) \/ ReportRejected(t) \/ NotifyClaim(t) \/ Respond(t) \/ EnterDo(t) \/ LeaveDo(t)
  <2>1. seq' = seq /\ log' = log
    BY <1>3 DEF Forbid, Reject, ReportRejected, NotifyClaim, Respond, EnterDo, LeaveDo
  <2>2. calls'[c].seq = calls[c].seq
    <3>1. PICK a : In(t, a)
      BY <1>3 DEF Forbid, Reject, ReportRejected, NotifyClaim, Respond, EnterDo, LeaveDo
    <3>2. c \in DOMAIN calls
      BY <3>1, TopIsCall
    <3>3. CASE Respond(t)
      <4>1. Response(c) \in Nat
        BY <3>2, <3>3, ResponseIsNumber DEF Respond, In
      <4>2. calls' = [calls EXCEPT ![c].at = "done", ![c].reply = Response(c)]
        BY <3>3 DEF Respond
      <4> HIDE DEF c
      <4> QED BY <3>2, <4>1, <4>2, RespondStep DEF Progress
    <3>4. CASE ~Respond(t)
      <4>1. \/ calls' = [calls EXCEPT ![c].at = "rejected"] \/ calls' = [calls EXCEPT ![c].at = "noted"]
            \/ calls' = [calls EXCEPT ![c].at = "doing"] \/ calls' = [calls EXCEPT ![c].at = "done"]
        BY <1>3, <3>4 DEF Forbid, Reject, ReportRejected, NotifyClaim, EnterDo, LeaveDo
      <4> HIDE DEF c
      <4> QED BY <3>2, <4>1, AtStep DEF KeptRest, Progress
    <3> QED BY <3>3, <3>4
  <2>3. \A d \in DOMAIN calls : calls'[d].seq = calls[d].seq /\ (calls[d].at # "begun" => calls'[d].at # "begun")
    BY <1>1, <2>2 DEF Moved, Kept
  <2> HIDE DEF c
  <2> QED BY <1>1, <2>1, <2>3 DEF LogInv, Moved, Kept, MockType
<1> QED BY <1>2, <1>3 DEF Quiet

\* What calls have seen and claimed, and the expectations, stay; a call only gets further.
LEMMA MovedKeeps ==
  ASSUME MockType, CallInv, FreshInv, ClaimInv, ProhibitInv, NEW t \in Threads, Moved(t)
  PROVE  CallInv' /\ FreshInv' /\ ClaimInv' /\ ProhibitInv'
<1> DEFINE c == Top(t)
<1>1. /\ DOMAIN calls' = DOMAIN calls /\ DOMAIN exps' = DOMAIN exps /\ resets' = resets
      /\ \A d \in DOMAIN calls :
           /\ calls'[d].name = calls[d].name /\ calls'[d].arg = calls[d].arg
           /\ calls'[d].age = calls[d].age /\ calls'[d].seen = calls[d].seen
           /\ calls'[d].exp = calls[d].exp /\ calls'[d].n = calls[d].n
           /\ d # c => calls'[d].at = calls[d].at
  BY DEF Moved, Kept, KeptSeen, KeptClaim, SameExps
<1>2. /\ c \in DOMAIN calls /\ Forward(calls[c].at, calls'[c].at) /\ (log = <<>> \/ log' # <<>>)
      /\ calls'[c].at # "begun"
      /\ calls[c].at \in Early => log' # <<>>
      /\ calls[c].at \in Early /\ calls'[c].at \notin Early => calls[c].name \in Spies
      /\ calls[c].at \in {"claimed", "noted", "doing"} \/ calls'[c].at \notin {"claimed", "noted", "doing"}
  BY DEF Moved
<1>3. SameExps
  BY DEF Moved
<1> HIDE DEF c
<1>4. CallInv'
  <2>1. \A e \in DOMAIN exps : exps'[e].age <= resets
    BY <1>3 DEF CallInv, SameExps
  <2>2. ASSUME NEW d \in DOMAIN calls PROVE CallOK(d)'
    <3>1. CallOK(d)
      BY DEF CallInv
    <3>2. \A e \in calls'[d].seen : e \in DOMAIN exps' /\ exps'[e].age = calls'[d].age
      BY <1>1, <1>3, <3>1 DEF CallOK, SameExps
    <3>3. CASE d = c
      BY <1>1, <1>2, <3>1, <3>2, <3>3 DEF CallOK, Forward, Unclaimed, Early
    <3>4. CASE d # c
      BY <1>1, <3>1, <3>2, <3>4 DEF CallOK
    <3> QED BY <3>3, <3>4
  <2> QED BY <1>1, <2>1, <2>2 DEF CallInv
<1>5. FreshInv'
  <2> SUFFICES ASSUME log' = <<>>
               PROVE  /\ \A e \in DOMAIN exps : exps'[e].age # resets
                      /\ \A d \in DOMAIN calls :
                           calls'[d].age = resets /\ calls'[d].at \notin Early => calls'[d].exp = 0
    BY <1>1 DEF FreshInv, Early
  <2>1. log = <<>> /\ calls[c].at \notin Early /\ calls[c].at # "done"
    BY <1>2 DEF Forward
  <2>2. \A e \in DOMAIN exps : exps[e].age # resets
    BY <1>2, <2>1 DEF FreshInv, Early
  <2> QED BY <1>1, <1>3, <2>1, <2>2 DEF FreshInv, SameExps
<1>6. ClaimInv'
  <2> SUFFICES ASSUME NEW e \in DOMAIN exps PROVE ClaimOK(e)'
    BY <1>1 DEF ClaimInv
  <2>1. Claims(e)' = Claims(e) /\ \A d \in Claims(e) : calls'[d].n = calls[d].n
    BY <1>1 DEF Claims
  <2>2. exps'[e].got = exps[e].got /\ Upper(e)' = Upper(e)
    BY <1>3 DEF SameExps, Upper
  <2> QED BY <2>1, <2>2 DEF ClaimInv, ClaimOK, Unbounded
<1>7. ProhibitInv'
  <2> SUFFICES ASSUME NEW e \in DOMAIN exps, NEW d \in DOMAIN calls
               PROVE  /\ (/\ calls'[d].age = exps'[e].age /\ calls'[d].at \notin Early
                          /\ calls'[d].name = exps'[e].m /\ calls'[d].arg \in exps'[e].accepts)
                         => e \in calls'[d].seen \/ (calls'[d].at = "done" /\ calls'[d].exp = 0)
                      /\ Prohibits(e)' /\ e \in calls'[d].seen => calls'[d].exp = 0
    BY <1>1 DEF ProhibitInv, Early
  <2>1. Prohibits(e)' = Prohibits(e)
    BY <1>3 DEF SameExps, Prohibits, Upper
  <2>2. exps[e].m \notin Spies
    <3>1. exps[e] \in Expectation
      BY DEF MockType
    <3> QED BY <3>1, MockAssumption DEF Expectation
  <2>3. /\ (/\ calls[d].age = exps[e].age /\ calls[d].at \notin Early
            /\ calls[d].name = exps[e].m /\ calls[d].arg \in exps[e].accepts)
           => e \in calls[d].seen \/ (calls[d].at = "done" /\ calls[d].exp = 0)
        /\ Prohibits(e) /\ e \in calls[d].seen => calls[d].exp = 0
    BY DEF ProhibitInv
  <2>4. exps'[e].m = exps[e].m /\ exps'[e].accepts = exps[e].accepts /\ exps'[e].age = exps[e].age
    BY <1>3 DEF SameExps
  <2>5. CASE d = c
    <3>1. /\ calls[d].at # "done"
          /\ calls[d].at \in Early /\ calls'[d].at \notin Early => calls[d].name \in Spies
      BY <1>2, <2>5 DEF Forward
    <3>2. /\ calls'[d].name = calls[d].name /\ calls'[d].arg = calls[d].arg
          /\ calls'[d].age = calls[d].age /\ calls'[d].seen = calls[d].seen /\ calls'[d].exp = calls[d].exp
      BY <1>1
    <3> QED BY <2>1, <2>2, <2>3, <2>4, <3>1, <3>2
  <2>6. CASE d # c
    BY <1>1, <2>1, <2>3, <2>4, <2>6
  <2> QED BY <2>5, <2>6
<1> QED BY <1>4, <1>5, <1>6, <1>7

LEMMA QuietReplies ==
  ASSUME MockType, StackInv, CallInv, ReplyInv, NEW t \in Threads, Quiet(t)
  PROVE  ReplyInv'
<1> DEFINE c == Top(t)
<1>1. Moved(t) /\ calls[c].at # "done" /\ \E a : In(t, a)
  <2>1. \E a : In(t, a)
    BY DEF Quiet, Record, Forbid, Reject, ReportRejected, NotifyClaim, Respond, EnterDo, LeaveDo
  <2> QED BY <2>1, QuietMoves
<1>2. c \in DOMAIN calls /\ calls[c] \in CallRecord /\ calls[c].at # "done" /\ SameExps
  BY <1>1, TopIsCall DEF Moved
<1>3. \A d \in DOMAIN calls : calls[d].exp # 0 => calls[d].exp \in DOMAIN exps
  BY DEF CallInv, CallOK
<1>4. /\ DOMAIN calls' = DOMAIN calls /\ \A d \in DOMAIN calls : d # c => calls'[d] = calls[d]
      /\ calls'[c].exp = calls[c].exp /\ calls'[c].n = calls[c].n
  BY <1>1 DEF Moved, Kept, KeptClaim
<1>5. \A d \in DOMAIN calls : calls[d].exp # 0 =>
        Response(d)' = Response(d) /\ exps'[calls[d].exp].do = exps[calls[d].exp].do
  BY <1>2, <1>3, <1>4 DEF SameExps, Response
<1>6. /\ calls'[c].at # "done" => calls'[c].reply = 0
      /\ calls'[c].at = "doing" => exps[calls[c].exp].do /\ calls[c].exp # 0
      /\ (calls[c].exp # 0 /\ calls'[c].at = "done" /\ ~exps[calls[c].exp].do) => calls'[c].reply = Response(c)
  <2>1. CASE Record(t)
    <3>1. calls[c].at = "begun" /\ calls[c].exp = 0
      BY <1>2, <2>1 DEF Record, In, CallInv, CallOK, Unclaimed, Early
    <3>2. \/ calls' = [calls EXCEPT ![c].seq = seq', ![c].at = "recorded"]
          \/ calls' = [calls EXCEPT ![c].seq = seq', ![c].at = "done"]
      BY <2>1 DEF Record
    <3>3. seq' \in Nat
      BY <2>1 DEF Record, MockType
    <3> HIDE DEF c
    <3>4. calls'[c].at \in {"recorded", "done"} /\ calls'[c].reply = calls[c].reply
      BY <1>2, <3>2, <3>3, RecordStep DEF Progress
    <3> QED BY <1>2, <3>1, <3>4 DEF ReplyInv
  <2>2. CASE Respond(t)
    <3>1. calls[c].at = "noted" /\ calls' = [calls EXCEPT ![c].at = "done", ![c].reply = Response(c)]
      BY <2>2 DEF Respond, In
    <3> HIDE DEF c
    <3>2. calls'[c].at = "done" /\ calls'[c].reply = Response(c)
      BY <1>2, <3>1, ResponseIsNumber, RespondStep DEF Progress
    <3> QED BY <3>2
  <2>3. CASE Forbid(t) \/ Reject(t) \/ ReportRejected(t) \/ NotifyClaim(t) \/ EnterDo(t) \/ LeaveDo(t)
    <3>1. \/ calls' = [calls EXCEPT ![c].at = "rejected"] \/ calls' = [calls EXCEPT ![c].at = "noted"]
          \/ /\ calls' = [calls EXCEPT ![c].at = "doing"]
             /\ exps[calls[c].exp].do /\ calls[c].at = "noted"
          \/ /\ calls' = [calls EXCEPT ![c].at = "done"]
             /\ calls[c].at = "rejected" \/ calls[c].at = "doing"
      BY <2>3 DEF Forbid, Reject, ReportRejected, NotifyClaim, EnterDo, LeaveDo, In
    <3> HIDE DEF c
    <3>2. /\ calls'[c].reply = calls[c].reply
          /\ \/ calls'[c].at \in {"rejected", "noted"}
             \/ calls'[c].at = "doing" /\ exps[calls[c].exp].do /\ calls[c].at = "noted"
             \/ calls'[c].at = "done" /\ calls[c].at \in {"rejected", "doing"}
      BY <1>2, <3>1, AtStep DEF KeptRest, Progress
    <3> QED BY <1>2, <3>2 DEF ReplyInv, CallInv, CallOK, Unclaimed, Early
  <2> QED BY <2>1, <2>2, <2>3 DEF Quiet
<1> HIDE DEF c
<1>7. ASSUME NEW d \in DOMAIN calls
      PROVE  /\ calls'[d].at # "done" => calls'[d].reply = 0
             /\ calls'[d].at = "doing" => exps'[calls'[d].exp].do
             /\ (calls'[d].exp # 0 /\ calls'[d].at = "done" /\ ~exps'[calls'[d].exp].do)
                => calls'[d].reply = Response(d)'
  <2>1. CASE d = c
    BY <1>4, <1>5, <1>6, <2>1
  <2>2. CASE d # c
    <3>1. calls[d].at = "doing" => calls[d].exp # 0
      BY DEF CallInv, CallOK
    <3> QED BY <1>4, <1>5, <2>2, <3>1 DEF ReplyInv
  <2> QED BY <2>1, <2>2
<1> QED BY <1>4, <1>7 DEF ReplyInv

LEMMA QuietInv ==
  ASSUME IInv, NEW t \in Threads, Quiet(t)
  PROVE  IInv'
<1> USE DEF IInv
<1>1. Moved(t) /\ Lifted(t) /\ calls[Top(t)].at # "done"
  BY QuietMoves
<1>2. stack[t] # <<>>
  BY DEF Quiet, Record, Forbid, Reject, ReportRejected, NotifyClaim, Respond, EnterDo, LeaveDo, In
<1>3. stack' \in [Threads -> Seq(Nat)] /\ StackInv'
  BY <1>1, <1>2, StackMoves DEF Moved, Kept
<1>4. seq' \in Nat /\ log' \in Seq(Nat) /\ LogInv'
  BY LogGrows
<1>5. MockType'
  BY <1>1, <1>3, <1>4 DEF Moved, Kept, SameExps, MockType
<1> QED BY <1>1, <1>3, <1>4, <1>5, MovedKeeps, QuietReplies

-----------------------------------------------------------------------------
(* Looking for expectations and claiming one.                              *)

LEMMA MatchInv ==
  ASSUME IInv, NEW t \in Threads, Match(t)
  PROVE  IInv'
<1> USE DEF IInv
<1> DEFINE c == Top(t)
           S == {e \in Held(calls[c].name) : calls[c].arg \in exps[e].accepts}
<1>1. c \in DOMAIN calls /\ calls[c] \in CallRecord /\ calls[c].at = "recorded"
  BY TopIsCall DEF Match
<1>2. S \in SUBSET Nat /\ resets \in Nat
  BY DEF Held, MockType
<1>3. calls' = [calls EXCEPT ![c].at = "matched", ![c].age = resets, ![c].seen = S]
  BY DEF Match
<1>4. UNCHANGED <<exps, seq, log, stack, resets>>
  BY DEF Match
<1>5. \A e \in S : e \in DOMAIN exps /\ exps[e].age = resets
  BY DEF Held
<1>6. \A e \in DOMAIN exps :
        exps[e].m = calls[c].name /\ calls[c].arg \in exps[e].accepts /\ exps[e].age = resets => e \in S
  BY DEF Held
<1> HIDE DEF c, S
<1>7. /\ Kept(c) /\ KeptClaim(c) /\ KeptRest(c)
      /\ calls'[c].at = "matched" /\ calls'[c].age = resets /\ calls'[c].seen = S
  <2>1. MockType /\ c \in DOMAIN calls /\ S \in SUBSET Nat /\ resets \in Nat
    BY <1>1, <1>2
  <2>2. PICK q : q = resets
    OBVIOUS
  <2>3. q \in Nat /\ calls' = [calls EXCEPT ![c].at = "matched", ![c].age = q, ![c].seen = S]
    BY <1>3, <2>1, <2>2
  <2> HIDE DEF IInv
  <2>4. /\ Kept(c) /\ KeptClaim(c) /\ KeptRest(c)
        /\ calls'[c].at = "matched" /\ calls'[c].age = q /\ calls'[c].seen = S
    BY <2>1, <2>3, MatchStep
  <2> QED BY <2>2, <2>4
<1>8. /\ DOMAIN calls' = DOMAIN calls /\ calls' \in Seq(CallRecord)
      /\ \A d \in DOMAIN calls :
           /\ d # c => calls'[d] = calls[d]
           /\ calls'[d].name = calls[d].name /\ calls'[d].arg = calls[d].arg /\ calls'[d].seq = calls[d].seq
           /\ calls'[d].exp = calls[d].exp /\ calls'[d].n = calls[d].n /\ calls'[d].reply = calls[d].reply
  BY <1>7 DEF Kept, KeptClaim, KeptRest
<1>9. calls[c].exp = 0 /\ calls[c].reply = 0
  BY <1>1 DEF CallInv, CallOK, ReplyInv, Unclaimed, Early
<1>10. MockType'
  BY <1>4, <1>8 DEF MockType
<1>11. StackInv'
  BY <1>1, <1>4, <1>7, <1>8 DEF StackInv
<1>12. LogInv'
  BY <1>4, <1>7, <1>8 DEF LogInv
<1>13. CallInv'
  <2>1. ASSUME NEW d \in DOMAIN calls PROVE CallOK(d)'
    <3>1. CASE d = c
      <4>1. /\ calls'[d].age = resets /\ calls'[d].seen = S /\ calls'[d].exp = 0
            /\ calls'[d].at = "matched"
        BY <1>7, <1>8, <1>9, <3>1
      <4>2. resets' = resets /\ resets <= resets /\ exps' = exps
        BY <1>2, <1>4
      <4> QED BY <1>5, <4>1, <4>2 DEF CallOK, Early
    <3>2. CASE d # c
      BY <1>4, <1>8, <3>2 DEF CallInv, CallOK, Unclaimed, Early
    <3> QED BY <3>1, <3>2
  <2> QED BY <1>4, <1>8, <2>1 DEF CallInv
<1>14. FreshInv'
  <2> SUFFICES ASSUME log = <<>>
               PROVE  /\ \A e \in DOMAIN exps : exps[e].age # resets
                      /\ \A d \in DOMAIN calls :
                           calls'[d].age = resets /\ calls'[d].at \notin Early => calls'[d].exp = 0
    BY <1>4, <1>8 DEF FreshInv, Early
  <2>1. \A e \in DOMAIN exps : exps[e].age # resets
    BY <1>1 DEF FreshInv
  <2> QED BY <1>8, <1>9, <2>1 DEF FreshInv
<1>15. ClaimInv'
  <2> SUFFICES ASSUME NEW e \in DOMAIN exps PROVE ClaimOK(e)'
    BY <1>4 DEF ClaimInv
  <2>1. Claims(e)' = Claims(e) /\ \A d \in Claims(e) : calls'[d].n = calls[d].n
    BY <1>8 DEF Claims
  <2>2. exps'[e].got = exps[e].got /\ Upper(e)' = Upper(e)
    BY <1>4 DEF Upper
  <2> QED BY <2>1, <2>2 DEF ClaimInv, ClaimOK, Unbounded
<1>16. ProhibitInv'
  <2>1. ASSUME NEW e \in DOMAIN exps, NEW d \in DOMAIN calls
        PROVE  /\ (/\ calls'[d].age = exps[e].age /\ calls'[d].at \notin Early
                   /\ calls'[d].name = exps[e].m /\ calls'[d].arg \in exps[e].accepts)
                  => e \in calls'[d].seen \/ (calls'[d].at = "done" /\ calls'[d].exp = 0)
               /\ Prohibits(e) /\ e \in calls'[d].seen => calls'[d].exp = 0
    <3>1. CASE d = c
      <4>1. calls'[d].age = resets /\ calls'[d].seen = S /\ calls'[d].exp = 0
        BY <1>7, <1>8, <1>9, <3>1
      <4>2. calls'[d].name = calls[c].name /\ calls'[d].arg = calls[c].arg
        BY <1>8, <3>1
      <4> QED BY <1>6, <4>1, <4>2
    <3>2. CASE d # c
      BY <1>8, <3>2 DEF ProhibitInv
    <3> QED BY <3>1, <3>2
  <2>2. \A e \in DOMAIN exps : Prohibits(e)' = Prohibits(e)
    BY <1>4 DEF Prohibits, Upper
  <2> QED BY <1>4, <1>8, <2>1, <2>2 DEF ProhibitInv, Early
<1>17. ReplyInv'
  <2>1. \A d \in DOMAIN calls : Response(d)' = Response(d)
    BY <1>4, <1>8 DEF Response
  <2> QED BY <1>4, <1>7, <1>8, <1>9, <2>1 DEF ReplyInv
<1> QED BY <1>10, <1>11, <1>12, <1>13, <1>14, <1>15, <1>16, <1>17

LEMMA FirstIsOne ==
  ASSUME NEW S \in SUBSET Nat, S # {}
  PROVE  First(S) \in S
<1> DEFINE R == OpToRel(<, Nat)
<1>1. IsWellFoundedOn(R, Nat)
  BY NatLessThanWellFounded
<1>2. \A m, n \in Nat : m < n => <<m, n>> \in R
  BY DEF OpToRel
<1> HIDE DEF R
<1>3. PICK n \in S : \A m \in S : <<m, n>> \notin R
  BY <1>1, WFMin
<1>4. \A f \in S : n <= f
  <2> SUFFICES ASSUME NEW f \in S, ~(n <= f) PROVE FALSE
    OBVIOUS
  <2>1. f \in Nat /\ n \in Nat
    OBVIOUS
  <2>2. f < n
    BY <2>1
  <2> QED BY <1>2, <1>3, <2>1, <2>2
<1> QED BY <1>4 DEF First

LEMMA UpperIsNat ==
  ASSUME MockType, NEW e \in DOMAIN exps
  PROVE  Upper(e) \in Nat
<1>1. exps[e] \in Expectation
  BY DEF MockType
<1> QED BY <1>1 DEF Upper, Expectation

\* A call that claims is the next of its expectation, which has room for it.
LEMMA ClaimKeepsInv ==
  ASSUME IInv, NEW t \in Threads, Claim(t)
  PROVE  IInv'
<1> USE DEF IInv
<1>0. Top(t) \in DOMAIN calls /\ Top(t) \in Nat /\ calls[Top(t)] \in CallRecord /\ calls[Top(t)].at = "matched"
  BY TopIsCall DEF Claim
<1>c. PICK c : c = Top(t)
  OBVIOUS
<1>e. PICK e : e = First(Open(c))
  OBVIOUS
<1>n. PICK n : n = exps[e].got + 1
  OBVIOUS
<1>1. c \in DOMAIN calls /\ c \in Nat /\ calls[c] \in CallRecord /\ calls[c].at = "matched"
  BY <1>0, <1>c
<1>2. calls[c].exp = 0 /\ calls[c].reply = 0 /\ calls[c].seq \in Nat
  BY <1>1 DEF CallInv, CallOK, ReplyInv, Unclaimed, CallRecord
<1>3. /\ e \in calls[c].seen /\ e \in DOMAIN exps /\ exps[e].age = calls[c].age
      /\ HasCapacity(e) /\ e \in Nat \ {0}
  <2>1. Open(c) # {} /\ Open(c) \in SUBSET Nat
    BY <1>1, <1>c DEF Claim, MayClaim, Open, CallRecord
  <2>2. e \in Open(c)
    BY <2>1, <1>e, FirstIsOne
  <2>3. e \in calls[c].seen /\ HasCapacity(e)
    BY <2>2 DEF Open
  <2>4. e \in DOMAIN exps /\ exps[e].age = calls[c].age
    BY <1>1, <2>3 DEF CallInv, CallOK
  <2> QED BY <2>3, <2>4 DEF MockType
<1>4. \A f \in calls[c].seen : ~Prohibits(f)
  BY <1>c DEF Claim, MayClaim
<1>5. /\ exps' = [exps EXCEPT ![e].got = n, ![e].firstSeq = IF @ = 0 THEN calls[c].seq ELSE @]
      /\ calls' = [calls EXCEPT ![c].at = "claimed", ![c].exp = e, ![c].n = n]
      /\ UNCHANGED <<seq, log, stack, resets>>
  BY <1>c, <1>e, <1>n DEF Claim
<1>6. exps[e].got \in Nat /\ n \in Nat
  <2>1. exps[e] \in Expectation
    BY <1>3 DEF MockType
  <2> QED BY <1>n, <2>1 DEF Expectation
<1>7. /\ Kept(c) /\ KeptSeen(c) /\ KeptRest(c)
      /\ calls'[c].at = "claimed" /\ calls'[c].exp = e /\ calls'[c].n = n
  <2>1. MockType
    OBVIOUS
  <2>2. c \in DOMAIN calls /\ e \in Nat /\ n \in Nat
    BY <1>1, <1>3, <1>6
  <2>3. calls' = [calls EXCEPT ![c].at = "claimed", ![c].exp = e, ![c].n = n]
    BY <1>5
  <2> HIDE DEF IInv
  <2> QED BY <2>1, <2>2, <2>3, ClaimStep
<1>8. /\ exps' \in Seq(Expectation) /\ DOMAIN exps' = DOMAIN exps
      /\ exps'[e].got = n
      /\ \A f \in DOMAIN exps :
           /\ f # e => exps'[f].got = exps[f].got
           /\ exps'[f].m = exps[f].m /\ exps'[f].accepts = exps[f].accepts /\ exps'[f].age = exps[f].age
           /\ exps'[f].kind = exps[f].kind /\ exps'[f].min = exps[f].min /\ exps'[f].max = exps[f].max
           /\ exps'[f].responses = exps[f].responses /\ exps'[f].do = exps[f].do
  <2>1. MockType
    OBVIOUS
  <2> HIDE DEF IInv
  <2>2. /\ exps' \in Seq(Expectation) /\ DOMAIN exps' = DOMAIN exps
        /\ \A f \in DOMAIN exps : f # e => exps'[f] = exps[f]
        /\ exps'[e].m = exps[e].m /\ exps'[e].accepts = exps[e].accepts /\ exps'[e].age = exps[e].age
        /\ exps'[e].kind = exps[e].kind /\ exps'[e].min = exps[e].min /\ exps'[e].max = exps[e].max
        /\ exps'[e].responses = exps[e].responses /\ exps'[e].do = exps[e].do
        /\ exps'[e].got = n
    BY <1>2, <1>3, <1>5, <1>6, <2>1, GotStep, ZenonT(30)
  <2> QED BY <2>2
<1>9. /\ DOMAIN calls' = DOMAIN calls /\ calls' \in Seq(CallRecord)
      /\ \A d \in DOMAIN calls :
           /\ d # c => calls'[d] = calls[d]
           /\ calls'[d].name = calls[d].name /\ calls'[d].arg = calls[d].arg /\ calls'[d].seq = calls[d].seq
           /\ calls'[d].age = calls[d].age /\ calls'[d].seen = calls[d].seen /\ calls'[d].reply = calls[d].reply
  BY <1>7 DEF Kept, KeptSeen, KeptRest
<1>10. MockType'
  BY <1>5, <1>8, <1>9 DEF MockType
<1>11. StackInv'
  <2>1. \A d \in DOMAIN calls : calls'[d].at # "done" => calls[d].at # "done"
    BY <1>1, <1>9
  <2>2. stack' = stack /\ DOMAIN calls' = DOMAIN calls
    BY <1>5, <1>9
  <2>3. StackInv
    OBVIOUS
  <2> HIDE DEF IInv
  <2> QED BY <2>1, <2>2, <2>3 DEF StackInv
<1>12. LogInv'
  BY <1>5, <1>7, <1>9 DEF LogInv
<1>13. CallInv'
  <2>1. ASSUME NEW d \in DOMAIN calls PROVE CallOK(d)'
    <3>0. CallOK(d)
      BY DEF CallInv
    <3>1. CASE d = c
      <4>1. /\ calls'[d].age = calls[d].age /\ calls'[d].seen = calls[d].seen
            /\ calls'[d].at = "claimed" /\ calls'[d].exp = e /\ e \in calls[d].seen
        BY <1>3, <1>7, <1>9, <3>1
      <4> QED BY <1>3, <1>5, <1>8, <3>0, <4>1 DEF CallOK, Unclaimed, Early
    <3>2. CASE d # c
      BY <1>5, <1>8, <1>9, <3>0, <3>2 DEF CallOK, Unclaimed, Early
    <3> QED BY <3>1, <3>2
  <2> QED BY <1>5, <1>8, <1>9, <2>1 DEF CallInv
<1>14. FreshInv'
  <2> SUFFICES ASSUME log = <<>>
               PROVE  /\ \A f \in DOMAIN exps : exps[f].age # resets
                      /\ \A d \in DOMAIN calls :
                           calls'[d].age = resets /\ calls'[d].at \notin Early => calls'[d].exp = 0
    BY <1>5, <1>8, <1>9 DEF FreshInv, Early
  <2>1. \A f \in DOMAIN exps : exps[f].age # resets
    BY <1>1 DEF FreshInv
  <2>2. calls'[c].age # resets
    BY <1>1, <1>3, <1>9, <2>1
  <2> QED BY <1>9, <2>1, <2>2 DEF FreshInv
<1>15. ClaimInv'
  <2> SUFFICES ASSUME NEW f \in DOMAIN exps PROVE ClaimOK(f)'
    BY <1>8 DEF ClaimInv
  <2>0. ClaimOK(f) /\ Upper(f)' = Upper(f) /\ Unbounded' = Unbounded
    BY <1>8 DEF ClaimInv, Upper, Unbounded
  <2>1. CASE f # e
    <3>0. f # 0 /\ calls[c].exp # f /\ calls'[c].exp # f
      BY <1>2, <1>7, <2>1 DEF MockType
    <3>1. Claims(f)' = Claims(f) /\ \A d \in Claims(f) : calls'[d].n = calls[d].n
      BY <1>9, <3>0 DEF Claims
    <3>2. exps'[f].got = exps[f].got
      BY <1>8, <2>1
    <3> QED BY <2>0, <3>1, <3>2 DEF ClaimOK
  <2>2. CASE f = e
    <3>1. Claims(e)' = Claims(e) \cup {c} /\ c \notin Claims(e)
      <4>1. c \notin Claims(e) /\ c \in Claims(e)'
        BY <1>1, <1>2, <1>3, <1>7, <1>9 DEF Claims
      <4>2. \A d \in DOMAIN calls : d # c => (d \in Claims(e)' <=> d \in Claims(e))
        BY <1>9 DEF Claims
      <4>3. Claims(e) \subseteq DOMAIN calls /\ Claims(e)' \subseteq DOMAIN calls
        BY <1>9 DEF Claims
      <4> QED BY <4>1, <4>2, <4>3
    <3>2. IsFiniteSet(Claims(e)) /\ Cardinality(Claims(e)) = exps[e].got
      BY <2>0, <2>2 DEF ClaimOK
    <3>3. IsFiniteSet(Claims(e)') /\ Cardinality(Claims(e)') = n
      BY <3>1, <3>2, <1>n, FS_AddElement
    <3>4. /\ \A d \in Claims(e) : calls'[d].n = calls[d].n /\ calls[d].n \in 1..exps[e].got
          /\ calls'[c].n = n /\ exps'[e].got = n
      BY <1>7, <1>8, <1>9, <2>0, <2>2, <3>1 DEF ClaimOK, Claims
    <3>5. n \notin 1..exps[e].got /\ 1..n = (1..exps[e].got) \cup {n}
      BY <1>6, <1>n
    <3>6. \A d \in Claims(e)' : calls'[d].n \in 1..n
      BY <3>1, <3>4, <3>5
    <3>7. \A k \in 1..n : \E d \in Claims(e)' : calls'[d].n = k
      BY <2>0, <2>2, <3>1, <3>4, <3>5 DEF ClaimOK
    <3>8. \A d, g \in Claims(e)' : d # g => calls'[d].n # calls'[g].n
      BY <2>0, <2>2, <3>1, <3>4, <3>5 DEF ClaimOK
    <3>9. Upper(e) = Unbounded \/ n <= Upper(e)
      <4>1. Upper(e) \in Nat
        BY <1>3, UpperIsNat
      <4> QED BY <1>3, <1>6, <1>n, <4>1 DEF HasCapacity
    <3>10. Upper(e)' = Upper(e)
      BY <2>0, <2>2
    <3>11. ClaimOK(e)'
      BY <2>0, <3>3, <3>4, <3>6, <3>7, <3>8, <3>9, <3>10 DEF ClaimOK
    <3> QED BY <2>2, <3>11
  <2> QED BY <2>1, <2>2
<1>16. ProhibitInv'
  <2>1. ASSUME NEW f \in DOMAIN exps, NEW d \in DOMAIN calls
        PROVE  /\ (/\ calls'[d].age = exps[f].age /\ calls'[d].at \notin Early
                   /\ calls'[d].name = exps[f].m /\ calls'[d].arg \in exps[f].accepts)
                  => f \in calls'[d].seen \/ (calls'[d].at = "done" /\ calls'[d].exp = 0)
               /\ Prohibits(f) /\ f \in calls'[d].seen => calls'[d].exp = 0
    <3>1. CASE d = c
      <4>1. calls[d].at \notin Early /\ calls[d].at # "done" /\ \A g \in calls[d].seen : ~Prohibits(g)
        BY <1>1, <1>4, <3>1 DEF Early
      <4>2. /\ calls'[d].name = calls[d].name /\ calls'[d].arg = calls[d].arg
            /\ calls'[d].age = calls[d].age /\ calls'[d].seen = calls[d].seen
        BY <1>9
      <4> QED BY <4>1, <4>2 DEF ProhibitInv
    <3>2. CASE d # c
      BY <1>9, <3>2 DEF ProhibitInv
    <3> QED BY <3>1, <3>2
  <2>2. \A f \in DOMAIN exps : Prohibits(f)' = Prohibits(f)
    BY <1>8 DEF Prohibits, Upper
  <2> QED BY <1>8, <1>9, <2>1, <2>2 DEF ProhibitInv, Early
<1>17. ReplyInv'
  <2>1. ASSUME NEW d \in DOMAIN calls
        PROVE  /\ calls'[d].at # "done" => calls'[d].reply = 0
               /\ calls'[d].at = "doing" => exps'[calls'[d].exp].do
               /\ (calls'[d].exp # 0 /\ calls'[d].at = "done" /\ ~exps'[calls'[d].exp].do)
                  => calls'[d].reply = Response(d)'
    <3>1. CASE d = c
      BY <1>2, <1>7, <1>9, <3>1
    <3>2. CASE d # c
      <4>1. calls[d].exp # 0 => calls[d].exp \in DOMAIN exps
        BY DEF CallInv, CallOK
      <4>2. calls'[d] = calls[d] /\ (calls[d].at = "doing" => calls[d].exp # 0)
        BY <1>9, <3>2 DEF CallInv, CallOK
      <4>3. calls[d].exp # 0 => /\ Response(d)' = Response(d)
                                /\ exps'[calls[d].exp].do = exps[calls[d].exp].do
        BY <1>8, <4>1, <4>2 DEF Response
      <4> QED BY <4>2, <4>3 DEF ReplyInv
    <3> QED BY <3>1, <3>2
  <2> QED BY <1>9, <2>1 DEF ReplyInv
<1> QED BY <1>10, <1>11, <1>12, <1>13, <1>14, <1>15, <1>16, <1>17

-----------------------------------------------------------------------------
(* New calls and new expectations, and what the test does with them.       *)

LEMMA BeginInv ==
  ASSUME IInv, NEW t \in Threads, NEW name \in Methods \cup Spies, Begin(t, name)
  PROVE  IInv'
<1> USE DEF IInv
<1>1. PICK arg \in Arguments : calls' = Append(calls, NewCall(name, arg))
  BY DEF Begin
<1>2. PICK r : r = NewCall(name, arg)
  OBVIOUS
<1>3. /\ r \in CallRecord /\ r.at = "begun" /\ r.age = 0 /\ r.seen = {}
      /\ r.exp = 0 /\ r.reply = 0
  BY <1>2 DEF NewCall, CallRecord, Progress
<1>4. PICK k : k = Len(calls) + 1
  OBVIOUS
<1>5. calls \in Seq(CallRecord) /\ Len(calls) \in Nat /\ k \in Nat /\ k \notin DOMAIN calls
  BY <1>4 DEF MockType
<1>6. /\ calls' \in Seq(CallRecord) /\ Len(calls') = k
      /\ \A i \in 1..Len(calls) : calls'[i] = calls[i]
      /\ calls'[k] = r
  BY <1>1, <1>2, <1>3, <1>4, <1>5, AppendProperties
<1>7. /\ calls' \in Seq(CallRecord) /\ DOMAIN calls' = DOMAIN calls \cup {k}
      /\ \A d \in DOMAIN calls : calls'[d] = calls[d] /\ d # k
      /\ calls'[k] = r
  BY <1>4, <1>5, <1>6
<1>8. UNCHANGED <<exps, seq, log, resets>> /\ stack' = [stack EXCEPT ![t] = Append(@, k)]
  BY <1>4 DEF Begin
<1>9. /\ stack' \in [Threads -> Seq(Nat)]
      /\ \A u \in Threads : u # t => stack'[u] = stack[u]
      /\ Len(stack'[t]) = Len(stack[t]) + 1
      /\ \A i \in 1..Len(stack[t]) : stack'[t][i] = stack[t][i]
      /\ stack'[t][Len(stack[t]) + 1] = k
  <2>1. stack[t] \in Seq(Nat) /\ stack'[t] = Append(stack[t], k)
    BY <1>8 DEF MockType
  <2>2. /\ Append(stack[t], k) \in Seq(Nat)
        /\ Len(Append(stack[t], k)) = Len(stack[t]) + 1
        /\ \A i \in 1..Len(stack[t]) : Append(stack[t], k)[i] = stack[t][i]
        /\ Append(stack[t], k)[Len(stack[t]) + 1] = k
    BY <1>5, <2>1, AppendProperties
  <2>3. stack' \in [Threads -> Seq(Nat)] /\ \A u \in Threads : u # t => stack'[u] = stack[u]
    BY <1>8, <2>2 DEF MockType
  <2> QED BY <2>1, <2>2, <2>3
<1>10. Len(stack[t]) \in Nat
  BY DEF MockType
<1>11. MockType'
  BY <1>7, <1>8, <1>9 DEF MockType
<1>12. StackInv'
  <2>1. ASSUME NEW u \in Threads, NEW i \in 1..Len(stack'[u])
        PROVE  stack'[u][i] \in DOMAIN calls'
    <3>1. CASE u # t
      BY <1>7, <1>9, <3>1 DEF StackInv
    <3>2. CASE u = t
      <4>1. i \in 1..Len(stack[t]) \/ i = Len(stack[t]) + 1
        BY <1>9, <1>10, <3>2
      <4> QED BY <1>7, <1>9, <3>2, <4>1 DEF StackInv
    <3> QED BY <3>1, <3>2
  <2>2. ASSUME NEW d \in DOMAIN calls', calls'[d].at # "done"
        PROVE  \E u \in Threads : \E i \in 1..Len(stack'[u]) : stack'[u][i] = d
    <3>1. CASE d = k
      BY <1>9, <1>10, <3>1
    <3>2. CASE d \in DOMAIN calls
      <4>1. PICK u \in Threads : \E i \in 1..Len(stack[u]) : stack[u][i] = d
        BY <1>7, <2>2, <3>2 DEF StackInv
      <4>2. PICK i \in 1..Len(stack[u]) : stack[u][i] = d
        BY <4>1
      <4>3. i \in 1..Len(stack'[u]) /\ stack'[u][i] = d
        <5>1. CASE u = t
          BY <1>9, <1>10, <4>2, <5>1
        <5>2. CASE u # t
          BY <1>9, <4>2, <5>2
        <5> QED BY <5>1, <5>2
      <4> QED BY <4>3
    <3> QED BY <1>7, <3>1, <3>2
  <2> QED BY <2>1, <2>2 DEF StackInv
<1>13. LogInv'
  BY <1>7, <1>8 DEF LogInv
<1>14. CallInv'
  <2>1. ASSUME NEW d \in DOMAIN calls' PROVE CallOK(d)'
    <3>1. CASE d = k
      <4>1. 0 <= resets
        BY DEF MockType
      <4> QED BY <1>3, <1>7, <1>8, <3>1, <4>1 DEF CallOK
    <3>2. CASE d \in DOMAIN calls
      <4>1. CallOK(d) /\ calls'[d] = calls[d]
        BY <1>7, <3>2 DEF CallInv
      <4> QED BY <1>8, <4>1 DEF CallOK, Unclaimed, Early
    <3> QED BY <1>7, <3>1, <3>2
  <2> QED BY <1>8, <2>1 DEF CallInv
<1>15. FreshInv'
  BY <1>3, <1>7, <1>8 DEF FreshInv, Early
<1>16. ClaimInv'
  <2> SUFFICES ASSUME NEW e \in DOMAIN exps PROVE ClaimOK(e)'
    BY <1>8 DEF ClaimInv
  <2>1. e # 0
    BY DEF MockType
  <2>2. Claims(e)' = Claims(e) /\ \A d \in Claims(e) : calls'[d].n = calls[d].n
    BY <1>3, <1>7, <2>1 DEF Claims
  <2>3. exps'[e].got = exps[e].got /\ Upper(e)' = Upper(e)
    BY <1>8 DEF Upper
  <2> QED BY <2>2, <2>3 DEF ClaimInv, ClaimOK, Unbounded
<1>17. ProhibitInv'
  <2>1. \A e \in DOMAIN exps : Prohibits(e)' = Prohibits(e)
    BY <1>8 DEF Prohibits, Upper
  <2> QED BY <1>3, <1>7, <1>8, <2>1 DEF ProhibitInv, Early
<1>18. ReplyInv'
  <2>1. \A d \in DOMAIN calls : Response(d)' = Response(d)
    BY <1>7, <1>8 DEF Response
  <2> QED BY <1>3, <1>7, <1>8, <2>1 DEF ReplyInv
<1> QED BY <1>11, <1>12, <1>13, <1>14, <1>15, <1>16, <1>17, <1>18

\* While the test arranges, no call is under way and none has met an expectation it may declare.
LEMMA WhileArranging ==
  ASSUME MockType, StackInv, CallInv, FreshInv, ClaimInv, Arranging
  PROVE  /\ \A d \in DOMAIN calls : calls[d].at = "done"
         /\ \A d \in DOMAIN calls : calls[d].age = resets => calls[d].exp = 0
         /\ \A e \in DOMAIN exps : exps[e].age = resets => exps[e].got = 0 /\ Claims(e) = {}
<1>1. log = <<>> /\ \A t \in Threads : stack[t] = <<>>
  BY DEF Arranging, InFlight
<1>2. \A d \in DOMAIN calls : calls[d].at = "done"
  BY <1>1 DEF StackInv
<1>3. \A d \in DOMAIN calls : calls[d].age = resets => calls[d].exp = 0
  BY <1>1, <1>2 DEF FreshInv, Early
<1>4. ASSUME NEW e \in DOMAIN exps, exps[e].age = resets PROVE exps[e].got = 0 /\ Claims(e) = {}
  <2>1. exps[e].got = 0
    BY <1>1, <1>4 DEF FreshInv
  <2>2. \A c \in Claims(e) : FALSE
    BY <2>1 DEF ClaimInv, ClaimOK
  <2> QED BY <2>1, <2>2
<1> QED BY <1>2, <1>3, <1>4

LEMMA ExpectInv ==
  ASSUME IInv, Arranging, NEW m \in Methods, NEW accepts \in Accepts, Expect(m, accepts)
  PROVE  IInv'
<1> USE DEF IInv
<1>0. /\ \A d \in DOMAIN calls : calls[d].at = "done"
      /\ \A d \in DOMAIN calls : calls[d].age = resets => calls[d].exp = 0
  BY WhileArranging
<1>1. PICK r : r = [m |-> m, accepts |-> accepts, age |-> resets, kind |-> "default", min |-> 0, max |-> 0,
                    responses |-> 0, do |-> FALSE, got |-> 0, firstSeq |-> 0, captured |-> <<>>]
  OBVIOUS
<1>2. r \in Expectation /\ r.age = resets /\ r.got = 0
  BY <1>1, MockAssumption DEF MockType, Expectation
<1>3. PICK k : k = Len(exps) + 1
  OBVIOUS
<1>4. exps' = Append(exps, r) /\ UNCHANGED <<calls, seq, log, stack, resets>>
  BY <1>1 DEF Expect
<1>5. exps \in Seq(Expectation) /\ Len(exps) \in Nat /\ k \in Nat \ {0} /\ k \notin DOMAIN exps
  BY <1>3 DEF MockType
<1>6. /\ exps' \in Seq(Expectation) /\ Len(exps') = k
      /\ \A i \in 1..Len(exps) : exps'[i] = exps[i]
      /\ exps'[k] = r
  BY <1>2, <1>3, <1>4, <1>5, AppendProperties
<1>7. /\ exps' \in Seq(Expectation) /\ DOMAIN exps' = DOMAIN exps \cup {k}
      /\ \A e \in DOMAIN exps : exps'[e] = exps[e]
      /\ exps'[k] = r
  BY <1>3, <1>5, <1>6
<1>8. \A d \in DOMAIN calls : calls[d].exp # k /\ (calls[d].exp # 0 => calls[d].exp \in DOMAIN exps)
  BY <1>5 DEF CallInv, CallOK
<1>9. MockType' /\ StackInv' /\ LogInv'
  BY <1>4, <1>7 DEF MockType, StackInv, LogInv
<1>10. CallInv'
  <2>1. ASSUME NEW d \in DOMAIN calls PROVE CallOK(d)'
    <3>1. CallOK(d)
      BY DEF CallInv
    <3>2. \A e \in calls[d].seen : e \in DOMAIN exps' /\ exps'[e].age = calls[d].age
      BY <1>7, <3>1 DEF CallOK
    <3> QED BY <1>4, <3>1, <3>2 DEF CallOK, Unclaimed, Early
  <2>2. resets <= resets
    BY DEF MockType
  <2> QED BY <1>2, <1>4, <1>7, <2>1, <2>2 DEF CallInv
<1>11. FreshInv'
  BY <1>0, <1>2, <1>4, <1>7 DEF FreshInv, Early
<1>12. ClaimInv'
  <2>1. ASSUME NEW e \in DOMAIN exps PROVE ClaimOK(e)'
    <3>1. Claims(e)' = Claims(e) /\ Upper(e)' = Upper(e) /\ exps'[e].got = exps[e].got /\ calls' = calls
      BY <1>4, <1>7 DEF Claims, Upper
    <3> QED BY <3>1 DEF ClaimInv, ClaimOK, Unbounded
  <2>2. ClaimOK(k)'
    <3>1. Claims(k)' = {}
      BY <1>4, <1>8 DEF Claims
    <3>2. exps'[k].got = 0 /\ Upper(k)' \in Nat
      BY <1>1, <1>7 DEF Upper
    <3>3. IsFiniteSet({}) /\ Cardinality({}) = 0
      BY FS_EmptySet
    <3> QED BY <3>1, <3>2, <3>3 DEF ClaimOK
  <2> QED BY <1>7, <2>1, <2>2 DEF ClaimInv
<1>13. ProhibitInv'
  <2>1. ASSUME NEW d \in DOMAIN calls, NEW e \in DOMAIN exps'
        PROVE  /\ (/\ calls[d].age = exps'[e].age /\ calls[d].at \notin Early
                   /\ calls[d].name = exps'[e].m /\ calls[d].arg \in exps'[e].accepts)
                  => e \in calls[d].seen \/ (calls[d].at = "done" /\ calls[d].exp = 0)
               /\ Prohibits(e)' /\ e \in calls[d].seen => calls[d].exp = 0
    <3>1. CASE e = k
      <4>1. e \notin calls[d].seen
        BY <1>5, <3>1 DEF CallInv, CallOK
      <4> QED BY <1>0, <1>2, <1>7, <3>1, <4>1
    <3>2. CASE e \in DOMAIN exps
      <4>1. Prohibits(e)' = Prohibits(e) /\ exps'[e] = exps[e]
        BY <1>7, <3>2 DEF Prohibits, Upper
      <4> QED BY <3>2, <4>1 DEF ProhibitInv
    <3> QED BY <1>7, <3>1, <3>2
  <2> QED BY <1>4, <2>1 DEF ProhibitInv, Early
<1>14. ReplyInv'
  <2>1. \A d \in DOMAIN calls : calls[d].exp # 0 =>
          Response(d)' = Response(d) /\ exps'[calls[d].exp] = exps[calls[d].exp]
    BY <1>4, <1>7, <1>8 DEF Response
  <2> QED BY <1>0, <1>4, <2>1 DEF ReplyInv
<1> QED BY <1>9, <1>10, <1>11, <1>12, <1>13, <1>14

\* An expectation is configured before it is claimed.
LEMMA ConfigureInv ==
  ASSUME IInv, Arranging, NEW e \in DOMAIN exps, exps[e].age = resets,
         SetCount(e) \/ AnyTimes(e) \/ AtLeast(e) \/ AtMost(e) \/ Return(e) \/ Do(e)
  PROVE  IInv'
<1> USE DEF IInv
<1>0. /\ \A d \in DOMAIN calls : calls[d].at = "done"
      /\ \A d \in DOMAIN calls : calls[d].age = resets => calls[d].exp = 0
      /\ exps[e].got = 0 /\ Claims(e) = {}
  BY WhileArranging
<1>1. /\ exps' \in Seq(Expectation) /\ DOMAIN exps' = DOMAIN exps
      /\ UNCHANGED <<calls, seq, log, stack, resets>>
      /\ \A f \in DOMAIN exps :
           /\ f # e => exps'[f] = exps[f]
           /\ exps'[f].m = exps[f].m /\ exps'[f].accepts = exps[f].accepts
           /\ exps'[f].age = exps[f].age /\ exps'[f].got = exps[f].got
  BY ConfigureStep DEF Configured
<1>2. \A d \in DOMAIN calls : calls[d].exp # e /\ (calls[d].exp # 0 => calls[d].exp \in DOMAIN exps)
  BY <1>0 DEF Claims, CallInv, CallOK
<1>3. MockType'
  BY <1>1 DEF MockType
<1>4. StackInv' /\ LogInv'
  BY <1>1 DEF StackInv, LogInv
<1>5. CallInv'
  <2>1. ASSUME NEW d \in DOMAIN calls PROVE CallOK(d)'
    <3>1. CallOK(d)
      BY DEF CallInv
    <3>2. \A f \in calls[d].seen : f \in DOMAIN exps' /\ exps'[f].age = calls[d].age
      BY <1>1, <3>1 DEF CallOK
    <3> QED BY <1>1, <3>1, <3>2 DEF CallOK, Unclaimed, Early
  <2> QED BY <1>1, <2>1 DEF CallInv
<1>6. FreshInv'
  BY <1>1 DEF FreshInv, Early
<1>7. ClaimInv'
  <2> SUFFICES ASSUME NEW f \in DOMAIN exps PROVE ClaimOK(f)'
    BY <1>1 DEF ClaimInv
  <2>1. CASE f # e
    <3>1. Claims(f)' = Claims(f) /\ Upper(f)' = Upper(f) /\ exps'[f].got = exps[f].got /\ calls' = calls
      BY <1>1, <2>1 DEF Claims, Upper
    <3> QED BY <3>1 DEF ClaimInv, ClaimOK, Unbounded
  <2>2. CASE f = e
    <3>1. Claims(e)' = {} /\ exps'[e].got = 0
      BY <1>0, <1>1 DEF Claims
    <3>2. Upper(e)' \in Nat
      <4>1. exps'[e] \in Expectation
        BY <1>1
      <4> QED BY <4>1 DEF Upper, Expectation
    <3>3. IsFiniteSet({}) /\ Cardinality({}) = 0
      BY FS_EmptySet
    <3> QED BY <2>2, <3>1, <3>2, <3>3 DEF ClaimOK
  <2> QED BY <2>1, <2>2
<1>8. ProhibitInv'
  <2>1. ASSUME NEW d \in DOMAIN calls, NEW f \in DOMAIN exps
        PROVE  /\ (/\ calls[d].age = exps'[f].age /\ calls[d].at \notin Early
                   /\ calls[d].name = exps'[f].m /\ calls[d].arg \in exps'[f].accepts)
                  => f \in calls[d].seen \/ (calls[d].at = "done" /\ calls[d].exp = 0)
               /\ Prohibits(f)' /\ f \in calls[d].seen => calls[d].exp = 0
    <3>1. CASE f = e
      <4>1. f \in calls[d].seen => calls[d].age = resets
        BY <3>1 DEF CallInv, CallOK
      <4> QED BY <1>0, <1>1, <3>1, <4>1 DEF ProhibitInv
    <3>2. CASE f # e
      <4>1. Prohibits(f)' = Prohibits(f) /\ exps'[f] = exps[f]
        BY <1>1, <3>2 DEF Prohibits, Upper
      <4> QED BY <3>2, <4>1 DEF ProhibitInv
    <3> QED BY <3>1, <3>2
  <2> QED BY <1>1, <2>1 DEF ProhibitInv, Early
<1>9. ReplyInv'
  <2>1. \A d \in DOMAIN calls : calls[d].exp # 0 =>
          Response(d)' = Response(d) /\ exps'[calls[d].exp] = exps[calls[d].exp]
    BY <1>1, <1>2 DEF Response
  <2> QED BY <1>0, <1>1, <2>1 DEF ReplyInv
<1> QED BY <1>3, <1>4, <1>5, <1>6, <1>7, <1>8, <1>9

LEMMA SameClaims ==
  ASSUME ClaimInv, UNCHANGED <<exps, calls>>
  PROVE  ClaimInv'
<1>1. ASSUME NEW e \in DOMAIN exps PROVE ClaimOK(e)'
  <2>1. Claims(e)' = Claims(e) /\ Upper(e)' = Upper(e) /\ exps' = exps /\ calls' = calls
    BY DEF Claims, Upper
  <2> QED BY <2>1 DEF ClaimInv, ClaimOK, Unbounded
<1> QED BY <1>1 DEF ClaimInv

\* A Reset starts an age that no call and no expectation is of.
LEMMA ResetInv ==
  ASSUME IInv, Reset
  PROVE  IInv'
<1> USE DEF IInv
<1>1. /\ UNCHANGED <<exps, calls, stack>> /\ resets' = resets + 1 /\ resets \in Nat
      /\ seq' = 0 /\ log' = <<>>
  BY DEF Reset, MockType
<1>2. MockType' /\ StackInv' /\ LogInv'
  BY <1>1 DEF MockType, StackInv, LogInv
<1>3. /\ \A e \in DOMAIN exps : exps[e].age <= resets /\ exps[e].age \in Nat
      /\ \A d \in DOMAIN calls : calls[d].age <= resets /\ calls[d].age \in Nat
  <2>1. /\ \A e \in DOMAIN exps : exps[e] \in Expectation
        /\ \A d \in DOMAIN calls : calls[d] \in CallRecord
    BY DEF MockType
  <2>2. /\ \A e \in DOMAIN exps : exps[e].age \in Nat
        /\ \A d \in DOMAIN calls : calls[d].age \in Nat
    BY <2>1 DEF Expectation, CallRecord
  <2> QED BY <2>2 DEF CallInv, CallOK
<1>4. /\ \A e \in DOMAIN exps : exps[e].age <= resets' /\ exps[e].age # resets'
      /\ \A d \in DOMAIN calls : calls[d].age <= resets' /\ calls[d].age # resets'
  BY <1>1, <1>3
<1>5. CallInv'
  <2>1. ASSUME NEW d \in DOMAIN calls PROVE CallOK(d)'
    <3>1. CallOK(d)
      BY DEF CallInv
    <3> QED BY <1>1, <1>4, <3>1 DEF CallOK, Unclaimed, Early
  <2> QED BY <1>1, <1>4, <2>1 DEF CallInv
<1>6. FreshInv'
  BY <1>1, <1>4 DEF FreshInv
<1>7. ClaimInv'
  BY <1>1, SameClaims
<1>8. ProhibitInv'
  BY <1>1 DEF ProhibitInv, Prohibits, Upper, Early
<1>9. ReplyInv'
  BY <1>1 DEF ReplyInv, Response
<1> QED BY <1>2, <1>5, <1>6, <1>7, <1>8, <1>9

LEMMA StutterInv ==
  ASSUME IInv, UNCHANGED <<exps, calls, seq, log, stack, resets>>
  PROVE  IInv'
<1>1. MockType' /\ StackInv' /\ LogInv'
  BY DEF IInv, MockType, StackInv, LogInv
<1>2. CallInv' /\ FreshInv'
  BY DEF IInv, CallInv, CallOK, FreshInv, Early, Unclaimed
<1>3. ClaimInv'
  BY SameClaims DEF IInv
<1>4. ProhibitInv' /\ ReplyInv'
  BY DEF IInv, ProhibitInv, Prohibits, Upper, ReplyInv, Response, Early
<1> QED BY <1>1, <1>2, <1>3, <1>4 DEF IInv

LEMMA NextInv == IInv /\ [Next]_vars => IInv'
<1> SUFFICES ASSUME IInv, [Next]_vars PROVE IInv'
  OBVIOUS
<1>1. CASE Arranging /\ Declare
  <2>1. ASSUME NEW e \in DOMAIN exps, NEW f \in DOMAIN exps, InOrder(e, f) PROVE IInv'
    BY <2>1, StutterInv DEF InOrder
  <2> QED BY <1>1, <2>1, ExpectInv, ConfigureInv DEF Declare
<1>2. ASSUME NEW t \in Threads, NEW name \in Methods \cup Spies, MakeCall(t, name) \/ CallFromDo(t, name)
      PROVE  IInv'
  BY <1>2, BeginInv DEF MakeCall, CallFromDo
<1>3. ASSUME NEW t \in Threads, Step(t) PROVE IInv'
  BY <1>3, QuietInv, MatchInv, ClaimKeepsInv DEF Step, Quiet
<1>4. CASE Verify
  BY <1>4, StutterInv DEF Verify
<1>5. CASE Reset
  BY <1>5, ResetInv
<1>6. CASE UNCHANGED vars
  BY <1>6, StutterInv DEF vars
<1> QED BY <1>1, <1>2, <1>3, <1>4, <1>5, <1>6 DEF Next

LEMMA InitInv == Init => IInv
<1> SUFFICES ASSUME Init PROVE IInv
  OBVIOUS
<1>1. MockType /\ StackInv /\ LogInv
  BY DEF Init, MockType, StackInv, LogInv
<1>2. DOMAIN exps = {} /\ DOMAIN calls = {}
  BY DEF Init
<1> QED BY <1>1, <1>2 DEF IInv, CallInv, FreshInv, ClaimInv, ProhibitInv, ReplyInv

-----------------------------------------------------------------------------
LEMMA ClaimsAreCounted ==
  ASSUME IInv, NEW e \in DOMAIN exps
  PROVE  /\ {calls[c].n : c \in Claims(e)} = 1..Cardinality(Claims(e))
         /\ Upper(e) = Unbounded \/ Cardinality(Claims(e)) <= Upper(e)
<1>1. ClaimOK(e)
  BY DEF IInv, ClaimInv
<1> QED BY <1>1 DEF ClaimOK

\* Each claim of an expectation gets a number of its own and none is beyond its maximum, and a call that
\* a prohibition matches claims nothing, however many goroutines call at once.
THEOREM CallsStayWithinBounds == Spec => []WithinBounds
<1>1. IInv => WithinBounds
  <2> SUFFICES ASSUME IInv PROVE WithinBounds
    OBVIOUS
  <2>1. \A e \in DOMAIN exps, c \in DOMAIN calls :
          (/\ Prohibits(e) /\ calls[c].age = exps[e].age
           /\ calls[c].name = exps[e].m /\ calls[c].arg \in exps[e].accepts
           /\ calls[c].at \notin {"begun", "recorded"})
          => calls[c].exp = 0
    BY DEF IInv, ProhibitInv, Early
  <2> QED BY <2>1, ClaimsAreCounted DEF WithinBounds
<1> QED BY <1>1, InitInv, NextInv, PTL DEF Spec

\* The calls of the log are numbered in its order, and the finished calls of an expectation have had its
\* responses in turn, the last of them as often as needed.
THEOREM RepliesAreInTurn == Spec => []RepliesInTurn
<1>1. IInv => RepliesInTurn
  <2> SUFFICES ASSUME IInv PROVE RepliesInTurn
    OBVIOUS
  <2>1. seq = Len(log) /\ \A i \in DOMAIN log : calls[log[i]].seq = i
    BY DEF IInv, LogInv, MockType
  <2>2. ASSUME NEW e \in DOMAIN exps, ~exps[e].do, \A c \in Claims(e) : calls[c].at = "done",
               NEW n, n = Cardinality(Claims(e)), NEW r, r = exps[e].responses
        PROVE  /\ {calls[c].reply : c \in Claims(e)} \ {0} = 1..(IF n < r THEN n ELSE r)
               /\ \A c, d \in Claims(e) : c # d /\ calls[c].reply = calls[d].reply => calls[c].reply = r
    <3>1. ClaimOK(e)
      BY DEF IInv, ClaimInv
    <3>2. n \in Nat /\ r \in Nat /\ n = exps[e].got /\ e # 0
      <4>1. exps[e] \in Expectation /\ e # 0
        BY DEF IInv, MockType
      <4> QED BY <2>2, <3>1, <4>1 DEF ClaimOK, Expectation
    <3>3. \A c \in Claims(e) : calls[c].reply = IF calls[c].n < r THEN calls[c].n ELSE r
      BY <2>2, <3>2 DEF IInv, ReplyInv, Claims, Response
    <3>4. /\ \A c \in Claims(e) : calls[c].n \in 1..n
          /\ \A k \in 1..n : \E c \in Claims(e) : calls[c].n = k
          /\ \A c, d \in Claims(e) : c # d => calls[c].n # calls[d].n
      BY <3>1, <3>2 DEF ClaimOK
    <3>5. \A k \in 1..(IF n < r THEN n ELSE r) : k # 0 /\ \E c \in Claims(e) : calls[c].reply = k
      <4> SUFFICES ASSUME NEW k \in 1..(IF n < r THEN n ELSE r)
                   PROVE  k # 0 /\ \E c \in Claims(e) : calls[c].reply = k
        OBVIOUS
      <4>1. k \in 1..n /\ k <= r /\ k # 0
        BY <3>2
      <4>2. PICK c \in Claims(e) : calls[c].n = k
        BY <3>4, <4>1
      <4> QED BY <3>2, <3>3, <4>1, <4>2
    <3>6. \A c \in Claims(e) : calls[c].reply = 0 \/ calls[c].reply \in 1..(IF n < r THEN n ELSE r)
      <4> SUFFICES ASSUME NEW c \in Claims(e)
                   PROVE  calls[c].reply = 0 \/ calls[c].reply \in 1..(IF n < r THEN n ELSE r)
        OBVIOUS
      <4>1. calls[c].n \in 1..n /\ calls[c].reply = IF calls[c].n < r THEN calls[c].n ELSE r
        BY <3>3, <3>4
      <4> QED BY <3>2, <4>1
    <3>7. ASSUME NEW c \in Claims(e), NEW d \in Claims(e), c # d, calls[c].reply = calls[d].reply
          PROVE  calls[c].reply = r
      BY <3>3, <3>4, <3>7
    <3> QED BY <3>5, <3>6, <3>7
  <2> QED BY <2>1, <2>2 DEF RepliesInTurn
<1> QED BY <1>1, InitInv, NextInv, PTL DEF Spec

-----------------------------------------------------------------------------
(* What a silent Verify means.                                             *)

\* A call of a method that ended without a claim was reported.
RejectInv ==
  \A c \in DOMAIN calls :
    calls[c].at = "done" /\ calls[c].name \in Methods /\ calls[c].exp = 0 => <<"call", c>> \in errors
\* An expectation of this age has only been reported by a Verify that is the last.
UnmetInv ==
  \A e : <<"unmet", e>> \in errors => e \in DOMAIN exps /\ (exps[e].age = resets => verified)
\* The captor has every call that claimed, once, but for those on their way to it.
CaptureOK(e) ==
  /\ \A i, j \in DOMAIN exps[e].captured : exps[e].captured[i] = exps[e].captured[j] => i = j
  /\ {exps[e].captured[i] : i \in DOMAIN exps[e].captured} = {c \in Claims(e) : calls[c].at # "claimed"}
SilenceInv == RejectInv /\ UnmetInv /\ \A e \in DOMAIN exps : CaptureOK(e)

\* What a step may do to expectations that it does not let capture a call.
Standing ==
  /\ DOMAIN exps' = DOMAIN exps /\ resets' = resets
  /\ \A e \in DOMAIN exps : exps'[e].age = exps[e].age /\ exps'[e].captured = exps[e].captured

LEMMA UnmetKept ==
  ASSUME UnmetInv, resets' = resets, verified' = verified, errors \subseteq errors',
         \A e : <<"unmet", e>> \in errors' => <<"unmet", e>> \in errors,
         \A e \in DOMAIN exps : e \in DOMAIN exps' /\ exps'[e].age = exps[e].age
  PROVE  UnmetInv'
  BY DEF UnmetInv

\* A step of a call that neither claims nor is captured.
LEMMA SilenceSteady ==
  ASSUME IInv, SilenceInv, Standing, verified' = verified, errors \subseteq errors',
         \A e : <<"unmet", e>> \in errors' => <<"unmet", e>> \in errors,
         NEW c \in DOMAIN calls, Kept(c), KeptClaim(c), calls[c].at = "claimed" <=> calls'[c].at = "claimed",
         calls'[c].at = "done" /\ calls[c].name \in Methods /\ calls[c].exp = 0 => <<"call", c>> \in errors'
  PROVE  SilenceInv'
<1>1. RejectInv'
  BY DEF SilenceInv, RejectInv, Kept, KeptClaim
<1>2. UnmetInv'
  BY UnmetKept DEF SilenceInv, Standing
<1>3. ASSUME NEW e \in DOMAIN exps PROVE CaptureOK(e)'
  <2>1. Claims(e)' = Claims(e)
    BY DEF Claims, Kept, KeptClaim
  <2>2. \A d \in DOMAIN calls : calls'[d].at = "claimed" <=> calls[d].at = "claimed"
    BY DEF Kept
  <2>3. {d \in Claims(e) : calls'[d].at # "claimed"} = {d \in Claims(e) : calls[d].at # "claimed"}
    BY <2>2 DEF Claims
  <2>4. CaptureOK(e)
    BY DEF SilenceInv
  <2> QED BY <2>1, <2>3, <2>4 DEF CaptureOK, Standing
<1> QED BY <1>1, <1>2, <1>3 DEF SilenceInv, Standing

LEMMA StepSilence ==
  ASSUME IInv, SilenceInv, NEW t \in Threads, Step(t), ~Claim(t), ~NotifyClaim(t)
  PROVE  SilenceInv'
<1> DEFINE c == Top(t)
<1>1. MockType /\ StackInv /\ CallInv
  BY DEF IInv
<1>2. verified' = verified
  BY DEF Step, Record, Match, Forbid, Reject, ReportRejected, Respond, EnterDo, LeaveDo
<1>3. exps' = exps /\ resets' = resets
  BY DEF Step, Record, Match, Forbid, Reject, ReportRejected, Respond, EnterDo, LeaveDo
<1>4. Standing
  BY <1>3 DEF Standing
<1>5. CASE Record(t)
  <2>1. c \in DOMAIN calls /\ calls[c].at = "begun" /\ calls[c] \in CallRecord
    BY <1>1, <1>5, TopIsCall DEF Record
  <2>2. PICK a \in Progress : /\ calls' = [calls EXCEPT ![c].seq = seq', ![c].at = a]
                              /\ a = "recorded" \/ (a = "done" /\ calls[c].name \in Spies)
    BY <1>5 DEF Record, Progress
  <2>3. seq' \in Nat
    BY <1>1, <1>5 DEF Record, MockType
  <2>4. Kept(c) /\ KeptClaim(c) /\ calls'[c].at = a
    BY <1>1, <2>1, <2>2, <2>3, RecordStep
  <2>5. errors' = errors
    BY <1>5 DEF Record
  <2> HIDE DEF c
  <2> QED BY <1>2, <1>4, <2>1, <2>2, <2>4, <2>5, SilenceSteady, MockAssumption
<1>6. CASE Match(t)
  <2>1. c \in DOMAIN calls /\ calls[c].at = "recorded"
    BY <1>1, <1>6, TopIsCall DEF Match
  <2> DEFINE S == {e \in Held(calls[c].name) : calls[c].arg \in exps[e].accepts}
  <2>2. S \in SUBSET Nat /\ resets \in Nat
    BY <1>1 DEF Held, MockType
  <2>3. calls' = [calls EXCEPT ![c].at = "matched", ![c].age = resets, ![c].seen = S]
    BY <1>6 DEF Match
  <2> HIDE DEF S
  <2>4. Kept(c) /\ KeptClaim(c) /\ calls'[c].at = "matched"
    BY <1>1, <2>1, <2>2, <2>3, MatchStep
  <2>5. errors' = errors
    BY <1>6 DEF Match
  <2> HIDE DEF c
  <2> QED BY <1>2, <1>4, <2>1, <2>4, <2>5, SilenceSteady
<1>7. CASE Forbid(t) \/ Reject(t)
  <2>1. c \in DOMAIN calls /\ calls[c].at = "matched"
    BY <1>1, <1>7, TopIsCall DEF Forbid, Reject
  <2>2. Kept(c) /\ KeptClaim(c) /\ calls'[c].at = "rejected"
    BY <1>1, <1>7, <2>1, AtStep DEF Forbid, Reject, Progress
  <2>3. errors' = errors
    BY <1>7 DEF Forbid, Reject
  <2> HIDE DEF c
  <2> QED BY <1>2, <1>4, <2>1, <2>2, <2>3, SilenceSteady
<1>8. CASE ReportRejected(t)
  <2>1. c \in DOMAIN calls /\ calls[c].at = "rejected"
    BY <1>1, <1>8, TopIsCall DEF ReportRejected
  <2>2. Kept(c) /\ KeptClaim(c) /\ calls'[c].at = "done"
    BY <1>1, <1>8, <2>1, AtStep DEF ReportRejected, Progress
  <2>3. errors' = errors \cup {<<"call", c>>}
    BY <1>8 DEF ReportRejected
  <2> HIDE DEF c
  <2>4. \A e : <<"unmet", e>> \in errors' => <<"unmet", e>> \in errors
    BY <2>3
  <2> QED BY <1>2, <1>4, <2>1, <2>2, <2>3, <2>4, SilenceSteady
<1>9. CASE Respond(t) \/ EnterDo(t) \/ LeaveDo(t)
  <2>1. c \in DOMAIN calls /\ calls[c].at \in {"noted", "doing"}
    BY <1>1, <1>9, TopIsCall DEF Respond, EnterDo, LeaveDo
  <2>2. calls[c].exp # 0
    BY <1>1, <2>1 DEF CallInv, CallOK
  <2>3. Kept(c) /\ KeptClaim(c) /\ calls'[c].at \in {"done", "doing"}
    <3>1. CASE Respond(t)
      <4>1. Response(c) \in Nat
        BY <1>1, <3>1, <2>1, ResponseIsNumber DEF Respond, In
      <4> QED BY <1>1, <2>1, <3>1, <4>1, RespondStep DEF Respond, Progress
    <3>2. CASE EnterDo(t)
      BY <1>1, <2>1, <3>2, AtStep DEF EnterDo, Progress
    <3>3. CASE LeaveDo(t)
      BY <1>1, <2>1, <3>3, AtStep DEF LeaveDo, Progress
    <3> QED BY <1>9, <3>1, <3>2, <3>3
  <2>4. errors' = errors
    BY <1>9 DEF Respond, EnterDo, LeaveDo
  <2> HIDE DEF c
  <2> QED BY <1>2, <1>4, <2>1, <2>2, <2>3, <2>4, SilenceSteady
<1> QED BY <1>5, <1>6, <1>7, <1>8, <1>9 DEF Step

\* A claim is on its way to the captor.
LEMMA ClaimSilence ==
  ASSUME IInv, SilenceInv, NEW t \in Threads, Claim(t)
  PROVE  SilenceInv'
<1> DEFINE c == Top(t)
           e == First(Open(c))
           n == exps[e].got + 1
<1>1. MockType /\ StackInv /\ CallInv /\ CallOK(c) /\ c \in DOMAIN calls /\ calls[c].at = "matched"
      /\ calls[c] \in CallRecord
  BY TopIsCall DEF IInv, Claim, CallInv
<1>2. e \in DOMAIN exps /\ e \in Nat /\ e # 0 /\ n \in Nat
  <2>1. Open(c) # {} /\ Open(c) \subseteq Nat /\ Open(c) \subseteq DOMAIN exps
    BY <1>1 DEF Claim, MayClaim, Open, CallOK, CallRecord
  <2>2. e \in Open(c)
    BY <2>1, FirstIsOne
  <2>3. exps[e] \in Expectation /\ e # 0
    BY <1>1, <2>1, <2>2 DEF MockType
  <2> QED BY <2>1, <2>2, <2>3 DEF Expectation
<1>3. /\ exps' = [exps EXCEPT ![e].got = n, ![e].firstSeq = IF @ = 0 THEN calls[c].seq ELSE @]
      /\ calls' = [calls EXCEPT ![c].at = "claimed", ![c].exp = e, ![c].n = n]
      /\ UNCHANGED <<verified, errors, resets>>
  BY DEF Claim
<1>4. calls[c].seq \in Nat
  BY <1>1 DEF CallRecord
<1> HIDE DEF n, e, c
<1>5. Standing
  BY <1>1, <1>2, <1>3, <1>4, GotStep DEF Standing
<1>6. Kept(c) /\ calls'[c].at = "claimed" /\ calls'[c].exp = e
  BY <1>1, <1>2, <1>3, ClaimStep
<1>7. RejectInv'
  BY <1>3, <1>6 DEF SilenceInv, RejectInv, Kept
<1>8. UnmetInv'
  BY <1>3, <1>5, UnmetKept DEF SilenceInv, Standing
<1>9. ASSUME NEW f \in DOMAIN exps PROVE CaptureOK(f)'
  <2>1. f # 0 /\ calls[c].exp = 0
    BY <1>1 DEF MockType, CallOK, Unclaimed
  <2>2. \A d \in DOMAIN calls : d # c => calls'[d] = calls[d]
    BY <1>6 DEF Kept
  <2>3. {d \in Claims(f)' : calls'[d].at # "claimed"} = {d \in Claims(f) : calls[d].at # "claimed"}
    BY <1>6, <2>1, <2>2 DEF Claims, Kept
  <2>4. CaptureOK(f)
    BY DEF SilenceInv
  <2> QED BY <1>5, <2>3, <2>4 DEF CaptureOK, Standing
<1> QED BY <1>5, <1>7, <1>8, <1>9 DEF SilenceInv, Standing

LEMMA NotifySilence ==
  ASSUME IInv, SilenceInv, NEW t \in Threads, NotifyClaim(t)
  PROVE  SilenceInv'
<1> DEFINE c == Top(t)
           e == calls[c].exp
<1>1. MockType /\ StackInv /\ CallInv /\ CallOK(c) /\ c \in DOMAIN calls /\ c \in Nat /\ calls[c].at = "claimed"
  BY TopIsCall DEF IInv, NotifyClaim, CallInv
<1>2. e \in DOMAIN exps /\ e # 0
  BY <1>1 DEF CallOK
<1>3. /\ exps' = [exps EXCEPT ![e].captured = Append(@, c)]
      /\ calls' = [calls EXCEPT ![c].at = "noted"]
      /\ UNCHANGED <<verified, errors, resets>>
  BY DEF NotifyClaim
<1>4. Kept(c) /\ KeptClaim(c) /\ calls'[c].at = "noted"
  BY <1>1, <1>3, AtStep DEF Progress
<1> HIDE DEF c
<1>5. PICK f : f = e
  OBVIOUS
<1>6. /\ DOMAIN exps' = DOMAIN exps /\ \A g \in DOMAIN exps : exps'[g].age = exps[g].age
      /\ exps'[f].captured = Append(exps[f].captured, c)
      /\ \A g \in DOMAIN exps : g # f => exps'[g] = exps[g]
  <2>1. MockType /\ f \in DOMAIN exps /\ c \in Nat
    BY <1>1, <1>2, <1>5
  <2>2. exps' = [exps EXCEPT ![f].captured = Append(@, c)]
    BY <1>3, <1>5
  <2> HIDE DEF e
  <2>3. SameExps /\ exps'[f].captured = Append(exps[f].captured, c)
        /\ \A g \in DOMAIN exps : g # f => exps'[g] = exps[g]
    BY <2>1, <2>2, CaptureStep
  <2> QED BY <2>3 DEF SameExps
<1>7. RejectInv'
  BY <1>3, <1>4 DEF SilenceInv, RejectInv, Kept, KeptClaim
<1>8. UnmetInv'
  BY <1>3, <1>6, UnmetKept DEF SilenceInv
<1>9. \A g \in DOMAIN exps : Claims(g)' = Claims(g)
  BY <1>4 DEF Claims, Kept, KeptClaim
<1>10. ASSUME NEW g \in DOMAIN exps PROVE CaptureOK(g)'
  <2>1. CaptureOK(g)
    BY DEF SilenceInv
  <2>2. \A d \in DOMAIN calls : d # c => calls'[d] = calls[d]
    BY <1>4 DEF Kept
  <2>3. CASE g # f
    <3>1. {d \in Claims(g) : calls'[d].at # "claimed"} = {d \in Claims(g) : calls[d].at # "claimed"}
      BY <1>5, <2>2, <2>3 DEF Claims
    <3> QED BY <1>6, <1>9, <2>1, <2>3, <3>1 DEF CaptureOK
  <2>4. CASE g = f
    <3>1. {d \in Claims(g) : calls'[d].at # "claimed"} = {d \in Claims(g) : calls[d].at # "claimed"} \cup {c}
      BY <1>1, <1>4, <1>5, <2>2, <2>4 DEF Claims
    <3>2. exps[g].captured \in Seq(Nat)
      <4>1. exps[g] \in Expectation
        BY <1>1 DEF MockType
      <4> QED BY <4>1 DEF Expectation
    <3>3. \A i \in DOMAIN exps[g].captured : exps[g].captured[i] # c
      BY <1>1, <2>1 DEF CaptureOK
    <3>4. PICK s, q : s = exps[g].captured /\ q = Append(s, c)
      OBVIOUS
    <3>5. exps'[g].captured = q
      BY <1>6, <2>4, <3>4
    <3>6. /\ \A i, j \in DOMAIN q : q[i] = q[j] => i = j
          /\ {q[i] : i \in DOMAIN q} = {exps[g].captured[i] : i \in DOMAIN exps[g].captured} \cup {c}
      <4>1. \A i, j \in DOMAIN s : s[i] = s[j] => i = j
        BY <2>1, <3>4 DEF CaptureOK
      <4>2. s \in Seq(Nat) /\ (\A i \in DOMAIN s : s[i] # c) /\ c \in Nat
        BY <1>1, <3>2, <3>3, <3>4
      <4>3. /\ Len(s) \in Nat /\ DOMAIN s = 1..Len(s) /\ DOMAIN q = 1..(Len(s) + 1)
            /\ \A i \in 1..Len(s) : q[i] = s[i]
            /\ q[Len(s) + 1] = c
        BY <3>4, <4>2, AppendProperties
      <4>4. \A i \in DOMAIN q : (i \in DOMAIN s /\ q[i] = s[i]) \/ (i = Len(s) + 1 /\ q[i] = c)
        BY <4>3
      <4>5. \A i, j \in DOMAIN q : q[i] = q[j] => i = j
        BY <4>1, <4>2, <4>4
      <4>6. {q[i] : i \in DOMAIN q} = {s[i] : i \in DOMAIN s} \cup {c}
        <5>1. /\ \A i \in DOMAIN s : i \in DOMAIN q /\ q[i] = s[i]
              /\ Len(s) + 1 \in DOMAIN q
          BY <4>3
        <5> QED BY <4>3, <4>4, <5>1
      <4> QED BY <3>4, <4>5, <4>6
    <3>7. {exps[g].captured[i] : i \in DOMAIN exps[g].captured} = {d \in Claims(g) : calls[d].at # "claimed"}
      BY <2>1 DEF CaptureOK
    <3>8. {q[i] : i \in DOMAIN q} = {d \in Claims(g)' : calls'[d].at # "claimed"}
      BY <1>9, <3>1, <3>6, <3>7
    <3> QED BY <3>5, <3>6, <3>8 DEF CaptureOK
  <2> QED BY <2>3, <2>4
<1> QED BY <1>6, <1>7, <1>8, <1>10 DEF SilenceInv

LEMMA BeginSilence ==
  ASSUME IInv, SilenceInv, NEW t \in Threads, NEW name \in Methods \cup Spies, Begin(t, name)
  PROVE  SilenceInv'
<1>1. PICK arg \in Arguments : calls' = Append(calls, NewCall(name, arg))
  BY DEF Begin
<1>2. PICK r : r = NewCall(name, arg)
  OBVIOUS
<1>3. r \in CallRecord /\ r.at = "begun" /\ r.exp = 0
  BY <1>2 DEF NewCall, CallRecord, Progress
<1>4. PICK k : k = Len(calls) + 1
  OBVIOUS
<1>5. /\ DOMAIN calls' = DOMAIN calls \cup {k} /\ calls'[k] = r
      /\ \A d \in DOMAIN calls : calls'[d] = calls[d] /\ d # k
  <2>1. calls \in Seq(CallRecord) /\ Len(calls) \in Nat /\ DOMAIN calls = 1..Len(calls)
    BY DEF IInv, MockType
  <2>2. /\ DOMAIN calls' = 1..k /\ \A i \in 1..Len(calls) : calls'[i] = calls[i]
        /\ calls'[k] = r
    BY <1>1, <1>2, <1>3, <1>4, <2>1, AppendProperties
  <2> QED BY <1>4, <2>1, <2>2
<1>6. UNCHANGED <<exps, verified, errors, resets>>
  BY DEF Begin
<1>7. RejectInv' /\ UnmetInv'
  BY <1>3, <1>5, <1>6 DEF SilenceInv, RejectInv, UnmetInv
<1>8. ASSUME NEW e \in DOMAIN exps PROVE CaptureOK(e)'
  <2>1. e # 0 /\ CaptureOK(e)
    BY DEF IInv, MockType, SilenceInv
  <2>2. {d \in Claims(e)' : calls'[d].at # "claimed"} = {d \in Claims(e) : calls[d].at # "claimed"}
    BY <1>3, <1>5, <2>1 DEF Claims
  <2> QED BY <1>6, <2>1, <2>2 DEF CaptureOK
<1> QED BY <1>6, <1>7, <1>8 DEF SilenceInv

LEMMA ExpectSilence ==
  ASSUME IInv, SilenceInv, NEW m \in Methods, NEW accepts \in Accepts, Expect(m, accepts)
  PROVE  SilenceInv'
<1> DEFINE new == [m |-> m, accepts |-> accepts, age |-> resets,
                   kind |-> "default", min |-> 0, max |-> 0, responses |-> 0, do |-> FALSE,
                   got |-> 0, firstSeq |-> 0, captured |-> <<>>]
<1>1. PICK k : k = Len(exps) + 1
  OBVIOUS
<1>2. new \in Expectation /\ new.captured = <<>>
  BY MockAssumption DEF Expectation, IInv, MockType
<1>3. exps' = Append(exps, new) /\ UNCHANGED <<calls, verified, errors, resets>>
  BY DEF Expect
<1> HIDE DEF new
<1>4. /\ DOMAIN exps' = DOMAIN exps \cup {k} /\ exps'[k] = new /\ k \notin DOMAIN exps /\ k # 0
      /\ \A e \in DOMAIN exps : exps'[e] = exps[e]
  <2>1. exps \in Seq(Expectation) /\ Len(exps) \in Nat /\ DOMAIN exps = 1..Len(exps)
    BY DEF IInv, MockType
  <2>2. /\ DOMAIN exps' = 1..k /\ \A i \in 1..Len(exps) : exps'[i] = exps[i]
        /\ exps'[k] = new
    BY <1>1, <1>2, <1>3, <2>1, AppendProperties
  <2> QED BY <1>1, <2>1, <2>2
<1>5. RejectInv' /\ UnmetInv'
  BY <1>3, <1>4 DEF SilenceInv, RejectInv, UnmetInv
<1>6. \A e : Claims(e)' = Claims(e)
  BY <1>3 DEF Claims
<1>7. ASSUME NEW e \in DOMAIN exps PROVE CaptureOK(e)'
  <2>1. CaptureOK(e)
    BY DEF SilenceInv
  <2> QED BY <1>3, <1>4, <1>6, <2>1 DEF CaptureOK
<1>8. CaptureOK(k)'
  <2>1. \A d \in DOMAIN calls : calls[d].exp # k
    BY <1>4 DEF IInv, CallInv, CallOK
  <2>2. Claims(k)' = {}
    BY <1>3, <2>1 DEF Claims
  <2>3. exps'[k].captured = <<>> /\ DOMAIN <<>> = {}
    BY <1>2, <1>4
  <2> QED BY <1>1, <1>3, <2>2, <2>3 DEF CaptureOK
<1> QED BY <1>4, <1>5, <1>7, <1>8 DEF SilenceInv

LEMMA ConfigureSilence ==
  ASSUME IInv, SilenceInv, NEW e \in DOMAIN exps,
         SetCount(e) \/ AnyTimes(e) \/ AtLeast(e) \/ AtMost(e) \/ Return(e) \/ Do(e)
  PROVE  SilenceInv'
<1>1. /\ UNCHANGED <<calls, resets>> /\ DOMAIN exps' = DOMAIN exps
      /\ \A f \in DOMAIN exps : exps'[f].age = exps[f].age /\ exps'[f].captured = exps[f].captured
  BY ConfigureStep DEF Configured, IInv
<1>2. UNCHANGED <<verified, errors>>
  BY DEF SetCount, AnyTimes, AtLeast, AtMost, Return, Do, Bound, Configure
<1>3. RejectInv' /\ UnmetInv'
  BY <1>1, <1>2 DEF SilenceInv, RejectInv, UnmetInv
<1>4. \A f \in DOMAIN exps : CaptureOK(f)'
  BY <1>1 DEF SilenceInv, CaptureOK, Claims
<1> QED BY <1>1, <1>3, <1>4 DEF SilenceInv

\* What is neither a step of a call nor a declaration.
LEMMA OtherSilence ==
  ASSUME IInv, SilenceInv, UNCHANGED <<exps, calls>>, errors \subseteq errors',
         \A c : <<"call", c>> \in errors => <<"call", c>> \in errors', UnmetInv'
  PROVE  SilenceInv'
<1>1. RejectInv'
  BY DEF SilenceInv, RejectInv
<1>2. \A f \in DOMAIN exps : CaptureOK(f)'
  BY DEF SilenceInv, CaptureOK, Claims
<1> QED BY <1>1, <1>2 DEF SilenceInv

LEMMA NextSilence == IInv /\ SilenceInv /\ [Next]_vars => SilenceInv'
<1> SUFFICES ASSUME IInv, SilenceInv, [Next]_vars PROVE SilenceInv'
  OBVIOUS
<1>1. CASE Arranging /\ Declare
  <2>1. ASSUME NEW e \in DOMAIN exps, NEW f \in DOMAIN exps, InOrder(e, f) PROVE SilenceInv'
    BY <2>1, OtherSilence DEF InOrder, SilenceInv, UnmetInv
  <2> QED BY <1>1, <2>1, ExpectSilence, ConfigureSilence DEF Declare
<1>2. ASSUME NEW t \in Threads, NEW name \in Methods \cup Spies, MakeCall(t, name) \/ CallFromDo(t, name)
      PROVE  SilenceInv'
  BY <1>2, BeginSilence DEF MakeCall, CallFromDo
<1>3. ASSUME NEW t \in Threads, Step(t) PROVE SilenceInv'
  BY <1>3, StepSilence, ClaimSilence, NotifySilence
<1>4. CASE Verify
  <2>1. UnmetInv'
    <3>1. \A e : <<"unmet", e>> \in errors' => <<"unmet", e>> \in errors \/ e \in DOMAIN exps
      BY <1>4 DEF Verify, Unmet
    <3> QED BY <1>4, <3>1 DEF Verify, SilenceInv, UnmetInv
  <2> QED BY <1>4, <2>1, OtherSilence DEF Verify
<1>5. CASE Reset
  <2>1. \A e \in DOMAIN exps : exps[e].age <= resets /\ exps[e].age \in Nat
    <3>1. \A e \in DOMAIN exps : exps[e] \in Expectation
      BY DEF IInv, MockType
    <3> QED BY <3>1 DEF IInv, CallInv, Expectation
  <2>2. \A e \in DOMAIN exps : exps[e].age # resets'
    BY <1>5, <2>1 DEF Reset, IInv, MockType
  <2>3. UnmetInv'
    BY <1>5, <2>2 DEF Reset, SilenceInv, UnmetInv
  <2> QED BY <1>5, <2>3, OtherSilence DEF Reset
<1>6. CASE UNCHANGED vars
  BY <1>6, OtherSilence DEF vars, SilenceInv, UnmetInv
<1> QED BY <1>1, <1>2, <1>3, <1>4, <1>5, <1>6 DEF Next

LEMMA InitSilence == Init => SilenceInv
<1> SUFFICES ASSUME Init PROVE SilenceInv
  OBVIOUS
<1>1. DOMAIN exps = {} /\ DOMAIN calls = {} /\ errors = {}
  BY DEF Init
<1> QED BY <1>1 DEF SilenceInv, RejectInv, UnmetInv

\* A sequence without repeats is as long as what it holds.
LEMMA CountOfDistinct ==
  ASSUME NEW s \in Seq(Nat), \A i, j \in DOMAIN s : s[i] = s[j] => i = j
  PROVE  Cardinality({s[i] : i \in DOMAIN s}) = Len(s)
<1> DEFINE S == {s[i] : i \in DOMAIN s}
<1>1. Len(s) \in Nat /\ DOMAIN s = 1..Len(s)
  OBVIOUS
<1>2. s \in [1..Len(s) -> S]
  BY <1>1
<1>3. s \in Bijection(1..Len(s), S)
  BY <1>1, <1>2 DEF Bijection, Injection, Surjection, IsInjective
<1>4. ExistsBijection(1..Len(s), S)
  BY <1>3 DEF ExistsBijection
<1> HIDE DEF S
<1>5. Cardinality(S) = Len(s)
  BY <1>1, <1>4, FS_CountingElements
<1> QED BY <1>5 DEF S

\* When the test's Verify reports nothing, with no call under way and none reported, every expectation
\* has been claimed as often as it wants, its captor holds its calls, each once, and every call of the log
\* was claimed: Verify's silence is no accident of what calls overlapped.
THEOREM SilenceAlwaysMeansMet == Spec => SilenceMeansMet
<1> DEFINE Met == /\ \A e \in DOMAIN exps : exps[e].age = resets =>
                       /\ Cardinality(Claims(e)) >= Lower(e)
                       /\ {exps[e].captured[i] : i \in DOMAIN exps[e].captured} = Claims(e)
                       /\ Len(exps[e].captured) = Cardinality(Claims(e))
                  /\ \A i \in DOMAIN log : calls[log[i]].name \in Methods => calls[log[i]].exp # 0
           Silence == verified' /\ ~verified /\ errors' = errors /\ Silent /\ ~InFlight
<1>1. ASSUME IInv, SilenceInv, [Next]_vars PROVE [Silence => Met]_vars
  <2> SUFFICES ASSUME Silence PROVE Met
    OBVIOUS
  <2>1. Verify
    <3>1. verified' = verified \/ Verify \/ ~verified'
      <4>1. Declare => verified' = verified
        BY DEF Declare, Expect, SetCount, AnyTimes, AtLeast, AtMost, Return, Do, Bound, Configure, InOrder
      <4>2. \A t \in Threads, name \in Methods \cup Spies :
              MakeCall(t, name) \/ CallFromDo(t, name) => verified' = verified
        BY DEF MakeCall, CallFromDo, Begin
      <4>3. \A t \in Threads : Step(t) => verified' = verified
        BY DEF Step, Record, Match, Forbid, Claim, Reject, ReportRejected, NotifyClaim, Respond, EnterDo, LeaveDo
      <4>4. Reset => ~verified'
        BY DEF Reset
      <4> QED BY <1>1, <4>1, <4>2, <4>3, <4>4 DEF Next, vars
    <3> QED BY <3>1
  <2>2. \A c \in DOMAIN calls : calls[c].at = "done"
    <3>1. \A t \in Threads : stack[t] = <<>>
      BY DEF InFlight
    <3> QED BY <1>1, <3>1 DEF IInv, StackInv
  <2>3. \A i \in DOMAIN log : calls[log[i]].name \in Methods => calls[log[i]].exp # 0
    <3>1. \A i \in DOMAIN log : log[i] \in DOMAIN calls
      BY <1>1 DEF IInv, MockType, LogInv
    <3> QED BY <1>1, <2>2, <3>1 DEF SilenceInv, RejectInv, Silent
  <2>4. ASSUME NEW e \in DOMAIN exps, exps[e].age = resets
        PROVE  /\ Cardinality(Claims(e)) >= Lower(e)
               /\ {exps[e].captured[i] : i \in DOMAIN exps[e].captured} = Claims(e)
               /\ Len(exps[e].captured) = Cardinality(Claims(e))
    <3>1. exps[e] \in Expectation
      BY <1>1 DEF IInv, MockType
    <3>2. exps[e].got \in Nat /\ Lower(e) \in Nat /\ exps[e].captured \in Seq(Nat)
      BY <3>1 DEF Lower, Expectation
    <3>3. Cardinality(Claims(e)) = exps[e].got
      BY <1>1 DEF IInv, ClaimInv, ClaimOK
    <3>4. exps[e].got >= Lower(e)
      <4>1. <<"unmet", e>> \notin errors
        BY <1>1, <2>4 DEF SilenceInv, UnmetInv
      <4>2. e \in Unmet => <<"unmet", e>> \in errors'
        BY <2>1 DEF Verify
      <4> QED BY <2>4, <3>2, <4>1, <4>2 DEF Unmet
    <3>5. {exps[e].captured[i] : i \in DOMAIN exps[e].captured} = Claims(e)
      <4>1. \A c \in Claims(e) : calls[c].at # "claimed"
        BY <2>2 DEF Claims
      <4> QED BY <1>1, <4>1 DEF SilenceInv, CaptureOK
    <3>6. Len(exps[e].captured) = Cardinality(Claims(e))
      <4>1. \A i, j \in DOMAIN exps[e].captured : exps[e].captured[i] = exps[e].captured[j] => i = j
        BY <1>1 DEF SilenceInv, CaptureOK
      <4> QED BY <3>2, <3>5, <4>1, CountOfDistinct
    <3> QED BY <3>2, <3>3, <3>4, <3>5, <3>6
  <2> QED BY <2>3, <2>4
<1> QED BY <1>1, InitInv, NextInv, InitSilence, NextSilence, PTL DEF Spec, SilenceMeansMet
=============================================================================

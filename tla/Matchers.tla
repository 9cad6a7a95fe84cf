------------------------------ MODULE Matchers ------------------------------
(***************************************************************************)
(* One assertion with one matcher (assert/evaluate.go and the matchers of  *)
(* assert/): the package-level Evaluate, the verdict of Match, a message   *)
(* asked for after it, and whom they ask on the way.                       *)
(*                                                                         *)
(* A nil matcher, typed or not, is NilMatcher.  A call names the matcher   *)
(* by its path in the tree and the value by its path in the actual (0      *)
(* leads through a projection).                                            *)
(* What a failure message says is a set of claims, each that a matcher did *)
(* or did not match a value.                                               *)
(***************************************************************************)
EXTENDS LeafMatchers

CONSTANTS
  Assertions,  \* sets of pairs of a matcher and the actual it is asked about
  ListLimit    \* quantifiedListLimit

ASSUME MatchersAssumption == ListLimit \in Nat \ {0}

VARIABLES
  assertion,  \* the matcher and the actual
  way,        \* how it was asked: "none" at first, "Match" and then "FailureMessage", or "Evaluate"
  answer      \* what it answered
vars == <<assertion, way, answer>>

NilMatcher == Matcher("nil", 0, <<>>, <<>>)
IsNil(m) == m = NilMatcher
HasNil(m) == \E i \in DOMAIN m.subs : IsNil(m.subs[i])

Counting   == {"ExactlyNElements", "AtLeastNElements", "AtMostNElements"}
Quantified == {"EveryElement", "AnyElement", "NoElement"} \cup Counting
Ordered    == {"HaveElementsInOrder", "ContainElementsInOrder"}
Composites == {"Not", "All", "Any", "Project"} \cup Quantified \cup Ordered

-----------------------------------------------------------------------------
(* Answers.                                                                *)

Answer(ok, calls, told) == [ok |-> ok, calls |-> calls, told |-> told]
Call(what, p, q)        == <<what, p, q>>
Says(m, x, matched, why) == [matcher |-> m, value |-> x, matched |-> matched, why |-> why]
Claim(m, x, matched)    == Says(m, x, matched, Plain("verdict"))
Refused(m, x)           == Answer(FALSE, <<>>, {Claim(m, x, FALSE)})

CallsOf(answers)   == FlattenSeq([i \in DOMAIN answers |-> answers[i].calls])
UpTo(answers, ok)  ==  \* the answers up to the first that is ok, or is not
  LET hits == {i \in DOMAIN answers : answers[i].ok = ok}
  IN IF hits = {} THEN answers ELSE SubSeq(answers, 1, Min(hits))
Failures(answers)  == SelectSeq(answers, LAMBDA r : ~ r.ok)
AllTold(answers)   == UNION {answers[i].told : i \in DOMAIN answers}
\* The answers of several that must all be ok, or of which one must be.
Conjoined(rs) == Answer(Failures(rs) = <<>>, CallsOf(rs), AllTold(Failures(rs)))
Disjoined(rs) ==
  LET ok == Failures(rs) # rs IN Answer(ok, CallsOf(rs), IF ok THEN {} ELSE AllTold(rs))
\* elementListing: what a message has room for.
Listed(seq) == SubSeq(seq, 1, IF Len(seq) < ListLimit THEN Len(seq) ELSE ListLimit)

RECURSIVE Match(_, _, _, _), Evaluate(_, _, _, _), FailureMessage(_, _, _, _)

\* Entry i of m asked about x; and the one sub-matcher asked about element i of x.
EntryMatch(m, p, x, q, i)    == Match(m.subs[i], Append(p, i), x, q)
EntryEvaluate(m, p, x, q, i) == Evaluate(m.subs[i], Append(p, i), x, q)
ElementEvaluate(m, k, p, x, q, i) == Evaluate(m.subs[k], Append(p, k), x.elems[i], Append(q, i))

-----------------------------------------------------------------------------
(* Not, All, Any.                                                          *)

Negated(m, x, r) == Answer(~ r.ok, r.calls, IF r.ok THEN {Claim(m.subs[1], x, TRUE)} ELSE {})
\* Mutant: it quotes what the sub-matcher says when it fails.
NotEvaluate_Quotes(m, p, x, q) ==
  IF HasNil(m) THEN Refused(m, x)
  ELSE LET r == EntryMatch(m, p, x, q, 1)
       IN Answer(~ r.ok, r.calls, IF r.ok THEN {Claim(m.subs[1], x, FALSE)} ELSE {})
\* notMatcher.Evaluate: Match of the sub-matcher, never its message.
NotEvaluate(m, p, x, q) ==
  IF HasNil(m) THEN Refused(m, x) ELSE Negated(m, x, EntryMatch(m, p, x, q, 1))

\* Mutant: Match decides, and a failure asks every entry again.
AllEvaluate_Again(m, p, x, q) ==
  LET first == UpTo([i \in DOMAIN m.subs |-> EntryMatch(m, p, x, q, i)], FALSE)
      again == [i \in DOMAIN m.subs |-> EntryEvaluate(m, p, x, q, i)]
  IN IF \A i \in DOMAIN first : first[i].ok THEN Answer(TRUE, CallsOf(first), {})
     ELSE Answer(FALSE, CallsOf(first) \o CallsOf(again), AllTold(Failures(again)))
\* allMatcher.Evaluate: every entry once, past a failure too.
AllEvaluate(m, p, x, q) == Conjoined([i \in DOMAIN m.subs |-> EntryEvaluate(m, p, x, q, i)])

\* anyMatcher.Evaluate: a nil entry dooms it unasked; else until the first match.
AnyEvaluate(m, p, x, q) ==
  CASE m.subs = <<>> -> Refused(m, x)
    [] HasNil(m)     -> Answer(FALSE, <<>>, {Claim(NilMatcher, x, FALSE)})
    [] OTHER -> Disjoined(UpTo([i \in DOMAIN m.subs |-> EntryEvaluate(m, p, x, q, i)], TRUE))

\* Match of All and of Any: both stop early, Any looks for nil entries first.
AllMatch(m, p, x, q) ==
  Conjoined(UpTo([i \in DOMAIN m.subs |-> EntryMatch(m, p, x, q, i)], FALSE))
AnyMatch(m, p, x, q) ==
  IF HasNil(m) THEN Answer(FALSE, <<>>, {})
  ELSE Disjoined(UpTo([i \in DOMAIN m.subs |-> EntryMatch(m, p, x, q, i)], TRUE))

-----------------------------------------------------------------------------
(* The quantified and the ordered matchers.                                *)

QuantifiedRefuses(m, x) ==
  HasNil(m) \/ (m.op \in Counting /\ m.n < 0) \/ ~ IsList(x)

\* Whether count of total matching elements satisfy m.
Quantifies(m, count, total) ==
  CASE m.op = "EveryElement"     -> count = total
    [] m.op = "AnyElement"       -> count > 0
    [] m.op = "NoElement"        -> count = 0
    [] m.op = "ExactlyNElements" -> count = m.n
    [] m.op = "AtLeastNElements" -> count >= m.n
    [] m.op = "AtMostNElements"  -> count <= m.n

\* How many elements are judged: AnyElement and AtLeastNElements stop once they hold.
Judged(m, rs) ==
  LET count(k) == Cardinality({i \in 1..k : rs[i].ok})
      enough == {k \in 0..Len(rs) : Quantifies(m, count(k), Len(rs))}
  IN IF m.op \in {"AnyElement", "AtLeastNElements"} /\ enough # {} THEN Min(enough) ELSE Len(rs)

\* The message: the matching elements, and the others with what the sub-matcher said of them.
QuantifiedTold(m, x, rs) ==
  LET hits   == SelectSeq([i \in DOMAIN rs |-> i], LAMBDA i : rs[i].ok)
      misses == Failures(rs)
      held   == {Claim(m.subs[1], x.elems[i], TRUE) : i \in ToSet(Listed(hits))}
      failed == AllTold(Listed(misses))
      told   == CASE m.op \in {"EveryElement", "AnyElement"} -> failed
                  [] m.op = "NoElement" -> held
                  [] m.op \in Counting  -> held \cup (IF Len(hits) < m.n THEN failed ELSE {})
  IN IF told = {} THEN {Claim(m, x, FALSE)} ELSE told

\* The verdict on the elements that are judged.
QuantifiedVerdict(m, x, rs) ==
  LET ok == Quantifies(m, Len(rs) - Len(Failures(rs)), Len(rs))
  IN Answer(ok, CallsOf(rs), IF ok THEN {} ELSE QuantifiedTold(m, x, rs))
FirstJudged(m, rs) == SubSeq(rs, 1, Judged(m, rs))
QuantifiedEvaluate(m, p, x, q) ==
  IF QuantifiedRefuses(m, x) THEN Refused(m, x)
  ELSE QuantifiedVerdict(m, x,
         FirstJudged(m, [i \in DOMAIN x.elems |-> ElementEvaluate(m, 1, p, x, q, i)]))

\* evaluateExact: position by position, as far as both go.
ExactVerdict(m, x, rs) ==
  LET even == Len(x.elems) = Len(m.subs)
      told == AllTold(Listed(Failures(rs))) \cup (IF even THEN {} ELSE {Claim(m, x, FALSE)})
  IN Answer(even /\ Failures(rs) = <<>>, CallsOf(rs), told)
ExactEvaluate(m, p, x, q) ==
  ExactVerdict(m, x, [i \in DOMAIN x.elems \cap DOMAIN m.subs |-> ElementEvaluate(m, i, p, x, q, i)])

\* evaluateSubsequence: the elements in turn, each for the first matcher that has none yet.
Advance(acc, r) ==
  IF r.ok THEN [next |-> acc.next + 1, calls |-> acc.calls \o r.calls, misses |-> <<>>]
  ELSE [acc EXCEPT !.calls = @ \o r.calls, !.misses = Append(@, r)]
SubsequenceVerdict(m, x, end) ==
  LET told == AllTold(Listed(end.misses))
      ok   == end.next > Len(m.subs)
  IN Answer(ok, end.calls, IF ok THEN {} ELSE IF told = {} THEN {Claim(m, x, FALSE)} ELSE told)
SubsequenceEvaluate(m, p, x, q) ==
  LET Judge(acc, i) ==
        IF acc.next > Len(m.subs) THEN acc ELSE Advance(acc, ElementEvaluate(m, acc.next, p, x, q, i))
  IN SubsequenceVerdict(m, x, FoldLeft(Judge, [next |-> 1, calls |-> <<>>, misses |-> <<>>],
                                       [i \in DOMAIN x.elems |-> i]))

OrderedEvaluate(m, p, x, q) ==
  CASE HasNil(m)     -> Answer(FALSE, <<>>, {Claim(NilMatcher, x, FALSE)})
    [] ~ HasNil(m) /\ ~ IsList(x) -> Refused(m, x)
    [] ~ HasNil(m) /\ IsList(x)   ->
         IF m.op = "HaveElementsInOrder" THEN ExactEvaluate(m, p, x, q)
         ELSE SubsequenceEvaluate(m, p, x, q)

-----------------------------------------------------------------------------
(* Project: the first element of a []any.  n = 0: no projection was given. *)

\* prepare: what keeps the child from being asked, before and after the projection ran.
NotProjected(m, x) == m.n = 0 \/ HasNil(m) \/ x.type # "[]any"
After(call, r) == [r EXCEPT !.calls = <<call>> \o @]
Project(m, p, x, q, how) ==
  LET ran == Call("project", p, q) IN
  CASE NotProjected(m, x) -> Refused(m, x)
    [] ~ NotProjected(m, x) /\ x.elems = <<>> -> Answer(FALSE, <<ran>>, {Claim(m, x, FALSE)})  \* it panicked
    [] ~ NotProjected(m, x) /\ x.elems # <<>> ->
         After(ran, IF how = "Match" THEN Match(m.subs[1], Append(p, 1), x.elems[1], Append(q, 0))
                    ELSE Evaluate(m.subs[1], Append(p, 1), x.elems[1], Append(q, 0)))

-----------------------------------------------------------------------------
(* The ways to ask.                                                        *)

\* Match; only the composites that look at a nil entry call it on one, and none asks it.
Match(m, p, x, q) ==
  LET Silent(r) == Answer(r.ok, r.calls, {}) IN
  CASE IsNil(m)           -> Answer(FALSE, <<>>, {})
    [] m.op = "Not"       -> Silent(NotEvaluate(m, p, x, q))
    [] m.op = "All"       -> AllMatch(m, p, x, q)
    [] m.op = "Any"       -> AnyMatch(m, p, x, q)
    [] m.op = "Project"   -> Silent(Project(m, p, x, q, "Match"))
    [] m.op \in Quantified -> Silent(QuantifiedEvaluate(m, p, x, q))
    [] m.op \in Ordered   -> Silent(OrderedEvaluate(m, p, x, q))
    [] ~ IsNil(m) /\ m.op \notin Composites -> Answer(LeafMatches(m, x), <<Call("match", p, q)>>, {})

\* Evaluate: the Evaluator where there is one; else Match and, when it fails, the message.
Evaluate(m, p, x, q) ==
  CASE IsNil(m)           -> Answer(FALSE, <<>>, {Claim(m, x, FALSE)})
    [] m.op = "Not"       -> NotEvaluate(m, p, x, q)
    [] m.op = "All"       -> AllEvaluate(m, p, x, q)
    [] m.op = "Any"       -> AnyEvaluate(m, p, x, q)
    [] m.op = "Project"   -> Project(m, p, x, q, "Evaluate")
    [] m.op \in Quantified -> QuantifiedEvaluate(m, p, x, q)
    [] m.op \in Ordered   -> OrderedEvaluate(m, p, x, q)
    [] ~ IsNil(m) /\ m.op \notin Composites ->
         IF LeafMatches(m, x) THEN Answer(TRUE, <<Call("match", p, q)>>, {})
         ELSE Answer(FALSE, <<Call("match", p, q), Call("message", p, q)>>, {Says(m, x, FALSE, Reason(m, x))})

\* notMatcher.FailureMessage asks nobody: its sub-matcher succeeded.
NotExplained(m, x) ==
  IF HasNil(m) THEN Refused(m, x) ELSE Answer(FALSE, <<>>, {Claim(m.subs[1], x, TRUE)})
\* allMatcher.FailureMessage: every entry is asked again, and those that fail for a message.
Explained(asked, said) == IF asked.ok THEN asked ELSE [said EXCEPT !.calls = asked.calls \o @]
Unmatched(rs) == Answer(FALSE, CallsOf(rs), AllTold(rs))
AllExplained(m, p, x, q) ==
  Unmatched([i \in DOMAIN m.subs |->
    Explained(EntryMatch(m, p, x, q, i), FailureMessage(m.subs[i], Append(p, i), x, q))])
\* anyMatcher.FailureMessage: the same, but that a nil entry keeps the others from being asked.
AnyExplained(m, p, x, q) ==
  CASE m.subs = <<>> -> Refused(m, x)
    [] HasNil(m)     -> Answer(FALSE, <<>>, {Claim(NilMatcher, x, FALSE)})
    [] OTHER         -> AllExplained(m, p, x, q)
\* A quantified and an ordered matcher evaluate once more.
Reevaluated(m, p, x, q) == Evaluate(m, p, x, q)

\* FailureMessage, of a matcher that did not match.
FailureMessage(m, p, x, q) ==
  CASE IsNil(m)        -> Refused(m, x)
    [] m.op = "Not"    -> NotExplained(m, x)
    [] m.op = "All"    -> AllExplained(m, p, x, q)
    [] m.op = "Any"    -> AnyExplained(m, p, x, q)
    [] m.op = "Project" -> Project(m, p, x, q, "Evaluate")
    [] m.op \in Quantified \cup Ordered -> Reevaluated(m, p, x, q)
    [] ~ IsNil(m) /\ m.op \notin Composites ->
         Answer(FALSE, <<Call("message", p, q)>>, {Says(m, x, FALSE, Reason(m, x))})

Init ==
  /\ \E i \in DOMAIN Assertions : assertion \in Assertions[i]
  /\ way = "none" /\ answer = Answer(FALSE, <<>>, {})

AskMatch ==
  /\ way = "none" /\ way' = "Match"
  /\ answer' = Match(assertion[1], <<>>, assertion[2], <<>>)
  /\ UNCHANGED assertion
AskEvaluate ==
  /\ way = "none" /\ way' = "Evaluate"
  /\ answer' = Evaluate(assertion[1], <<>>, assertion[2], <<>>)
  /\ UNCHANGED assertion

\* Both parts of the Matcher interface may be called by others than the DSL, one after the other.
AskFailureMessage ==
  /\ way = "Match" /\ ~ answer.ok /\ ~ IsNil(assertion[1]) /\ way' = "FailureMessage"
  /\ answer' = FailureMessage(assertion[1], <<>>, assertion[2], <<>>)
  /\ UNCHANGED assertion

Next == AskMatch \/ AskEvaluate \/ AskFailureMessage
Spec == Init /\ [][Next]_vars

-----------------------------------------------------------------------------
(* What a matcher means: the reference the verdicts are held against.  It  *)
(* uses none of the comparisons above.                                     *)

RECURSIVE Meaning(_, _)
\* How many elements of x satisfy m, and whether m's entries are satisfied at these positions.
Size(m, x) == Cardinality({i \in DOMAIN x.elems : Meaning(m, x.elems[i])})
Increasing(at) == \A i, j \in DOMAIN at : i < j => at[i] < at[j]
SatisfiedAt(m, x, at) ==
  Increasing(at) /\ \A i \in DOMAIN m.subs : Meaning(m.subs[i], x.elems[at[i]])

Meaning(m, x) ==
  LET is(op) == m.op = op
      total  == Len(x.elems)
  IN IF m.op \notin Composites THEN ~ IsNil(m) /\ LeafMeaning(m, x)
     ELSE /\ HasNil(m) => is("All")
          /\ m.op \in Counting => m.n >= 0
          /\ m.op \in Quantified \cup Ordered => IsList(x)
          /\ \/ is("Not") /\ ~ Meaning(m.subs[1], x)
             \/ is("All") /\ \A i \in DOMAIN m.subs : Meaning(m.subs[i], x)
             \/ is("Any") /\ \E i \in DOMAIN m.subs : Meaning(m.subs[i], x)
             \/ is("Project") /\ m.n = 1 /\ x.type = "[]any" /\ total > 0 /\ Meaning(m.subs[1], x.elems[1])
             \/ is("EveryElement") /\ \A v \in ToSet(x.elems) : Meaning(m.subs[1], v)
             \/ is("AnyElement")   /\ \E v \in ToSet(x.elems) : Meaning(m.subs[1], v)
             \/ is("NoElement")    /\ \A v \in ToSet(x.elems) : ~ Meaning(m.subs[1], v)
             \/ is("ExactlyNElements") /\ Size(m.subs[1], x) = m.n
             \/ is("AtLeastNElements") /\ Size(m.subs[1], x) >= m.n
             \/ is("AtMostNElements")  /\ Size(m.subs[1], x) <= m.n
             \/ is("HaveElementsInOrder") /\ total = Len(m.subs)
                  /\ SatisfiedAt(m, x, [i \in DOMAIN m.subs |-> i])
             \/ is("ContainElementsInOrder")
                  /\ \E at \in [DOMAIN m.subs -> DOMAIN x.elems] : SatisfiedAt(m, x, at)

\* Match and Evaluate give the verdict the matcher means, whatever path they take: the fast
\* paths by type, the conversions between kinds of numbers, the early exits, the greedy pairing
\* and the greedy choice of positions (evaluate.go, *_matchers.go).
VerdictIsLogical == way # "none" => answer.ok = Meaning(assertion[1], assertion[2])

\* A matcher may have a side effect (MatchErrorAs fills its target), so one assertion asks each
\* matcher about each value once at most, and for a message only right after it failed.  Only a
\* FailureMessage called for separately asks again (composite_matchers.go says so).
NothingAskedTwice == way # "FailureMessage" =>
  /\ IsInjective(answer.calls)
  /\ \A i \in DOMAIN answer.calls :
       LET call == answer.calls[i] IN
       call[1] = "message" => i > 1 /\ answer.calls[i - 1] = Call("match", call[2], call[3])

\* A failure says something, and every claim it makes about a matcher and a value is true: no
\* message quotes a comparison that went the other way, and no element is blamed for another.
\* The reason a matcher adds, found by another path than its verdict, is true as well.  A message
\* asked for on its own, after a failed Match, is held to the same.
FailureTellsTheTruth ==
  /\ way \in {"Evaluate", "FailureMessage"} => (answer.ok <=> answer.told = {})
  /\ \A c \in answer.told :
       c.matched = Meaning(c.matcher, c.value) /\ ReasonHolds(c.matcher, c.value, c.why)
=============================================================================

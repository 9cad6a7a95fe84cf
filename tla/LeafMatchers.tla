---------------------------- MODULE LeafMatchers ----------------------------
(***************************************************************************)
(* The matchers that have no sub-matchers: what Match decides, and the     *)
(* reason FailureMessage gives.  The reason is found anew, often by        *)
(* another path than the verdict (reflection instead of a type switch).    *)
(*                                                                         *)
(* A matcher is a record of one shape: op is its constructor, n its count, *)
(* args the values and subs the matchers it was given.                     *)
(***************************************************************************)
EXTENDS GoValues

Matcher(op, n, args, subs) == [op |-> op, n |-> n, args |-> args, subs |-> subs]

OrderOps == [BeGreaterThan        |-> {1},  BeGreaterThanOrEqual |-> {0, 1},
             BeLessThan           |-> {-1}, BeLessThanOrEqual    |-> {-1, 0}]

-----------------------------------------------------------------------------
(* Match.                                                                  *)

OrderIs(x, y, signs) ==
  LET c == CompareOrdered(x, y) IN c.status = "ok" /\ c.order \in signs
Between(x, lo, hi) == OrderIs(x, lo, {0, 1}) /\ OrderIs(x, hi, {-1, 0})

\* BeCloseTo: the target and the delta are floats; a negative or NaN delta holds nothing.
CloseTo(x, target, delta) ==
  /\ delta # NaN /\ delta.v >= 0
  /\ IsNumber(x) /\ NaN \notin {x, target}
  /\ FloatOf(x) - target.v \in -delta.v..delta.v

\* MatchError: Equal's semantics, of a target that may be nil.
MatchesError(x, target) == IsError(x) /\ target # Nil /\ ErrorsMatch(target, x)

\* The types an As target takes its error from; another pointer, or a nil one, is none.
Takes == [p \in {"**MyErr", "*error"} |-> IF p = "*error" THEN ErrorTypes ELSE {"*MyErr"}]
IsErrorAsTarget(target) == target.type \in DOMAIN Takes /\ ~ target.null
RECURSIVE ErrorsAs(_, _)
\* errors.As: the error, or one it wraps, is of a type the target takes.
ErrorsAs(e, target) ==
  e.type \in Takes[target.type] \/ \E i \in DOMAIN e.elems : ErrorsAs(e.elems[i], target)
MatchesErrorAs(x, target) == IsError(x) /\ IsErrorAsTarget(target) /\ ErrorsAs(x, target)

\* The string matchers know a []byte, too.
TextOf(x) == IsText(x) \/ x.type = "[]byte"
\* MatchRegex; the patterns here are literal text, and n = 0 is one that does not compile.
MatchesRegex(x, m) == m.n = 1 /\ TextOf(x) /\ Occurs(m.args[1].elems, x.elems)

BoolIs(x, b)    == x = Scalar("bool", b)
OneOf(x, values) == \E i \in DOMAIN values : ValuesEqual(values[i], x)
OfLength(x, n)  == HasLength(x) /\ Len(x.elems) = n
Satisfies(x, m) == m.n = 1 /\ x \in ToSet(m.args)   \* n = 0: a nil predicate

Contain(x, e) ==
  CASE x.type = "string"    -> e.type = "string" /\ Occurs(e.elems, x.elems)
    [] x.type = "[]int"     -> HoldsTyped(x, e)
    [] x.type \in {"Ints", "[]byte"} -> e.type = ElemType[x.type] /\ Holds(x, e)
    [] x.type = "[]any"     -> Holds(x, e)
    [] OTHER -> FALSE

HaveValue(x, value)     == IsMap(x) /\ \E i \in DOMAIN x.elems : ValuesEqual(value, x.elems[i])
HavePair(x, key, value) ==
  Lookup(x, key).status = "found" /\ ValuesEqual(value, Lookup(x, key).value)

StartWith(x, bytes) == TextOf(x) /\ IsPrefix(bytes, x.elems)
EndWith(x, bytes)   == TextOf(x) /\ IsSuffix(bytes, x.elems)

ContainAllOf(x, es) ==
  /\ \A i \in DOMAIN es : ContainsElement(x, es[i])
  /\ es # <<>> \/ IsCollectionOrString(x)
ContainAnyOf(x, es) == \E i \in DOMAIN es : ContainsElement(x, es[i])
TheSameElements(x, expected) ==
  /\ IsList(x) /\ IsList(expected) /\ Len(x.elems) = Len(expected.elems)
  /\ Unexpected(x.elems, expected.elems) = <<>>

\* Match of a matcher without sub-matchers.
LeafMatches(m, x) ==
  LET a == m.args
      is(op) == m.op = op
  IN \/ is("Equal")     /\ ValuesEqual(a[1], x)
     \/ is("NotEqual")  /\ ~ ValuesEqual(a[1], x)
     \/ is("BeNil")     /\ IsNilValue(x)
     \/ is("BeTrue")    /\ BoolIs(x, 1)
     \/ is("BeFalse")   /\ BoolIs(x, 0)
     \/ is("BeZero")    /\ IsZero(x)
     \/ is("HaveLen")   /\ OfLength(x, m.n)
     \/ is("BeEmpty")   /\ OfLength(x, 0)
     \/ is("Satisfy")   /\ Satisfies(x, m)
     \/ is("BeCloseTo") /\ CloseTo(x, a[1], a[2])
     \/ is("MatchError")   /\ MatchesError(x, a[1])
     \/ is("MatchErrorAs") /\ MatchesErrorAs(x, a[1])
     \/ is("MatchRegex") /\ MatchesRegex(x, m)
     \/ is("StartWith") /\ StartWith(x, a[1].elems)
     \/ is("EndWith")   /\ EndWith(x, a[1].elems)
     \/ is("Contain")   /\ Contain(x, a[1])
     \/ is("HaveKey")   /\ Lookup(x, a[1]).status = "found"
     \/ is("HaveValue") /\ HaveValue(x, a[1])
     \/ is("HavePair")  /\ HavePair(x, a[1], a[2])
     \/ is("BeOneOf")   /\ OneOf(x, a)
     \/ is("ContainAllOf") /\ ContainAllOf(x, a)
     \/ is("ContainAnyOf") /\ ContainAnyOf(x, a)
     \/ is("ContainTheSameElementsAs") /\ TheSameElements(x, a[1])
     \/ is("BeBetween") /\ Between(x, a[1], a[2])
     \/ m.op \in DOMAIN OrderOps /\ OrderIs(x, a[1], OrderOps[m.op])

-----------------------------------------------------------------------------
(* FailureMessage: the kind of the reason and the values it lists.         *)

Why(kind, missing, unexpected) == [kind |-> kind, missing |-> missing, unexpected |-> unexpected]
Plain(kind) == Why(kind, <<>>, <<>>)

\* Two errors are told apart by identity, in the words of errors.Is.
EqualWhy(x, e)    == Plain(IF BothErrors(e, x) THEN "other error" ELSE "verdict")
NotEqualWhy(x, e) == Plain(IF BothErrors(e, x) THEN "same error" ELSE "verdict")
MatchErrorWhy(x) ==
  Plain(IF x = Nil THEN "nil error" ELSE IF IsError(x) THEN "other error" ELSE "not an error")
MatchErrorAsWhy(x, target) ==
  CASE ~ IsErrorAsTarget(target) -> Plain("no As target")
    [] IsErrorAsTarget(target) /\ ~ IsError(x) -> Plain(IF x = Nil THEN "nil error" ELSE "not an error")
    [] IsErrorAsTarget(target) /\ IsError(x)   -> Plain("not assignable")

CloseWhy(x, target, delta) ==
  CASE delta = NaN \/ delta.v < 0 -> Plain("bad delta")
    [] ~ (delta = NaN \/ delta.v < 0) /\ ~ IsNumber(x) -> Plain("not a number")
    [] OTHER -> Plain(IF NaN \in {x, target} THEN "not ordered" ELSE "far")

LengthWhy(x)     == Plain(IF HasLength(x) THEN "length" ELSE "no length")
AffixWhy(x)      == Plain(IF TextOf(x) THEN "affix" ELSE "not text")
RegexWhy(x, m)   == IF m.n = 1 THEN AffixWhy(x) ELSE Plain("bad pattern")
SatisfyWhy(m)    == Plain(IF m.n = 1 THEN "unsatisfied" ELSE "no predicate")
AnyOfWhy(x)      == Plain(IF IsCollectionOrString(x) THEN "absent" ELSE "unsupported")

BetweenWhy(x, lo, hi) ==
  LET bounds == CompareOrdered(lo, hi)
      low    == CompareOrdered(x, lo).status
  IN CASE bounds.status = "nan"                  -> Plain("nan bound")
       [] bounds.status \in {"actual", "target"} -> Plain("bounds")
       [] bounds.status = "mixed"                -> Plain("mixed bounds")
       [] bounds.status = "ok" /\ bounds.order > 0 -> Plain("empty range")
       [] bounds.status = "ok" /\ bounds.order <= 0 -> Plain(IF low = "ok" THEN "outside" ELSE low)

\* diagnose: a needle no element could equal is not simply absent.
ContainWhy(x, e) ==
  CASE x.type \notin ListTypes \cup {"string"} -> Plain("unsupported")
    [] x.type = "string" /\ e.type # "string"  -> Plain("needle type")
    [] x.type \in DOMAIN ElemType /\ e.type # ElemType[x.type] -> Plain("needle type")
    [] OTHER -> Plain("absent")

\* A value no value of the map could be is told apart as well.
HaveValueWhy(x, value) ==
  CASE ~ IsMap(x) -> Plain("not a map")
    [] x.type = "map[string]string" /\ value.type # "string" -> Plain("value type")
    [] OTHER -> Plain("absent")
HavePairWhy(x, key) ==
  LET got == Lookup(x, key) IN
  IF got.status = "found" THEN Why("value", <<>>, <<got.value>>) ELSE Plain(got.status)

\* Mutant: the last element is never looked at.
Missing_OffByOne(x, es) == SelectSeq(Front(es), LAMBDA e : ~ ContainsElement(x, e))
Missing(x, es) == SelectSeq(es, LAMBDA e : ~ ContainsElement(x, e))

SameElementsWhy(x, expected) ==
  CASE ~ IsList(expected) -> Plain("expected not a list")
    [] IsList(expected) /\ ~ IsList(x) -> Plain("not a list")
    [] OTHER -> Why("elements", Unclaimed(x.elems, expected.elems), Unexpected(x.elems, expected.elems))

\* FailureMessage of a matcher without sub-matchers.
Reason(m, x) ==
  LET a == m.args IN
  CASE m.op \in DOMAIN OrderOps  -> Plain(CompareOrdered(x, a[1]).status)
    [] m.op = "BeBetween"        -> BetweenWhy(x, a[1], a[2])
    [] m.op = "Contain"          -> ContainWhy(x, a[1])
    [] m.op = "Equal"            -> EqualWhy(x, a[1])
    [] m.op = "NotEqual"         -> NotEqualWhy(x, a[1])
    [] m.op = "MatchError"       -> MatchErrorWhy(x)
    [] m.op = "MatchErrorAs"     -> MatchErrorAsWhy(x, a[1])
    [] m.op = "BeCloseTo"        -> CloseWhy(x, a[1], a[2])
    [] m.op \in {"StartWith", "EndWith"} -> AffixWhy(x)
    [] m.op = "MatchRegex"       -> RegexWhy(x, m)
    [] m.op \in {"HaveLen", "BeEmpty"}   -> LengthWhy(x)
    [] m.op = "Satisfy"          -> SatisfyWhy(m)
    [] m.op = "HaveKey"          -> Plain(Lookup(x, a[1]).status)
    [] m.op = "HavePair"         -> HavePairWhy(x, a[1])
    [] m.op = "HaveValue"        -> HaveValueWhy(x, a[1])
    [] m.op = "ContainAllOf"     ->
         IF IsCollectionOrString(x) THEN Why("missing", Missing(x, a), <<>>) ELSE Plain("unsupported")
    [] m.op = "ContainAnyOf"     -> AnyOfWhy(x)
    [] m.op = "ContainTheSameElementsAs" -> SameElementsWhy(x, a[1])
    [] OTHER -> Plain("verdict")

-----------------------------------------------------------------------------
(* The reference: what a matcher means and when a reason is true.  It uses *)
(* none of the comparisons of the code: values are compared as the records *)
(* they are, or by Same, Below, Within and HasSize.                        *)

RECURSIVE Sound(_)
\* No NaN anywhere in x.
Sound(x) == x # NaN /\ \A v \in ToSet(x.elems) \cup ToSet(x.keys) : Sound(v)
RECURSIVE Chain(_)
\* An error and all it wraps.
Chain(e) == {e} \cup UNION {Chain(w) : w \in ToSet(e.elems)}
\* What actual carries: identities, but for a nil pointer no other than its own.
Carries(actual, e) ==
  /\ IsComparable(e)
  /\ e \in IF e.null \/ IsComparableNil(actual) THEN {actual} ELSE Chain(actual)
Same(e, y) == IF BothErrors(e, y) THEN Carries(y, e) ELSE e = y /\ Sound(e)

\* Numbers by exact value, in halves; strings byte by byte.
Halves(x) == IF x.type = "float" THEN x.v ELSE 2 * x.v
Orderable(x)     == IsNumber(x) \/ IsText(x)
SameFamily(x, y) == (IsNumber(x) /\ IsNumber(y)) \/ (IsText(x) /\ IsText(y))
Comparable(x, y) == SameFamily(x, y) /\ NaN \notin {x, y}
Below(x, y) ==
  IF IsNumber(x) THEN Halves(x) < Halves(y)
  ELSE \E k \in 1..Len(y.elems) :
         /\ SubSeq(x.elems, 1, k - 1) = SubSeq(y.elems, 1, k - 1)
         /\ Len(x.elems) = k - 1 \/ (Len(x.elems) >= k /\ x.elems[k].v < y.elems[k].v)

Substring(e, x) ==
  e.type = "string" /\ \E i, j \in 0..Len(x.elems) : i <= j /\ e.elems = SubSeq(x.elems, i + 1, j)
Within(e, x) ==
  IF IsText(x) THEN Substring(e, x) ELSE IsList(x) /\ \E v \in ToSet(x.elems) : Same(e, v)

\* What a variable of the type holds before it is assigned, and how many elements a value has.
ZeroOf(type) ==
  IF type \in ListTypes \cup MapTypes \cup ErrorTypes THEN Null(type) ELSE Scalar(type, 0)
HasSize(x, n) ==
  x.type \in TextTypes \cup ListTypes \cup MapTypes /\ Cardinality(DOMAIN x.elems) = n

LeafMeaning(m, x) ==
  LET a == m.args IN
  CASE m.op = "Equal"     -> Same(a[1], x)
    [] m.op = "NotEqual"  -> ~ Same(a[1], x)
    [] m.op = "Contain"   -> x.type # "Name" /\ Within(a[1], x)
    [] m.op = "StartWith" -> TextOf(x) /\ \E k \in 0..Len(x.elems) : SubSeq(x.elems, 1, k) = a[1].elems
    [] m.op = "EndWith"   -> TextOf(x) /\ \E k \in 0..Len(x.elems) : SubSeq(x.elems, k + 1, Len(x.elems)) = a[1].elems
    [] m.op = "MatchRegex" -> /\ m.n = 1 /\ TextOf(x)
                              /\ \E i, j \in 0..Len(x.elems) : i <= j /\ a[1].elems = SubSeq(x.elems, i + 1, j)
    [] m.op = "BeOneOf"   -> \E v \in ToSet(a) : Same(v, x)
    [] m.op = "ContainAllOf" -> (IsList(x) \/ IsText(x)) /\ \A e \in ToSet(a) : Within(e, x)
    [] m.op = "ContainAnyOf" -> \E e \in ToSet(a) : Within(e, x)
    [] m.op = "ContainTheSameElementsAs" ->
         /\ IsList(x) /\ IsList(a[1]) /\ Len(x.elems) = Len(a[1].elems)
         /\ \E f \in Bijection(DOMAIN x.elems, DOMAIN x.elems) :
              \A i \in DOMAIN f : Same(a[1].elems[f[i]], x.elems[i])
    [] m.op \in {"HaveKey", "HaveValue", "HavePair"} ->
         IsMap(x) /\ \E i \in DOMAIN x.keys :
           /\ m.op = "HaveValue" \/ Same(a[1], x.keys[i])
           /\ m.op = "HaveKey" \/ Same(a[Len(a)], x.elems[i])
    [] m.op = "BeGreaterThan"        -> Comparable(x, a[1]) /\ Below(a[1], x)
    [] m.op = "BeGreaterThanOrEqual" -> Comparable(x, a[1]) /\ ~ Below(x, a[1])
    [] m.op = "BeLessThan"           -> Comparable(x, a[1]) /\ Below(x, a[1])
    [] m.op = "BeLessThanOrEqual"    -> Comparable(x, a[1]) /\ ~ Below(a[1], x)
    [] m.op = "BeBetween" ->
         /\ Comparable(x, a[1]) /\ Comparable(x, a[2])
         /\ ~ Below(x, a[1]) /\ ~ Below(a[2], x)
    [] m.op = "BeCloseTo" ->
         /\ a[2] # NaN /\ Comparable(x, a[1])
         /\ \E d \in 0..a[2].v : Halves(x) \in {a[1].v - d, a[1].v + d}
    [] m.op = "MatchError"   -> IsError(x) /\ a[1] # Nil /\ Same(a[1], x)
    [] m.op = "MatchErrorAs" ->
         /\ ~ a[1].null /\ IsError(x)
         /\ \/ a[1].type = "*error"
            \/ a[1].type = "**MyErr" /\ \E e \in Chain(x) : e.type = "*MyErr"
    [] m.op = "BeNil"     -> x = Nil \/ (x.null /\ x # NaN)
    [] m.op = "BeTrue"    -> x.type = "bool" /\ x.v # 0
    [] m.op = "BeFalse"   -> x.type = "bool" /\ x.v = 0
    [] m.op = "BeZero"    -> x = ZeroOf(x.type)
    [] m.op = "HaveLen"   -> HasSize(x, m.n)
    [] m.op = "BeEmpty"   -> HasSize(x, 0)
    [] m.op = "Satisfy"   -> m.n # 0 /\ \E i \in DOMAIN m.args : m.args[i] = x

\* Whether w is a true account of why m does not match x.
ReasonHolds(m, x, w) ==
  LET a == m.args
      order == m.op \in DOMAIN OrderOps
      times(v, s) == Cardinality({i \in DOMAIN s : s[i] = v})
  IN CASE w.kind = "ok"     -> Comparable(x, a[1])
       [] w.kind = "nan"    -> SameFamily(x, a[1]) /\ NaN \in {x, a[1]}
       [] w.kind = "target" -> ~ Orderable(a[1])
       [] w.kind = "actual" -> Orderable(a[1]) /\ ~ Orderable(x)
       [] w.kind = "mixed"  -> Orderable(a[1]) /\ Orderable(x) /\ ~ SameFamily(x, a[1])
       [] w.kind = "nan bound"    -> SameFamily(a[1], a[2]) /\ NaN \in {a[1], a[2]}
       [] w.kind = "bounds"       -> ~ (Orderable(a[1]) /\ Orderable(a[2]))
       [] w.kind = "mixed bounds" -> Orderable(a[1]) /\ Orderable(a[2]) /\ ~ SameFamily(a[1], a[2])
       [] w.kind = "empty range"  -> Below(a[2], a[1])
       [] w.kind = "outside"      ->
            Comparable(x, a[1]) /\ Comparable(x, a[2]) /\ (Below(x, a[1]) \/ Below(a[2], x))
       [] w.kind = "unsupported"  ->
            ~ IsList(x) /\ x.type # "string" /\ (x.type = "Name" => m.op = "Contain")
       [] w.kind = "needle type"  -> ~ \E v \in ToSet(x.elems) \ {a[1]} : v.type = a[1].type
       [] w.kind = "absent"       -> ~ \E e \in ToSet(a) : Within(e, x) \/ (IsMap(x) /\ e \in ToSet(x.elems) \ {NaN})
       [] w.kind = "not text"     -> ~ TextOf(x)
       [] w.kind = "not a map"    -> ~ IsMap(x)
       [] w.kind = "key type"     -> IsMap(x) /\ a[1].type # "string" /\ a[1] \notin ToSet(x.keys)
       [] w.kind = "value type"   -> IsMap(x) /\ \A v \in ToSet(x.elems) : v.type # a[1].type
       [] w.kind = "value"        ->
            \E i \in DOMAIN x.keys : x.keys[i] = a[1] /\ <<x.elems[i]>> = w.unexpected /\ ~ Same(a[2], x.elems[i])
       [] w.kind = "missing" /\ m.op # "ContainAllOf" -> IsMap(x) /\ (a[1] = NaN \/ a[1] \notin ToSet(x.keys))
       [] w.kind = "missing" /\ m.op = "ContainAllOf" ->
            w.missing # <<>> /\ ToSet(w.missing) = {e \in ToSet(a) : ~ Within(e, x)}
       [] w.kind = "elements" ->
            /\ w.missing \o w.unexpected # <<>>
            /\ \A v \in ToSet(x.elems \o a[1].elems) :
                 /\ times(v, x.elems) - times(v, a[1].elems) = times(v, w.unexpected) - times(v, w.missing)
                 /\ Sound(v) => 0 \in {times(v, w.unexpected), times(v, w.missing)}
       [] w.kind = "other error"  -> IsError(x) /\ (a[1] # Nil => ~ Carries(x, a[1]))
       [] w.kind = "same error"   -> BothErrors(a[1], x) /\ Carries(x, a[1])
       [] w.kind = "nil error"    -> x = Nil
       [] w.kind = "not an error" -> x # Nil /\ ~ IsError(x)
       [] w.kind = "no As target" -> a[1].null \/ a[1].type \notin {"**MyErr", "*error"}
       [] w.kind = "not assignable" -> IsError(x) /\ ~ \E e \in Chain(x) : a[1].type = "*error" \/ e.type = "*MyErr"
       [] w.kind = "bad delta"    -> a[2] = NaN \/ a[2].v < 0
       [] w.kind = "not a number" -> ~ IsNumber(x)
       [] w.kind = "not ordered"  -> IsNumber(x) /\ NaN \in {x, a[1]}
       [] w.kind = "far"          -> \/ a[2].v < Halves(x) - a[1].v
                                     \/ a[2].v < a[1].v - Halves(x)
       [] w.kind = "no length"    -> ~ HasSize(x, Len(x.elems))
       [] w.kind = "length"       -> HasSize(x, Len(x.elems)) /\ Len(x.elems) # m.n
       [] w.kind = "affix"        -> TextOf(x) /\ a[1].elems # x.elems
       [] w.kind \in {"no predicate", "bad pattern"} -> m.n = 0
       [] w.kind = "expected not a list" -> ~ IsList(a[1])
       [] w.kind = "not a list"   -> ~ IsList(x)
       [] OTHER -> TRUE
=============================================================================

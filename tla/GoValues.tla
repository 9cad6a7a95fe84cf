------------------------------ MODULE GoValues ------------------------------
(***************************************************************************)
(* The Go values the matchers compare, and how assert/ compares them: by   *)
(* equality (ValuesEqual, reflect.DeepEqual) and by order (compareOrdered).*)
(*                                                                         *)
(* A value is a record of one shape: its type, a number v, whether it is a *)
(* nil slice, map or pointer, its elements (the bytes of a string, too)    *)
(* and the keys of a map.  Floats are counted in halves, integers have W   *)
(* bits.  An error has its identity as its number, the errors it wraps as  *)
(* its elements, and no Is method.                                         *)
(***************************************************************************)
EXTENDS Integers, SequencesExt

CONSTANT W  \* the width of an integer

ASSUME WidthAssumption == W \in Nat \ {0}

Go(type, v, null, elems, keys) ==
  [type |-> type, v |-> v, null |-> null, elems |-> elems, keys |-> keys]
Scalar(type, v)        == Go(type, v, FALSE, <<>>, <<>>)
List(type, elems)      == Go(type, 0, FALSE, elems, <<>>)
Map(type, keys, elems) == Go(type, 0, FALSE, elems, keys)
Null(type)             == Go(type, 0, TRUE, <<>>, <<>>)
Text(bytes)            == List("string", [i \in DOMAIN bytes |-> Scalar("byte", bytes[i])])
Nil                    == Scalar("nil", 0)
NaN                    == Go("float", 0, TRUE, <<>>, <<>>)

IntTypes  == {"int", "int64"}
UintTypes == {"uint", "byte"}
\* Ints and Name are named types, of kind slice and string: only reflection knows them.
ListTypes == {"[]int", "[]any", "[]byte", "Ints"}
TextTypes == {"string", "Name"}
MapTypes  == {"map[string]any", "map[string]string", "map[any]any"}
ElemType  == [t \in ListTypes \ {"[]any"} |-> IF t = "[]byte" THEN "byte" ELSE "int"]

IsText(x) == x.type \in TextTypes
IsList(x) == x.type \in ListTypes
IsMap(x)  == x.type \in MapTypes

\* Pointers but for ErrList, a slice: == skips it, for its type is not comparable.  No matcher is asked
\* about it as a list.
ErrorTypes == {"*errorString", "*wrapError", "*joinError", "*MyErr", "ErrList"}
Error(type, id, wraps) == Go(type, id, FALSE, wraps, <<>>)
IsError(x) == x.type \in ErrorTypes
IsComparable(e) == e.type # "ErrList"

-----------------------------------------------------------------------------
(* Equality.                                                               *)

RECURSIVE DeepEqual(_, _), ErrorsIs(_, _)
\* reflect.DeepEqual: NaN differs from NaN, a nil slice or map from an empty one.
DeepEqual(x, y) ==
  /\ x.type = y.type /\ x.null = y.null /\ x.v = y.v /\ x # NaN
  /\ Len(x.elems) = Len(y.elems)
  /\ \A i \in DOMAIN x.elems :
       \E j \in DOMAIN y.elems :
         /\ IF IsMap(x) THEN x.keys[i] = y.keys[j] /\ x.keys[i] # NaN ELSE i = j
         /\ DeepEqual(x.elems[i], y.elems[j])

\* errors.Is: the target is the error or one it wraps, at any depth.
ErrorsIs(e, target) ==
  \/ IsComparable(target) /\ e = target
  \/ \E i \in DOMAIN e.elems : ErrorsIs(e.elems[i], target)

IsComparableNil(e) == e.null /\ IsComparable(e)
\* A nil pointer that is an error carries no identity: it only equals itself.
ErrorsMatch(expected, actual) ==
  IF IsComparableNil(actual) \/ IsComparableNil(expected) THEN actual = expected
  ELSE ErrorsIs(actual, expected)
BothErrors(x, y) == IsError(x) /\ IsError(y)

FastTypes == IntTypes \cup UintTypes \cup {"float", "string", "bool"}

ValuesEqual(expected, actual) ==
  CASE Nil \in {expected, actual} -> expected = actual
    [] expected.type = actual.type /\ actual.type \in FastTypes -> expected = actual /\ actual # NaN
    [] BothErrors(expected, actual) -> ErrorsMatch(expected, actual)
    [] OTHER -> DeepEqual(expected, actual)

IsNilValue(x) == x = Nil \/ (x.null /\ (IsList(x) \/ IsMap(x) \/ IsError(x)))

-----------------------------------------------------------------------------
(* Order.                                                                  *)

Sign(a, b) == IF a < b THEN -1 ELSE IF a = b THEN 0 ELSE 1

\* int64(f) and uint64(f), of halves; out of range the processor yields its least integer.
Truncated(f)  == IF f < 0 THEN -((-f) \div 2) ELSE f \div 2
AsInt(f)  == IF Truncated(f) \in -(2^(W-1))..(2^(W-1) - 1) THEN Truncated(f) ELSE -(2^(W-1))
AsUint(f) == IF Truncated(f) \in 0..(2^W - 1) THEN Truncated(f) ELSE 2^(W-1)

\* A whole part that differs decides; else what is left of the float does.
CompareWhole(f, whole, i) == IF whole # i THEN Sign(whole, i) ELSE Sign(f, 2 * whole)

\* Mutant: 2^(W-1) itself passes as an int.
CompareFloatInt_Bound(f, i) ==
  CASE f > 2^W  -> 1
    [] f < -2^W -> -1
    [] OTHER    -> CompareWhole(f, AsInt(f), i)
\* compareFloatInt: the float is in halves, so its bounds are doubled.
CompareFloatInt(f, i) ==
  CASE f >= 2^W -> 1
    [] f < -2^W -> -1
    [] OTHER    -> CompareWhole(f, AsInt(f), i)
CompareFloatUint(f, u) ==
  CASE f < 0            -> -1
    [] f >= 2 * 2^W     -> 1
    [] OTHER            -> CompareWhole(f, AsUint(f), u)

IsNumber(x) == x.type \in IntTypes \cup UintTypes \cup {"float"}
\* A number as a float64, in halves; what the conversion rounds off is left out.
FloatOf(x) == IF x.type = "float" THEN x.v ELSE 2 * x.v

RECURSIVE CompareNumbers(_, _)
\* The sign of a against b; neither is NaN.
CompareNumbers(a, b) ==
  LET float(x) == x.type = "float"
      int(x)   == x.type \in IntTypes
      uint(x)  == x.type \in UintTypes
  IN CASE float(a) /\ int(b)     -> CompareFloatInt(a.v, b.v)
       [] float(a) /\ uint(b)    -> CompareFloatUint(a.v, b.v)
       [] ~ float(a) /\ float(b) -> -CompareNumbers(b, a)
       [] int(a) /\ uint(b)      -> IF a.v < 0 THEN -1 ELSE Sign(a.v, b.v)
       [] uint(a) /\ int(b)      -> IF b.v < 0 THEN 1 ELSE Sign(a.v, b.v)
       [] (float(a) /\ float(b)) \/ (int(a) /\ int(b)) \/ (uint(a) /\ uint(b)) -> Sign(a.v, b.v)

\* cmp.Compare of two strings.
CompareText(a, b) ==
  LET differ == {i \in DOMAIN a \cap DOMAIN b : a[i] # b[i]}
  IN IF differ = {} THEN Sign(Len(a), Len(b)) ELSE Sign(a[Min(differ)].v, b[Min(differ)].v)

\* The sign where the status is "ok"; else why there is none.  A bad target comes first.
Compared(status, order) == [status |-> status, order |-> order]
CompareOrdered(actual, target) ==
  LET orderable(x) == IsNumber(x) \/ IsText(x) IN
  CASE ~ orderable(target) -> Compared("target", 0)
    [] orderable(target) /\ ~ orderable(actual) -> Compared("actual", 0)
    [] IsNumber(actual) /\ IsNumber(target) ->
         IF NaN \in {actual, target} THEN Compared("nan", 0)
         ELSE Compared("ok", CompareNumbers(actual, target))
    [] IsText(actual) /\ IsText(target) -> Compared("ok", CompareText(actual.elems, target.elems))
    [] (IsNumber(actual) /\ IsText(target)) \/ (IsText(actual) /\ IsNumber(target)) ->
         Compared("mixed", 0)

-----------------------------------------------------------------------------
(* What is in a collection.                                                *)

Occurs(needle, text) ==
  \E i \in 0..(Len(text) - Len(needle)) : SubSeq(text, i + 1, i + Len(needle)) = needle

Holds(list, e) == \E i \in DOMAIN list.elems : ValuesEqual(e, list.elems[i])
\* containsComparable, containTypedSlice: the needle must have the type of the elements.
HoldsTyped(list, e) == e.type = ElemType[list.type] /\ \E v \in ToSet(list.elems) : v = e

ContainsElement(actual, e) ==
  CASE IsText(actual)         -> e.type = "string" /\ Occurs(e.elems, actual.elems)
    [] actual.type = "[]int"  -> HoldsTyped(actual, e)
    [] IsList(actual) /\ actual.type # "[]int" -> Holds(actual, e)
    [] OTHER -> FALSE
IsCollectionOrString(x) == IsList(x) \/ IsText(x)

\* sameElements, elementDiff: each actual element claims the first equal one that is unclaimed.
Pairs(actual, expected) ==
  LET Claim(used, a) ==
        LET free == {j \in DOMAIN expected \ used : ValuesEqual(expected[j], a)}
        IN IF free = {} THEN used ELSE used \cup {Min(free)}
  IN FoldLeft(Claim, {}, actual)
\* The expected elements nobody claimed, and the actual ones that had nobody to claim.
Unclaimed(actual, expected) ==
  LET rest == SelectSeq([j \in DOMAIN expected |-> j], LAMBDA j : j \notin Pairs(actual, expected))
  IN [k \in DOMAIN rest |-> expected[rest[k]]]
Unexpected(actual, expected) ==
  LET claims(n) == Pairs(SubSeq(actual, 1, n), expected)
      alone == SelectSeq([i \in DOMAIN actual |-> i], LAMBDA i : claims(i) = claims(i - 1))
  IN [k \in DOMAIN alone |-> actual[alone[k]]]

\* lookupKey and safeMapIndex: how the lookup ended, and the value it found.
Found(status, value) == [status |-> status, value |-> value]
Hashable(key) == ~ IsList(key) /\ ~ IsMap(key)
Lookup(actual, key) ==
  LET at == {i \in DOMAIN actual.keys : actual.keys[i] = key /\ key # NaN}
  IN CASE ~ IsMap(actual) -> Found("not a map", Nil)
       [] IsMap(actual) /\ actual.type # "map[any]any" /\ key.type # "string" -> Found("key type", Nil)
       [] OTHER -> IF Hashable(key) /\ at # {} THEN Found("found", actual.elems[Min(at)])
                   ELSE Found("missing", Nil)

\* lengthOf, where there is one.
HasLength(x) == IsText(x) \/ IsList(x) \/ IsMap(x)
IsZero(x) ==
  \/ x = Nil
  \/ IsText(x) /\ x.elems = <<>>
  \/ (IsList(x) \/ IsMap(x) \/ IsError(x)) /\ x.null
  \/ (IsNumber(x) \/ x.type = "bool") /\ x.v = 0 /\ x # NaN
=============================================================================

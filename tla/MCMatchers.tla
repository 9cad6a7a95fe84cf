----------------------------- MODULE MCMatchers -----------------------------
(* Instances of Matchers: trees of matchers over small values.             *)
EXTENDS Matchers

M(op, args)    == Matcher(op, 0, args, <<>>)
N(op, n, subs) == Matcher(op, n, <<>>, subs)
Seqs(S, n)     == BoundedSeq(S, n)

\* Every integer of W bits, and every half from below the least to above the greatest.
Numbers ==
  {Scalar(t, i) : t \in {"int", "int64"}, i \in -(2^(W-1))..(2^(W-1) - 1)}
  \cup {Scalar("uint", i) : i \in 0..(2^W - 1)} \cup {Scalar("byte", i) : i \in {0, 2^W - 1}}
  \cup {Scalar("float", h) : h \in -(2^W + 2)..(2^(W+1) + 2)} \cup {NaN}
Texts  == {Text(t) : t \in Seqs({0, 1}, 2)}
I(i) == Scalar("int", i)
Name(bytes) == [Text(bytes) EXCEPT !.type = "Name"]
Bytes(b)    == [Text(b) EXCEPT !.type = "[]byte"]
Few    == {I(-1), I(1), Scalar("int64", 1), Scalar("uint", 1), Scalar("byte", 1), Scalar("float", 3), NaN,
           Text(<<>>), Text(<<1>>), Name(<<1>>), Nil}

Wordy  == {Name(<<0, 1>>), Bytes(<<1, 1>>), Nil, List("[]any", <<>>)}

OrderTrees   == {<<M(op, <<y>>), x>> : op \in DOMAIN OrderOps, x, y \in Numbers \cup {Text(<<1>>), Nil}}
TextTrees    == {<<M(op, <<y>>), x>> : op \in DOMAIN OrderOps \cup {"Contain"}, x, y \in Texts \cup {Name(<<1>>)}}
               \cup {<<M(op, <<y>>), x>> : op \in {"StartWith", "EndWith"}, y \in Texts,
                       x \in Texts \cup Wordy}
               \cup {<<Matcher("MatchRegex", n, <<y>>, <<>>), x>> : n \in 0..1, y \in Texts, x \in Texts \cup Wordy}
BetweenTrees == {<<M("BeBetween", <<lo, hi>>), x>> : lo, hi, x \in Few}

\* Errors: a sentinel, another of the same text, what wraps it, typed nils, and a type == rejects.
Sentinel(i) == Error("*errorString", i, <<>>)
Mine(i)     == Error("*MyErr", i, <<>>)
Wrap(i, e)  == Error("*wrapError", i, <<e>>)
Join(i, s)  == Error("*joinError", i, s)
Errors ==
  {Sentinel(1), Sentinel(2), Mine(1), Null("*MyErr"), Error("ErrList", 0, <<>>), Null("ErrList"),
   Wrap(1, Sentinel(1)), Wrap(2, Sentinel(1)), Wrap(3, Mine(1)), Wrap(4, Null("*MyErr")),
   Wrap(5, Wrap(1, Sentinel(1))), Wrap(6, Error("ErrList", 0, <<>>)), Join(1, <<>>),
   Join(2, <<Sentinel(2), Wrap(1, Sentinel(1))>>), Join(3, <<Sentinel(2), Wrap(3, Mine(1))>>)}
AsTargets == {Scalar("**MyErr", 0), Scalar("*error", 0), Null("**MyErr"), Scalar("*int", 0), Nil, I(1)}
ErrorTrees ==
  {<<M(op, <<y>>), x>> : op \in {"Equal", "NotEqual", "BeOneOf"}, y, x \in Errors \cup {Nil, I(1)}}
  \cup {<<M("MatchError", <<y>>), x>> : y \in Errors \cup {Nil}, x \in Errors \cup {Nil, I(1)}}
  \cup {<<M("MatchErrorAs", <<y>>), x>> : y \in AsTargets, x \in Errors \cup {Nil, I(1)}}
  \cup {<<M("BeNil", <<>>), x>> : x \in Errors}

CloseTrees ==
  {<<M("BeCloseTo", <<target, delta>>), x>> :
     target \in {Scalar("float", h) : h \in {-3, 0, 3}} \cup {NaN},
     delta \in {Scalar("float", h) : h \in {-1, 0, 1, 4}} \cup {NaN},
     x \in Numbers \cup {Text(<<1>>), Nil}}

\* Collections of values that look alike, by every path there is.
Alike == {Name(<<1>>), I(1), Scalar("int64", 1), Text(<<1>>), NaN, Nil}
Lists ==
  {List(t, s) : t \in {"[]int", "Ints"}, s \in Seqs({I(0), I(1)}, 2)}
  \cup {List("[]any", s) : s \in Seqs(Alike, 2) \cup {<<I(1), I(1), NaN>>, <<List("[]int", <<>>)>>}}
  \cup {List("[]any", s) : s \in [1..3 -> {I(0), I(1)}]}
  \cup {Null("[]any"), Null("[]int"), Bytes(<<1>>)}
Maps ==
  {Map(t, k, [i \in DOMAIN k |-> v[i]]) :
     t \in MapTypes, k \in {<<>>, <<Text(<<>>), Text(<<1>>)>>},
     v \in [1..2 -> {Text(<<>>), Text(<<1>>)}]}
  \cup {Map("map[any]any", <<I(1), NaN, Nil>>, <<I(1), v, Nil>>) : v \in Alike}
  \cup {Null("map[any]any")}
Operands == Alike \cup {I(0), Null("[]int"), List("[]int", <<>>), Text(<<1, 1>>), Scalar("bool", 0),
              Scalar("bool", 1), Scalar("float", 0), Scalar("byte", 1)}
Things   == Operands \cup Lists \cup Maps

PlainTrees == <<
  {<<M(op, <<y>>), x>> : op \in {"Equal", "NotEqual", "Contain", "ContainTheSameElementsAs"},
                         x \in Things, y \in Operands \cup Lists},
  {<<M(op, s), x>> : op \in {"BeOneOf", "ContainAllOf", "ContainAnyOf"}, x \in Things, s \in Seqs(Alike, 2)},
  {<<M(op, <<>>), x>> : op \in {"BeNil", "BeTrue", "BeFalse", "BeZero", "BeEmpty"}, x \in Things},
  {<<Matcher("HaveLen", n, <<>>, <<>>), x>> : n \in 0..2, x \in Things},
  {<<M(op, <<y>>), x>> : op \in {"HaveKey", "HaveValue"}, x \in Things, y \in Operands},
  {<<M("HavePair", <<k, v>>), x>> : x \in Maps, k, v \in Operands} >>

\* Two leaves that between them match none, one or both of the values 0, 1 and 2.
Leaves  == {Matcher("Satisfy", 1, <<I(0), I(1)>>, <<>>), Matcher("Satisfy", 1, <<I(1), I(2)>>, <<>>)}
Ints    == {I(0), I(1), I(2), I(3)}
Anys(n) == {List("[]any", s) : s \in Seqs(Ints, n)}

Junctions(S, n)  == {N(op, 0, s) : op \in {"All", "Any"}, s \in Seqs(S, n)}
Negations(S)     == {N("Not", 0, <<m>>) : m \in S}
Quantifiers(S)   == {N(op, n, <<m>>) : op \in Counting, n \in -1..3, m \in S}
                    \cup {N(op, 0, <<m>>) : op \in Quantified \ Counting, m \in S}
InOrder(S, n) == {N(op, 0, s) : op \in Ordered, s \in Seqs(S, n)}
Projections(S)   == {N("Project", n, <<m>>) : n \in 0..1, m \in S}

Simple == Leaves \cup {NilMatcher, Matcher("Satisfy", 0, <<>>, <<>>)}
Odd    == Leaves \cup {NilMatcher}
OnValues == Junctions(Odd, 2) \cup Negations(Odd)
OnLists  == Quantifiers(Odd) \cup InOrder(Odd, 2) \cup Projections(Odd)
OtherLists == {NilMatcher} \cup {N(op, 0, <<m>>) : op \in {"AnyElement", "NoElement"}, m \in Leaves}

OneLevel == <<
  (Simple \cup Junctions(Odd, 3) \cup Negations(Simple)) \X Ints,
  (Quantifiers(Simple) \cup InOrder(Odd, 3) \cup Projections(Simple))
    \X (Anys(3) \cup {I(0), Null("[]any"), List("[]int", <<I(1)>>)}) >>
Pairs2(S, T) == {N(op, 0, s) : op \in {"All", "Any"}, s \in S \X T}
TwoLevels == <<
  (Negations(OnValues) \cup Pairs2(OnValues, OnValues \cup Odd)) \X Ints,
  (Quantifiers(OnValues) \cup Projections(OnValues)
     \cup {N(op, 0, s) : op \in Ordered, s \in OnValues \X Leaves}) \X Anys(2),
  (Negations(OnLists) \cup Pairs2(OnLists, OtherLists))
    \X {List("[]any", s) : s \in Seqs({I(0), I(1), I(2)}, 2)},
  (Projections(OnLists) \cup Quantifiers(OnLists))
    \X {List("[]any", s) : s \in Seqs({List("[]any", <<I(0)>>), List("[]any", <<I(1), I(2)>>)}, 2)} >>

AllAssertions == <<OrderTrees, TextTrees, BetweenTrees, ErrorTrees, CloseTrees>> \o PlainTrees \o OneLevel \o TwoLevels
=============================================================================

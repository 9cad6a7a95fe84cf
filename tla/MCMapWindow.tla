---------------------------- MODULE MCMapWindow -----------------------------
(* The messages MapWindow is checked on: maps of up to four entries, two of  *)
(* whose three keys are NaNs, with values that agree on what a small         *)
(* allowance sees; rendered twice, or compared and rendered.                 *)
EXTENDS MapWindow

Keys == <<[nan |-> TRUE, n |-> 1], [nan |-> TRUE, n |-> 2], [nan |-> FALSE, n |-> 1]>>
Made(nodes, nested, capped) == [nodes |-> nodes, nested |-> nested, capped |-> capped]
Contents == <<
  Made(<<1>>, <<>>, FALSE),           Made(<<1, 1, 2>>, <<>>, FALSE),
  Made(<<1>>, <<>>, TRUE),            Made(<<1>>, <<<<2, 1>>, <<1, 1>>>>, FALSE)>>

Kinds == (1..3) \X (1..3) \X BOOLEAN   \* key, value, side
Before(x, y) ==
  \/ x[1] < y[1]
  \/ x[1] = y[1] /\ (x[2] < y[2] \/ (x[2] = y[2] /\ (x[3] => y[3])))
Sorted(n) == {m \in [1..n -> Kinds] : \A i \in 1..(n - 1) : Before(m[i], m[i + 1])}
Map(m) == [i \in DOMAIN m |-> [key |-> Keys[m[i][1]], val |-> m[i][2], fromA |-> m[i][3]]]

\* A key that is a number is in a map once.
Legal(m) == \A i, j \in DOMAIN m : m[i][1] = 3 /\ m[j][1] = 3 /\ m[i][3] = m[j][3] => i = j
Tie(m)   == \E i, j \in DOMAIN m : i # j /\ m[i][1] = m[j][1]
Fillings == {<<1, 2, 3>>, <<2, 4, 4>>, <<4, 1, 2>>}
Budgets  == {6, 30, 80}

About(m, f, todo, budget) ==
  [map |-> Map(m), content |-> [v \in 1..3 |-> Contents[f[v]]], jobs |-> todo, left |-> budget]
AllMessages ==
  LET own  == {m \in Sorted(4) : Legal(m) /\ Tie(m) /\ \A i \in DOMAIN m : m[i][3]}
      both == {m \in Sorted(3) : Legal(m) /\ Tie(m)}
      of(S, todo) == {About(m, f, todo, b) : m \in S, f \in Fillings, b \in Budgets}
  IN of(own, <<"window", "window">>) \cup of(both, <<"union", "window">>)
Refs == {1, 2}
=============================================================================

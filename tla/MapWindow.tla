----------------------------- MODULE MapWindow ------------------------------
(***************************************************************************)
(* Which entries of a map a diagnostic shows, and in which order, when     *)
(* keys cannot tell the entries apart (assert/structural_diff.go,          *)
(* assert/tiebreak.go): the window of the k smallest entries, the sorted   *)
(* union of two maps, and the work budget of the message, fpMeter.         *)
(*                                                                         *)
(* The runtime iterates a map in any order, a new one each time.  A key is *)
(* a float: NaNs of the same bits tie.  A value is what fingerprinting it  *)
(* visits: nodes in a row, then perhaps a nested map of such rows, then    *)
(* perhaps something a limit other than the number of nodes leaves out.    *)
(***************************************************************************)
EXTENDS Integers, FiniteSets, FiniteSetsExt, SequencesExt

CONSTANTS
  Messages,   \* the maps a message may be about, and what it does with them
  References, \* the values that are references, or hold one
  K,          \* entries a window has room for
  MaxNodes,   \* fingerprintMaxNodes
  MemoMinLen  \* windowMemoMinLen

ASSUME WindowAssumption == K \in Nat \ {0} /\ MaxNodes \in Nat /\ MemoMinLen \in Nat

VARIABLES
  map,      \* the entries: key, value and whether the expected map holds it
  content,  \* what each value is made of
  jobs,     \* what the message does with the map, in order
  phase,    \* where the first of the jobs is
  rest,     \* entries the running iteration has not reached
  top,      \* pass one: the smallest keys, an entry of each, and how many entries share it
  kept,     \* pass two: the first entries of each tied key of top
  row,      \* sortEntries: the entries in order
  allowance,\* nodes each tied entry may visit
  left,     \* fpMeter.left
  memo,     \* fpMeter.memo
  windows,  \* fpMeter.windows, of this map
  start,    \* what was left when the job began
  shown     \* the lines of the jobs that are done

meter == <<left, memo, windows>>
local == <<rest, top, kept, row, allowance>>
vars  == <<map, content, jobs, phase, local, meter, start, shown>>

Entries == DOMAIN map
Expected == {e \in Entries : map[e].fromA}

-----------------------------------------------------------------------------
(* Orders.                                                                 *)

\* cmpFloat: NaNs first, by their bits.
KeyLess(j, k) == IF j.nan = k.nan THEN j.n < k.n ELSE j.nan

\* bytes.Compare.
BytesLess(s, t) ==
  \E i \in DOMAIN t :
    /\ \A j \in 1..(i - 1) : j <= Len(s) /\ s[j] = t[j]
    /\ i > Len(s) \/ s[i] < t[i]

\* compareFingerprints: by bytes, then complete before truncated.
FpLess(x, y) == BytesLess(x.data, y.data) \/ (x.data = y.data /\ x.complete /\ ~y.complete)
FpTie(x, y)  == x.data = y.data /\ x.complete = y.complete

Least(i, j) == IF i < j THEN i ELSE j
BitsLen(n)  == IF n = 0 THEN 0 ELSE CHOOSE b \in 1..n : 2^(b - 1) <= n /\ n < 2^b

-----------------------------------------------------------------------------
(* fpBuilder.compute.                                                      *)

Printed(data, complete, nodeCut, used) ==
  [data |-> data, complete |-> complete, nodeCut |-> nodeCut, used |-> used]
Total(s) == FoldSeq(LAMBDA x, y : x + y, 0, s)

\* mapEntries: the sort is charged first, every entry gets an equal share of what is left, and the
\* entries are written in the order of their own fingerprints.
Nested(rows, budget) ==
  LET n     == Len(rows)
      cost  == n + n * BitsLen(n)
      share == (budget - cost) \div n
      seen(i) == Least(share, Len(rows[i]))
      sub(i)  == [data |-> SubSeq(rows[i], 1, seen(i)), complete |-> seen(i) = Len(rows[i])]
      sorted  == SortSeq([i \in 1..n |-> sub(i)], FpLess)
      bytes(s) == <<Len(s.data)>> \o s.data \o <<IF s.complete THEN 1 ELSE 0>>
  IN IF cost > budget THEN Printed(<<>>, FALSE, TRUE, 0)
     ELSE Printed(FlattenSeq([i \in 1..n |-> bytes(sorted[i])]),
                \A i \in 1..n : sorted[i].complete,
                \E i \in 1..n : ~sorted[i].complete,
                cost + Total([i \in 1..n |-> seen(i)]))

Fingerprint(c, budget) ==
  LET n == Len(c.nodes) IN
  IF budget < n THEN Printed(SubSeq(c.nodes, 1, budget), FALSE, TRUE, budget)
  ELSE IF c.nested = <<>> THEN Printed(c.nodes, ~c.capped, FALSE, n)
  ELSE LET sub == Nested(c.nested, budget - n)
       IN Printed(c.nodes \o sub.data, sub.complete /\ ~c.capped, sub.nodeCut, n + sub.used)

-----------------------------------------------------------------------------
(* fpMeter.                                                                *)

\* tieAllowance: an equal share of half of what is left, a power of two.
TieAllowance(tied) ==
  LET a == Least(MaxNodes, (left \div 2) \div tied)
  IN IF a < 1 THEN 0 ELSE 2^(BitsLen(a) - 1)

\* Mutant: what was cut at a smaller allowance is recalled too.
Recalls_Cut(v) ==
  v \in DOMAIN memo /\ memo[v].allowance <= allowance
\* The memo answers when a new computation could not see more, or less.
Recalls(v) ==
  /\ v \in DOMAIN memo
  /\ memo[v].allowance = allowance \/ (~memo[v].fp.nodeCut /\ allowance > memo[v].allowance)

TieFingerprint(v) ==
  IF allowance > 0 /\ Recalls(v) THEN memo[v].fp ELSE Fingerprint(content[v], allowance)

\* tieFingerprint's effect on the meter.
Charge(v) ==
  IF allowance = 0 \/ Recalls(v) THEN UNCHANGED <<left, memo>>
  ELSE LET fp == Fingerprint(content[v], allowance) IN
       /\ left' = left - fp.used
       /\ memo' = IF v \in References
                  THEN [w \in DOMAIN memo \cup {v} |->
                          IF w = v THEN [allowance |-> allowance, fp |-> fp] ELSE memo[w]]
                  ELSE memo

-----------------------------------------------------------------------------
(* selectSmallestMapEntries.                                               *)

Line(key, a, b, text) == [key |-> key, a |-> a, b |-> b, text |-> text]
Ambiguous == <<>>   \* the marker that stands for a value
Value(v)  == <<content[v]>>
Doing(job, at) == jobs # <<>> /\ Head(jobs) = job /\ phase = at
Done(lines) ==
  /\ shown' = Append(shown, [job |-> Head(jobs), start |-> start, lines |-> lines, left |-> left'])
  /\ jobs' = Tail(jobs) /\ phase' = "begin"
  /\ rest' = {} /\ top' = <<>> /\ kept' = <<>> /\ row' = <<>> /\ allowance' = 0

StartWindow ==
  /\ Doing("window", "begin")
  /\ phase' = "keys" /\ rest' = Expected /\ start' = left
  /\ windows = <<>>
  /\ UNCHANGED <<map, content, jobs, meter, top, kept, row, allowance, shown>>

\* A big map met again gets the window it got the first time.
RecallWindow ==
  /\ Doing("window", "begin") /\ windows # <<>>
  /\ start' = left
  /\ UNCHANGED <<map, content, meter>>
  /\ shown' = Append(shown, [job |-> "window", start |-> left, lines |-> windows[1], left |-> left])
  /\ jobs' = Tail(jobs)
  /\ UNCHANGED <<phase, local>>

\* Pass one, one entry.
ScanKey(e) ==
  LET key == map[e].key
      pos == Cardinality({i \in DOMAIN top : KeyLess(top[i].key, key)})
      class == [key |-> key, n |-> 1, val |-> map[e].val]
      longer == SubSeq(top, 1, pos) \o <<class>> \o SubSeq(top, pos + 1, Len(top))
  IN
  /\ Doing("window", "keys") /\ e \in rest
  /\ rest' = rest \ {e}
  /\ top' = IF \E i \in DOMAIN top : top[i].key = key
            THEN [top EXCEPT ![pos + 1].n = @ + 1]
            ELSE IF pos >= K THEN top
            ELSE SubSeq(longer, 1, Least(K, Len(longer)))
  /\ UNCHANGED <<map, content, jobs, phase, kept, row, allowance, meter, start, shown>>

\* How many entries the window can still take of the i-th key of top, if that key ties; or none.
Above(i) == Total([j \in 1..(i - 1) |-> top[j].n])
Need(i)  == IF top[i].n >= 2 /\ Above(i) < K THEN Least(top[i].n, K - Above(i)) ELSE 0
Tied     == Total([i \in DOMAIN top |-> IF Need(i) > 0 THEN top[i].n ELSE 0])

Window(classes) ==
  LET lines(i) == IF Need(i) = 0 THEN <<Line(top[i].key, 1, 0, Value(top[i].val))>> ELSE classes[i]
      all == FlattenSeq([i \in DOMAIN top |-> lines(i)])
  IN SubSeq(all, 1, Least(K, Len(all)))
Remember(lines) ==
  windows' = IF Cardinality(Expected) >= MemoMinLen THEN <<lines>> ELSE windows

EndOfKeys ==
  /\ Doing("window", "keys") /\ rest = {}
  /\ UNCHANGED <<map, content, left, memo, start>>
  /\ IF Tied = 0 THEN Done(Window(<<>>)) /\ Remember(Window(<<>>))
     ELSE /\ phase' = "values" /\ rest' = Expected /\ allowance' = TieAllowance(Tied)
          /\ kept' = [i \in DOMAIN top |-> <<>>]
          /\ UNCHANGED <<jobs, top, row, windows, shown>>

\* Mutant: only the new one of two entries that cannot be told apart is marked.
Admit_OneMarked(w, fp, val, need) ==
  LET pos  == Cardinality({i \in DOMAIN w : ~FpLess(fp, w[i].fp)})
      tie  == ~fp.complete /\ pos > 0 /\ FpTie(fp, w[pos].fp)
      entry == [val |-> val, fp |-> fp, ambiguous |-> tie]
      longer == SubSeq(w, 1, pos) \o <<entry>> \o SubSeq(w, pos + 1, Len(w))
  IN IF pos >= need THEN w ELSE SubSeq(longer, 1, Least(need, Len(longer)))
\* Where an entry goes among the kept entries of its key, and which are ambiguous from then on.
Admit(w, fp, val, need) ==
  LET pos  == Cardinality({i \in DOMAIN w : ~FpLess(fp, w[i].fp)})
      tie  == ~fp.complete /\ pos > 0 /\ FpTie(fp, w[pos].fp)
      marked == IF tie THEN [w EXCEPT ![pos].ambiguous = TRUE] ELSE w
      entry == [val |-> val, fp |-> fp, ambiguous |-> tie]
      longer == SubSeq(marked, 1, pos) \o <<entry>> \o SubSeq(marked, pos + 1, Len(w))
  IN IF pos >= need THEN marked ELSE SubSeq(longer, 1, Least(need, Len(longer)))

\* Pass two, one entry.
ScanValue(e) ==
  LET val   == map[e].val
      class == {i \in DOMAIN top : top[i].key = map[e].key /\ Need(i) > 0}
  IN
  /\ Doing("window", "values") /\ e \in rest
  /\ rest' = rest \ {e}
  /\ IF class = {} THEN UNCHANGED <<kept, left, memo>>
     ELSE /\ kept' = [i \in DOMAIN kept |->
                        IF i \in class THEN Admit(kept[i], TieFingerprint(val), val, Need(i)) ELSE kept[i]]
          /\ Charge(val)
  /\ UNCHANGED <<map, content, jobs, phase, top, row, allowance, windows, start, shown>>

EndOfValues ==
  LET text(x) == IF x.ambiguous THEN Ambiguous ELSE Value(x.val)
      lines(i) == [j \in DOMAIN kept[i] |-> Line(top[i].key, 1, 0, text(kept[i][j]))]
      window == Window([i \in DOMAIN top |-> lines(i)])
  IN
  /\ Doing("window", "values") /\ rest = {}
  /\ UNCHANGED <<map, content, left, memo, start>>
  /\ Done(window) /\ Remember(window)

-----------------------------------------------------------------------------
(* walkMap: the union of two maps, sortEntries and tiedUnits.              *)

\* A key of actual that is found in expected adds no entry; a NaN is never found.
Union ==
  Expected \cup {e \in Entries \ Expected :
                   map[e].key.nan \/ \A f \in Expected : map[f].key # map[e].key}
Class(e) == {f \in Union : map[f].key = map[e].key}
TiedEntries == {e \in Union : Cardinality(Class(e)) > 1}
Unread == [data |-> <<>>, complete |-> TRUE, nodeCut |-> FALSE, used |-> 0]

\* Both maps are ranged over, expected first, and the entries sorted by key, stably.
StartUnion ==
  /\ Doing("union", "begin")
  /\ \E order \in SetToSeqs(Union) :
       /\ \A i, j \in DOMAIN order : i < j =>
            /\ ~KeyLess(map[order[j]].key, map[order[i]].key)
            /\ map[order[i]].key = map[order[j]].key => map[order[i]].fromA \/ ~map[order[j]].fromA
       /\ row' = [i \in DOMAIN order |-> [e |-> order[i], fp |-> Unread]]
  /\ allowance' = IF TiedEntries = {} THEN 0 ELSE TieAllowance(Cardinality(TiedEntries))
  /\ rest' = TiedEntries /\ start' = left /\ phase' = "prints"
  /\ UNCHANGED <<map, content, jobs, top, kept, meter, shown>>

\* Every entry of a tie class is fingerprinted, class by class.
ReadValue(i) ==
  LET e == row[i].e IN
  /\ Doing("union", "prints") /\ e \in rest /\ \A j \in 1..(i - 1) : row[j].e \notin rest
  /\ rest' = rest \ {e}
  /\ row' = [row EXCEPT ![i].fp = TieFingerprint(map[e].val)]
  /\ Charge(map[e].val)
  /\ UNCHANGED <<map, content, jobs, phase, top, kept, allowance, windows, start, shown>>

\* compareMapEntries.
EntryLess(x, y) ==
  LET kx == map[x.e].key
      ky == map[y.e].key
  IN \/ KeyLess(kx, ky)
     \/ kx = ky /\ (\/ FpLess(x.fp, y.fp)
                    \/ FpTie(x.fp, y.fp) /\ map[x.e].fromA /\ ~map[y.e].fromA)

Indistinguishable(x, y) ==
  map[x.e].key = map[y.e].key /\ ~x.fp.complete /\ FpTie(x.fp, y.fp)

\* tiedUnits, each as the line it gets: an entry, or a count of entries and no value.
UnitLines(sorted) ==
  LET heads == {i \in DOMAIN sorted : i = 1 \/ ~Indistinguishable(sorted[i - 1], sorted[i])}
      unit(i) == {j \in i..Len(sorted) : \A h \in heads : h <= i \/ j < h}
      fromA(S) == {j \in S : map[sorted[j].e].fromA}
      line(i) == Line(map[sorted[i].e].key, Cardinality(fromA(unit(i))), Cardinality(unit(i) \ fromA(unit(i))),
                      IF Cardinality(unit(i)) > 1 THEN Ambiguous ELSE Value(map[sorted[i].e].val))
      order == SetToSortSeq(heads, <)
  IN [n \in DOMAIN order |-> line(order[n])]

EndOfUnion ==
  /\ Doing("union", "prints") /\ rest = {}
  /\ UNCHANGED <<map, content, meter, start>>
  /\ Done(UnitLines(SortSeq(row, EntryLess)))

-----------------------------------------------------------------------------
Init ==
  /\ \E m \in Messages : map = m.map /\ content = m.content /\ jobs = m.jobs /\ left = m.left
  /\ phase = "begin" /\ rest = {} /\ top = <<>> /\ kept = <<>> /\ row = <<>> /\ allowance = 0
  /\ memo = <<>> /\ windows = <<>> /\ start = left /\ shown = <<>>

Next ==
  \/ StartWindow \/ RecallWindow \/ EndOfKeys \/ EndOfValues \/ StartUnion \/ EndOfUnion
  \/ \E e \in Entries : ScanKey(e) \/ ScanValue(e)
  \/ \E i \in DOMAIN row : ReadValue(i)

Spec == Init /\ [][Next]_vars

-----------------------------------------------------------------------------
(* Properties.                                                             *)

\* What a reader of the whole map would do with the same allowance, entry by entry.
Group(S, e) == {f \in S : map[f].key = map[e].key}
Judged(S, e, a) == IF Cardinality(Group(S, e)) = 1 THEN Unread ELSE Fingerprint(content[map[e].val], a)
Share(budget, n) ==
  LET shares == {p \in {2^i : i \in 0..12} : p <= MaxNodes /\ 2 * n * p <= budget}
  IN IF shares = {} THEN 0 ELSE CHOOSE p \in shares : \A q \in shares : q <= p
Doubt(S, e, a) ==
  \E f \in Group(S, e) \ {e} : ~Judged(S, e, a).complete /\ FpTie(Judged(S, e, a), Judged(S, f, a))
Precedes(S, f, e, a) ==
  KeyLess(map[f].key, map[e].key) \/ (map[f].key = map[e].key /\ FpLess(Judged(S, f, a), Judged(S, e, a)))

\* What fingerprinting the entries of T costs: a reference is fingerprinted once.
Cost(T, a) ==
  LET used(v)  == Fingerprint(content[v], a).used
      vals     == {map[e].val : e \in T}
      times(v) == IF v \in References THEN 1 ELSE Cardinality({e \in T : map[e].val = v})
  IN IF a = 0 THEN 0 ELSE MapThenSumSet(LAMBDA v : times(v) * used(v), vals)

\* The window a sort of all entries would give, whatever the order of either iteration.
IsWindow(done, fresh) ==
  LET S == Expected
      rank(e) == Cardinality({f \in S : KeyLess(map[f].key, map[e].key)})
      tied == {e \in S : rank(e) < K /\ Cardinality(Group(S, e)) > 1}
      a    == Share(done.start, Cardinality(tied))
      less(e) == Cardinality({f \in S : Precedes(S, f, e, a)})
      same(e) == Cardinality({f \in Group(S, e) : FpTie(Judged(S, f, a), Judged(S, e, a))})
  IN /\ Len(done.lines) = Least(K, Cardinality(S))
     /\ fresh => done.left = done.start - Cost(tied, a)
     /\ \A i \in DOMAIN done.lines : \A e \in S :
          (less(e) < i /\ i <= less(e) + same(e)) =>
            done.lines[i] = Line(map[e].key, 1, 0, IF Doubt(S, e, a) THEN Ambiguous ELSE Value(map[e].val))

\* The lines a sort of the whole union would give.
IsUnion(done, fresh) ==
  LET S == Union
      a == IF TiedEntries = {} THEN 0 ELSE Share(done.start, Cardinality(TiedEntries))
      alike(e) == {f \in Group(S, e) : FpTie(Judged(S, f, a), Judged(S, e, a))}
      unit(e)  == IF Doubt(S, e, a) THEN alike(e) ELSE {e}
      before(f, e) == \/ Precedes(S, f, e, a)
                      \/ f \in alike(e) /\ ~Doubt(S, e, a) /\ map[f].fromA /\ ~map[e].fromA
      less(e) == Cardinality({unit(f) : f \in {g \in S : before(g, e)}})
      same(e) == IF Doubt(S, e, a) THEN 1
                 ELSE Cardinality({f \in alike(e) : map[f].fromA = map[e].fromA})
      sides(e) == {f \in unit(e) : map[f].fromA}
  IN /\ Len(done.lines) = Cardinality({unit(e) : e \in S})
     /\ fresh => done.left = done.start - Cost(TiedEntries, a)
     /\ \A i \in DOMAIN done.lines : \A e \in S :
          (less(e) < i /\ i <= less(e) + same(e)) =>
            done.lines[i] = Line(map[e].key, Cardinality(sides(e)), Cardinality(unit(e) \ sides(e)),
                                 IF Doubt(S, e, a) THEN Ambiguous ELSE Value(map[e].val))

\* Whatever the order of iteration, and whatever was recalled, a message shows the lines a sort of the
\* whole map would give, and two entries that the budget cannot tell apart never show a value; a big
\* map is shown the same way throughout, and what is spent is determined too (comment of smallestMapEntriesWith; policy of tiebreak.go).
LinesAreDetermined ==
  \A i \in DOMAIN shown :
    \/ shown[i].job = "union" /\ IsUnion(shown[i], i = 1)
    \/ shown[i].job = "window" /\ IsWindow(shown[i], i = 1)
    \/ \E j \in 1..(i - 1) : /\ shown[j].job = "window" /\ shown[j].lines = shown[i].lines
                             /\ Cardinality(Expected) >= MemoMinLen

\* No map spends more than half of what the maps before it left, and what is recalled is what a new
\* fingerprint at that allowance would be (comments of tieAllowance and tieFingerprint).
BudgetIsShared ==
  /\ phase # "begin" => 2 * left >= start
  /\ \A v \in DOMAIN memo : Recalls(v) =>
       /\ memo[v].fp.data = Fingerprint(content[v], allowance).data
       /\ memo[v].fp.complete = Fingerprint(content[v], allowance).complete
=============================================================================

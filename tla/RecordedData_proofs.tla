------------------------ MODULE RecordedData_proofs ------------------------
(***************************************************************************)
(* Theorems about a recording, for any exchange, number of levels, rows    *)
(* and configuration of the partitions: its cuts, its rows, its order, and *)
(* what replays of it show.                                                *)
(***************************************************************************)
EXTENDS RecordedData, FiniteSetTheorems, WellFoundedInduction, TLAPS

\* What is multiplied by a fraction and truncated is a natural number.
LEMMA TruncatedType ==
  ASSUME NEW n \in Nat, NEW f \in Nat, NEW x \in Truncated(n * f, 100)
  PROVE  x \in Nat
<1>1. n * f \in Nat
  OBVIOUS
<1>2. ASSUME NEW a \in Nat PROVE a \div 100 \in Nat /\ (a > 0 /\ a % 100 = 0 => a \div 100 > 0)
  OBVIOUS
<1>3. QED
  BY <1>1, <1>2 DEF Truncated

\* Where partition_events puts the three partitions, for the embargo's sake.
LEMMA PartitionsApart ==
  ASSUME NEW n \in Nat, NEW n_train \in Nat, NEW n_val \in Nat, NEW embargo \in Nat,
         NEW P, P = partition_events(n, n_train, n_val, embargo)
  PROVE  /\ \A i \in Indices(P["train"]), j \in Indices(P["validation"]) : j - i > embargo
         /\ \A i \in Indices(P["train"]), j \in Indices(P["holdout"]) : j - i > embargo
         /\ \A i \in Indices(P["validation"]), j \in Indices(P["holdout"]) : j - i > embargo
  BY DEF partition_events, Interval, Indices, min

\* The bounds of a dataset come from partition_events with the embargo in cut.
CutInv ==
  /\ cut \in Nat
  /\ Loaded => \E n, n_train, n_val \in Nat :
                 bounds = partition_events(n, n_train, n_val, cut)

LEMMA CutInvInit == Init => CutInv
  BY DEF Init, FeedInit, CutInv, Loaded

\* Only load_l2 touches the bounds, and only it loads.
LEMMA CutInvNext == CutInv /\ [Next]_vars => CutInv'
<1> SUFFICES ASSUME CutInv, [Next]_vars PROVE CutInv'
  OBVIOUS
<1>1. CASE Feed
  <2>1. conn' # "loaded" \/ conn' = conn
    BY <1>1 DEF Feed, ExchangeStep, RecorderStep, Moves, Trades, Opens, Drops, DepthMessage,
                TradeMessage, Leaves, OpensLate
  <2>2. QED
    BY <1>1, <2>1 DEF Feed, CutInv, Loaded
<1>2. CASE load_l2
  <2>1. PICK f \in Fractions :
          \E embargo \in Truncated(Len(rows) * f.embargo, 100),
             n_train \in Truncated(Len(rows) * f.train, 100),
             n_val \in Truncated(Len(rows) * f.val, 100) :
            /\ bounds' = partition_events(Len(rows), n_train, n_val, embargo)
            /\ cut' = embargo
    BY <1>2 DEF load_l2
  <2>2. Len(rows) \in Nat
    BY <1>2, Zenon DEF load_l2
  <2>3. f.train \in Nat /\ f.val \in Nat /\ f.embargo \in Nat
    <3>1. f.train \in 0 .. 100 /\ f.val \in 0 .. 100 /\ f.embargo \in 0 .. 100
      BY FractionsAssumption, Zenon
    <3>2. QED
      BY <3>1
  <2>4. PICK n_train \in Truncated(Len(rows) * f.train, 100),
             n_val \in Truncated(Len(rows) * f.val, 100) :
          /\ cut' \in Truncated(Len(rows) * f.embargo, 100)
          /\ bounds' = partition_events(Len(rows), n_train, n_val, cut')
    BY <2>1
  <2>5. n_train \in Nat /\ n_val \in Nat /\ cut' \in Nat
    BY <2>2, <2>3, <2>4, TruncatedType, Zenon
  <2>6. QED
    BY <2>2, <2>4, <2>5, Zenon DEF CutInv
<1>3. CASE Ties
  BY <1>3 DEF Ties, feedVars, CutInv, Loaded
<1>4. CASE UNCHANGED vars
  BY <1>4 DEF vars, feedVars, CutInv, Loaded
<1>5. QED
  BY <1>1, <1>2, <1>3, <1>4 DEF Next

THEOREM CutTyped == Spec => []CutInv
  BY CutInvInit, CutInvNext, PTL DEF Spec

\* Partitions keep their embargo: no event of a later partition lies within
\* cut events of one of an earlier partition, whatever is recorded and however
\* partition_events is configured.
THEOREM EmbargoKept == Spec => []PartitionsKeepEmbargo
<1>1. CutInv => PartitionsKeepEmbargo
  <2> SUFFICES ASSUME CutInv, Loaded PROVE PartitionsKeepEmbargo
    BY DEF PartitionsKeepEmbargo
  <2>1. PICK n, n_train, n_val \in Nat : bounds = partition_events(n, n_train, n_val, cut)
    BY DEF CutInv
  <2>2. cut \in Nat
    BY DEF CutInv
  <2>3. /\ \A i \in Indices(bounds["train"]), j \in Indices(bounds["validation"]) : j - i > cut
        /\ \A i \in Indices(bounds["train"]), j \in Indices(bounds["holdout"]) : j - i > cut
        /\ \A i \in Indices(bounds["validation"]), j \in Indices(bounds["holdout"]) : j - i > cut
    BY <2>1, <2>2, PartitionsApart, Zenon
  <2>4. QED
    BY <2>3, Zenon DEF PartitionsKeepEmbargo
<1>2. QED
  BY <1>1, CutTyped, PTL

\* A fold's training set keeps its distance from the test block.
LEMMA FoldPurged ==
  ASSUME NEW n \in Nat, NEW k \in 2 .. n, NEW i \in 0 .. k - 1, NEW embargo \in Nat,
         NEW s \in Fold(n, k, embargo, i).test, NEW t \in Fold(n, k, embargo, i).train
  PROVE  t < s \/ t > s + embargo
<1> DEFINE from == Block(n, k, i).from
           to == Block(n, k, i).to
<1>1. from \in Int /\ to \in Int
  <2>1. n \div k \in Int /\ n % k \in Int
    OBVIOUS
  <2>2. i * (n \div k) \in Int /\ (i + 1) * (n \div k) \in Int
    BY <2>1
  <2>3. QED
    BY <2>1, <2>2 DEF Block, Interval, min
<1>2. s \in from .. to - 1
  BY DEF Fold, Indices
<1>3. t \in (0 .. n - 1) \ (from .. min(n, to + embargo) - 1)
  BY DEF Fold
<1> HIDE DEF from, to
<1>4. QED
  BY <1>1, <1>2, <1>3 DEF min

\* purged_kfold_indices purges and embargoes, for any number of folds.
THEOREM FoldsPurged == Spec => []FoldsArePurged
<1>1. CutInv => FoldsArePurged
  <2> SUFFICES ASSUME CutInv, Loaded PROVE FoldsArePurged
    BY DEF FoldsArePurged
  <2>1. bounds["holdout"].to \in Nat
    BY DEF CutInv, partition_events, Interval
  <2>2. QED
    BY <2>1, FoldPurged DEF CutInv, FoldsArePurged
<1>2. QED
  BY <1>1, CutTyped, PTL

\* Both together: nothing is trained or tuned on within the embargo of what it
\* is tested on.
THEOREM CutsApart == Spec => []CutsKeepEmbargo
  BY EmbargoKept, FoldsPurged, PTL DEF CutsKeepEmbargo
(***************************************************************************)
(* The rows of a recording.                                                *)
(***************************************************************************)
RowsUntil(t) ==
  [ts : 1 .. t, event : {"add", "cancel", "trade"}, level : Levels, qty : Nat, id : Nat]
Converters(t) ==
  [level_id : [Levels -> Nat], next_id : Nat \ {0}, rows : Seq(RowsUntil(t))]

\* Row i of r is an event of the order x.
Is(r, i, event, x) == r[i].event = event /\ r[i].id = x

\* An order is added once and cancelled once, at its level and after it was
\* added, and what is not a cancel has volume.
RowsSound(r) ==
  /\ \A i \in DOMAIN r : r[i].event # "cancel" => r[i].qty > 0
  /\ \A i, j \in DOMAIN r : r[i].event = "add" /\ Is(r, j, "add", r[i].id) => i = j
  /\ \A i, j \in DOMAIN r : r[i].event = "cancel" /\ Is(r, j, "cancel", r[i].id) => i = j
  /\ \A j \in DOMAIN r : r[j].event = "cancel" =>
       \E i \in 1 .. j - 1 : Is(r, i, "add", r[j].id) /\ r[i].level = r[j].level

\* Identifiers go up, and the level map names orders that were added to their
\* level and not cancelled.
MapSound(d) ==
  /\ \A i \in DOMAIN d.rows : d.rows[i].event = "add" => d.rows[i].id < d.next_id
  /\ \A l \in Levels :
       d.level_id[l] # 0 =>
         /\ \E i \in DOMAIN d.rows : Is(d.rows, i, "add", d.level_id[l]) /\ d.rows[i].level = l
         /\ \A i \in DOMAIN d.rows : ~Is(d.rows, i, "cancel", d.level_id[l])

ConverterInv(d, t) == d \in Converters(t) /\ RowsSound(d.rows) /\ MapSound(d)

\* One more row.
LEMMA OneMoreRow ==
  ASSUME NEW S, NEW r \in Seq(S), NEW x \in S
  PROVE  /\ Append(r, x) \in Seq(S) /\ Len(r) \in Nat
         /\ DOMAIN r = 1 .. Len(r) /\ DOMAIN Append(r, x) = 1 .. Len(r) + 1
         /\ Append(r, x)[Len(r) + 1] = x
         /\ \A i \in 1 .. Len(r) : Append(r, x)[i] = r[i]
  OBVIOUS

\* s is r and one row more, x.
Extended(r, s, n, x) ==
  /\ n \in Nat /\ DOMAIN r = 1 .. n /\ DOMAIN s = 1 .. n + 1
  /\ s[n + 1] = x /\ \A i \in 1 .. n : s[i] = r[i]

\* Extended, for a row appended.
LEMMA OneMoreIs ==
  ASSUME NEW S, NEW r \in Seq(S), NEW x \in S, NEW s, s = Append(r, x)
  PROVE  \E n \in Nat : /\ DOMAIN r = 1 .. n /\ DOMAIN s = 1 .. n + 1
                        /\ s[n + 1] = x /\ \A i \in 1 .. n : s[i] = r[i]
<1>1. PICK n \in Nat : n = Len(r)
  BY OneMoreRow
<1>2. /\ DOMAIN r = 1 .. n /\ DOMAIN s = 1 .. n + 1
      /\ s[n + 1] = x /\ \A i \in 1 .. n : s[i] = r[i]
  BY <1>1, OneMoreRow
<1>3. QED
  BY <1>2

\* A row that names an order no other row of its kind names.
Fits(r, n, x) ==
  /\ x.event # "cancel" => x.qty > 0
  /\ x.event = "add" => \A i \in 1 .. n : ~Is(r, i, "add", x.id)
  /\ x.event = "cancel" =>
       /\ \A i \in 1 .. n : ~Is(r, i, "cancel", x.id)
       /\ \E i \in 1 .. n : Is(r, i, "add", x.id) /\ r[i].level = x.level

\* Such a row keeps the rows sound.
LEMMA AppendSound ==
  ASSUME NEW n, NEW r, NEW s, NEW x, Extended(r, s, n, x), RowsSound(r), Fits(r, n, x)
  PROVE  RowsSound(s)
<1>0. /\ n \in Nat /\ DOMAIN r = 1 .. n /\ DOMAIN s = 1 .. n + 1
      /\ s[n + 1] = x /\ \A i \in 1 .. n : s[i] = r[i]
  BY DEF Extended
<1>1. \A i \in 1 .. n + 1 : i \in 1 .. n \/ i = n + 1
  BY <1>0
<1>2. \A i \in DOMAIN s : s[i].event # "cancel" => s[i].qty > 0
  BY <1>0, <1>1 DEF RowsSound, Fits
<1>3. ASSUME NEW i \in DOMAIN s, NEW j \in DOMAIN s, NEW e \in {"add", "cancel"},
             s[i].event = e, Is(s, j, e, s[i].id)
      PROVE  i = j
  <2>1. CASE i \in 1 .. n /\ j \in 1 .. n
    <3>1. r[i].event = e /\ Is(r, j, e, r[i].id)
      BY <1>0, <1>3, <2>1 DEF Is
    <3>2. QED
      BY <1>0, <2>1, <3>1 DEF RowsSound
  <2>2. CASE i = n + 1 /\ j \in 1 .. n
    BY <1>0, <1>3, <2>2 DEF Is, Fits
  <2>3. CASE i \in 1 .. n /\ j = n + 1
    BY <1>0, <1>3, <2>3 DEF Is, Fits
  <2>4. QED
    BY <1>0, <1>1, <2>1, <2>2, <2>3
<1>4. ASSUME NEW j \in DOMAIN s, s[j].event = "cancel"
      PROVE  \E i \in 1 .. j - 1 : Is(s, i, "add", s[j].id) /\ s[i].level = s[j].level
  <2>1. CASE j = n + 1
    <3>1. PICK i \in 1 .. n : Is(r, i, "add", x.id) /\ r[i].level = x.level
      BY <1>0, <1>4, <2>1 DEF Fits
    <3>2. s[i] = r[i] /\ s[j] = x /\ i \in 1 .. j - 1
      BY <1>0, <2>1, <3>1
    <3>3. QED
      BY <3>1, <3>2 DEF Is
  <2>2. CASE j \in 1 .. n
    <3>1. s[j] = r[j]
      BY <1>0, <2>2
    <3>2. PICK i \in 1 .. j - 1 : Is(r, i, "add", r[j].id) /\ r[i].level = r[j].level
      BY <1>0, <1>4, <2>2, <3>1 DEF RowsSound
    <3>3. s[i] = r[i]
      BY <1>0, <2>2, <3>2
    <3>4. QED
      BY <3>1, <3>2, <3>3 DEF Is
  <2>3. QED
    BY <1>0, <1>1, <2>1, <2>2
<1>5. QED
  BY <1>2, <1>3, <1>4, Zenon DEF RowsSound

\* A further row that does not cancel the order y leaves it named.
LEMMA AppendNames ==
  ASSUME NEW n, NEW r, NEW s, NEW x, Extended(r, s, n, x), NEW k, NEW y,
         ~(x.event = "cancel" /\ x.id = y),
         \E i \in 1 .. n : Is(r, i, "add", y) /\ r[i].level = k,
         \A i \in 1 .. n : ~Is(r, i, "cancel", y)
  PROVE  /\ \E i \in DOMAIN s : Is(s, i, "add", y) /\ s[i].level = k
         /\ \A i \in DOMAIN s : ~Is(s, i, "cancel", y)
<1>0. /\ n \in Nat /\ DOMAIN r = 1 .. n /\ DOMAIN s = 1 .. n + 1
      /\ s[n + 1] = x /\ \A i \in 1 .. n : s[i] = r[i]
  BY DEF Extended
<1>1. \A i \in 1 .. n + 1 : i \in 1 .. n \/ i = n + 1
  BY <1>0
<1>2. \A i \in 1 .. n : i \in 1 .. n + 1
  BY <1>0
<1>3. \E i \in DOMAIN s : Is(s, i, "add", y) /\ s[i].level = k
  <2>1. PICK i \in 1 .. n : Is(r, i, "add", y) /\ r[i].level = k
    OBVIOUS
  <2>2. s[i] = r[i] /\ i \in DOMAIN s
    BY <1>0, <1>2, <2>1
  <2>3. QED
    BY <2>1, <2>2, Zenon DEF Is
<1>4. ASSUME NEW i \in DOMAIN s, Is(s, i, "cancel", y) PROVE FALSE
  <2>1. CASE i \in 1 .. n
    <3>1. s[i] = r[i]
      BY <1>0, <2>1
    <3>2. QED
      BY <1>4, <2>1, <3>1, Zenon DEF Is
  <2>2. CASE i = n + 1
    BY <1>0, <1>4, <2>2, Zenon DEF Is
  <2>3. QED
    BY <1>0, <1>1, <2>1, <2>2
<1>5. QED
  BY <1>3, <1>4

\* e is d with the order of l cancelled by row x, or with an order added by row x.
Cancels(d, e, x, l, t) ==
  /\ x \in RowsUntil(t) /\ x.event = "cancel" /\ x.level = l /\ x.id = d.level_id[l]
  /\ e.rows = Append(d.rows, x) /\ e.next_id = d.next_id
  /\ e.level_id = [d.level_id EXCEPT ![l] = 0] /\ e \in Converters(t)
Adds(d, e, x, l, qty, t) ==
  /\ x \in RowsUntil(t) /\ x.event = "add" /\ x.level = l /\ x.id = d.next_id
  /\ x.qty = qty /\ d.next_id \in Nat \ {0}
  /\ e.rows = Append(d.rows, x) /\ e.next_id = d.next_id + 1
  /\ e.level_id = [d.level_id EXCEPT ![l] = d.next_id] /\ e \in Converters(t)

\* What emit_remove writes when the level has an order.
LEMMA RemoveIs ==
  ASSUME NEW t \in Nat \ {0}, NEW d \in Converters(t), NEW ts \in 1 .. t, NEW l \in Levels,
         d.level_id[l] # 0
  PROVE  Cancels(d, emit_remove(d, ts, l), Row(ts, "cancel", l, 0, d.level_id[l]), l, t)
<1> DEFINE x == Row(ts, "cancel", l, 0, d.level_id[l])
           e == emit_remove(d, ts, l)
<1>1. x \in RowsUntil(t) /\ x.event = "cancel" /\ x.level = l /\ x.id = d.level_id[l]
  BY DEF Row, RowsUntil, Converters
<1>2. e = [d EXCEPT !.rows = Append(d.rows, x), !.level_id[l] = 0]
  BY DEF emit_remove
<1>3. PICK a \in [Levels -> Nat], b \in Nat \ {0}, c \in Seq(RowsUntil(t)) :
        d = [level_id |-> a, next_id |-> b, rows |-> c]
  BY DEF Converters
<1> HIDE DEF x, e
<1>4. e = [level_id |-> [a EXCEPT ![l] = 0], next_id |-> b, rows |-> Append(c, x)]
  BY <1>2, <1>3
<1>5. Append(c, x) \in Seq(RowsUntil(t)) /\ [a EXCEPT ![l] = 0] \in [Levels -> Nat]
  BY <1>1, OneMoreRow
<1>6. /\ e.rows = Append(d.rows, x) /\ e.next_id = d.next_id
      /\ e.level_id = [d.level_id EXCEPT ![l] = 0] /\ e \in Converters(t)
  BY <1>3, <1>4, <1>5 DEF Converters
<1>7. Cancels(d, e, x, l, t)
  BY <1>1, <1>6 DEF Cancels
<1>8. QED
  BY <1>7 DEF e, x

\* What Add writes.
LEMMA AddIs ==
  ASSUME NEW t \in Nat \ {0}, NEW d \in Converters(t), NEW ts \in 1 .. t, NEW l \in Levels,
         NEW qty \in Nat \ {0}
  PROVE  Adds(d, Add(d, ts, l, qty), Row(ts, "add", l, qty, d.next_id), l, qty, t)
<1> DEFINE x == Row(ts, "add", l, qty, d.next_id)
           e == Add(d, ts, l, qty)
<1>1. /\ x \in RowsUntil(t) /\ x.event = "add" /\ x.level = l /\ x.id = d.next_id
      /\ x.qty = qty /\ d.next_id \in Nat \ {0}
  BY DEF Row, RowsUntil, Converters
<1>2. e = [d EXCEPT !.rows = Append(d.rows, x), !.level_id[l] = d.next_id,
                    !.next_id = d.next_id + 1]
  BY DEF Add
<1>3. PICK a \in [Levels -> Nat], b \in Nat \ {0}, c \in Seq(RowsUntil(t)) :
        d = [level_id |-> a, next_id |-> b, rows |-> c]
  BY DEF Converters
<1> HIDE DEF x, e
<1>4. e = [level_id |-> [a EXCEPT ![l] = b], next_id |-> b + 1, rows |-> Append(c, x)]
  BY <1>2, <1>3
<1>5. Append(c, x) \in Seq(RowsUntil(t)) /\ [a EXCEPT ![l] = b] \in [Levels -> Nat]
  BY <1>1, OneMoreRow
<1>6. /\ e.rows = Append(d.rows, x) /\ e.next_id = d.next_id + 1
      /\ e.level_id = [d.level_id EXCEPT ![l] = d.next_id] /\ e \in Converters(t)
  BY <1>3, <1>4, <1>5 DEF Converters
<1>7. Adds(d, e, x, l, qty, t)
  BY <1>1, <1>6 DEF Adds
<1>8. QED
  BY <1>7 DEF e, x

\* A cancel of the order a level has keeps the map and the rows sound.
LEMMA RemoveKeeps ==
  ASSUME NEW t \in Nat \ {0}, NEW d, ConverterInv(d, t), NEW ts \in 1 .. t, NEW l \in Levels
  PROVE  /\ ConverterInv(emit_remove(d, ts, l), t)
         /\ emit_remove(d, ts, l).level_id[l] = 0
<1>1. d \in Converters(t) /\ RowsSound(d.rows) /\ MapSound(d)
  BY DEF ConverterInv
<1>2. CASE d.level_id[l] = 0
  BY <1>2 DEF emit_remove
<1>3. CASE d.level_id[l] # 0
  <2> DEFINE x == Row(ts, "cancel", l, 0, d.level_id[l])
             e == emit_remove(d, ts, l)
  <2>a. Cancels(d, e, x, l, t)
    BY <1>1, <1>3, RemoveIs
  <2> HIDE DEF x, e
  <2>1. x \in RowsUntil(t) /\ x.event = "cancel" /\ x.level = l /\ x.id = d.level_id[l]
    BY <2>a DEF Cancels
  <2>2. /\ e.rows = Append(d.rows, x) /\ e.next_id = d.next_id
        /\ e.level_id = [d.level_id EXCEPT ![l] = 0] /\ e \in Converters(t)
    BY <2>a DEF Cancels
  <2>0. PICK r, s : r = d.rows /\ s = e.rows
    OBVIOUS
  <2>3. PICK n \in Nat :
          /\ r = d.rows /\ s = e.rows /\ n = Len(r)
          /\ DOMAIN r = 1 .. n /\ DOMAIN s = 1 .. n + 1
          /\ s[n + 1] = x /\ \A i \in 1 .. n : s[i] = r[i]
    <3>1. d.rows \in Seq(RowsUntil(t)) /\ e.rows \in Seq(RowsUntil(t))
      BY <1>1, <2>2 DEF Converters
    <3> DEFINE S == RowsUntil(t)
    <3> HIDE DEF S
    <3>2. d.rows \in Seq(S) /\ e.rows \in Seq(S) /\ x \in S
      BY <2>1, <3>1 DEF S
    <3>3. QED
      BY <2>0, <1>1, <2>2, <3>2, OneMoreRow
  <2>4. PICK a \in 1 .. n : Is(r, a, "add", d.level_id[l]) /\ r[a].level = l
    BY <1>1, <1>3, <2>3 DEF MapSound
  <2>5. \A i \in 1 .. n : ~Is(r, i, "cancel", d.level_id[l])
    BY <1>1, <1>3, <2>3 DEF MapSound
  <2>6. RowsSound(e.rows)
    <3>1. RowsSound(r)
      BY <1>1, <2>3
    <3>2. /\ \A i \in 1 .. n : ~Is(r, i, "cancel", x.id)
          /\ \E i \in 1 .. n : Is(r, i, "add", x.id) /\ r[i].level = x.level
      BY <2>1, <2>4, <2>5, Zenon
    <3>3. x.event # "add"
      BY <2>1
    <3>4. RowsSound(s)
      <4>1. Fits(r, n, x)
        BY <2>1, <3>2, <3>3 DEF Fits
      <4>2. Extended(r, s, n, x)
        BY <2>3 DEF Extended
      <4>3. QED
        BY <3>1, <4>1, <4>2, AppendSound
    <3>5. QED
      BY <2>3, <3>4
  <2>7. MapSound(e)
    <3>1. \A i \in 1 .. n + 1 : s[i].event = "add" => s[i].id < e.next_id
      BY <1>1, <2>1, <2>2, <2>3 DEF MapSound
    <3>2. ASSUME NEW k \in Levels, e.level_id[k] # 0
          PROVE  /\ \E i \in DOMAIN s : Is(s, i, "add", e.level_id[k]) /\ s[i].level = k
                 /\ \A i \in DOMAIN s : ~Is(s, i, "cancel", e.level_id[k])
      <4>1. k # l /\ e.level_id[k] = d.level_id[k]
        BY <1>1, <2>2, <3>2 DEF Converters
      <4>2. PICK b \in 1 .. n : Is(r, b, "add", d.level_id[k]) /\ r[b].level = k
        BY <1>1, <2>3, <3>2, <4>1 DEF MapSound
      <4>3. \A i \in 1 .. n : ~Is(r, i, "cancel", d.level_id[k])
        BY <1>1, <2>3, <3>2, <4>1 DEF MapSound
      <4>4. d.level_id[k] # d.level_id[l]
        BY <1>1, <2>3, <2>4, <4>1, <4>2 DEF RowsSound, Is
      <4>5. QED
        <5>1. Extended(r, s, n, x)
          BY <2>3 DEF Extended
        <5>2. ~(x.event = "cancel" /\ x.id = d.level_id[k])
          BY <2>1, <4>4
        <5>3. /\ \E i \in DOMAIN s : Is(s, i, "add", d.level_id[k]) /\ s[i].level = k
              /\ \A i \in DOMAIN s : ~Is(s, i, "cancel", d.level_id[k])
          BY <4>2, <4>3, <5>1, <5>2, AppendNames
        <5>4. QED
          BY <4>1, <5>3
    <3>3. QED
      BY <2>3, <3>1, <3>2 DEF MapSound
  <2>8. e.level_id[l] = 0
    BY <1>1, <2>2 DEF Converters
  <2>9. QED
    BY <2>2, <2>6, <2>7, <2>8 DEF ConverterInv, e
<1>4. QED
  BY <1>2, <1>3

\* So does an order with a fresh identifier.
LEMMA AddKeeps ==
  ASSUME NEW t \in Nat \ {0}, NEW d, ConverterInv(d, t), NEW ts \in 1 .. t, NEW l \in Levels,
         NEW qty \in Nat \ {0}
  PROVE  ConverterInv(Add(d, ts, l, qty), t)
<1>1. d \in Converters(t) /\ RowsSound(d.rows) /\ MapSound(d)
  BY DEF ConverterInv
<1> DEFINE x == Row(ts, "add", l, qty, d.next_id)
           e == Add(d, ts, l, qty)
<1>a. Adds(d, e, x, l, qty, t)
  BY <1>1, AddIs
<1> HIDE DEF x, e
<1>2. /\ x \in RowsUntil(t) /\ x.event = "add" /\ x.level = l /\ x.id = d.next_id
      /\ x.qty > 0 /\ d.next_id \in Nat \ {0}
  BY <1>a DEF Adds
<1>3. /\ e.rows = Append(d.rows, x) /\ e.next_id = d.next_id + 1
      /\ e.level_id = [d.level_id EXCEPT ![l] = d.next_id] /\ e \in Converters(t)
  BY <1>a DEF Adds
<1>31. PICK r, s : r = d.rows /\ s = e.rows
  OBVIOUS
<1>4. PICK n \in Nat :
        /\ r = d.rows /\ s = e.rows /\ n = Len(r)
        /\ DOMAIN r = 1 .. n /\ DOMAIN s = 1 .. n + 1
        /\ s[n + 1] = x /\ \A i \in 1 .. n : s[i] = r[i]
  <2>1. d.rows \in Seq(RowsUntil(t)) /\ e.rows \in Seq(RowsUntil(t))
    BY <1>1, <1>3 DEF Converters
  <2> DEFINE S == RowsUntil(t)
  <2> HIDE DEF S
  <2>2. d.rows \in Seq(S) /\ e.rows \in Seq(S) /\ x \in S
    BY <1>2, <2>1 DEF S
  <2>3. QED
    BY <1>31, <1>1, <1>3, <2>2, OneMoreRow
<1>5. \A i \in 1 .. n : r[i] \in RowsUntil(t) /\ r[i].id \in Nat
  <2>1. r \in Seq(RowsUntil(t))
    BY <1>1, <1>4 DEF Converters
  <2>2. \A i \in 1 .. n : r[i] \in RowsUntil(t)
    BY <1>4, <2>1
  <2>3. QED
    BY <2>2 DEF RowsUntil
<1>6. \A i \in 1 .. n : r[i].event = "add" => r[i].id # d.next_id /\ r[i].id < d.next_id
  <2>1. \A i \in 1 .. n : r[i].event = "add" => r[i].id < d.next_id
    BY <1>1, <1>4, Zenon DEF MapSound
  <2>2. \A y, z \in Nat : y < z => y # z
    OBVIOUS
  <2>3. QED
    BY <1>2, <1>5, <2>1, <2>2, Zenon
<1>7. \A i \in 1 .. n : r[i].event = "cancel" => r[i].id # d.next_id
  <2>1. TAKE i \in 1 .. n
  <2>2. HAVE r[i].event = "cancel"
  <2>3. PICK j \in 1 .. i - 1 : Is(r, j, "add", r[i].id)
    BY <1>1, <1>4, <2>2 DEF RowsSound
  <2>4. QED
    BY <1>6, <2>3 DEF Is
<1>8. RowsSound(e.rows)
  <2>1. RowsSound(r) /\ \A i \in 1 .. n : ~Is(r, i, "add", x.id)
    BY <1>1, <1>2, <1>4, <1>6 DEF Is
  <2>2. RowsSound(s)
    <3>1. x.event # "cancel"
      BY <1>2
    <3>2. Fits(r, n, x)
      BY <1>2, <2>1, <3>1 DEF Fits
    <3>3. Extended(r, s, n, x)
      BY <1>4 DEF Extended
    <3>4. QED
      BY <2>1, <3>2, <3>3, AppendSound
  <2>3. QED
    BY <1>4, <2>2
<1>9. MapSound(e)
  <2>1. \A i \in 1 .. n + 1 : s[i].event = "add" => s[i].id < e.next_id
    BY <1>2, <1>3, <1>4, <1>5, <1>6
  <2>2. ASSUME NEW k \in Levels, e.level_id[k] # 0
        PROVE  /\ \E i \in DOMAIN s : Is(s, i, "add", e.level_id[k]) /\ s[i].level = k
               /\ \A i \in DOMAIN s : ~Is(s, i, "cancel", e.level_id[k])
    <3>0. x.event # "cancel"
      BY <1>2
    <3>1. CASE k = l
      <4>1. e.level_id[k] = d.next_id
        BY <1>1, <1>3, <3>1 DEF Converters
      <4>2. QED
        <5>1. n + 1 \in DOMAIN s /\ \A i \in DOMAIN s : i \in 1 .. n \/ i = n + 1
          BY <1>4
        <5>2. Is(s, n + 1, "add", d.next_id) /\ s[n + 1].level = k
          BY <1>2, <1>4, <3>1 DEF Is
        <5>3. \A i \in DOMAIN s : ~Is(s, i, "cancel", d.next_id)
          BY <1>4, <1>7, <3>0, <5>1, Zenon DEF Is
        <5>4. QED
          BY <4>1, <5>1, <5>2, <5>3
    <3>2. CASE k # l
      <4>1. e.level_id[k] = d.level_id[k]
        BY <1>1, <1>3, <3>2 DEF Converters
      <4>2. PICK b \in 1 .. n : Is(r, b, "add", d.level_id[k]) /\ r[b].level = k
        BY <1>1, <1>4, <2>2, <4>1 DEF MapSound
      <4>3. \A i \in 1 .. n : ~Is(r, i, "cancel", d.level_id[k])
        BY <1>1, <1>4, <2>2, <4>1 DEF MapSound
      <4>4. QED
        <5>1. Extended(r, s, n, x) /\ ~(x.event = "cancel" /\ x.id = d.level_id[k])
          BY <1>4, <3>0 DEF Extended
        <5>2. /\ \E i \in DOMAIN s : Is(s, i, "add", d.level_id[k]) /\ s[i].level = k
              /\ \A i \in DOMAIN s : ~Is(s, i, "cancel", d.level_id[k])
          BY <4>2, <4>3, <5>1, AppendNames
        <5>3. QED
          BY <4>1, <5>2
    <3>3. QED
      BY <3>1, <3>2
  <2>3. QED
    BY <1>4, <2>1, <2>2 DEF MapSound
<1>10. QED
  BY <1>3, <1>8, <1>9 DEF ConverterInv, e

\* emit_set: what a level had is cancelled, and what it has is added.
LEMMA SetKeeps ==
  ASSUME NEW t \in Nat \ {0}, NEW d, ConverterInv(d, t), NEW ts \in 1 .. t, NEW l \in Levels,
         NEW size \in Nat
  PROVE  ConverterInv(emit_set(d, ts, l, size), t)
<1>1. ConverterInv(emit_remove(d, ts, l), t)
  BY RemoveKeeps
<1>2. scaled_qty(size) \in Nat
  BY DEF scaled_qty
<1>3. CASE scaled_qty(size) <= 0
  BY <1>1, <1>3 DEF emit_set
<1>4. CASE ~(scaled_qty(size) <= 0)
  <2>1. scaled_qty(size) \in Nat \ {0}
    BY <1>2, <1>4
  <2>2. ConverterInv(Add(emit_remove(d, ts, l), ts, l, scaled_qty(size)), t)
    BY <1>1, <2>1, AddKeeps
  <2>3. QED
    BY <1>4, <2>2 DEF emit_set
<1>5. QED
  BY <1>3, <1>4

(***************************************************************************)
(* The two loops over the levels are functions defined by recursion: a set *)
(* of numbers that is closed under the successor stands for the induction. *)
(***************************************************************************)
LEMMA EveryNumber ==
  ASSUME NEW T, 0 \in T, \A k \in Nat : k \in T => k + 1 \in T
  PROVE  Nat \subseteq T
<1>1. SUFFICES ASSUME NEW x \in Nat, x \notin T PROVE FALSE
  OBVIOUS
<1> DEFINE B == {k \in Nat : k \notin T}
<1>2. B \subseteq Nat /\ B # {}
  BY <1>1
<1>3. PICK k \in B : \A y \in B : ~ (<<y, k>> \in OpToRel(<, Nat))
  <2> HIDE DEF B
  <2>1. QED
    BY <1>2, NatLessThanWellFounded, WFMin
<1>4. k # 0 /\ k - 1 \in Nat /\ k = (k - 1) + 1
  OBVIOUS
<1>5. k - 1 \in B
  BY <1>4
<1>6. <<k - 1, k>> \in OpToRel(<, Nat)
  BY <1>4 DEF OpToRel
<1>7. QED
  BY <1>3, <1>5, <1>6

DropBody(d, ts, f, l) == IF l = 0 THEN d ELSE emit_remove(f[l - 1], ts, l)

\* drop_all cancels the order of every level in turn.
DropSteps(d, ts, F) ==
  /\ \A l \in 0 .. NLevels : F[l] = DropBody(d, ts, F, l)
  /\ drop_all(d, ts) = F[NLevels]

LEMMA DropBySteps ==
  ASSUME NEW d, NEW ts
  PROVE  \E F : DropSteps(d, ts, F)
<1>0. NLevels \in Nat /\ Levels = 1 .. NLevels
  BY LevelsAssumption DEF Levels
<1> DEFINE After(n, f) == f = [l \in 0 .. n |-> DropBody(d, ts, f, l)]
           T == {n \in Nat : \E f : After(n, f)}
<1>1. 0 \in T
  <2> DEFINE f == [l \in 0 .. 0 |-> d]
  <2>1. After(0, f)
    BY DEF DropBody
  <2> HIDE DEF f, After
  <2>2. QED
    BY <2>1
<1>2. ASSUME NEW n \in Nat, NEW f, After(n, f) PROVE \E g : After(n + 1, g)
  <2> DEFINE g == [l \in 0 .. n + 1 |-> IF l = n + 1 THEN emit_remove(f[n], ts, n + 1) ELSE f[l]]
  <2>1. \A l \in 0 .. n + 1 : g[l] = DropBody(d, ts, g, l)
    <3>1. TAKE l \in 0 .. n + 1
    <3>2. CASE l = n + 1
      <4>1. g[l] = emit_remove(f[n], ts, n + 1) /\ g[l - 1] = f[n] /\ l # 0
        BY <3>2
      <4> HIDE DEF g
      <4>2. QED
        BY <3>2, <4>1 DEF DropBody
    <3>3. CASE l \in 0 .. n
      <4>1. g[l] = f[l] /\ (l # 0 => g[l - 1] = f[l - 1])
        BY <3>3
      <4>2. f[l] = DropBody(d, ts, f, l)
        <5> HIDE DEF g
        <5>1. QED
          BY <1>2, <3>3
      <4> HIDE DEF g
      <4>3. QED
        BY <4>1, <4>2 DEF DropBody
    <3>4. QED
      BY <3>2, <3>3
  <2>2. g = [l \in 0 .. n + 1 |-> g[l]]
    OBVIOUS
  <2> HIDE DEF g
  <2>3. QED
    BY <2>1, <2>2
<1>3. \E f : After(NLevels, f)
  <2>1. \A n \in Nat : n \in T => n + 1 \in T
    <3> HIDE DEF After
    <3>1. QED
      BY <1>2
  <2>2. NLevels \in T
    <3> HIDE DEF T
    <3>1. QED
      BY <1>0, <1>1, <2>1, EveryNumber
  <2> HIDE DEF After
  <2>3. QED
    BY <2>2
<1> DEFINE F == CHOOSE f : After(NLevels, f)
<1>4. After(NLevels, F)
  <2> HIDE DEF After
  <2>1. QED
    BY <1>3, Zenon
<1>5. drop_all(d, ts) = F[NLevels]
  BY DEF drop_all, DropBody
<1>6. \A l \in 0 .. NLevels : F[l] = DropBody(d, ts, F, l)
  <2> HIDE DEF F
  <2>1. QED
    BY <1>4
<1>7. QED
  BY <1>5, <1>6 DEF DropSteps

LEMMA DropKeeps ==
  ASSUME NEW t \in Nat \ {0}, NEW d, ConverterInv(d, t), NEW ts \in 1 .. t
  PROVE  ConverterInv(drop_all(d, ts), t)
<1>0. NLevels \in Nat /\ Levels = 1 .. NLevels
  BY LevelsAssumption DEF Levels
<1>5. PICK F : DropSteps(d, ts, F)
  BY DropBySteps
<1>6. \A l \in 0 .. NLevels : F[l] = DropBody(d, ts, F, l)
  BY <1>5 DEF DropSteps
<1> DEFINE K == {n \in Nat : n <= NLevels => ConverterInv(F[n], t)}
<1>7. 0 \in K
  BY <1>0, <1>6 DEF DropBody
<1>8. \A n \in Nat : n \in K => n + 1 \in K
  <2>1. TAKE n \in Nat
  <2>2. HAVE n \in K
  <2>3. SUFFICES ASSUME n + 1 <= NLevels PROVE ConverterInv(F[n + 1], t)
    OBVIOUS
  <2>4. ConverterInv(F[n], t) /\ n + 1 \in Levels /\ n + 1 \in 0 .. NLevels
    BY <1>0, <2>2, <2>3
  <2>5. F[n + 1] = emit_remove(F[n], ts, n + 1)
    BY <1>6, <2>4 DEF DropBody
  <2>6. QED
    BY <2>4, <2>5, RemoveKeeps
<1>9. ConverterInv(F[NLevels], t)
  <2>1. NLevels \in K
    <3> HIDE DEF K
    <3>1. QED
      BY <1>0, <1>7, <1>8, EveryNumber
  <2>2. QED
    BY <1>0, <2>1
<1>10. QED
  BY <1>5, <1>9 DEF DropSteps

BookBody(d, ts, snapshot, message, f, l) ==
  IF l = 0 THEN IF snapshot THEN drop_all(d, ts) ELSE d
  ELSE IF l \in DOMAIN message THEN emit_set(f[l - 1], ts, l, message[l])
       ELSE f[l - 1]

\* on_book applies a message to every level it names in turn.
BookSteps(d, ts, snapshot, message, F) ==
  /\ \A l \in 0 .. NLevels : F[l] = BookBody(d, ts, snapshot, message, F, l)
  /\ on_book(d, ts, snapshot, message) = F[NLevels]

LEMMA BookBySteps ==
  ASSUME NEW d, NEW ts, NEW snapshot, NEW message
  PROVE  \E F : BookSteps(d, ts, snapshot, message, F)
<1>0. NLevels \in Nat /\ Levels = 1 .. NLevels
  BY LevelsAssumption DEF Levels
<1> DEFINE Body(f, l) == BookBody(d, ts, snapshot, message, f, l)
           After(n, f) == f = [l \in 0 .. n |-> Body(f, l)]
           T == {n \in Nat : \E f : After(n, f)}
<1>1. 0 \in T
  <2> DEFINE first == IF snapshot THEN drop_all(d, ts) ELSE d
             f == [l \in 0 .. 0 |-> first]
  <2>1. f = [l \in 0 .. 0 |-> Body(f, l)]
    <3>1. \A l \in 0 .. 0 : Body(f, l) = first
      BY DEF BookBody
    <3> HIDE DEF Body, first
    <3>2. QED
      BY <3>1
  <2> HIDE DEF f, Body
  <2>2. QED
    BY <2>1
<1>2. ASSUME NEW n \in Nat, NEW f, After(n, f) PROVE \E g : After(n + 1, g)
  <2> DEFINE g == [l \in 0 .. n + 1 |-> IF l = n + 1 THEN Body(f, n + 1) ELSE f[l]]
  <2>1. \A l \in 0 .. n + 1 : g[l] = Body(g, l)
    <3>1. TAKE l \in 0 .. n + 1
    <3>2. CASE l = n + 1
      <4>1. g[l] = Body(f, n + 1) /\ g[l - 1] = f[n] /\ l # 0 /\ l - 1 = n
        BY <3>2
      <4> HIDE DEF g
      <4>2. QED
        BY <3>2, <4>1 DEF BookBody
    <3>3. CASE l \in 0 .. n
      <4>1. g[l] = f[l] /\ (l # 0 => g[l - 1] = f[l - 1])
        BY <3>3
      <4>2. f[l] = Body(f, l)
        <5> HIDE DEF g, Body
        <5>1. QED
          BY <1>2, <3>3
      <4> HIDE DEF g
      <4>3. QED
        BY <4>1, <4>2 DEF BookBody
    <3>4. QED
      BY <3>2, <3>3
  <2>2. g = [l \in 0 .. n + 1 |-> g[l]]
    OBVIOUS
  <2> HIDE DEF g, Body
  <2>3. QED
    BY <2>1, <2>2
<1>3. \E f : After(NLevels, f)
  <2>1. \A n \in Nat : n \in T => n + 1 \in T
    <3> HIDE DEF After
    <3>1. QED
      BY <1>2
  <2>2. NLevels \in T
    <3> HIDE DEF T
    <3>1. QED
      BY <1>0, <1>1, <2>1, EveryNumber
  <2> HIDE DEF After
  <2>3. QED
    BY <2>2
<1> DEFINE F == CHOOSE f : After(NLevels, f)
<1>4. After(NLevels, F)
  <2> HIDE DEF After
  <2>1. QED
    BY <1>3, Zenon
<1>5. on_book(d, ts, snapshot, message) = F[NLevels]
  BY DEF on_book, BookBody
<1>6. \A l \in 0 .. NLevels : F[l] = Body(F, l)
  <2> HIDE DEF F, Body
  <2>1. QED
    BY <1>4
<1>7. QED
  BY <1>5, <1>6 DEF BookSteps

LEMMA BookKeeps ==
  ASSUME NEW t \in Nat \ {0}, NEW d, ConverterInv(d, t), NEW ts \in 1 .. t,
         NEW snapshot \in BOOLEAN, NEW message, \A l \in DOMAIN message : message[l] \in Nat
  PROVE  ConverterInv(on_book(d, ts, snapshot, message), t)
<1>0. NLevels \in Nat /\ Levels = 1 .. NLevels
  BY LevelsAssumption DEF Levels
<1>5. PICK F : BookSteps(d, ts, snapshot, message, F)
  BY BookBySteps
<1>6. \A l \in 0 .. NLevels : F[l] = BookBody(d, ts, snapshot, message, F, l)
  BY <1>5 DEF BookSteps
<1> DEFINE K == {n \in Nat : n <= NLevels => ConverterInv(F[n], t)}
<1>7. 0 \in K
  <2>1. F[0] = IF snapshot THEN drop_all(d, ts) ELSE d
    BY <1>0, <1>6 DEF BookBody
  <2>2. ConverterInv(drop_all(d, ts), t)
    BY DropKeeps
  <2>3. QED
    BY <2>1, <2>2
<1>8. \A n \in Nat : n \in K => n + 1 \in K
  <2>1. TAKE n \in Nat
  <2>2. HAVE n \in K
  <2>3. SUFFICES ASSUME n + 1 <= NLevels PROVE ConverterInv(F[n + 1], t)
    OBVIOUS
  <2>4. ConverterInv(F[n], t) /\ n + 1 \in Levels /\ n + 1 \in 0 .. NLevels /\ (n + 1) - 1 = n
    BY <1>0, <2>2, <2>3
  <2>5. F[n + 1] = IF n + 1 \in DOMAIN message
                   THEN emit_set(F[n], ts, n + 1, message[n + 1]) ELSE F[n]
    BY <1>6, <2>4 DEF BookBody
  <2>6. CASE n + 1 \in DOMAIN message
    <3>1. message[n + 1] \in Nat
      BY <2>6
    <3>2. ConverterInv(emit_set(F[n], ts, n + 1, message[n + 1]), t)
      BY <2>4, <3>1, SetKeeps
    <3>3. QED
      BY <2>5, <2>6, <3>2
  <2>7. CASE n + 1 \notin DOMAIN message
    BY <2>4, <2>5, <2>7
  <2>8. QED
    BY <2>6, <2>7
<1>9. ConverterInv(F[NLevels], t)
  <2>1. NLevels \in K
    <3> HIDE DEF K
    <3>1. QED
      BY <1>0, <1>7, <1>8, EveryNumber
  <2>2. QED
    BY <1>0, <2>1
<1>10. QED
  BY <1>5, <1>9 DEF BookSteps

(***************************************************************************)
(* The recording.                                                          *)
(***************************************************************************)
PrintOf(t) == [ts : 1 .. t, level : Levels, size : Sizes]
Converter == [level_id |-> level_id, next_id |-> next_id, rows |-> rows]

FeedSound ==
  /\ clock \in 1 .. MaxClock
  /\ book \in Book /\ pushed \in Book \cup {<<>>}
  /\ prints \in Seq(PrintOf(clock))
  /\ conn \in {"connecting", "open", "raised", "returned", "loaded"}
  /\ last_err \in BOOLEAN
  /\ ConverterInv(Converter, clock)
  /\ Loaded => DOMAIN events = DOMAIN rows

\* Time passes.
LEMMA Later ==
  ASSUME NEW t \in Nat \ {0}, NEW u \in Nat, t <= u, NEW d, ConverterInv(d, t)
  PROVE  ConverterInv(d, u)
<1>1. RowsUntil(t) \subseteq RowsUntil(u)
  BY DEF RowsUntil
<1>2. Seq(RowsUntil(t)) \subseteq Seq(RowsUntil(u))
  <2> HIDE DEF RowsUntil
  <2>1. QED
    BY <1>1
<1>3. d \in Converters(u)
  BY <1>2 DEF ConverterInv, Converters
<1>4. QED
  BY <1>3 DEF ConverterInv

LEMMA PrintsLater ==
  ASSUME NEW t \in Nat \ {0}, NEW u \in Nat, t <= u, NEW q \in Seq(PrintOf(t))
  PROVE  q \in Seq(PrintOf(u))
<1>1. PrintOf(t) \subseteq PrintOf(u)
  BY DEF PrintOf
<1> HIDE DEF PrintOf
<1>2. QED
  BY <1>1

LEMMA ClockIs == ASSUME FeedSound PROVE clock \in Nat \ {0} /\ MaxClock \in Nat
  BY BoundsAssumption DEF FeedSound

LEMMA FeedSoundInit == Init => FeedSound
<1> SUFFICES ASSUME Init PROVE FeedSound
  OBVIOUS
<1>1. /\ clock = 1 /\ book \in Openings /\ pushed = <<>> /\ prints = <<>> /\ rows = <<>>
      /\ conn = "connecting" /\ level_id = [l \in Levels |-> 0] /\ next_id = 1
      /\ last_err = FALSE
  BY DEF Init, FeedInit
<1>2. clock \in 1 .. MaxClock /\ book \in Book
  BY <1>1, BoundsAssumption
<1>3. Converter \in Converters(clock)
  BY <1>1 DEF Converter, Converters
<1>4. RowsSound(rows) /\ MapSound(Converter)
  BY <1>1 DEF RowsSound, MapSound, Converter
<1>5. ConverterInv(Converter, clock)
  BY <1>3, <1>4 DEF ConverterInv, Converter
<1>6. prints \in Seq(PrintOf(clock)) /\ ~Loaded
  BY <1>1 DEF Loaded
<1>7. QED
  BY <1>1, <1>2, <1>5, <1>6 DEF FeedSound

\* One more trade row.
LEMMA TradeKeeps ==
  ASSUME NEW t \in Nat \ {0}, NEW a, NEW b, NEW r,
         ConverterInv([level_id |-> a, next_id |-> b, rows |-> r], t), NEW p \in PrintOf(t)
  PROVE  ConverterInv([level_id |-> a, next_id |-> b, rows |-> r \o trade_rows(p)], t)
<1> DEFINE d == [level_id |-> a, next_id |-> b, rows |-> r]
           e == [level_id |-> a, next_id |-> b, rows |-> r \o trade_rows(p)]
<1>1. d \in Converters(t) /\ RowsSound(d.rows) /\ MapSound(d)
  BY DEF ConverterInv
<1>2. r \in Seq(RowsUntil(t)) /\ a \in [Levels -> Nat] /\ b \in Nat \ {0}
  BY <1>1 DEF Converters
<1>3. p.ts \in 1 .. t /\ p.level \in Levels /\ p.size \in Nat
  BY BoundsAssumption DEF PrintOf
<1>4. scaled_qty(p.size) \in Nat
  BY <1>3 DEF scaled_qty
<1>5. CASE scaled_qty(p.size) <= 0
  <2>1. trade_rows(p) = <<>>
    BY <1>5 DEF trade_rows
  <2>2. r \o <<>> = r
    BY <1>2
  <2>3. QED
    BY <2>1, <2>2
<1>6. CASE ~(scaled_qty(p.size) <= 0)
  <2> DEFINE x == Row(p.ts, "trade", p.level, scaled_qty(p.size), 0)
             S == RowsUntil(t)
  <2>1. x \in S /\ x.event = "trade" /\ x.qty > 0
    BY <1>3, <1>4, <1>6 DEF Row, RowsUntil
  <2>2. trade_rows(p) = <<x>>
    BY <1>6 DEF trade_rows
  <2>3. r \in Seq(S)
    BY <1>2
  <2> HIDE DEF x, S
  <2>4. r \o <<x>> = Append(r, x)
    BY <2>1, <2>3
  <2> DEFINE s == r \o trade_rows(p)
  <2>5. s = Append(r, x)
    BY <2>2, <2>4
  <2> HIDE DEF s
  <2>6. s \in Seq(S) /\ Extended(r, s, Len(r), x)
    BY <2>1, <2>3, <2>5, OneMoreRow DEF Extended
  <2>7. PICK n : n = Len(r)
    OBVIOUS
  <2>8. /\ n \in Nat /\ DOMAIN r = 1 .. n /\ DOMAIN s = 1 .. n + 1
        /\ s[n + 1] = x /\ \A i \in 1 .. n : s[i] = r[i]
    BY <2>6, <2>7 DEF Extended
  <2>9. x.event # "add" /\ x.event # "cancel"
    BY <2>1
  <2>10. RowsSound(s)
    <3>1. Fits(r, n, x)
      BY <2>1, <2>9 DEF Fits
    <3>2. RowsSound(r)
      BY <1>1
    <3>3. QED
      BY <2>6, <2>7, <3>1, <3>2, AppendSound
  <2>11. \A i \in DOMAIN s : s[i].event = "add" => s[i].id < b
    <3>1. \A i \in DOMAIN r : r[i].event = "add" => r[i].id < b
      BY <1>1 DEF MapSound
    <3>2. \A i \in 1 .. n + 1 : i \in 1 .. n \/ i = n + 1
      BY <2>8
    <3>3. QED
      BY <2>8, <2>9, <3>1, <3>2
  <2>12. ASSUME NEW k \in Levels, a[k] # 0
         PROVE  /\ \E i \in DOMAIN s : Is(s, i, "add", a[k]) /\ s[i].level = k
                /\ \A i \in DOMAIN s : ~Is(s, i, "cancel", a[k])
    <3>1. /\ \E i \in DOMAIN r : Is(r, i, "add", a[k]) /\ r[i].level = k
          /\ \A i \in DOMAIN r : ~Is(r, i, "cancel", a[k])
      BY <1>1, <2>12 DEF MapSound
    <3>2. Extended(r, s, n, x) /\ ~(x.event = "cancel" /\ x.id = a[k])
      BY <2>6, <2>7, <2>9
    <3>3. /\ \E i \in 1 .. n : Is(r, i, "add", a[k]) /\ r[i].level = k
          /\ \A i \in 1 .. n : ~Is(r, i, "cancel", a[k])
      BY <2>8, <3>1
    <3>4. QED
      BY <3>2, <3>3, AppendNames
  <2>13. e = [level_id |-> a, next_id |-> b, rows |-> s]
    BY DEF s
  <2>14. e \in Converters(t) /\ MapSound(e)
    <3>1. s \in Seq(RowsUntil(t))
      BY <2>6 DEF S
    <3>2. e \in Converters(t)
      BY <1>2, <2>13, <3>1 DEF Converters
    <3>3. MapSound([level_id |-> a, next_id |-> b, rows |-> s])
      BY <2>11, <2>12 DEF MapSound
    <3>4. QED
      BY <2>13, <3>2, <3>3
  <2>15. QED
    BY <2>10, <2>13, <2>14 DEF ConverterInv
<1>7. QED
  BY <1>5, <1>6

\* The rows of a recording are sound after every step.
LEMMA FeedSoundNext == FeedSound /\ [Next]_vars => FeedSound'
<1> SUFFICES ASSUME FeedSound, [Next]_vars PROVE FeedSound'
  OBVIOUS
<1>1. clock \in Nat \ {0} /\ MaxClock \in Nat /\ clock \in 1 .. MaxClock
  BY ClockIs DEF FeedSound
<1>2. /\ book \in [Levels -> Sizes] /\ pushed \in Book \cup {<<>>} /\ prints \in Seq(PrintOf(clock))
      /\ last_err \in BOOLEAN /\ ConverterInv(Converter, clock) /\ Sizes \subseteq Nat
  BY BoundsAssumption DEF FeedSound, Book
<1>3. ASSUME Tick
      PROVE  /\ clock' \in 1 .. MaxClock /\ clock' \in Nat \ {0} /\ clock' = clock + 1
             /\ prints \in Seq(PrintOf(clock')) /\ ConverterInv(Converter, clock')
  <2>1. clock' = clock + 1 /\ clock' \in 1 .. MaxClock /\ clock' \in Nat \ {0} /\ clock <= clock'
    BY <1>1, <1>3 DEF Tick
  <2>2. QED
    BY <1>1, <1>2, <2>1, Later, PrintsLater
<1>4. ASSUME NEW l \in Levels, NEW size \in Sizes, conn \in {"connecting", "open"},
             Moves(l, size), UNCHANGED <<events, bounds, cut>>
      PROVE  FeedSound'
  <2>1. /\ Tick /\ book' = [book EXCEPT ![l] = size] /\ pushed' = pushed /\ prints' = prints
        /\ conn' = conn /\ Converter' = Converter /\ last_err' = last_err
    BY <1>4 DEF Moves, depthVars, Converter
  <2>2. book' \in Book
    BY <1>2, <2>1 DEF Book
  <2>3. ConverterInv(Converter', clock')
    BY <1>3, <2>1
  <2>4. QED
    BY <1>2, <1>3, <1>4, <2>1, <2>2, <2>3 DEF FeedSound, Loaded
<1>5. ASSUME NEW l \in Levels, NEW size \in Sizes, conn \in {"connecting", "open"},
             Trades(l, size), UNCHANGED <<events, bounds, cut>>
      PROVE  FeedSound'
  <2>1. /\ Tick /\ book' = [book EXCEPT ![l] = book[l] - size] /\ book[l] - size \in Sizes
        /\ pushed' = pushed /\ conn' = conn /\ Converter' = Converter /\ last_err' = last_err
    BY <1>5 DEF Trades, depthVars, Converter
  <2>2. book' \in Book
    BY <1>2, <2>1 DEF Book
  <2>3. ConverterInv(Converter', clock')
    BY <1>3, <2>1
  <2>4. prints' \in Seq(PrintOf(clock'))
    <3> DEFINE p == [ts |-> clock + 1, level |-> l, size |-> size]
    <3>1. prints' = Append(prints, p) \/ prints' = prints
      BY <1>5 DEF Trades
    <3>2. p \in PrintOf(clock')
      BY <1>3, <2>1 DEF PrintOf
    <3> HIDE DEF p
    <3>3. QED
      BY <1>3, <2>1, <3>1, <3>2
  <2>5. QED
    BY <1>2, <1>3, <1>5, <2>1, <2>2, <2>3, <2>4 DEF FeedSound, Loaded
<1>6. CASE Opens /\ UNCHANGED <<events, bounds, cut>>
  BY <1>6 DEF Opens, exchangeVars, depthVars, FeedSound, Loaded, Converter
<1>7. CASE Drops /\ UNCHANGED <<events, bounds, cut>>
  <2>1. /\ Tick /\ book' = book /\ pushed' = <<>> /\ prints' = <<>> /\ conn' = "connecting"
        /\ last_err' = TRUE /\ Converter' = Converter
    BY <1>7 DEF Drops, depthVars, Converter
  <2>2. ConverterInv(Converter', clock')
    BY <1>3, <2>1
  <2>3. QED
    BY <1>2, <1>3, <2>1, <2>2 DEF FeedSound, Loaded, Book
<1>8. CASE DepthMessage /\ UNCHANGED <<events, bounds, cut>>
  <2> DEFINE message == IF pushed = <<>> THEN book
                        ELSE Restrict(book, {l \in Levels : book[l] # pushed[l]})
             d == on_book(Converter, clock, pushed = <<>>, message)
  <2>1. /\ clock' = clock /\ book' = book /\ pushed' = book /\ prints' = prints
        /\ conn' = conn /\ conn = "open" /\ last_err' = last_err
        /\ rows' = d.rows /\ level_id' = d.level_id /\ next_id' = d.next_id
    BY <1>8 DEF DepthMessage, Receives, Converter
  <2>2. \A l \in DOMAIN message : message[l] \in Nat
    BY <1>2 DEF Restrict
  <2>3. ConverterInv(d, clock)
    <3> HIDE DEF message
    <3>1. (pushed = <<>>) \in BOOLEAN
      OBVIOUS
    <3>2. clock \in 1 .. clock
      BY <1>1
    <3>3. QED
      BY <1>1, <1>2, <2>2, <3>1, <3>2, BookKeeps
  <2> HIDE DEF d
  <2>4. Converter' = d
    BY <2>1, <2>3 DEF Converter, ConverterInv, Converters
  <2>5. QED
    BY <1>2, <2>1, <2>3, <2>4 DEF FeedSound, Loaded, Book
<1>9. CASE TradeMessage /\ UNCHANGED <<events, bounds, cut>>
  <2>1. /\ clock' = clock /\ book' = book /\ pushed' = pushed /\ prints # <<>>
        /\ prints' = Tail(prints) /\ conn' = conn /\ conn = "open" /\ last_err' = last_err
        /\ rows' = rows \o trade_rows(Head(prints)) /\ level_id' = level_id /\ next_id' = next_id
    BY <1>9 DEF TradeMessage, depthVars
  <2>2. Head(prints) \in PrintOf(clock) /\ Tail(prints) \in Seq(PrintOf(clock))
    <3>1. prints \in Seq(PrintOf(clock)) /\ prints # <<>>
      BY <1>2, <2>1
    <3>2. QED
      BY <3>1
  <2>3. ConverterInv(Converter', clock)
    <3>1. ConverterInv([level_id |-> level_id, next_id |-> next_id,
                        rows |-> rows \o trade_rows(Head(prints))], clock)
      BY <1>1, <1>2, <2>2, TradeKeeps DEF Converter
    <3>2. QED
      BY <2>1, <3>1 DEF Converter
  <2>4. QED
    BY <1>2, <2>1, <2>2, <2>3 DEF FeedSound, Loaded, Book
<1>10. CASE Leaves /\ UNCHANGED <<events, bounds, cut>>
  BY <1>10 DEF Leaves, OpensLate, exchangeVars, depthVars, FeedSound, Loaded, Converter
<1>11. CASE load_l2
  <2>1. conn' = "loaded" /\ events' = sorted(rows) /\ UNCHANGED <<exchangeVars, depthVars, rows, last_err>>
    BY <1>11 DEF load_l2
  <2>2. DOMAIN events' = DOMAIN rows'
    BY <2>1 DEF sorted
  <2>3. QED
    BY <2>1, <2>2 DEF exchangeVars, depthVars, FeedSound, Loaded, Converter
<1>12. CASE Ties
  <2>1. UNCHANGED feedVars /\ DOMAIN events' = DOMAIN events
    BY <1>12 DEF Ties
  <2>2. QED
    BY <2>1 DEF feedVars, exchangeVars, depthVars, FeedSound, Loaded, Converter
<1>13. CASE UNCHANGED vars
  BY <1>13 DEF vars, feedVars, exchangeVars, depthVars, FeedSound, Loaded, Converter
<1>14. QED
  BY <1>4, <1>5, <1>6, <1>7, <1>8, <1>9, <1>10, <1>11, <1>12, <1>13
     DEF Next, Feed, ExchangeStep, RecorderStep

\* The names of the orders on the map are in use, and the file has as many
\* events as the recording has rows.
LEMMA FeedIsTyped == FeedSound => TypeOK
<1> SUFFICES ASSUME FeedSound PROVE TypeOK
  OBVIOUS
<1>1. ConverterInv(Converter, clock)
  BY DEF FeedSound
<1>2. /\ level_id \in [Levels -> Nat] /\ next_id \in Nat \ {0} /\ rows \in Seq(RowsUntil(clock))
      /\ RowsSound(rows) /\ MapSound(Converter)
  BY <1>1 DEF ConverterInv, Converter, Converters
<1>3. \A i \in DOMAIN rows : rows[i] \in RowsUntil(clock)
  <2> HIDE DEF RowsUntil
  <2>1. QED
    BY <1>2
<1>4. level_id \in [Levels -> 0 .. next_id - 1]
  <2>1. SUFFICES ASSUME NEW l \in Levels PROVE level_id[l] \in 0 .. next_id - 1
    BY <1>2
  <2>2. CASE level_id[l] = 0
    BY <1>2, <2>2
  <2>3. CASE level_id[l] # 0
    <3>1. PICK i \in DOMAIN rows : rows[i].event = "add" /\ rows[i].id = level_id[l]
      BY <1>2, <2>3 DEF MapSound, Converter, Is
    <3>2. rows[i].id < next_id
      BY <1>2, <3>1 DEF MapSound, Converter
    <3>3. QED
      BY <1>2, <3>1, <3>2
  <2>4. QED
    BY <2>2, <2>3
<1>5. \A i \in DOMAIN rows :
        /\ rows[i].ts \in 1 .. clock /\ rows[i].level \in Levels
        /\ rows[i].event \in {"add", "cancel", "trade"}
        /\ rows[i].event # "cancel" => rows[i].qty > 0
  <2>1. \A i \in DOMAIN rows :
          rows[i].ts \in 1 .. clock /\ rows[i].level \in Levels
          /\ rows[i].event \in {"add", "cancel", "trade"}
    BY <1>3 DEF RowsUntil
  <2>2. QED
    BY <1>2, <2>1 DEF RowsSound
<1>6. \A i \in DOMAIN prints : prints[i].ts \in 1 .. clock /\ prints[i].level \in Levels
  <2>1. prints \in Seq(PrintOf(clock))
    BY DEF FeedSound
  <2>2. \A i \in DOMAIN prints : prints[i] \in PrintOf(clock)
    BY <2>1
  <2>3. QED
    BY <2>2 DEF PrintOf
<1>7. Loaded => Len(events) = Len(rows)
  <2>1. SUFFICES ASSUME Loaded PROVE Len(events) = Len(rows)
    OBVIOUS
  <2>2. DOMAIN events = DOMAIN rows
    BY <2>1 DEF FeedSound
  <2>3. DOMAIN rows = 1 .. Len(rows) /\ Len(rows) \in Nat
    BY <1>2
  <2>4. QED
    BY <2>2, <2>3
<1>8. QED
  BY <1>4, <1>5, <1>6, <1>7 DEF FeedSound, TypeOK

LEMMA CancelsAreSound == FeedSound => CancelsNameOrders
<1> SUFFICES ASSUME FeedSound, NEW j \in DOMAIN rows
    PROVE LET before(event) == {i \in 1 .. j - 1 : rows[i].event = event /\ rows[i].id = rows[j].id}
          IN /\ rows[j].event = "add" => before("add") = {}
             /\ rows[j].event = "cancel" =>
                  /\ before("cancel") = {}
                  /\ \E i \in before("add") : rows[i].level = rows[j].level
  BY DEF CancelsNameOrders
<1>1. rows \in Seq(RowsUntil(clock)) /\ RowsSound(rows)
  BY DEF FeedSound, ConverterInv, Converter, Converters
<1>2. j \in Nat /\ \A i \in 1 .. j - 1 : i \in DOMAIN rows /\ i # j
  BY <1>1
<1>3. rows[j].event = "add" => \A i \in 1 .. j - 1 : ~Is(rows, i, "add", rows[j].id)
  BY <1>1, <1>2 DEF RowsSound
<1>4. rows[j].event = "cancel" =>
        /\ \A i \in 1 .. j - 1 : ~Is(rows, i, "cancel", rows[j].id)
        /\ \E i \in 1 .. j - 1 : Is(rows, i, "add", rows[j].id) /\ rows[i].level = rows[j].level
  BY <1>1, <1>2 DEF RowsSound
<1>5. QED
  BY <1>3, <1>4 DEF Is

\* A recording is well-formed, and its cancels name orders, for any number of
\* levels, any sizes and any course of the connections.
THEOREM FeedIsSound == Spec => []FeedSound
  BY FeedSoundInit, FeedSoundNext, PTL DEF Spec

THEOREM RowsNameOrders == Spec => []FeedInv
<1>1. FeedSound => FeedInv
  BY FeedIsTyped, CancelsAreSound DEF FeedInv
<1>2. QED
  BY <1>1, FeedIsSound, PTL

(***************************************************************************)
(* The cuts of an event stream.                                            *)
(***************************************************************************)

\* What lies between the first and the last of some cuts lies between two
\* successive ones.
LEMMA Covered ==
  ASSUME NEW k \in Nat, NEW b, \A i \in 0 .. k : b[i] \in Int,
         NEW s \in Int, b[0] <= s, s < b[k]
  PROVE  \E i \in 1 .. k : b[i - 1] <= s /\ s < b[i]
<1> SUFFICES ASSUME \A i \in 1 .. k : ~(b[i - 1] <= s /\ s < b[i]) PROVE FALSE
  OBVIOUS
<1> DEFINE K == {n \in Nat : n <= k => b[n] <= s}
<1>1. 0 \in K
  OBVIOUS
<1>2. \A n \in Nat : n \in K => n + 1 \in K
  <2>1. TAKE n \in Nat
  <2>2. HAVE n \in K
  <2>3. SUFFICES ASSUME n + 1 <= k PROVE b[n + 1] <= s
    OBVIOUS
  <2>4. n + 1 \in 1 .. k /\ (n + 1) - 1 = n /\ b[n] <= s /\ n + 1 \in 0 .. k
    BY <2>2, <2>3
  <2>5. ~(s < b[n + 1]) /\ b[n + 1] \in Int
    BY <2>4
  <2>6. QED
    BY <2>5
<1>3. k \in K
  <2> HIDE DEF K
  <2>1. QED
    BY <1>1, <1>2, EveryNumber
<1>4. b[k] \in Int /\ b[k] <= s
  BY <1>3
<1>5. QED
  BY <1>4

\* A quotient and its remainder.
LEMMA Division ==
  ASSUME NEW a \in Nat, NEW k \in Nat \ {0}
  PROVE  /\ a \div k \in Nat /\ a % k \in 0 .. k - 1
         /\ a = (a \div k) * k + (a % k)
  OBVIOUS

\* A truncated quotient is less than the exact one by one at most.
LEMMA TruncatedIsClose ==
  ASSUME NEW a \in Nat, NEW k \in Nat \ {0}, NEW x \in Truncated(a, k)
  PROVE  x \in Int /\ x * k <= a /\ a <= (x + 1) * k
<1>1. PICK q \in Nat, r \in 0 .. k - 1 : q = a \div k /\ r = a % k /\ a = q * k + r
  BY Division
<1>2. q * k \in Int /\ (q + 1) * k = q * k + k /\ (q - 1) * k = q * k - k
  OBVIOUS
<1>3. x = q \/ (x = q - 1 /\ r = 0)
  BY <1>1 DEF Truncated
<1>4. CASE x = q
  BY <1>1, <1>2, <1>4
<1>5. CASE x = q - 1 /\ r = 0
  <2>1. x + 1 = q
    BY <1>5
  <2>2. QED
    BY <1>1, <1>2, <1>5, <2>1
<1>6. QED
  BY <1>3, <1>4, <1>5

\* linspace goes up, in spite of the rounding of its steps.
LEMMA BoundsGoUp ==
  ASSUME NEW m \in Nat, NEW k \in Nat \ {0}, NEW b \in WindowBounds(m, k),
         NEW i \in 0 .. k, NEW j \in 0 .. k, i < j
  PROVE  b[i] \in 0 .. m /\ b[j] \in 0 .. m /\ b[i] <= b[j]
<1>1. b \in [0 .. k -> 0 .. m] /\ b[0] = 0 /\ b[k] = m
  BY DEF WindowBounds
<1>2. b[i] \in 0 .. m /\ b[j] \in 0 .. m
  BY <1>1
<1>3. CASE i = 0 \/ j = k
  BY <1>1, <1>2, <1>3
<1>4. CASE i # 0 /\ j # k
  <2>1. i \in 1 .. k - 1 /\ j \in 1 .. k - 1 /\ i * m \in Nat /\ j * m \in Nat
    BY <1>4
  <2>2. b[i] \in Truncated(i * m, k) /\ b[j] \in Truncated(j * m, k)
    BY <2>1 DEF WindowBounds
  <2>3. b[i] * k <= i * m /\ j * m <= (b[j] + 1) * k
    BY <2>1, <2>2, TruncatedIsClose
  <2>4. CASE m = 0
    BY <1>2, <2>4
  <2>5. CASE m > 0
    <3>1. PICK d \in Nat : j = i + d /\ d > 0
      <4>1. j - i \in Nat /\ j = i + (j - i) /\ j - i > 0
        OBVIOUS
      <4>2. QED
        BY <4>1
    <3>2. j * m = i * m + d * m /\ d * m > 0 /\ d * m \in Nat
      BY <2>5, <3>1
    <3>3. b[i] * k < (b[j] + 1) * k
      <4>1. b[i] * k \in Int /\ (b[j] + 1) * k \in Int
        BY <1>2
      <4>2. QED
        BY <2>1, <2>3, <3>2, <4>1
    <3>4. SUFFICES ASSUME b[j] < b[i] PROVE FALSE
      BY <1>2
    <3>5. PICK e \in Nat : b[i] = (b[j] + 1) + e
      <4>1. b[i] - (b[j] + 1) \in Nat /\ b[i] = (b[j] + 1) + (b[i] - (b[j] + 1))
        BY <1>2, <3>4
      <4>2. QED
        BY <4>1
    <3>6. b[i] * k = (b[j] + 1) * k + e * k /\ e * k >= 0 /\ e * k \in Int /\ (b[j] + 1) * k \in Int
      BY <1>2, <3>5
    <3>7. QED
      BY <3>3, <3>6
  <2>6. QED
    BY <2>4, <2>5
<1>5. QED
  BY <1>2, <1>3, <1>4

\* An image has no more elements than what it is the image of.
LEMMA ImageIsSmall ==
  ASSUME NEW S, IsFiniteSet(S), NEW f
  PROVE  IsFiniteSet({f[x] : x \in S}) /\ Cardinality({f[x] : x \in S}) <= Cardinality(S)
<1> DEFINE T == {f[x] : x \in S}
           g == [x \in S |-> f[x]]
<1>1. g \in Surjection(S, T)
  BY DEF Surjection
<1> HIDE DEF g, T
<1>2. IsFiniteSet(T) /\ Cardinality(T) <= Cardinality(S)
  BY <1>1, FS_Surjection
<1>3. QED
  BY <1>2 DEF T

\* The windows of walk_forward do not overlap, and each one that is skipped
\* leaves out one event at most.
LEMMA WindowsTile ==
  ASSUME NEW m \in Nat, NEW k \in Nat \ {0}, NEW b \in WindowBounds(m, k)
  PROVE  /\ \A v, w \in Windows(b) : v # w => Indices(v) \cap Indices(w) = {}
         /\ Cardinality((0 .. m - 1) \ UNION {Indices(w) : w \in Windows(b)})
              <= k - Cardinality(Windows(b))
<1>1. b \in [0 .. k -> 0 .. m] /\ b[0] = 0 /\ b[k] = m /\ DOMAIN b \ {0} = 1 .. k
  BY DEF WindowBounds
<1>2. \A i, j \in 0 .. k : i < j => b[i] <= b[j]
  BY BoundsGoUp
<1>3. \A i \in 0 .. k : b[i] \in Int
  BY <1>1
<1> DEFINE win == [i \in 1 .. k |-> Interval(b[i - 1], b[i])]
           kept == {i \in 1 .. k : b[i] - b[i - 1] >= 2}
           skipped == {i \in 1 .. k : ~(b[i] - b[i - 1] >= 2)}
<1>4. Windows(b) = {win[i] : i \in kept}
  BY <1>1 DEF Windows, Interval
<1>5. \A i \in 1 .. k : Indices(win[i]) = b[i - 1] .. b[i] - 1
  BY DEF Indices, Interval
<1> HIDE DEF win
<1>6. ASSUME NEW v \in Windows(b), NEW w \in Windows(b), v # w
      PROVE  Indices(v) \cap Indices(w) = {}
  <2>1. PICK i \in 1 .. k, j \in 1 .. k : v = win[i] /\ w = win[j]
    BY <1>4
  <2>2. i # j
    BY <1>6, <2>1
  <2>3. i - 1 \in 0 .. k /\ i \in 0 .. k /\ j - 1 \in 0 .. k /\ j \in 0 .. k
    OBVIOUS
  <2>4. b[i] <= b[j - 1] \/ b[j] <= b[i - 1]
    <3>1. i = j - 1 \/ i < j - 1 \/ j = i - 1 \/ j < i - 1
      BY <2>2
    <3>2. QED
      BY <1>2, <1>3, <2>3, <3>1
  <2>5. SUFFICES ASSUME NEW s \in Indices(v), s \in Indices(w) PROVE FALSE
    OBVIOUS
  <2>6. s \in b[i - 1] .. b[i] - 1 /\ s \in b[j - 1] .. b[j] - 1
    BY <1>5, <2>1, <2>5
  <2>7. /\ b[i] \in Int /\ b[i - 1] \in Int /\ b[j] \in Int /\ b[j - 1] \in Int
    BY <1>3, <2>3
  <2>8. QED
    BY <2>4, <2>6, <2>7
<1>7. IsFiniteSet(1 .. k) /\ Cardinality(1 .. k) = k
  BY FS_Interval
<1>8. /\ IsFiniteSet(kept) /\ IsFiniteSet(skipped)
      /\ Cardinality(kept) \in Nat /\ Cardinality(skipped) \in Nat
      /\ Cardinality(kept) + Cardinality(skipped) = k
  <2>1. kept \in SUBSET (1 .. k) /\ skipped \in SUBSET (1 .. k)
    OBVIOUS
  <2>2. kept \cup skipped = 1 .. k /\ kept \cap skipped = {}
    OBVIOUS
  <2> HIDE DEF kept, skipped
  <2>3. IsFiniteSet(kept) /\ IsFiniteSet(skipped)
    BY <1>7, <2>1, FS_Subset
  <2>4. Cardinality(kept) \in Nat /\ Cardinality(skipped) \in Nat
    BY <2>3, FS_CardinalityType
  <2>5. Cardinality(kept \cup skipped) =
          Cardinality(kept) + Cardinality(skipped) - Cardinality(kept \cap skipped)
    BY <2>3, FS_Union
  <2>6. Cardinality(kept \cap skipped) = 0
    BY <2>2, FS_EmptySet, Zenon
  <2>7. Cardinality(kept \cup skipped) = k
    BY <1>7, <2>2, Zenon
  <2>8. Cardinality(kept) + Cardinality(skipped) = k
    <3> DEFINE x == Cardinality(kept)
               y == Cardinality(skipped)
    <3>1. x \in Nat /\ y \in Nat /\ k = x + y - 0
      BY <2>4, <2>5, <2>6, <2>7
    <3> HIDE DEF x, y
    <3>2. x + y = k
      BY <3>1
    <3>3. QED
      BY <3>2 DEF x, y
  <2>9. QED
    BY <2>3, <2>4, <2>8
<1> DEFINE prev == [i \in 1 .. k |-> b[i - 1]]
           left == (0 .. m - 1) \ UNION {Indices(w) : w \in Windows(b)}
<1>9. left \subseteq {prev[i] : i \in skipped}
  <2>1. SUFFICES ASSUME NEW s \in left PROVE \E i \in skipped : s = prev[i]
    OBVIOUS
  <2>2. s \in 0 .. m - 1 /\ \A w \in Windows(b) : s \notin Indices(w)
    BY <2>1
  <2>3. b[0] <= s /\ s < b[k] /\ s \in Int
    BY <1>1, <2>2
  <2>4. PICK i \in 1 .. k : b[i - 1] <= s /\ s < b[i]
    BY <1>3, <2>3, Covered
  <2>5. b[i] \in Int /\ b[i - 1] \in Int
    BY <1>3
  <2>6. s \in Indices(win[i])
    BY <1>5, <2>3, <2>4, <2>5
  <2>7. i \notin kept
    <3> HIDE DEF kept
    <3>1. QED
      BY <1>4, <2>2, <2>6
  <2>8. i \in skipped /\ s = b[i - 1]
    BY <2>3, <2>4, <2>5, <2>7
  <2>9. QED
    BY <2>8
<1> HIDE DEF kept, skipped, prev, left
<1>10. Cardinality(left) <= Cardinality(skipped) /\ Cardinality(left) \in Nat
  <2> DEFINE T == {prev[i] : i \in skipped}
  <2>1. IsFiniteSet(T) /\ Cardinality(T) <= Cardinality(skipped)
    BY <1>8, ImageIsSmall
  <2>2. left \in SUBSET T
    BY <1>9
  <2> HIDE DEF T
  <2>3. IsFiniteSet(left) /\ Cardinality(left) <= Cardinality(T)
    BY <2>1, <2>2, FS_Subset
  <2>4. Cardinality(T) \in Nat /\ Cardinality(left) \in Nat
    BY <2>1, <2>3, FS_CardinalityType
  <2>5. QED
    BY <1>8, <2>1, <2>3, <2>4
<1>11. Cardinality(Windows(b)) <= Cardinality(kept) /\ Cardinality(Windows(b)) \in Nat
  <2>1. IsFiniteSet(Windows(b)) /\ Cardinality(Windows(b)) <= Cardinality(kept)
    BY <1>4, <1>8, ImageIsSmall
  <2>2. QED
    BY <2>1, FS_CardinalityType
<1>12. Cardinality(left) <= k - Cardinality(Windows(b))
  BY <1>8, <1>10, <1>11
<1>13. QED
  BY <1>6, <1>12 DEF left

\* The test blocks of the folds leave out nothing and do not overlap.
LEMMA BlocksTile ==
  ASSUME NEW n \in Nat, NEW k \in Nat \ {0}, NEW embargo
  PROVE  LET test(i) == Fold(n, k, embargo, i).test
         IN /\ UNION {test(i) : i \in 0 .. k - 1} = 0 .. n - 1
            /\ \A i, j \in 0 .. k - 1 : i # j => test(i) \cap test(j) = {}
<1>1. PICK q \in Nat, r \in 0 .. k - 1 : q = n \div k /\ r = n % k /\ n = q * k + r
  BY Division
<1> DEFINE b == [i \in 0 .. k |-> i * q + min(i, r)]
           test(i) == Fold(n, k, embargo, i).test
<1>2. \A i \in 0 .. k : b[i] \in Nat
  <2>1. TAKE i \in 0 .. k
  <2>2. i * q \in Nat /\ min(i, r) \in Nat
    BY DEF min
  <2>3. QED
    BY <2>2
<1>3. b[0] = 0 /\ b[k] = n
  <2>1. 0 * q = 0 /\ k * q = q * k /\ min(0, r) = 0 /\ min(k, r) = r
    BY DEF min
  <2>2. 0 \in 0 .. k /\ k \in 0 .. k
    OBVIOUS
  <2>3. QED
    BY <1>1, <2>1, <2>2
<1>4. \A i, j \in 0 .. k : i <= j => b[i] <= b[j]
  <2>1. SUFFICES ASSUME NEW i \in 0 .. k, NEW j \in 0 .. k, i <= j
        PROVE i * q + min(i, r) <= j * q + min(j, r)
    OBVIOUS
  <2>2. PICK d \in Nat : j = i + d
    <3>1. j - i \in Nat /\ j = i + (j - i)
      BY <2>1
    <3>2. QED
      BY <3>1
  <2>3. j * q = i * q + d * q /\ d * q \in Nat /\ i * q \in Nat
    BY <2>2
  <2>4. min(i, r) <= min(j, r) /\ min(i, r) \in Int /\ min(j, r) \in Int
    BY <2>1 DEF min
  <2>5. QED
    BY <2>3, <2>4
<1>5. \A i \in 0 .. k - 1 : test(i) = b[i] .. b[i + 1] - 1
  <2>1. TAKE i \in 0 .. k - 1
  <2>2. b[i] = i * q + min(i, r) /\ b[i + 1] = (i + 1) * q + min(i + 1, r)
    OBVIOUS
  <2> HIDE DEF b
  <2>3. Block(n, k, i) = Interval(b[i], b[i + 1])
    BY <1>1, <2>2 DEF Block
  <2>4. QED
    BY <2>3 DEF Fold, Interval, Indices
<1> HIDE DEF b, test
<1>6. ASSUME NEW s \in 0 .. n - 1 PROVE \E i \in 0 .. k - 1 : s \in test(i)
  <2>1. b[0] <= s /\ s < b[k] /\ s \in Int /\ \A i \in 0 .. k : b[i] \in Int
    BY <1>2, <1>3
  <2>2. PICK i \in 1 .. k : b[i - 1] <= s /\ s < b[i]
    BY <2>1, Covered
  <2>3. i - 1 \in 0 .. k - 1 /\ (i - 1) + 1 = i /\ b[i] \in Int /\ b[i - 1] \in Int
    BY <2>1
  <2>4. s \in test(i - 1)
    BY <1>5, <2>1, <2>2, <2>3
  <2>5. QED
    BY <2>3, <2>4
<1>7. ASSUME NEW i \in 0 .. k - 1, NEW s \in test(i) PROVE s \in 0 .. n - 1
  <2>1. s \in b[i] .. b[i + 1] - 1 /\ b[i] \in Nat /\ b[i + 1] \in Nat
    BY <1>2, <1>5
  <2>2. b[i + 1] <= n
    BY <1>3, <1>4
  <2>3. QED
    BY <2>1, <2>2
<1>8. ASSUME NEW i \in 0 .. k - 1, NEW j \in 0 .. k - 1, i < j,
             NEW s \in test(i), s \in test(j)
      PROVE  FALSE
  <2>1. s \in b[i] .. b[i + 1] - 1 /\ s \in b[j] .. b[j + 1] - 1
    BY <1>5, <1>8
  <2>2. b[i + 1] <= b[j] /\ b[i + 1] \in Nat /\ b[j] \in Nat
    BY <1>2, <1>4, <1>8
  <2>3. QED
    BY <2>1, <2>2
<1>9. UNION {test(i) : i \in 0 .. k - 1} = 0 .. n - 1
  BY <1>6, <1>7, Zenon
<1>10. \A i, j \in 0 .. k - 1 : i # j => test(i) \cap test(j) = {}
  <2>1. SUFFICES ASSUME NEW i \in 0 .. k - 1, NEW j \in 0 .. k - 1, i # j,
                        NEW s \in test(i), s \in test(j)
                 PROVE FALSE
    OBVIOUS
  <2>2. i < j \/ j < i
    BY <2>1
  <2>3. QED
    BY <1>8, <2>1, <2>2
<1>11. QED
  BY <1>9, <1>10, Zenon DEF test

\* Windows and folds tile what they cut, for any number of them and whatever is
\* recorded.
THEOREM CutsTileAll == Spec => []CutsTile
<1>1. FeedSound /\ CutInv => CutsTile
  <2> SUFFICES ASSUME FeedSound, CutInv, Loaded PROVE CutsTile
    BY DEF CutsTile
  <2> DEFINE m == bounds["holdout"].to - bounds["holdout"].from
             n == Len(events)
  <2>2. m \in Nat
    BY DEF CutInv, partition_events, Interval, min
  <2>4. n \in Nat
    <3>1. rows \in Seq(RowsUntil(clock)) /\ DOMAIN events = DOMAIN rows
      BY DEF FeedSound, ConverterInv, Converter, Converters
    <3>2. QED
      BY <3>1, FeedIsTyped DEF TypeOK
  <2> HIDE DEF m, n
  <2>5. ASSUME NEW k \in 1 .. NWindows, NEW b \in WindowBounds(m, k)
        PROVE  /\ \A v, w \in Windows(b) : v # w => Indices(v) \cap Indices(w) = {}
               /\ Cardinality((0 .. m - 1) \ UNION {Indices(w) : w \in Windows(b)})
                    <= k - Cardinality(Windows(b))
    <3>1. k \in Nat \ {0}
      BY WindowsAssumption
    <3>2. QED
      BY <2>2, <3>1, WindowsTile
  <2>6. ASSUME NEW k \in 2 .. min(n, NWindows + 1)
        PROVE  LET test(i) == Fold(n, k, cut, i).test
               IN /\ UNION {test(i) : i \in 0 .. k - 1} = 0 .. n - 1
                  /\ \A i, j \in 0 .. k - 1 : i # j => test(i) \cap test(j) = {}
    <3>1. k \in Nat \ {0}
      BY <2>4, WindowsAssumption DEF min
    <3>2. QED
      BY <2>4, <3>1, BlocksTile
  <2>7. QED
    BY <2>5, <2>6, Zenon DEF CutsTile, m, n
<1>2. QED
  BY <1>1, CutTyped, FeedIsSound, PTL

(***************************************************************************)
(* The order of the events, and the search in it.                          *)
(***************************************************************************)

\* R is a total order of S.
TotalOrder(R, S) ==
  /\ \A x \in S : <<x, x>> \in R
  /\ \A x, y \in S : <<x, y>> \in R \/ <<y, x>> \in R
  /\ \A x, y \in S : <<x, y>> \in R /\ <<y, x>> \in R => x = y
  /\ \A x, y, z \in S : <<x, y>> \in R /\ <<y, z>> \in R => <<x, z>> \in R

NoLater(R, S, x) == {y \in S : <<y, x>> \in R}
PlaceIn(R, S) == [x \in S |-> Cardinality(NoLater(R, S, x))]

\* Counting what comes no later numbers the elements 1 to |S|, in order.
LEMMA PlacesAreOrdered ==
  ASSUME NEW S, IsFiniteSet(S), NEW R, TotalOrder(R, S)
  PROVE  /\ PlaceIn(R, S) \in Bijection(S, 1 .. Cardinality(S))
         /\ \A x, y \in S : PlaceIn(R, S)[x] <= PlaceIn(R, S)[y] => <<x, y>> \in R
<1>1. \A x \in S : /\ NoLater(R, S, x) \in SUBSET S /\ IsFiniteSet(NoLater(R, S, x))
                   /\ Cardinality(NoLater(R, S, x)) \in Nat
                   /\ Cardinality(NoLater(R, S, x)) <= Cardinality(S)
                   /\ Cardinality(NoLater(R, S, x)) # 0
  <2>1. TAKE x \in S
  <2>2. NoLater(R, S, x) \in SUBSET S /\ x \in NoLater(R, S, x)
    BY DEF NoLater, TotalOrder
  <2>3. /\ IsFiniteSet(NoLater(R, S, x)) /\ Cardinality(NoLater(R, S, x)) \in Nat
        /\ Cardinality(NoLater(R, S, x)) <= Cardinality(S)
    BY <2>2, FS_Subset, FS_CardinalityType
  <2>4. Cardinality(NoLater(R, S, x)) # 0
    BY <2>2, <2>3, FS_EmptySet
  <2>5. QED
    BY <2>2, <2>3, <2>4
<1>2. Cardinality(S) \in Nat
  BY FS_CardinalityType
<1>3. \A x \in S : PlaceIn(R, S)[x] = Cardinality(NoLater(R, S, x))
  BY DEF PlaceIn
<1>4. PlaceIn(R, S) \in [S -> 1 .. Cardinality(S)]
  <2>1. \A x \in S : Cardinality(NoLater(R, S, x)) \in 1 .. Cardinality(S)
    BY <1>1, <1>2
  <2>2. QED
    BY <2>1 DEF PlaceIn
<1>5. ASSUME NEW x \in S, NEW y \in S, PlaceIn(R, S)[x] <= PlaceIn(R, S)[y]
      PROVE  <<x, y>> \in R
  <2>1. SUFFICES ASSUME <<y, x>> \in R PROVE <<x, y>> \in R
    BY DEF TotalOrder
  <2>2. NoLater(R, S, y) \in SUBSET NoLater(R, S, x)
    BY <2>1 DEF NoLater, TotalOrder
  <2>3. Cardinality(NoLater(R, S, y)) <= Cardinality(NoLater(R, S, x))
    BY <1>1, <2>2, FS_Subset
  <2>4. Cardinality(NoLater(R, S, x)) <= Cardinality(NoLater(R, S, y))
    BY <1>3, <1>5
  <2>5. Cardinality(NoLater(R, S, x)) = Cardinality(NoLater(R, S, y))
    BY <1>1, <2>3, <2>4
  <2>6. NoLater(R, S, x) = NoLater(R, S, y)
    BY <1>1, <2>2, <2>5, FS_Subset
  <2>7. x \in NoLater(R, S, x)
    BY DEF NoLater, TotalOrder
  <2>8. QED
    BY <2>6, <2>7 DEF NoLater
<1>6. PlaceIn(R, S) \in Injection(S, 1 .. Cardinality(S))
  <2>1. ASSUME NEW x \in S, NEW y \in S, PlaceIn(R, S)[x] = PlaceIn(R, S)[y] PROVE x = y
    <3>1. PlaceIn(R, S)[x] <= PlaceIn(R, S)[y] /\ PlaceIn(R, S)[y] <= PlaceIn(R, S)[x]
      BY <1>1, <1>3, <2>1
    <3>2. QED
      BY <1>5, <3>1 DEF TotalOrder
  <2>2. QED
    BY <1>4, <2>1 DEF Injection, IsInjective
<1>7. PlaceIn(R, S) \in Surjection(S, 1 .. Cardinality(S))
  <2>1. IsFiniteSet(1 .. Cardinality(S)) /\ Cardinality(1 .. Cardinality(S)) = Cardinality(S)
    BY <1>2, FS_Interval
  <2>2. QED
    BY <1>6, <2>1, FS_Injection
<1>8. QED
  BY <1>5, <1>6, <1>7 DEF Bijection

\* Loading permutes the rows so that time does not go back.
LEMMA SortedIs ==
  ASSUME NEW n \in Nat, NEW rs, DOMAIN rs = 1 .. n, \A i \in 1 .. n : rs[i].ts \in Int
  PROVE  \E o \in [1 .. n -> 1 .. n] :
           /\ sorted(rs) = [k \in 1 .. n |-> rs[o[k]]]
           /\ \A i, j \in 1 .. n : o[i] = o[j] => i = j
           /\ \A i \in 1 .. n : \E k \in 1 .. n : o[k] = i
           /\ \A i, j \in 1 .. n : i <= j => rs[o[i]].ts <= rs[o[j]].ts
<1> DEFINE S == 1 .. n
           Before(i, j) == rs[i].ts < rs[j].ts \/ (rs[i].ts = rs[j].ts /\ i <= j)
           R == {w \in S \X S : Before(w[1], w[2])}
           place == PlaceIn(R, S)
           o == [k \in S |-> CHOOSE i \in S : place[i] = k]
<1>1. \A i, j \in S : <<i, j>> \in R <=> Before(i, j)
  OBVIOUS
<1>2. \A i \in S : rs[i].ts \in Int /\ i \in Nat
  OBVIOUS
<1>3. TotalOrder(R, S)
  <2>1. \A i, j \in S : <<i, j>> \in R \/ <<j, i>> \in R
    <3>1. TAKE i, j \in S
    <3>2. PICK a \in Int, b \in Int : a = rs[i].ts /\ b = rs[j].ts
      BY <1>2
    <3>3. QED
      BY <1>1, <1>2, <3>2
  <2>2. \A i, j \in S : <<i, j>> \in R /\ <<j, i>> \in R => i = j
    <3>1. TAKE i, j \in S
    <3>2. PICK a \in Int, b \in Int : a = rs[i].ts /\ b = rs[j].ts
      BY <1>2
    <3>3. QED
      BY <1>1, <1>2, <3>2
  <2>3. \A i, j, k \in S : <<i, j>> \in R /\ <<j, k>> \in R => <<i, k>> \in R
    <3>1. TAKE i, j, k \in S
    <3>2. PICK a \in Int, b \in Int, c \in Int : a = rs[i].ts /\ b = rs[j].ts /\ c = rs[k].ts
      BY <1>2
    <3>3. QED
      BY <1>1, <1>2, <3>2
  <2>4. \A i \in S : <<i, i>> \in R
    BY <1>1, <1>2
  <2> HIDE DEF R, S
  <2>5. QED
    BY <2>1, <2>2, <2>3, <2>4, Zenon DEF TotalOrder
<1>4. IsFiniteSet(S) /\ Cardinality(S) = n
  BY FS_Interval
<1>5. sorted(rs) = [k \in S |-> rs[o[k]]]
  <2>1. \A i \in S : NoLater(R, S, i) = {j \in S : Before(j, i)}
    BY <1>1 DEF NoLater
  <2>2. \A i \in S : place[i] = Cardinality({j \in S : Before(j, i)})
    <3> HIDE DEF R
    <3>1. QED
      BY <2>1, Zenon DEF PlaceIn
  <2>3. sorted(rs) = [k \in S |-> rs[CHOOSE i \in S :
                        Cardinality({j \in S : Before(j, i)}) = k]]
    BY DEF sorted
  <2> HIDE DEF place
  <2>4. \A k \in S : o[k] = CHOOSE i \in S :
                       Cardinality({j \in S : Before(j, i)}) = k
    BY <2>2
  <2> HIDE DEF o
  <2>5. QED
    BY <2>3, <2>4
<1> HIDE DEF R
<1>6. place \in Bijection(S, S) /\ \A i, j \in S : place[i] <= place[j] => <<i, j>> \in R
  BY <1>3, <1>4, PlacesAreOrdered
<1> HIDE DEF place
<1>7. \A k \in S : o[k] \in S /\ place[o[k]] = k
  BY <1>6 DEF Bijection, Surjection
<1>8. o \in [S -> S]
  BY <1>7
<1> HIDE DEF o
<1>9. \A i, j \in S : o[i] = o[j] => i = j
  BY <1>7, Zenon
<1>10. \A i, j \in S : i <= j => rs[o[i]].ts <= rs[o[j]].ts
  <2>1. TAKE i, j \in S
  <2>2. HAVE i <= j
  <2>3. o[i] \in S /\ o[j] \in S /\ place[o[i]] = i /\ place[o[j]] = j
    BY <1>7, Zenon
  <2>4. <<o[i], o[j]>> \in R
    BY <1>6, <2>2, <2>3, Zenon
  <2>5. PICK a \in Int, b \in Int : a = rs[o[i]].ts /\ b = rs[o[j]].ts
    BY <1>2, <2>3, Zenon
  <2>6. rs[o[i]].ts < rs[o[j]].ts \/ rs[o[i]].ts = rs[o[j]].ts
    BY <1>1, <2>3, <2>4, Zenon
  <2>7. QED
    BY <2>5, <2>6
<1>11. \A i \in S : \E k \in S : o[k] = i
  <2>1. TAKE i \in S
  <2>2. place[i] \in S /\ o[place[i]] \in S /\ place[o[place[i]]] = place[i]
    BY <1>6, <1>7 DEF Bijection, Surjection
  <2>3. o[place[i]] = i
    BY <1>6, <2>2 DEF Bijection, Injection, IsInjective
  <2>4. QED
    BY <2>2, <2>3
<1>12. QED
  BY <1>5, <1>8, <1>9, <1>10, <1>11, Zenon

\* int(n * fraction) is n at most.
LEMMA TruncatedAtMost ==
  ASSUME NEW n \in Nat, NEW f \in 0 .. 100, NEW x \in Truncated(n * f, 100)
  PROVE  x \in 0 .. n
<1>1. n * f \in Nat /\ n * 100 \in Nat /\ f \in Nat
  OBVIOUS
<1>2. x \in Nat
  BY <1>1, TruncatedType
<1>3. x * 100 <= n * f
  BY <1>1, TruncatedIsClose
<1>4. PICK d \in Nat : f + d = 100
  <2>1. 100 - f \in Nat /\ f + (100 - f) = 100
    OBVIOUS
  <2>2. QED
    BY <2>1
<1>5. n * 100 = n * f + n * d /\ n * d \in Nat
  BY <1>4
<1>6. QED
  BY <1>1, <1>2, <1>3, <1>5

\* The events are in the order of their timestamps, and every partition lies
\* among them.
LoadedSound ==
  Loaded =>
    /\ \A i \in DOMAIN events : events[i].ts \in Int
    /\ \A i, j \in DOMAIN events : i <= j => events[i].ts <= events[j].ts
    /\ \A p \in DOMAIN bounds :
         /\ bounds[p].from \in Nat /\ bounds[p].to \in Nat
         /\ bounds[p].from <= bounds[p].to /\ bounds[p].to <= Len(rows)

LEMMA LoadedInit == Init => LoadedSound
  BY DEF Init, FeedInit, LoadedSound, Loaded

LEMMA LoadedNext == FeedSound /\ LoadedSound /\ [Next]_vars => LoadedSound'
<1> SUFFICES ASSUME FeedSound, LoadedSound, [Next]_vars PROVE LoadedSound'
  OBVIOUS
<1>1. CASE Feed
  <2>1. conn' # "loaded"
    BY <1>1 DEF Feed, ExchangeStep, RecorderStep, Moves, Trades, Opens, Drops, DepthMessage,
                TradeMessage, Leaves, OpensLate
  <2>2. QED
    BY <2>1 DEF LoadedSound, Loaded
<1>2. CASE load_l2
  <2>1. rows \in Seq(RowsUntil(clock)) /\ clock \in Nat
    BY ClockIs DEF FeedSound, ConverterInv, Converter, Converters
  <2>2. \A i \in DOMAIN rows : rows[i] \in RowsUntil(clock)
    <3> HIDE DEF RowsUntil
    <3>1. QED
      BY <2>1
  <2>3. PICK n \in Nat : n = Len(rows) /\ DOMAIN rows = 1 .. n
    BY <2>1
  <2>4. \A i \in 1 .. n : rows[i].ts \in Int
    <3>1. \A x \in RowsUntil(clock) : x.ts \in Int
      BY <2>1 DEF RowsUntil
    <3>2. QED
      BY <2>2, <2>3, <3>1, Zenon
  <2>5. rows' = rows /\ events' = sorted(rows)
    BY <1>2 DEF load_l2
  <2>6. PICK o \in [1 .. n -> 1 .. n] :
          /\ events' = [k \in 1 .. n |-> rows[o[k]]]
          /\ \A i, j \in 1 .. n : i <= j => rows[o[i]].ts <= rows[o[j]].ts
    BY <2>3, <2>4, <2>5, SortedIs
  <2>7. /\ \A i \in DOMAIN events' : events'[i].ts \in Int
        /\ \A i, j \in DOMAIN events' : i <= j => events'[i].ts <= events'[j].ts
    BY <2>4, <2>6
  <2>8. \A p \in DOMAIN bounds' :
          /\ bounds'[p].from \in Nat /\ bounds'[p].to \in Nat
          /\ bounds'[p].from <= bounds'[p].to /\ bounds'[p].to <= n
    <3>1. PICK f \in Fractions :
            \E embargo \in Truncated(Len(rows) * f.embargo, 100),
               n_train \in Truncated(Len(rows) * f.train, 100),
               n_val \in Truncated(Len(rows) * f.val, 100) :
              bounds' = partition_events(Len(rows), n_train, n_val, embargo)
      BY <1>2 DEF load_l2
    <3>2. f.train \in 0 .. 100 /\ f.val \in 0 .. 100 /\ f.embargo \in 0 .. 100
      BY FractionsAssumption, Zenon
    <3>3. PICK embargo \in Truncated(n * f.embargo, 100),
               n_train \in Truncated(n * f.train, 100),
               n_val \in Truncated(n * f.val, 100) :
            bounds' = partition_events(n, n_train, n_val, embargo)
      BY <2>3, <3>1
    <3>4. embargo \in 0 .. n /\ n_train \in 0 .. n /\ n_val \in 0 .. n
      BY <3>2, TruncatedAtMost
    <3>5. PICK a \in 0 .. n, b \in 0 .. n, c \in 0 .. n, x \in 0 .. n :
            /\ a <= b
            /\ bounds' = [train |-> Interval(0, x), validation |-> Interval(a, b),
                          holdout |-> Interval(c, n)]
      <4> DEFINE a == min(n, n_train + embargo)
                 b == min(n, a + n_val)
                 c == min(n, b + embargo)
      <4>1. bounds' = [train |-> Interval(0, n_train), validation |-> Interval(a, b),
                       holdout |-> Interval(c, n)]
        BY <3>3 DEF partition_events, Interval
      <4>2. a \in 0 .. n
        BY <3>4 DEF min
      <4> HIDE DEF a
      <4>3. b \in 0 .. n /\ a <= b
        BY <3>4, <4>2 DEF min
      <4> HIDE DEF b
      <4>4. c \in 0 .. n
        BY <3>4, <4>3 DEF min
      <4> HIDE DEF c
      <4>5. QED
        BY <3>4, <4>1, <4>2, <4>3, <4>4
    <3>6. QED
      BY <3>5 DEF Interval
  <2>9. QED
    BY <2>3, <2>5, <2>7, <2>8 DEF LoadedSound
<1>3. CASE Ties
  <2>1. UNCHANGED <<conn, bounds, rows>> /\ Loaded
    BY <1>3 DEF Ties, feedVars, Loaded
  <2>2. PICK i \in 1 .. Len(events) - 1 :
          /\ events[i].ts = events[i + 1].ts
          /\ events' = [events EXCEPT ![i] = events[i + 1], ![i + 1] = events[i]]
    BY <1>3 DEF Ties
  <2>3. rows \in Seq(RowsUntil(clock)) /\ DOMAIN events = DOMAIN rows /\ Len(events) = Len(rows)
    BY <2>1, FeedIsTyped DEF FeedSound, ConverterInv, Converter, Converters, TypeOK
  <2>4. PICK n \in Nat : n = Len(events) /\ DOMAIN events = 1 .. n
    <3>1. DOMAIN rows = 1 .. Len(rows) /\ Len(rows) \in Nat
      BY <2>3
    <3>2. QED
      BY <2>3, <3>1
  <2>5. i \in 1 .. n /\ i + 1 \in 1 .. n /\ i + 1 # i
    BY <2>2, <2>4
  <2>6. DOMAIN events' = 1 .. n /\ \A j \in 1 .. n : events'[j].ts = events[j].ts
    <3>1. DOMAIN events' = 1 .. n
      BY <2>2, <2>4
    <3>2. \A j \in 1 .. n : events'[j] = IF j = i + 1 THEN events[i]
                                         ELSE IF j = i THEN events[i + 1] ELSE events[j]
      BY <2>2, <2>4, <2>5
    <3>3. QED
      BY <2>2, <3>1, <3>2
  <2>7. /\ \A j \in 1 .. n : events[j].ts \in Int
        /\ \A j, k \in 1 .. n : j <= k => events[j].ts <= events[k].ts
    BY <2>1, <2>4 DEF LoadedSound
  <2>8. /\ \A j \in DOMAIN events' : events'[j].ts \in Int
        /\ \A j, k \in DOMAIN events' : j <= k => events'[j].ts <= events'[k].ts
    <3>1. PICK e : e = events'
      OBVIOUS
    <3>2. DOMAIN e = 1 .. n /\ \A j \in 1 .. n : e[j].ts = events[j].ts
      BY <2>6, <3>1
    <3>3. /\ \A j \in 1 .. n : e[j].ts \in Int
          /\ \A j, k \in 1 .. n : j <= k => e[j].ts <= e[k].ts
      BY <2>7, <3>2
    <3>4. QED
      BY <3>1, <3>2, <3>3
  <2>9. QED
    BY <2>1, <2>8 DEF LoadedSound
<1>4. CASE UNCHANGED vars
  BY <1>4 DEF vars, feedVars, depthVars, LoadedSound, Loaded
<1>5. QED
  BY <1>1, <1>2, <1>3, <1>4 DEF Next

HalveBody(ts, f, n) ==
  [a \in Nat |->
     IF n = 0 THEN a
     ELSE LET half == n \div 2
          IN IF ts < events[a + half + 1].ts THEN f[half][a]
             ELSE f[n - half - 1][a + half + 1]]

\* Halving looks at shorter ranges only.
LEMMA HalveAgrees ==
  ASSUME NEW ts, NEW n \in Nat, NEW f, NEW g, \A m \in 0 .. n - 1 : f[m] = g[m]
  PROVE  HalveBody(ts, f, n) = HalveBody(ts, g, n)
<1>1. CASE n = 0
  BY <1>1 DEF HalveBody
<1>2. CASE n # 0
  <2> DEFINE half == n \div 2
  <2>1. half \in 0 .. n - 1 /\ n - half - 1 \in 0 .. n - 1
    BY <1>2
  <2>2. f[half] = g[half] /\ f[n - half - 1] = g[n - half - 1]
    BY <2>1
  <2>3. QED
    BY <2>2 DEF HalveBody
<1>3. QED
  BY <1>1, <1>2

\* r cuts the indices from a to b at the time ts.
CutsAt(r, a, b, ts) ==
  /\ r \in a .. b
  /\ \A i \in a .. r - 1 : events[i + 1].ts <= ts
  /\ \A i \in r .. b - 1 : ts < events[i + 1].ts

\* bisect_right finds the cut of sorted events.
LEMMA BisectIs ==
  ASSUME NEW n \in Nat, DOMAIN events = 1 .. n,
         \A i \in 1 .. n : events[i].ts \in Int,
         \A i, j \in 1 .. n : i <= j => events[i].ts <= events[j].ts,
         NEW ts \in Int, NEW lo \in Nat, NEW hi \in Nat, lo <= hi, hi <= n
  PROVE  CutsAt(bisect_right(ts, lo, hi), lo, hi, ts)
<1> DEFINE After(m, f) == f = [k \in 0 .. m |-> HalveBody(ts, f, k)]
           T == {m \in Nat : \E f : After(m, f)}
           size == hi - lo
<1>0. size \in Nat
  OBVIOUS
<1>1. 0 \in T
  <2> DEFINE f == [k \in 0 .. 0 |-> [a \in Nat |-> a]]
  <2>1. f = [k \in 0 .. 0 |-> HalveBody(ts, f, k)]
    <3>1. \A k \in 0 .. 0 : HalveBody(ts, f, k) = [a \in Nat |-> a]
      <4> HIDE DEF f
      <4>1. QED
        BY DEF HalveBody
    <3>2. QED
      BY <3>1
  <2> HIDE DEF f
  <2>2. QED
    BY <2>1
<1>2. ASSUME NEW m \in Nat, NEW f, After(m, f) PROVE \E g : After(m + 1, g)
  <2> DEFINE last == HalveBody(ts, f, m + 1)
             g == [k \in 0 .. m + 1 |-> IF k = m + 1 THEN last ELSE f[k]]
  <2>1. \A k \in 0 .. m : g[k] = f[k] /\ f[k] = HalveBody(ts, f, k)
    <3>1. \A k \in 0 .. m : f[k] = HalveBody(ts, f, k)
      <4> HIDE DEF last
      <4>1. QED
        BY <1>2
    <3> HIDE DEF last
    <3>2. QED
      BY <3>1
  <2>2. g[m + 1] = last
    <3> HIDE DEF last
    <3>1. QED
      OBVIOUS
  <2>3. g = [k \in 0 .. m + 1 |-> g[k]]
    OBVIOUS
  <2> HIDE DEF g
  <2>4. \A k \in 0 .. m + 1 : g[k] = HalveBody(ts, g, k)
    <3>1. TAKE k \in 0 .. m + 1
    <3>2. k \in Nat /\ \A j \in 0 .. k - 1 : g[j] = f[j]
      BY <2>1
    <3>3. HalveBody(ts, g, k) = HalveBody(ts, f, k)
      BY <3>2, HalveAgrees
    <3>4. k = m + 1 \/ k \in 0 .. m
      OBVIOUS
    <3>5. QED
      BY <2>1, <2>2, <3>3, <3>4
  <2>5. QED
    BY <2>3, <2>4
<1>3. \E f : After(size, f)
  <2>1. \A m \in Nat : m \in T => m + 1 \in T
    <3> HIDE DEF After
    <3>1. QED
      BY <1>2
  <2>2. size \in T
    <3> HIDE DEF T, size
    <3>1. QED
      BY <1>0, <1>1, <2>1, EveryNumber
  <2> HIDE DEF After
  <2>3. QED
    BY <2>2
<1> DEFINE F == CHOOSE f : After(size, f)
<1>4. After(size, F)
  <2> HIDE DEF After
  <2>1. QED
    BY <1>3, Zenon
<1>5. bisect_right(ts, lo, hi) = F[size][lo]
  BY DEF bisect_right, HalveBody
<1> HIDE DEF F
<1>6. \A k \in 0 .. size : F[k] = HalveBody(ts, F, k)
  BY <1>4
<1> DEFINE Right(k) == k <= size => \A a \in lo .. hi - k : CutsAt(F[k][a], a, a + k, ts)
           K == {m \in Nat : \A k \in 0 .. m : Right(k)}
<1>7. 0 \in K
  <2>1. \A a \in lo .. hi : F[0][a] = a
    <3>1. F[0] = HalveBody(ts, F, 0)
      BY <1>0, <1>6
    <3>2. \A a \in lo .. hi : a \in Nat
      OBVIOUS
    <3>3. QED
      BY <3>1, <3>2 DEF HalveBody
  <2>2. Right(0)
    BY <2>1 DEF CutsAt
  <2>3. QED
    BY <2>2
<1>8. \A m \in Nat : m \in K => m + 1 \in K
  <2>1. TAKE m \in Nat
  <2>2. HAVE m \in K
  <2> DEFINE k == m + 1
             half == k \div 2
  <2>3. half \in 0 .. m /\ k - half - 1 \in 0 .. m
    OBVIOUS
  <2>4. Right(half) /\ Right(k - half - 1)
    <3> HIDE DEF Right, half, k
    <3>1. QED
      BY <2>2, <2>3
  <2>5. ASSUME k <= size, NEW a \in lo .. hi - k
        PROVE  CutsAt(F[k][a], a, a + k, ts)
    <3>1. PICK h \in 0 .. m : h = half /\ m - h \in 0 .. m
      BY <2>3
    <3>2. /\ a \in Nat /\ a \in lo .. hi - h /\ a + h + 1 \in lo .. hi - (m - h)
          /\ h <= size /\ m - h <= size /\ a + h + 1 \in 1 .. n /\ a + k <= n
      BY <2>5, <3>1
    <3>3. F[k][a] = IF ts < events[a + h + 1].ts THEN F[h][a] ELSE F[m - h][a + h + 1]
      <4>1. F[k] = HalveBody(ts, F, k) /\ k # 0 /\ k - h - 1 = m - h
        BY <1>6, <2>5
      <4>2. QED
        BY <3>1, <3>2, <4>1 DEF HalveBody
    <3>4. events[a + h + 1].ts \in Int
      BY <3>2
    <3>5. CASE ts < events[a + h + 1].ts
      <4>1. CutsAt(F[h][a], a, a + h, ts)
        BY <2>4, <3>1, <3>2
      <4>2. PICK r : r = F[k][a] /\ CutsAt(r, a, a + h, ts)
        BY <3>3, <3>5, <4>1
      <4>3. r \in a .. a + h
        BY <4>2 DEF CutsAt
      <4>4. \A i \in r .. a + k - 1 : ts < events[i + 1].ts
        <5>1. TAKE i \in r .. a + k - 1
        <5>0. \A j \in r .. (a + h) - 1 : ts < events[j + 1].ts
          BY <4>2 DEF CutsAt
        <5>2. CASE i \in r .. (a + h) - 1
          BY <5>0, <5>2
        <5>3. CASE i \in a + h .. a + k - 1
          <6>1. i + 1 \in 1 .. n /\ a + h + 1 <= i + 1
            BY <3>2, <5>3
          <6>2. events[a + h + 1].ts <= events[i + 1].ts /\ events[i + 1].ts \in Int
            BY <3>2, <6>1
          <6>3. \A x, y \in Int : ts < x /\ x <= y => ts < y
            OBVIOUS
          <6>4. QED
            BY <3>4, <3>5, <6>2, <6>3, Zenon
        <5>4. QED
          BY <3>2, <4>3, <5>2, <5>3
      <4>5. r \in a .. a + k
        BY <3>1, <3>2, <4>3
      <4>6. QED
        BY <4>2, <4>4, <4>5 DEF CutsAt
    <3>6. CASE ~(ts < events[a + h + 1].ts)
      <4>1. CutsAt(F[m - h][a + h + 1], a + h + 1, (a + h + 1) + (m - h), ts)
        <5>1. Right(m - h)
          <6>1. m - h = k - half - 1
            BY <3>1
          <6> HIDE DEF Right, k, half
          <6>2. QED
            BY <2>4, <6>1
        <5>2. QED
          BY <3>2, <5>1
      <4>2. (a + h + 1) + (m - h) = a + k
        BY <3>1, <3>2
      <4>3. PICK r : r = F[k][a] /\ CutsAt(r, a + h + 1, a + k, ts)
        BY <3>3, <3>6, <4>1, <4>2
      <4>4. r \in a + h + 1 .. a + k
        BY <4>3 DEF CutsAt
      <4>5. \A i \in a .. r - 1 : events[i + 1].ts <= ts
        <5>1. TAKE i \in a .. r - 1
        <5>2. CASE i \in a + h + 1 .. r - 1
          BY <4>3, <5>2 DEF CutsAt
        <5>3. CASE i \in a .. a + h
          <6>1. i + 1 \in 1 .. n /\ i + 1 <= a + h + 1
            BY <3>2, <5>3
          <6>2. events[i + 1].ts <= events[a + h + 1].ts /\ events[i + 1].ts \in Int
            BY <3>2, <6>1
          <6>3. QED
            BY <3>4, <3>6, <6>2
        <5>4. QED
          BY <3>2, <4>4, <5>2, <5>3
      <4>6. r \in a .. a + k
        BY <3>1, <3>2, <4>4
      <4>7. QED
        BY <4>3, <4>5, <4>6 DEF CutsAt
    <3>7. QED
      BY <3>5, <3>6
  <2>6. Right(k)
    BY <2>5
  <2>7. \A j \in 0 .. m + 1 : j \in 0 .. m \/ j = k
    OBVIOUS
  <2> HIDE DEF Right, k
  <2>8. QED
    BY <2>2, <2>6, <2>7
<1>9. Right(size)
  <2>1. size \in K
    <3> HIDE DEF K, size
    <3>1. QED
      BY <1>0, <1>7, <1>8, EveryNumber
  <2> HIDE DEF Right
  <2>2. QED
    BY <1>0, <2>1
<1>10. QED
  BY <1>5, <1>9

LEMMA LoadedIsSound == Spec => []LoadedSound
  BY LoadedInit, LoadedNext, FeedIsSound, PTL DEF Spec

\* as_of never returns a later event and leaves out no earlier one, for any
\* recording, any partition and any time.
THEOREM NoLookahead == Spec => []AsOfIsPointInTime
<1>1. FeedSound /\ LoadedSound => AsOfIsPointInTime
  <2> SUFFICES ASSUME FeedSound, LoadedSound, Loaded, NEW p \in DOMAIN bounds,
                      NEW ts \in 0 .. MaxClock
               PROVE  as_of(p, ts) = {i \in Indices(bounds[p]) : events[i + 1].ts <= ts}
    BY DEF AsOfIsPointInTime
  <2>1. PICK n \in Nat : n = Len(rows) /\ DOMAIN events = 1 .. n
    <3>1. rows \in Seq(RowsUntil(clock)) /\ DOMAIN events = DOMAIN rows
      BY DEF FeedSound, ConverterInv, Converter, Converters
    <3>2. DOMAIN rows = 1 .. Len(rows) /\ Len(rows) \in Nat
      BY <3>1
    <3>3. QED
      BY <3>1, <3>2
  <2>2. /\ \A i \in 1 .. n : events[i].ts \in Int
        /\ \A i, j \in 1 .. n : i <= j => events[i].ts <= events[j].ts
    BY <2>1 DEF LoadedSound
  <2>3. PICK lo \in Nat, hi \in Nat :
          lo = bounds[p].from /\ hi = bounds[p].to /\ lo <= hi /\ hi <= n
    BY <2>1 DEF LoadedSound
  <2>4. ts \in Int
    OBVIOUS
  <2>5. CutsAt(bisect_right(ts, lo, hi), lo, hi, ts)
    BY <2>1, <2>2, <2>3, <2>4, BisectIs
  <2>6. PICK r : r = bisect_right(ts, lo, hi) /\ CutsAt(r, lo, hi, ts)
    BY <2>5
  <2>7. /\ r \in lo .. hi /\ \A i \in lo .. r - 1 : events[i + 1].ts <= ts
        /\ \A i \in r .. hi - 1 : ts < events[i + 1].ts
    BY <2>6 DEF CutsAt
  <2>8. as_of(p, ts) = lo .. r - 1
    BY <2>3, <2>6 DEF as_of
  <2>9. Indices(bounds[p]) = lo .. hi - 1
    BY <2>3 DEF Indices
  <2>10. ASSUME NEW i \in lo .. hi - 1 PROVE i \in lo .. r - 1 <=> events[i + 1].ts <= ts
    <3>1. i + 1 \in 1 .. n /\ (i \in lo .. r - 1 \/ i \in r .. hi - 1)
      BY <2>3, <2>7
    <3>2. events[i + 1].ts \in Int
      BY <2>2, <3>1
    <3>3. CASE i \in lo .. r - 1
      BY <2>7, <3>3
    <3>4. CASE i \in r .. hi - 1
      <4>1. ts < events[i + 1].ts
        BY <2>7, <3>4
      <4>2. ~(events[i + 1].ts <= ts)
        BY <2>4, <3>2, <4>1
      <4>3. ~(i \in lo .. r - 1)
        BY <2>7, <3>4
      <4>4. QED
        BY <4>2, <4>3
    <3>5. QED
      BY <3>1, <3>3, <3>4
  <2>11. \A i \in lo .. r - 1 : i \in lo .. hi - 1
    BY <2>3, <2>7
  <2>12. lo .. r - 1 = {i \in lo .. hi - 1 : events[i + 1].ts <= ts}
    BY <2>10, <2>11, Zenon
  <2>13. QED
    BY <2>8, <2>9, <2>12
<1>2. QED
  BY <1>1, FeedIsSound, LoadedIsSound, PTL

(***************************************************************************)
(* The depth a replay of the rows shows.                                   *)
(***************************************************************************)
SumBody(q, l, f, k) ==
  IF k = 0 THEN 0 ELSE IF q[k].level = l THEN f[k - 1] + q[k].qty ELSE f[k - 1]
SumSteps(q, l, n, F) ==
  /\ \A k \in 0 .. n : F[k] = SumBody(q, l, F, k)
  /\ Resting(q, l) = F[n]

LEMMA SumBySteps ==
  ASSUME NEW q, NEW l, NEW m \in Nat, Len(q) = m
  PROVE  \E F : SumSteps(q, l, m, F)
<1> DEFINE Body(f, k) == SumBody(q, l, f, k)
           After(n, f) == f = [k \in 0 .. n |-> Body(f, k)]
           T == {n \in Nat : \E f : After(n, f)}
<1>1. 0 \in T
  <2> DEFINE f == [k \in 0 .. 0 |-> 0]
  <2>1. f = [k \in 0 .. 0 |-> Body(f, k)]
    <3>1. \A k \in 0 .. 0 : Body(f, k) = 0
      BY DEF SumBody
    <3> HIDE DEF Body
    <3>2. QED
      BY <3>1
  <2> HIDE DEF f, Body
  <2>2. QED
    BY <2>1
<1>2. ASSUME NEW n \in Nat, NEW f, After(n, f) PROVE \E g : After(n + 1, g)
  <2> DEFINE g == [k \in 0 .. n + 1 |-> IF k = n + 1 THEN Body(f, n + 1) ELSE f[k]]
  <2>1. \A k \in 0 .. n + 1 : g[k] = Body(g, k)
    <3>1. TAKE k \in 0 .. n + 1
    <3>2. CASE k = n + 1
      <4>1. g[k] = Body(f, n + 1) /\ g[k - 1] = f[n] /\ k # 0 /\ k - 1 = n
        BY <3>2
      <4> HIDE DEF g
      <4>2. QED
        BY <3>2, <4>1 DEF SumBody
    <3>3. CASE k \in 0 .. n
      <4>1. g[k] = f[k] /\ (k # 0 => g[k - 1] = f[k - 1])
        BY <3>3
      <4>2. f[k] = Body(f, k)
        <5> HIDE DEF g, Body
        <5>1. QED
          BY <1>2, <3>3
      <4> HIDE DEF g
      <4>3. QED
        BY <4>1, <4>2 DEF SumBody
    <3>4. QED
      BY <3>2, <3>3
  <2>2. g = [k \in 0 .. n + 1 |-> g[k]]
    OBVIOUS
  <2> HIDE DEF g, Body
  <2>3. QED
    BY <2>1, <2>2
<1>3. \E f : After(m, f)
  <2>1. \A n \in Nat : n \in T => n + 1 \in T
    <3> HIDE DEF After
    <3>1. QED
      BY <1>2
  <2>2. m \in T
    <3> HIDE DEF T
    <3>1. QED
      BY <1>1, <2>1, EveryNumber
  <2> HIDE DEF After
  <2>3. QED
    BY <2>2
<1> DEFINE F == CHOOSE f : After(m, f)
<1>4. After(m, F)
  <2> HIDE DEF After
  <2>1. QED
    BY <1>3, Zenon
<1>5. Resting(q, l) = F[m]
  BY DEF Resting, SumBody
<1>6. \A k \in 0 .. m : F[k] = Body(F, k)
  <2> HIDE DEF F, Body
  <2>1. QED
    BY <1>4
<1>7. QED
  BY <1>5, <1>6 DEF SumSteps

OneRests(q, l, m, a, v) ==
  /\ \A k \in 1 .. m : q[k].level = l => q[k].qty = IF k = a THEN v ELSE 0
  /\ a \in 1 .. m => q[a].level = l

\* What rests at a level of which at most one order, the a-th, has volume left.
LEMMA RestingIs ==
  ASSUME NEW m \in Nat, NEW q, Len(q) = m, NEW l, NEW a \in 1 .. m + 1, NEW v \in Nat,
         OneRests(q, l, m, a, v)
  PROVE  Resting(q, l) = IF a <= m THEN v ELSE 0
<1>1. PICK F : SumSteps(q, l, m, F)
  BY SumBySteps
<1>2. \A k \in 0 .. m : F[k] = SumBody(q, l, F, k)
  BY <1>1 DEF SumSteps
<1> DEFINE K == {k \in Nat : k <= m => F[k] = IF a <= k THEN v ELSE 0}
<1>3. 0 \in K
  BY <1>2 DEF SumBody
<1>4. \A k \in Nat : k \in K => k + 1 \in K
  <2>1. TAKE k \in Nat
  <2>2. HAVE k \in K
  <2>3. SUFFICES ASSUME k + 1 <= m PROVE F[k + 1] = IF a <= k + 1 THEN v ELSE 0
    OBVIOUS
  <2>4. F[k] = IF a <= k THEN v ELSE 0
    BY <2>2, <2>3
  <2>5. k + 1 \in 1 .. m /\ k + 1 \in 0 .. m /\ (k + 1) - 1 = k /\ k + 1 # 0
    BY <2>3
  <2>6. F[k + 1] = IF q[k + 1].level = l THEN F[k] + q[k + 1].qty ELSE F[k]
    BY <1>2, <2>5 DEF SumBody
  <2>7. CASE q[k + 1].level = l
    <3>1. q[k + 1].qty = IF k + 1 = a THEN v ELSE 0
      BY <2>5, <2>7 DEF OneRests
    <3>2. F[k + 1] = F[k] + q[k + 1].qty
      BY <2>6, <2>7
    <3>3. QED
      BY <2>4, <3>1, <3>2
  <2>8. CASE q[k + 1].level # l
    <3>1. a # k + 1
      BY <2>5, <2>8 DEF OneRests
    <3>2. QED
      BY <2>4, <2>6, <2>8, <3>1
  <2>9. QED
    BY <2>7, <2>8
<1>5. m \in K
  <2> HIDE DEF K
  <2>1. QED
    BY <1>3, <1>4, EveryNumber
<1>6. QED
  BY <1>1, <1>5 DEF SumSteps

ReplayBody(rs, kinds, f, k) ==
  IF k = 0 THEN <<>>
  ELSE IF rs[k].event \in kinds THEN apply_event(f[k - 1], rs[k]) ELSE f[k - 1]
ReplaySteps(rs, kinds, n, F) ==
  /\ \A k \in 0 .. n : F[k] = ReplayBody(rs, kinds, F, k)
  /\ Replay(rs, kinds) = F[n]

LEMMA ReplayBySteps ==
  ASSUME NEW rs, NEW kinds, NEW m \in Nat, Len(rs) = m
  PROVE  \E F : ReplaySteps(rs, kinds, m, F)
<1> DEFINE Body(f, k) == ReplayBody(rs, kinds, f, k)
           After(n, f) == f = [k \in 0 .. n |-> Body(f, k)]
           T == {n \in Nat : \E f : After(n, f)}
<1>1. 0 \in T
  <2> DEFINE f == [k \in 0 .. 0 |-> <<>>]
  <2>1. f = [k \in 0 .. 0 |-> Body(f, k)]
    <3>1. \A k \in 0 .. 0 : Body(f, k) = <<>>
      BY DEF ReplayBody
    <3> HIDE DEF Body
    <3>2. QED
      BY <3>1
  <2> HIDE DEF f, Body
  <2>2. QED
    BY <2>1
<1>2. ASSUME NEW n \in Nat, NEW f, After(n, f) PROVE \E g : After(n + 1, g)
  <2> DEFINE g == [k \in 0 .. n + 1 |-> IF k = n + 1 THEN Body(f, n + 1) ELSE f[k]]
  <2>1. \A k \in 0 .. n + 1 : g[k] = Body(g, k)
    <3>1. TAKE k \in 0 .. n + 1
    <3>2. CASE k = n + 1
      <4>1. g[k] = Body(f, n + 1) /\ g[k - 1] = f[n] /\ k # 0 /\ k - 1 = n
        BY <3>2
      <4> HIDE DEF g
      <4>2. QED
        BY <3>2, <4>1, Zenon DEF ReplayBody
    <3>3. CASE k \in 0 .. n
      <4>1. g[k] = f[k] /\ (k # 0 => g[k - 1] = f[k - 1])
        BY <3>3
      <4>2. f[k] = Body(f, k)
        <5> HIDE DEF g, Body
        <5>1. QED
          BY <1>2, <3>3
      <4> HIDE DEF g
      <4>3. QED
        BY <4>1, <4>2, Zenon DEF ReplayBody
    <3>4. QED
      BY <3>2, <3>3
  <2>2. g = [k \in 0 .. n + 1 |-> g[k]]
    OBVIOUS
  <2> HIDE DEF g, Body
  <2>3. QED
    BY <2>1, <2>2
<1>3. \E f : After(m, f)
  <2>1. \A n \in Nat : n \in T => n + 1 \in T
    <3> HIDE DEF After
    <3>1. QED
      BY <1>2
  <2>2. m \in T
    <3> HIDE DEF T
    <3>1. QED
      BY <1>1, <2>1, EveryNumber
  <2> HIDE DEF After
  <2>3. QED
    BY <2>2
<1> DEFINE F == CHOOSE f : After(m, f)
<1>4. After(m, F)
  <2> HIDE DEF After
  <2>1. QED
    BY <1>3, Zenon
<1>5. Replay(rs, kinds) = F[m]
  BY DEF Replay, ReplayBody
<1>6. \A k \in 0 .. m : F[k] = Body(F, k)
  <2> HIDE DEF F, Body
  <2>1. QED
    BY <1>4
<1>7. QED
  BY <1>5, <1>6 DEF ReplaySteps

\* One more event.
LEMMA ReplayOneMore ==
  ASSUME NEW S, NEW rs \in Seq(S), NEW x \in S, NEW kinds
  PROVE  Replay(Append(rs, x), kinds) = IF x.event \in kinds THEN apply_event(Replay(rs, kinds), x)
                                                             ELSE Replay(rs, kinds)
<1>0. PICK n \in Nat : n = Len(rs)
  BY OneMoreRow
<1> DEFINE s == Append(rs, x)
<1>1. /\ Len(rs) = n /\ Len(s) = n + 1
      /\ s[n + 1] = x /\ \A k \in 1 .. n : s[k] = rs[k]
  BY <1>0, OneMoreRow
<1> HIDE DEF s
<1>2. PICK F : ReplaySteps(rs, kinds, n, F)
  BY <1>1, ReplayBySteps
<1>3. PICK G : ReplaySteps(s, kinds, n + 1, G)
  <2>1. n + 1 \in Nat /\ Len(s) = n + 1
    BY <1>1
  <2>2. QED
    BY <2>1, ReplayBySteps
<1>4. \A k \in 0 .. n : F[k] = ReplayBody(rs, kinds, F, k)
  BY <1>2 DEF ReplaySteps
<1>5. \A k \in 0 .. n + 1 : G[k] = ReplayBody(s, kinds, G, k)
  BY <1>3 DEF ReplaySteps
<1> DEFINE K == {k \in Nat : k <= n => F[k] = G[k]}
<1>6. 0 \in K
  <2>1. F[0] = ReplayBody(rs, kinds, F, 0) /\ G[0] = ReplayBody(s, kinds, G, 0)
    BY <1>4, <1>5
  <2>2. F[0] = G[0]
    BY <2>1, Zenon DEF ReplayBody
  <2>3. QED
    BY <2>2
<1>7. \A k \in Nat : k \in K => k + 1 \in K
  <2>1. TAKE k \in Nat
  <2>2. HAVE k \in K
  <2>3. SUFFICES ASSUME k + 1 <= n PROVE F[k + 1] = G[k + 1]
    OBVIOUS
  <2>4. /\ F[k] = G[k] /\ k + 1 # 0 /\ (k + 1) - 1 = k
        /\ k + 1 \in 0 .. n /\ k + 1 \in 0 .. n + 1 /\ k + 1 \in 1 .. n
    BY <2>2, <2>3
  <2>5. s[k + 1] = rs[k + 1]
    BY <1>1, <2>4
  <2>6. F[k + 1] = ReplayBody(rs, kinds, F, k + 1) /\ G[k + 1] = ReplayBody(s, kinds, G, k + 1)
    BY <1>4, <1>5, <2>4
  <2>7. ReplayBody(rs, kinds, F, k + 1) = ReplayBody(s, kinds, G, k + 1)
    BY <2>4, <2>5, Zenon DEF ReplayBody
  <2>8. QED
    BY <2>6, <2>7
<1>8. F[n] = G[n]
  <2>1. n \in K
    <3> HIDE DEF K
    <3>1. QED
      BY <1>6, <1>7, EveryNumber
  <2>2. QED
    BY <2>1
<1>9. n + 1 # 0 /\ (n + 1) - 1 = n /\ n + 1 \in 0 .. n + 1
  OBVIOUS
<1>10. G[n + 1] = IF x.event \in kinds THEN apply_event(G[n], x) ELSE G[n]
  <2>1. G[n + 1] = ReplayBody(s, kinds, G, n + 1)
    BY <1>5, <1>9
  <2>2. QED
    BY <1>1, <1>9, <2>1, Zenon DEF ReplayBody
<1>11. Replay(rs, kinds) = F[n] /\ Replay(s, kinds) = G[n + 1]
  BY <1>2, <1>3 DEF ReplaySteps
<1>12. QED
  BY <1>8, <1>10, <1>11, Zenon DEF s

\* The replay of the rows has one order with volume at each level of the map,
\* the one the map names, with the volume v says.
Orders == [id : Nat, level : Levels, qty : Nat]
Mirrors(q, ids, next, v) ==
  /\ q \in Seq(Orders)
  /\ \A k \in 1 .. Len(q) : q[k].id \in 1 .. next - 1
  /\ \A k, j \in 1 .. Len(q) : q[k].id = q[j].id => k = j
  /\ \A k \in 1 .. Len(q) : q[k].qty # 0 => ids[q[k].level] = q[k].id
  /\ \A l \in Levels : ids[l] = 0 => v[l] = 0
  /\ \A l \in Levels : ids[l] # 0 =>
       \E k \in 1 .. Len(q) : q[k].id = ids[l] /\ q[k].level = l /\ q[k].qty = v[l]

Shows(d, v) ==
  /\ v \in [Levels -> Nat]
  /\ Mirrors(Replay(d.rows, AddsAndCancels), d.level_id, d.next_id, v)

LEMMA OrderAt ==
  ASSUME NEW q \in Seq(Orders), NEW k \in 1 .. Len(q)
  PROVE  q[k] \in Orders /\ q[k].id \in Nat /\ q[k].level \in Levels /\ q[k].qty \in Nat
<1>1. q[k] \in Orders
  <2>1. QED
    OBVIOUS
<1>2. QED
  BY <1>1 DEF Orders

\* So a replay shows v.
LEMMA MirroredDepth ==
  ASSUME NEW q, NEW ids, NEW next \in Nat, NEW v \in [Levels -> Nat], Mirrors(q, ids, next, v),
         NEW l \in Levels
  PROVE  Resting(q, l) = v[l]
<1>1. PICK m \in Nat : m = Len(q)
  BY DEF Mirrors
<1>2. \A k \in 1 .. m : q[k].id \in 1 .. next - 1 /\ q[k].qty \in Nat
  BY <1>1, OrderAt DEF Mirrors
<1>3. \A k, j \in 1 .. m : q[k].id = q[j].id => k = j
  BY <1>1 DEF Mirrors
<1>4. \A k \in 1 .. m : q[k].level = l /\ q[k].qty # 0 => ids[l] = q[k].id
  BY <1>1 DEF Mirrors
<1>5. CASE ids[l] = 0
  <2>1. v[l] = 0
    BY <1>5 DEF Mirrors
  <2>2. \A k \in 1 .. m : q[k].level = l => q[k].qty = 0
    <3>1. TAKE k \in 1 .. m
    <3>2. q[k].id # 0
      BY <1>2
    <3>3. QED
      BY <1>4, <1>5, <3>2
  <2>3. m + 1 \in 1 .. m + 1 /\ m + 1 \notin 1 .. m /\ ~(m + 1 <= m)
    OBVIOUS
  <2>4. \A k \in 1 .. m : q[k].level = l => q[k].qty = IF k = m + 1 THEN 0 ELSE 0
    BY <2>2
  <2>5. Resting(q, l) = 0
    <3>1. OneRests(q, l, m, m + 1, 0)
      BY <2>3, <2>4 DEF OneRests
    <3>2. QED
      BY <1>1, <2>3, <3>1, RestingIs
  <2>6. QED
    BY <2>1, <2>5
<1>6. CASE ids[l] # 0
  <2>1. PICK a \in 1 .. m : q[a].id = ids[l] /\ q[a].level = l /\ q[a].qty = v[l]
    BY <1>1, <1>6 DEF Mirrors
  <2>2. \A k \in 1 .. m : q[k].level = l => q[k].qty = IF k = a THEN v[l] ELSE 0
    <3>1. TAKE k \in 1 .. m
    <3>2. CASE k = a
      BY <2>1, <3>2
    <3>3. CASE k # a
      BY <1>3, <1>4, <2>1, <3>3
    <3>4. QED
      BY <3>2, <3>3
  <2>3. v[l] \in Nat /\ a \in 1 .. m + 1 /\ a <= m
    OBVIOUS
  <2>4. Resting(q, l) = v[l]
    <3>1. OneRests(q, l, m, a, v[l])
      BY <2>1, <2>2 DEF OneRests
    <3>2. QED
      BY <1>1, <2>3, <3>1, RestingIs
  <2>5. QED
    BY <2>3, <2>4
<1>7. QED
  BY <1>5, <1>6

\* A cancel of the order of a level.
LEMMA CancelMirrors ==
  ASSUME NEW q, NEW ids \in [Levels -> Nat], NEW next \in Nat, NEW v \in [Levels -> Nat],
         Mirrors(q, ids, next, v), NEW l \in Levels, ids[l] # 0,
         NEW x, x.event = "cancel", x.id = ids[l]
  PROVE  Mirrors(apply_event(q, x), [ids EXCEPT ![l] = 0], next, [v EXCEPT ![l] = 0])
<1> DEFINE p == apply_event(q, x)
           iz == [ids EXCEPT ![l] = 0]
           w == [v EXCEPT ![l] = 0]
<1>1. PICK m \in Nat : m = Len(q)
  BY DEF Mirrors
<1>2. \A k \in 1 .. m : q[k] \in Orders /\ q[k].id \in Nat /\ q[k].level \in Levels /\ q[k].qty \in Nat
  BY <1>1, OrderAt DEF Mirrors
<1>3. q = [k \in 1 .. m |-> q[k]]
  BY <1>1 DEF Mirrors
<1>4. p = [k \in 1 .. m |-> IF q[k].id = ids[l] THEN [q[k] EXCEPT !.qty = 0] ELSE q[k]]
  BY <1>3 DEF apply_event
<1>5. /\ iz[l] = 0 /\ \A m1 \in Levels : m1 # l => iz[m1] = ids[m1]
      /\ w[l] = 0 /\ \A m1 \in Levels : m1 # l => w[m1] = v[m1]
  OBVIOUS
<1> HIDE DEF p, iz, w
<1>6. ASSUME NEW k \in 1 .. m
      PROVE  /\ p[k] \in Orders /\ p[k].id = q[k].id /\ p[k].level = q[k].level
             /\ IF q[k].id = ids[l] THEN p[k].qty = 0 ELSE p[k].qty = q[k].qty
  <2>1. CASE q[k].id = ids[l]
    <3>1. p[k] = [q[k] EXCEPT !.qty = 0]
      BY <1>4, <2>1
    <3>2. q[k] \in Orders
      BY <1>2
    <3>3. QED
      BY <2>1, <3>1, <3>2 DEF Orders
  <2>2. CASE q[k].id # ids[l]
    <3>1. p[k] = q[k]
      BY <1>4, <2>2
    <3>2. QED
      BY <1>2, <2>2, <3>1
  <2>3. QED
    BY <2>1, <2>2
<1>7. p \in Seq(Orders) /\ Len(p) = m
  <2>1. DOMAIN p = 1 .. m /\ p = [k \in 1 .. m |-> p[k]]
    BY <1>4
  <2>2. \A k \in 1 .. m : p[k] \in Orders
    BY <1>6
  <2> HIDE DEF Orders
  <2>3. p \in [1 .. m -> Orders]
    BY <2>1, <2>2
  <2>4. QED
    BY <2>3
<1>8. \A k \in 1 .. m : p[k].id \in 1 .. next - 1
  BY <1>1, <1>6 DEF Mirrors
<1>9. \A k, j \in 1 .. m : p[k].id = p[j].id => k = j
  BY <1>1, <1>6 DEF Mirrors
<1>10. ASSUME NEW k \in 1 .. m, p[k].qty # 0 PROVE iz[p[k].level] = p[k].id
  <2>1. q[k].id # ids[l] /\ q[k].qty # 0 /\ p[k].level = q[k].level /\ p[k].id = q[k].id
    BY <1>6, <1>10
  <2>2. ids[q[k].level] = q[k].id
    BY <1>1, <2>1 DEF Mirrors
  <2>3. q[k].level # l /\ q[k].level \in Levels
    BY <1>2, <2>1, <2>2
  <2>4. QED
    BY <1>5, <2>1, <2>2, <2>3
<1>11. \A i \in Levels : iz[i] = 0 => w[i] = 0
  BY <1>5 DEF Mirrors
<1>12. ASSUME NEW i \in Levels, iz[i] # 0
       PROVE  \E k \in 1 .. m : p[k].id = iz[i] /\ p[k].level = i /\ p[k].qty = w[i]
  <2>1. i # l /\ iz[i] = ids[i] /\ w[i] = v[i] /\ ids[i] # 0
    BY <1>5, <1>12
  <2>2. PICK k \in 1 .. m : q[k].id = ids[i] /\ q[k].level = i /\ q[k].qty = v[i]
    BY <1>1, <2>1 DEF Mirrors
  <2>3. PICK j \in 1 .. m : q[j].id = ids[l] /\ q[j].level = l
    BY <1>1 DEF Mirrors
  <2>4. q[k].id # ids[l]
    <3>1. k # j
      BY <2>1, <2>2, <2>3
    <3>2. QED
      BY <1>1, <2>3, <3>1 DEF Mirrors
  <2>5. p[k].id = iz[i] /\ p[k].level = i /\ p[k].qty = w[i]
    BY <1>6, <2>1, <2>2, <2>4
  <2>6. QED
    BY <2>5
<1>13. Mirrors(p, iz, next, w)
  BY <1>7, <1>8, <1>9, <1>10, <1>11, <1>12 DEF Mirrors
<1>14. QED
  BY <1>13 DEF p, iz, w

\* A new order at a level that had none.
LEMMA AddMirrors ==
  ASSUME NEW q, NEW ids \in [Levels -> Nat], NEW next \in Nat \ {0}, NEW v \in [Levels -> Nat],
         Mirrors(q, ids, next, v), NEW l \in Levels, ids[l] = 0, NEW qty \in Nat,
         NEW x, x.event = "add", x.id = next, x.level = l, x.qty = qty
  PROVE  Mirrors(apply_event(q, x), [ids EXCEPT ![l] = next], next + 1, [v EXCEPT ![l] = qty])
<1> DEFINE p == apply_event(q, x)
           iz == [ids EXCEPT ![l] = next]
           w == [v EXCEPT ![l] = qty]
           o == [id |-> next, level |-> l, qty |-> qty]
<1>1. PICK m \in Nat : m = Len(q)
  BY DEF Mirrors
<1>2. \A k \in 1 .. m : q[k] \in Orders /\ q[k].id \in Nat /\ q[k].level \in Levels /\ q[k].qty \in Nat
  BY <1>1, OrderAt DEF Mirrors
<1>3. o \in Orders /\ o.id = next /\ o.level = l /\ o.qty = qty
  BY DEF Orders
<1>4. p = Append(q, o)
  BY DEF apply_event
<1>5. /\ iz[l] = next /\ \A i \in Levels : i # l => iz[i] = ids[i]
      /\ w[l] = qty /\ \A i \in Levels : i # l => w[i] = v[i]
  OBVIOUS
<1> HIDE DEF p, iz, w, o
<1>6. /\ p \in Seq(Orders) /\ Len(p) = m + 1 /\ p[m + 1] = o
      /\ \A k \in 1 .. m : p[k] = q[k]
  <2>1. q \in Seq(Orders)
    BY DEF Mirrors
  <2>2. QED
    BY <1>1, <1>3, <1>4, <2>1
<1>7. \A k \in 1 .. m + 1 : k \in 1 .. m \/ k = m + 1
  OBVIOUS
<1>8. \A k \in 1 .. m : q[k].id \in 1 .. next - 1
  BY <1>1 DEF Mirrors
<1>9. \A k \in 1 .. m + 1 : p[k].id \in 1 .. (next + 1) - 1
  <2>1. TAKE k \in 1 .. m + 1
  <2>2. CASE k \in 1 .. m
    <3>1. p[k] = q[k] /\ q[k].id \in 1 .. next - 1
      BY <1>6, <1>8, <2>2
    <3>2. QED
      BY <3>1
  <2>3. CASE k = m + 1
    BY <1>3, <1>6, <2>3
  <2>4. QED
    BY <1>7, <2>2, <2>3
<1>10. ASSUME NEW k \in 1 .. m + 1, NEW j \in 1 .. m + 1, p[k].id = p[j].id PROVE k = j
  <2>1. \A i \in 1 .. m : p[i].id # next
    BY <1>6, <1>8
  <2>2. p[m + 1].id = next
    BY <1>3, <1>6
  <2>3. CASE k \in 1 .. m /\ j \in 1 .. m
    <3>1. q[k].id = q[j].id
      BY <1>6, <1>10, <2>3
    <3>2. QED
      BY <1>1, <2>3, <3>1 DEF Mirrors
  <2>4. QED
    BY <1>7, <1>10, <2>1, <2>2, <2>3
<1>11. ASSUME NEW k \in 1 .. m + 1, p[k].qty # 0 PROVE iz[p[k].level] = p[k].id
  <2>1. CASE k \in 1 .. m
    <3>1. p[k] = q[k]
      BY <1>6, <2>1
    <3>2. ids[q[k].level] = q[k].id /\ q[k].id # 0 /\ q[k].level \in Levels
      BY <1>1, <1>2, <1>8, <1>11, <2>1, <3>1 DEF Mirrors
    <3>3. q[k].level # l
      BY <3>2
    <3>4. QED
      BY <1>5, <3>1, <3>2, <3>3
  <2>2. CASE k = m + 1
    BY <1>3, <1>5, <1>6, <2>2
  <2>3. QED
    BY <1>7, <2>1, <2>2
<1>12. \A i \in Levels : iz[i] = 0 => w[i] = 0
  <2>1. TAKE i \in Levels
  <2>2. HAVE iz[i] = 0
  <2>3. i # l
    BY <1>5, <2>2
  <2>4. QED
    BY <1>5, <2>2, <2>3 DEF Mirrors
<1>13. ASSUME NEW i \in Levels, iz[i] # 0
       PROVE  \E k \in 1 .. m + 1 : p[k].id = iz[i] /\ p[k].level = i /\ p[k].qty = w[i]
  <2>1. CASE i = l
    <3>1. m + 1 \in 1 .. m + 1
      OBVIOUS
    <3>2. p[m + 1].id = iz[i] /\ p[m + 1].level = i /\ p[m + 1].qty = w[i]
      BY <1>3, <1>5, <1>6, <2>1
    <3>3. QED
      BY <3>1, <3>2
  <2>2. CASE i # l
    <3>1. iz[i] = ids[i] /\ w[i] = v[i] /\ ids[i] # 0
      BY <1>5, <1>13, <2>2
    <3>2. PICK k \in 1 .. m : q[k].id = ids[i] /\ q[k].level = i /\ q[k].qty = v[i]
      BY <1>1, <3>1 DEF Mirrors
    <3>3. p[k] = q[k] /\ k \in 1 .. m + 1
      BY <1>6
    <3>4. QED
      BY <3>1, <3>2, <3>3
  <2>3. QED
    BY <2>1, <2>2
<1>14. Mirrors(p, iz, next + 1, w)
  BY <1>6, <1>9, <1>10, <1>11, <1>12, <1>13 DEF Mirrors
<1>15. QED
  BY <1>14 DEF p, iz, w

LEMMA RemoveShows ==
  ASSUME NEW t \in Nat \ {0}, NEW d, ConverterInv(d, t), NEW ts \in 1 .. t, NEW l \in Levels,
         NEW v, Shows(d, v)
  PROVE  Shows(emit_remove(d, ts, l), [v EXCEPT ![l] = 0])
<1>1. /\ d \in Converters(t) /\ d.level_id \in [Levels -> Nat] /\ d.next_id \in Nat
      /\ d.rows \in Seq(RowsUntil(t))
  BY DEF ConverterInv, Converters
<1>2. v \in [Levels -> Nat] /\ Mirrors(Replay(d.rows, AddsAndCancels), d.level_id, d.next_id, v)
  BY DEF Shows
<1>3. CASE d.level_id[l] = 0
  <2>1. v[l] = 0
    BY <1>2, <1>3 DEF Mirrors
  <2>2. [v EXCEPT ![l] = 0] = v
    BY <1>2, <2>1
  <2>3. emit_remove(d, ts, l) = d
    BY <1>3 DEF emit_remove
  <2>4. QED
    BY <2>2, <2>3
<1>4. CASE d.level_id[l] # 0
  <2>1. PICK x, e : e = emit_remove(d, ts, l) /\ Cancels(d, e, x, l, t)
    BY <1>1, <1>4, RemoveIs
  <2>2. /\ x \in RowsUntil(t) /\ x.event = "cancel" /\ x.id = d.level_id[l]
        /\ e.rows = Append(d.rows, x) /\ e.next_id = d.next_id
        /\ e.level_id = [d.level_id EXCEPT ![l] = 0]
    BY <2>1 DEF Cancels
  <2>3. x.event \in AddsAndCancels
    BY <2>2 DEF AddsAndCancels
  <2>4. Replay(e.rows, AddsAndCancels) = apply_event(Replay(d.rows, AddsAndCancels), x)
    BY <1>1, <2>2, <2>3, ReplayOneMore
  <2>5. Mirrors(apply_event(Replay(d.rows, AddsAndCancels), x),
                [d.level_id EXCEPT ![l] = 0], d.next_id, [v EXCEPT ![l] = 0])
    BY <1>1, <1>2, <1>4, <2>2, CancelMirrors
  <2>6. [v EXCEPT ![l] = 0] \in [Levels -> Nat]
    BY <1>2
  <2>7. QED
    BY <2>1, <2>2, <2>4, <2>5, <2>6 DEF Shows
<1>5. QED
  BY <1>3, <1>4

LEMMA AddShows ==
  ASSUME NEW t \in Nat \ {0}, NEW d, ConverterInv(d, t), NEW ts \in 1 .. t, NEW l \in Levels,
         NEW qty \in Nat \ {0}, NEW v, Shows(d, v), d.level_id[l] = 0
  PROVE  Shows(Add(d, ts, l, qty), [v EXCEPT ![l] = qty])
<1>1. /\ d \in Converters(t) /\ d.level_id \in [Levels -> Nat] /\ d.next_id \in Nat \ {0}
      /\ d.rows \in Seq(RowsUntil(t))
  BY DEF ConverterInv, Converters
<1>2. v \in [Levels -> Nat] /\ Mirrors(Replay(d.rows, AddsAndCancels), d.level_id, d.next_id, v)
  BY DEF Shows
<1>3. PICK x, e : e = Add(d, ts, l, qty) /\ Adds(d, e, x, l, qty, t)
  BY <1>1, AddIs
<1>4. /\ x \in RowsUntil(t) /\ x.event = "add" /\ x.id = d.next_id /\ x.level = l /\ x.qty = qty
      /\ e.rows = Append(d.rows, x) /\ e.next_id = d.next_id + 1
      /\ e.level_id = [d.level_id EXCEPT ![l] = d.next_id]
  BY <1>3 DEF Adds
<1>5. x.event \in AddsAndCancels
  BY <1>4 DEF AddsAndCancels
<1>6. Replay(e.rows, AddsAndCancels) = apply_event(Replay(d.rows, AddsAndCancels), x)
  BY <1>1, <1>4, <1>5, ReplayOneMore
<1>7. Mirrors(apply_event(Replay(d.rows, AddsAndCancels), x),
              [d.level_id EXCEPT ![l] = d.next_id], d.next_id + 1, [v EXCEPT ![l] = qty])
  BY <1>1, <1>2, <1>4, AddMirrors
<1>8. [v EXCEPT ![l] = qty] \in [Levels -> Nat]
  BY <1>2
<1>9. QED
  BY <1>3, <1>4, <1>6, <1>7, <1>8 DEF Shows

LEMMA ScaledType == ASSUME NEW size \in Nat PROVE scaled_qty(size) \in Nat
  BY DEF scaled_qty

\* A level that is set shows its size, one that rounds away nothing.
LEMMA SetShows ==
  ASSUME NEW t \in Nat \ {0}, NEW d, ConverterInv(d, t), NEW ts \in 1 .. t, NEW l \in Levels,
         NEW size \in Nat, NEW v, Shows(d, v)
  PROVE  Shows(emit_set(d, ts, l, size), [v EXCEPT ![l] = scaled_qty(size)])
<1> DEFINE e == emit_remove(d, ts, l)
           w == [v EXCEPT ![l] = 0]
<1>1. ConverterInv(e, t) /\ e.level_id[l] = 0 /\ Shows(e, w)
  BY RemoveKeeps, RemoveShows
<1>2. PICK qty \in Nat : qty = scaled_qty(size)
  BY ScaledType
<1>3. v \in [Levels -> Nat]
  BY DEF Shows
<1>4. [w EXCEPT ![l] = qty] = [v EXCEPT ![l] = qty]
  BY <1>3
<1>5. emit_set(d, ts, l, size) = IF qty <= 0 THEN e ELSE Add(e, ts, l, qty)
  BY <1>2 DEF emit_set
<1> HIDE DEF e
<1>6. CASE qty <= 0
  <2>1. qty = 0
    BY <1>6
  <2>2. emit_set(d, ts, l, size) = e
    BY <1>5, <1>6
  <2>3. QED
    BY <1>1, <1>2, <2>1, <2>2
<1> HIDE DEF w
<1>7. CASE ~(qty <= 0)
  <2>1. qty \in Nat \ {0}
    BY <1>7
  <2>2. Shows(Add(e, ts, l, qty), [w EXCEPT ![l] = qty])
    BY <1>1, <2>1, AddShows
  <2>3. QED
    BY <1>2, <1>4, <1>5, <1>7, <2>2
<1>8. QED
  BY <1>6, <1>7

\* After drop_all nothing is shown.
LEMMA DropShows ==
  ASSUME NEW t \in Nat \ {0}, NEW d, ConverterInv(d, t), NEW ts \in 1 .. t, NEW v, Shows(d, v)
  PROVE  Shows(drop_all(d, ts), [l \in Levels |-> 0])
<1>0. NLevels \in Nat /\ Levels = 1 .. NLevels
  BY LevelsAssumption DEF Levels
<1>1. PICK F : DropSteps(d, ts, F)
  BY DropBySteps
<1>2. \A l \in 0 .. NLevels : F[l] = DropBody(d, ts, F, l)
  BY <1>1 DEF DropSteps
<1>3. v \in [Levels -> Nat]
  BY DEF Shows
<1> DEFINE w(n) == [l \in Levels |-> IF l <= n THEN 0 ELSE v[l]]
           K == {n \in Nat : n <= NLevels => ConverterInv(F[n], t) /\ Shows(F[n], w(n))}
<1>4. 0 \in K
  <2>1. F[0] = d
    BY <1>0, <1>2 DEF DropBody
  <2>2. w(0) = v
    BY <1>0, <1>3
  <2> HIDE DEF w
  <2>3. QED
    BY <2>1, <2>2
<1>5. \A n \in Nat : n \in K => n + 1 \in K
  <2>1. TAKE n \in Nat
  <2>2. HAVE n \in K
  <2>3. SUFFICES ASSUME n + 1 <= NLevels
                 PROVE  ConverterInv(F[n + 1], t) /\ Shows(F[n + 1], w(n + 1))
    OBVIOUS
  <2>4. /\ n + 1 \in Levels /\ n + 1 \in 0 .. NLevels /\ n + 1 # 0 /\ (n + 1) - 1 = n
        /\ n <= NLevels
    BY <1>0, <2>3
  <2>5. w(n + 1) = [w(n) EXCEPT ![n + 1] = 0]
    <3>1. \A l \in Levels : l <= n + 1 <=> l <= n \/ l = n + 1
      BY <1>0
    <3>2. QED
      BY <2>4, <3>1
  <2> HIDE DEF w
  <2>6. ConverterInv(F[n], t) /\ Shows(F[n], w(n))
    BY <2>2, <2>4
  <2>7. F[n + 1] = emit_remove(F[n], ts, n + 1)
    BY <1>2, <2>4 DEF DropBody
  <2>8. ConverterInv(F[n + 1], t)
    BY <2>4, <2>6, <2>7, RemoveKeeps
  <2>9. Shows(F[n + 1], [w(n) EXCEPT ![n + 1] = 0])
    BY <2>4, <2>6, <2>7, RemoveShows
  <2>10. QED
    BY <2>5, <2>8, <2>9
<1>6. NLevels \in K
  <2> HIDE DEF K
  <2>1. QED
    BY <1>0, <1>4, <1>5, EveryNumber
<1>7. w(NLevels) = [l \in Levels |-> 0]
  BY <1>0
<1> HIDE DEF w
<1>8. Shows(F[NLevels], w(NLevels))
  BY <1>0, <1>6
<1>9. QED
  BY <1>1, <1>7, <1>8 DEF DropSteps

\* What on_book makes of what was shown.
Updated(v, snapshot, message) ==
  [l \in Levels |-> IF l \in DOMAIN message THEN scaled_qty(message[l])
                    ELSE IF snapshot THEN 0 ELSE v[l]]

LEMMA BookShows ==
  ASSUME NEW t \in Nat \ {0}, NEW d, ConverterInv(d, t), NEW ts \in 1 .. t,
         NEW snapshot \in BOOLEAN, NEW message, \A l \in DOMAIN message : message[l] \in Nat,
         NEW v, Shows(d, v)
  PROVE  Shows(on_book(d, ts, snapshot, message), Updated(v, snapshot, message))
<1>0. NLevels \in Nat /\ Levels = 1 .. NLevels
  BY LevelsAssumption DEF Levels
<1>1. PICK F : BookSteps(d, ts, snapshot, message, F)
  BY BookBySteps
<1>2. \A l \in 0 .. NLevels : F[l] = BookBody(d, ts, snapshot, message, F, l)
  BY <1>1 DEF BookSteps
<1>3. v \in [Levels -> Nat]
  BY DEF Shows
<1> DEFINE was == IF snapshot THEN [l \in Levels |-> 0] ELSE v
           w(n) == [l \in Levels |-> IF l <= n /\ l \in DOMAIN message THEN scaled_qty(message[l])
                                     ELSE was[l]]
           K == {n \in Nat : n <= NLevels => ConverterInv(F[n], t) /\ Shows(F[n], w(n))}
<1>4. was \in [Levels -> Nat] /\ \A l \in Levels : was[l] = IF snapshot THEN 0 ELSE v[l]
  BY <1>3
<1>5. 0 \in K
  <2>1. F[0] = IF snapshot THEN drop_all(d, ts) ELSE d
    BY <1>0, <1>2 DEF BookBody
  <2>2. ConverterInv(drop_all(d, ts), t) /\ Shows(drop_all(d, ts), [l \in Levels |-> 0])
    BY DropKeeps, DropShows
  <2>3. ConverterInv(F[0], t) /\ Shows(F[0], was)
    BY <2>1, <2>2
  <2> HIDE DEF was
  <2>4. w(0) = was
    <3>1. \A l \in Levels : ~(l <= 0)
      BY <1>0
    <3>2. QED
      BY <1>4, <3>1
  <2> HIDE DEF w
  <2>5. QED
    BY <2>3, <2>4
<1> HIDE DEF was
<1>6. \A n \in Nat : n \in K => n + 1 \in K
  <2>1. TAKE n \in Nat
  <2>2. HAVE n \in K
  <2>3. SUFFICES ASSUME n + 1 <= NLevels
                 PROVE  ConverterInv(F[n + 1], t) /\ Shows(F[n + 1], w(n + 1))
    OBVIOUS
  <2>4. /\ n + 1 \in Levels /\ n + 1 \in 0 .. NLevels /\ n + 1 # 0 /\ (n + 1) - 1 = n
        /\ n <= NLevels
    BY <1>0, <2>3
  <2>5. ConverterInv(F[n], t) /\ Shows(F[n], w(n))
    <3> HIDE DEF w
    <3>1. QED
      BY <2>2, <2>4
  <2>6. F[n + 1] = IF n + 1 \in DOMAIN message
                   THEN emit_set(F[n], ts, n + 1, message[n + 1]) ELSE F[n]
    BY <1>2, <2>4 DEF BookBody
  <2>7. \A l \in Levels : l <= n + 1 <=> l <= n \/ l = n + 1
    BY <1>0
  <2>8. CASE n + 1 \in DOMAIN message
    <3>1. message[n + 1] \in Nat
      BY <2>8
    <3>2. w(n + 1) = [w(n) EXCEPT ![n + 1] = scaled_qty(message[n + 1])]
      BY <2>4, <2>7, <2>8
    <3> HIDE DEF w
    <3>3. Shows(F[n + 1], [w(n) EXCEPT ![n + 1] = scaled_qty(message[n + 1])])
      BY <2>4, <2>5, <2>6, <2>8, <3>1, SetShows
    <3>4. ConverterInv(F[n + 1], t)
      BY <2>4, <2>5, <2>6, <2>8, <3>1, SetKeeps
    <3>5. QED
      BY <3>2, <3>3, <3>4
  <2>9. CASE n + 1 \notin DOMAIN message
    <3>1. w(n + 1) = w(n)
      BY <2>7, <2>9
    <3> HIDE DEF w
    <3>2. QED
      BY <2>5, <2>6, <2>9, <3>1
  <2>10. QED
    BY <2>8, <2>9
<1>7. NLevels \in K
  <2> HIDE DEF K
  <2>1. QED
    BY <1>0, <1>5, <1>6, EveryNumber
<1>8. w(NLevels) = Updated(v, snapshot, message)
  <2>1. \A l \in Levels : l <= NLevels
    BY <1>0
  <2>2. QED
    BY <1>4, <2>1 DEF Updated
<1> HIDE DEF w
<1>9. Shows(F[NLevels], w(NLevels))
  BY <1>0, <1>7
<1>10. QED
  BY <1>1, <1>8, <1>9 DEF BookSteps

(***************************************************************************)
(* The depth of a recording.                                               *)
(***************************************************************************)
DepthSound ==
  \E v : /\ Shows(Converter, v)
         /\ pushed # <<>> => \A l \in Levels : v[l] = scaled_qty(pushed[l])

LEMMA DepthSoundInit == Init => DepthSound
<1> SUFFICES ASSUME Init PROVE DepthSound
  OBVIOUS
<1>1. rows = <<>> /\ level_id = [l \in Levels |-> 0] /\ next_id = 1 /\ pushed = <<>>
  BY DEF Init, FeedInit
<1>2. Replay(<<>>, AddsAndCancels) = <<>>
  <2>1. Len(<<>>) = 0
    OBVIOUS
  <2>2. PICK F : ReplaySteps(<<>>, AddsAndCancels, 0, F)
    BY <2>1, ReplayBySteps
  <2>3. QED
    BY <2>2 DEF ReplaySteps, ReplayBody
<1> DEFINE v == [l \in Levels |-> 0]
<1>3. Mirrors(<<>>, [l \in Levels |-> 0], 1, v)
  BY DEF Mirrors
<1>4. Shows(Converter, v)
  BY <1>1, <1>2, <1>3 DEF Shows, Converter
<1> HIDE DEF v
<1>5. QED
  BY <1>1, <1>4 DEF DepthSound

LEMMA TradesShowNothing ==
  ASSUME NEW r \in Seq(RowsUntil(clock)), NEW p
  PROVE  Replay(r \o trade_rows(p), AddsAndCancels) = Replay(r, AddsAndCancels)
<1>1. CASE scaled_qty(p.size) <= 0
  <2>1. r \o trade_rows(p) = r
    BY <1>1 DEF trade_rows
  <2>2. QED
    BY <2>1
<1>2. CASE ~(scaled_qty(p.size) <= 0)
  <2> DEFINE x == Row(p.ts, "trade", p.level, scaled_qty(p.size), 0)
             S == RowsUntil(clock) \cup {x}
  <2>1. x.event \notin AddsAndCancels
    BY DEF Row, AddsAndCancels
  <2>2. trade_rows(p) = <<x>>
    BY <1>2 DEF trade_rows
  <2>3. r \in Seq(S) /\ x \in S
    <3> HIDE DEF x
    <3>1. RowsUntil(clock) \subseteq S
      OBVIOUS
    <3> HIDE DEF S
    <3>2. QED
      BY <3>1 DEF S
  <2> HIDE DEF x, S
  <2>4. r \o <<x>> = Append(r, x)
    BY <2>3
  <2>5. Replay(Append(r, x), AddsAndCancels) = Replay(r, AddsAndCancels)
    BY <2>1, <2>3, ReplayOneMore
  <2>6. QED
    BY <2>2, <2>4, <2>5
<1>3. QED
  BY <1>1, <1>2

LEMMA DepthSoundNext == FeedSound /\ DepthSound /\ [Next]_vars => DepthSound'
<1> SUFFICES ASSUME FeedSound, DepthSound, [Next]_vars PROVE DepthSound'
  OBVIOUS
<1>1. PICK v : /\ Shows(Converter, v)
               /\ pushed # <<>> => \A l \in Levels : v[l] = scaled_qty(pushed[l])
  BY DEF DepthSound
<1>2. /\ ConverterInv(Converter, clock) /\ clock \in Nat \ {0} /\ clock \in 1 .. clock
      /\ book \in [Levels -> Nat]
  <2>1. ConverterInv(Converter, clock) /\ book \in [Levels -> Sizes] /\ Sizes \subseteq Nat
    BY BoundsAssumption DEF FeedSound, Book
  <2>2. clock \in Nat \ {0}
    BY ClockIs
  <2>3. book \in [Levels -> Nat]
    BY <2>1
  <2>4. QED
    BY <2>1, <2>2, <2>3
<1>3. ASSUME Converter' = Converter, pushed' = pushed \/ pushed' = <<>> PROVE DepthSound'
  <2>1. Shows(Converter', v)
    BY <1>1, <1>3
  <2>2. pushed' # <<>> => \A l \in Levels : v[l] = scaled_qty(pushed'[l])
    BY <1>1, <1>3
  <2>3. QED
    BY <2>1, <2>2 DEF DepthSound
<1>4. CASE DepthMessage
  <2> DEFINE message == IF pushed = <<>> THEN book
                        ELSE Restrict(book, {l \in Levels : book[l] # pushed[l]})
             d == on_book(Converter, clock, pushed = <<>>, message)
             w == Updated(v, pushed = <<>>, message)
  <2>1. pushed' = book /\ rows' = d.rows /\ level_id' = d.level_id /\ next_id' = d.next_id
    BY <1>4 DEF DepthMessage, Receives, Converter
  <2>2. /\ \A l \in DOMAIN message : message[l] \in Nat /\ l \in Levels /\ message[l] = book[l]
        /\ \A l \in Levels : l \notin DOMAIN message => pushed # <<>> /\ book[l] = pushed[l]
    BY <1>2 DEF Restrict
  <2> HIDE DEF message
  <2>3. Shows(d, w)
    <3>1. (pushed = <<>>) \in BOOLEAN
      OBVIOUS
    <3>2. QED
      BY <1>1, <1>2, <2>2, <3>1, BookShows
  <2>4. \A l \in Levels : w[l] = scaled_qty(book[l])
    <3>1. TAKE l \in Levels
    <3>2. CASE l \in DOMAIN message
      BY <2>2, <3>2 DEF Updated
    <3>3. CASE l \notin DOMAIN message
      <4>1. pushed # <<>> /\ book[l] = pushed[l]
        BY <2>2, <3>3
      <4>2. w[l] = v[l] /\ v[l] = scaled_qty(pushed[l])
        BY <1>1, <3>3, <4>1 DEF Updated
      <4>3. QED
        BY <4>1, <4>2
    <3>4. QED
      BY <3>2, <3>3
  <2> HIDE DEF d, w
  <2>5. Shows(Converter', w)
    BY <2>1, <2>3 DEF Shows, Converter
  <2>6. QED
    BY <2>1, <2>4, <2>5 DEF DepthSound
<1>5. CASE TradeMessage
  <2>1. /\ rows' = rows \o trade_rows(Head(prints)) /\ level_id' = level_id /\ next_id' = next_id
        /\ pushed' = pushed
    BY <1>5 DEF TradeMessage, depthVars
  <2>2. rows \in Seq(RowsUntil(clock))
    BY <1>2 DEF ConverterInv, Converters, Converter
  <2>3. Replay(rows', AddsAndCancels) = Replay(rows, AddsAndCancels)
    BY <2>1, <2>2, TradesShowNothing
  <2>4. Shows(Converter', v)
    BY <1>1, <2>1, <2>3 DEF Shows, Converter
  <2>5. QED
    BY <1>1, <2>1, <2>4 DEF DepthSound
<1>6. ASSUME ExchangeStep \/ Opens \/ Drops \/ Leaves \/ load_l2 \/ Ties \/ UNCHANGED vars
      PROVE  Converter' = Converter /\ (pushed' = pushed \/ pushed' = <<>>)
  BY <1>6 DEF ExchangeStep, Moves, Trades, Opens, Drops, Leaves, load_l2, Ties, vars, feedVars,
              exchangeVars, depthVars, Converter
<1>7. QED
  BY <1>3, <1>4, <1>5, <1>6 DEF Next, Feed, RecorderStep

\* What is written so far, prints aside, adds up to what the exchange sent, for
\* any number of levels, sizes, messages and connections.
THEOREM DepthRebuilt == Spec => []DepthIsRebuilt
<1>1. ASSUME FeedSound, DepthSound PROVE DepthIsRebuilt
  <2>1. PICK v : /\ Shows(Converter, v)
                 /\ pushed # <<>> => \A l \in Levels : v[l] = scaled_qty(pushed[l])
    BY <1>1 DEF DepthSound
  <2> DEFINE q == Replay(rows, AddsAndCancels)
  <2>2. v \in [Levels -> Nat] /\ Mirrors(q, level_id, next_id, v)
    BY <2>1 DEF Shows, Converter
  <2>3. next_id \in Nat
    BY <1>1 DEF FeedSound, ConverterInv, Converters, Converter
  <2> HIDE DEF q
  <2>4. \A l \in Levels : Resting(q, l) = v[l]
    BY <2>2, <2>3, MirroredDepth
  <2>5. \A l \in Levels : Depth(rows, AddsAndCancels)[l] = v[l]
    BY <2>4 DEF Depth, q
  <2>6. QED
    BY <2>1, <2>5 DEF DepthIsRebuilt
<1>2. FeedSound /\ DepthSound /\ [Next]_vars => DepthSound'
  BY DepthSoundNext
<1>3. QED
  BY <1>1, <1>2, DepthSoundInit, FeedIsSound, PTL DEF Spec

(***************************************************************************)
(* What rests, row by row: every order is cancelled, or is the one the     *)
(* level map names, which has the volume v says and is the last one that   *)
(* was added to its level.                                                 *)
(***************************************************************************)
AddsTo(r, i, l) == r[i].event = "add" /\ r[i].level = l
GoneBy(r, i, t) ==
  \E k \in DOMAIN r : Is(r, k, "cancel", r[i].id) /\ r[i].ts < r[k].ts /\ r[k].ts <= t
Rests(r, i, ids, v) ==
  /\ ids[r[i].level] = r[i].id /\ ids[r[i].level] # 0 /\ r[i].qty = v[r[i].level]
  /\ \A j \in DOMAIN r : AddsTo(r, j, r[i].level) /\ j # i => r[j].ts < r[i].ts
Accounts(d, t, v) ==
  /\ \A l \in Levels : d.level_id[l] = 0 => v[l] = 0
  /\ \A i \in DOMAIN d.rows : d.rows[i].event = "add" =>
       GoneBy(d.rows, i, t) \/ Rests(d.rows, i, d.level_id, v)

\* The rows of e are those of d and, after them, rows of time t about levels in L.
Wrote(d, e, t, L) ==
  /\ \A i \in DOMAIN d.rows : i \in DOMAIN e.rows /\ e.rows[i] = d.rows[i]
  /\ \A i \in DOMAIN e.rows : i \notin DOMAIN d.rows =>
       e.rows[i].ts = t /\ e.rows[i].event # "trade" /\ e.rows[i].level \in L
  /\ \A l \in Levels : l \notin L => e.level_id[l] = d.level_id[l]

\* No order was added to the level l at the time t yet.
Earlier(d, t, l) == \A i \in DOMAIN d.rows : AddsTo(d.rows, i, l) => d.rows[i].ts < t
\* The order of the level l was added at the time t.
Renewed(d, t, l) ==
  \A i \in DOMAIN d.rows :
    AddsTo(d.rows, i, l) /\ d.rows[i].id = d.level_id[l] /\ d.level_id[l] # 0 => d.rows[i].ts = t

LEMMA WroteMore ==
  ASSUME NEW d, NEW e, NEW f, NEW t, NEW K, NEW L, NEW M, Wrote(d, e, t, K), Wrote(e, f, t, L),
         K \subseteq M, L \subseteq M
  PROVE  Wrote(d, f, t, M)
<1>1. ASSUME NEW i \in DOMAIN d.rows PROVE i \in DOMAIN f.rows /\ f.rows[i] = d.rows[i]
  BY DEF Wrote
<1>2. ASSUME NEW i \in DOMAIN f.rows, i \notin DOMAIN d.rows
      PROVE  f.rows[i].ts = t /\ f.rows[i].event # "trade" /\ f.rows[i].level \in M
  BY <1>2 DEF Wrote
<1>3. ASSUME NEW l \in Levels, l \notin M PROVE f.level_id[l] = d.level_id[l]
  BY <1>3 DEF Wrote
<1>4. QED
  BY <1>1, <1>2, <1>3 DEF Wrote

\* A cancel of the order of a level.
LEMMA RemoveWrites ==
  ASSUME NEW t \in Nat \ {0}, NEW d, ConverterInv(d, t), NEW l \in Levels,
         NEW v \in [Levels -> Nat], Accounts(d, t, v), Earlier(d, t, l)
  PROVE  /\ Accounts(emit_remove(d, t, l), t, [v EXCEPT ![l] = 0])
         /\ Wrote(d, emit_remove(d, t, l), t, {l})
         /\ \A k \in Levels : Earlier(d, t, k) => Earlier(emit_remove(d, t, l), t, k)
<1>1. d \in Converters(t) /\ d.level_id \in [Levels -> Nat] /\ d.rows \in Seq(RowsUntil(t))
  BY DEF ConverterInv, Converters
<1>2. CASE d.level_id[l] = 0
  <2>1. v[l] = 0
    BY <1>2 DEF Accounts
  <2>2. [v EXCEPT ![l] = 0] = v
    BY <2>1
  <2>3. emit_remove(d, t, l) = d
    BY <1>2 DEF emit_remove
  <2>4. Wrote(d, d, t, {l})
    BY DEF Wrote
  <2>5. QED
    BY <2>2, <2>3, <2>4
<1>3. CASE d.level_id[l] # 0
  <2> DEFINE w == [v EXCEPT ![l] = 0]
  <2>0. t \in 1 .. t
    OBVIOUS
  <2>1. PICK x, e : /\ e = emit_remove(d, t, l) /\ Cancels(d, e, x, l, t)
                    /\ x = Row(t, "cancel", l, 0, d.level_id[l])
    BY <1>1, <1>3, <2>0, RemoveIs
  <2>2. /\ x \in RowsUntil(t) /\ x.event = "cancel" /\ x.id = d.level_id[l]
        /\ e.rows = Append(d.rows, x) /\ e.level_id = [d.level_id EXCEPT ![l] = 0]
    BY <2>1 DEF Cancels
  <2>3. x.ts = t /\ x.level = l
    BY <2>1 DEF Row
  <2>0a. PICK r, s : r = d.rows /\ s = e.rows
    OBVIOUS
  <2>4. PICK n \in Nat :
          /\ r = d.rows /\ s = e.rows /\ DOMAIN r = 1 .. n /\ DOMAIN s = 1 .. n + 1
          /\ s[n + 1] = x /\ \A i \in 1 .. n : s[i] = r[i]
    <3> DEFINE S == RowsUntil(t)
    <3> HIDE DEF S
    <3>1. r \in Seq(S) /\ x \in S /\ s = Append(r, x)
      BY <1>1, <2>2, <2>0a DEF S
    <3>2. \E n \in Nat : /\ DOMAIN r = 1 .. n /\ DOMAIN s = 1 .. n + 1
                          /\ s[n + 1] = x /\ \A i \in 1 .. n : s[i] = r[i]
      BY <3>1, OneMoreIs
    <3>3. QED
      BY <2>0a, <3>2
  <2>5. \A i \in 1 .. n + 1 : i \in 1 .. n \/ i = n + 1
    OBVIOUS
  <2>6. \A i \in 1 .. n : i \in 1 .. n + 1
    OBVIOUS
  <2>7. /\ e.level_id[l] = 0 /\ \A k \in Levels : k # l => e.level_id[k] = d.level_id[k]
        /\ w[l] = 0 /\ \A k \in Levels : k # l => w[k] = v[k]
    BY <1>1, <2>2
  <2>8. \A i \in 1 .. n + 1 : s[i].event = "add" => i \in 1 .. n
    BY <2>2, <2>4, <2>5
  <2>9. \A i \in 1 .. n : r[i].level \in Levels /\ r[i].ts \in Nat
    <3>1. \A i \in 1 .. n : r[i] \in RowsUntil(t)
      <4> HIDE DEF RowsUntil
      <4>1. QED
        BY <1>1, <2>4
    <3>2. QED
      BY <3>1 DEF RowsUntil
  <2> HIDE DEF w
  <2>10. ASSUME NEW i \in 1 .. n + 1, s[i].event = "add"
         PROVE  GoneBy(s, i, t) \/ Rests(s, i, e.level_id, w)
    <3>1. i \in 1 .. n /\ s[i] = r[i] /\ r[i].event = "add"
      BY <2>4, <2>8, <2>10
    <3>2. CASE GoneBy(r, i, t)
      <4>1. PICK k \in 1 .. n : Is(r, k, "cancel", r[i].id) /\ r[i].ts < r[k].ts /\ r[k].ts <= t
        BY <2>4, <3>2, Zenon DEF GoneBy
      <4>2. k \in DOMAIN s /\ s[k] = r[k]
        BY <2>4, <2>6
      <4>3. QED
        BY <3>1, <4>1, <4>2, Zenon DEF GoneBy, Is
    <3>3. CASE Rests(r, i, d.level_id, v) /\ r[i].level = l
      <4>1. x.id = r[i].id
        BY <2>2, <3>3 DEF Rests
      <4>2. r[i].ts < t
        BY <2>4, <3>1, <3>3 DEF Earlier, AddsTo
      <4>3. n + 1 \in DOMAIN s /\ t <= t
        BY <2>4
      <4>4. QED
        BY <2>2, <2>3, <2>4, <3>1, <4>1, <4>2, <4>3, Zenon DEF GoneBy, Is
    <3>4. CASE Rests(r, i, d.level_id, v) /\ r[i].level # l
      <4>1. e.level_id[r[i].level] = d.level_id[r[i].level] /\ w[r[i].level] = v[r[i].level]
        BY <2>7, <2>9, <3>1, <3>4
      <4>2. \A j \in 1 .. n + 1 : AddsTo(s, j, r[i].level) /\ j # i => s[j].ts < s[i].ts
        BY <2>4, <2>8, <3>1, <3>4, Zenon DEF Rests, AddsTo
      <4>3. QED
        BY <2>4, <3>1, <3>4, <4>1, <4>2, Zenon DEF Rests
    <3>5. QED
      BY <2>4, <3>1, <3>2, <3>3, <3>4, Zenon DEF Accounts
  <2>11. \A k \in Levels : e.level_id[k] = 0 => w[k] = 0
    BY <2>7 DEF Accounts
  <2>12. Accounts(e, t, w)
    BY <2>4, <2>10, <2>11 DEF Accounts
  <2>13. Wrote(d, e, t, {l})
    BY <2>2, <2>3, <2>4, <2>5, <2>6, <2>7 DEF Wrote
  <2>14. \A k \in Levels : Earlier(d, t, k) => Earlier(e, t, k)
    BY <2>4, <2>8, Zenon DEF Earlier, AddsTo
  <2>15. QED
    BY <2>1, <2>12, <2>13, <2>14 DEF w
<1>4. QED
  BY <1>2, <1>3

\* An order for a level that has none.
LEMMA AddWrites ==
  ASSUME NEW t \in Nat \ {0}, NEW d, ConverterInv(d, t), NEW l \in Levels, NEW qty \in Nat \ {0},
         NEW v \in [Levels -> Nat], Accounts(d, t, v), Earlier(d, t, l), d.level_id[l] = 0
  PROVE  /\ Accounts(Add(d, t, l, qty), t, [v EXCEPT ![l] = qty])
         /\ Wrote(d, Add(d, t, l, qty), t, {l})
         /\ Renewed(Add(d, t, l, qty), t, l)
<1>1. /\ d \in Converters(t) /\ d.level_id \in [Levels -> Nat] /\ d.rows \in Seq(RowsUntil(t))
      /\ d.next_id \in Nat \ {0} /\ MapSound(d)
  BY DEF ConverterInv, Converters
<1> DEFINE w == [v EXCEPT ![l] = qty]
<1>2. t \in 1 .. t
  OBVIOUS
<1>3. PICK x, e : /\ e = Add(d, t, l, qty) /\ Adds(d, e, x, l, qty, t)
                  /\ x = Row(t, "add", l, qty, d.next_id)
  BY <1>1, <1>2, AddIs
<1>4. /\ x \in RowsUntil(t) /\ x.event = "add" /\ x.id = d.next_id /\ x.level = l /\ x.qty = qty
      /\ e.rows = Append(d.rows, x) /\ e.level_id = [d.level_id EXCEPT ![l] = d.next_id]
  BY <1>3 DEF Adds
<1>5. x.ts = t
  BY <1>3 DEF Row
<1>6a. PICK r, s : r = d.rows /\ s = e.rows
  OBVIOUS
<1>6. PICK n \in Nat :
        /\ r = d.rows /\ s = e.rows /\ DOMAIN r = 1 .. n /\ DOMAIN s = 1 .. n + 1
        /\ s[n + 1] = x /\ \A i \in 1 .. n : s[i] = r[i]
  <2> DEFINE S == RowsUntil(t)
  <2> HIDE DEF S
  <2>1. r \in Seq(S) /\ x \in S /\ s = Append(r, x)
    BY <1>1, <1>4, <1>6a DEF S
  <2>2. \E n \in Nat : /\ DOMAIN r = 1 .. n /\ DOMAIN s = 1 .. n + 1
                        /\ s[n + 1] = x /\ \A i \in 1 .. n : s[i] = r[i]
    BY <2>1, OneMoreIs
  <2>3. QED
    BY <1>6a, <2>2
<1>7. \A i \in 1 .. n + 1 : i \in 1 .. n \/ i = n + 1
  OBVIOUS
<1>8. (\A i \in 1 .. n : i \in 1 .. n + 1) /\ n + 1 \notin 1 .. n /\ n + 1 \in 1 .. n + 1
  OBVIOUS
<1>9. /\ e.level_id[l] = d.next_id /\ \A k \in Levels : k # l => e.level_id[k] = d.level_id[k]
      /\ w[l] = qty /\ \A k \in Levels : k # l => w[k] = v[k]
  BY <1>1, <1>4
<1>10. \A i \in 1 .. n : r[i].level \in Levels
  <2>1. \A i \in 1 .. n : r[i] \in RowsUntil(t)
    <3> HIDE DEF RowsUntil
    <3>1. QED
      BY <1>1, <1>6
  <2>2. QED
    BY <2>1 DEF RowsUntil
<1> HIDE DEF w
<1>11. ASSUME NEW i \in 1 .. n + 1, s[i].event = "add"
       PROVE  GoneBy(s, i, t) \/ Rests(s, i, e.level_id, w)
  <2>1. CASE i \in 1 .. n /\ GoneBy(r, i, t)
    <3>1. PICK k \in 1 .. n : Is(r, k, "cancel", r[i].id) /\ r[i].ts < r[k].ts /\ r[k].ts <= t
      BY <1>6, <2>1, Zenon DEF GoneBy
    <3>2. k \in DOMAIN s /\ s[k] = r[k] /\ s[i] = r[i]
      BY <1>6, <1>8, <2>1
    <3>3. QED
      BY <3>1, <3>2, Zenon DEF GoneBy, Is
  <2>2. CASE i \in 1 .. n /\ Rests(r, i, d.level_id, v)
    <3>1. s[i] = r[i] /\ r[i].level \in Levels /\ r[i].level # l
      BY <1>6, <1>10, <2>2 DEF Rests
    <3>2. e.level_id[r[i].level] = d.level_id[r[i].level] /\ w[r[i].level] = v[r[i].level]
      BY <1>9, <3>1
    <3>3. \A j \in 1 .. n + 1 : AddsTo(s, j, r[i].level) /\ j # i => s[j].ts < s[i].ts
      <4>1. TAKE j \in 1 .. n + 1
      <4>2. HAVE AddsTo(s, j, r[i].level) /\ j # i
      <4>3. j \in 1 .. n
        BY <1>4, <1>6, <1>7, <3>1, <4>2 DEF AddsTo
      <4>4. QED
        BY <1>6, <2>2, <3>1, <4>2, <4>3, Zenon DEF Rests, AddsTo
    <3>4. QED
      BY <1>6, <2>2, <3>1, <3>2, <3>3, Zenon DEF Rests
  <2>3. CASE i = n + 1
    <3>1. \A j \in 1 .. n + 1 : AddsTo(s, j, l) /\ j # n + 1 => s[j].ts < t
      BY <1>6, <1>7, Zenon DEF Earlier, AddsTo
    <3>2. d.next_id # 0
      BY <1>1
    <3>3. QED
      BY <1>4, <1>5, <1>6, <1>9, <2>3, <3>1, <3>2, Zenon DEF Rests
  <2>4. i \in 1 .. n => GoneBy(r, i, t) \/ Rests(r, i, d.level_id, v)
    BY <1>6, <1>11 DEF Accounts
  <2>5. QED
    BY <1>7, <2>1, <2>2, <2>3, <2>4
<1>12. \A k \in Levels : e.level_id[k] = 0 => w[k] = 0
  BY <1>1, <1>9 DEF Accounts
<1>13. Accounts(e, t, w)
  BY <1>6, <1>11, <1>12 DEF Accounts
<1>14. Wrote(d, e, t, {l})
  BY <1>4, <1>5, <1>6, <1>7, <1>8, <1>9 DEF Wrote
<1>15. Renewed(e, t, l)
  <2>1. \A i \in 1 .. n : r[i].event = "add" => r[i].id # d.next_id
    <3>1. \A i \in 1 .. n : r[i].event = "add" => r[i].id < d.next_id
      BY <1>1, <1>6 DEF MapSound
    <3>2. ~(d.next_id < d.next_id)
      BY <1>1
    <3>3. QED
      BY <3>1, <3>2
  <2>2. QED
    BY <1>4, <1>5, <1>6, <1>7, <1>9, <2>1, Zenon DEF Renewed, AddsTo
<1>16. QED
  BY <1>3, <1>13, <1>14, <1>15 DEF w

\* What was written about other levels changes nothing about this one.
LEMMA OthersStay ==
  ASSUME NEW d, NEW e, NEW t, NEW L, Wrote(d, e, t, L), NEW l \in Levels, l \notin L
  PROVE  /\ Earlier(d, t, l) => Earlier(e, t, l)
         /\ Renewed(d, t, l) => Renewed(e, t, l)
<1>1. /\ e.level_id[l] = d.level_id[l]
      /\ \A i \in DOMAIN e.rows : AddsTo(e.rows, i, l) => i \in DOMAIN d.rows /\ e.rows[i] = d.rows[i]
  BY Zenon DEF Wrote, AddsTo
<1>2. QED
  BY <1>1, Zenon DEF Earlier, Renewed, AddsTo

\* emit_set.
LEMMA SetWrites ==
  ASSUME NEW t \in Nat \ {0}, NEW d, ConverterInv(d, t), NEW l \in Levels, NEW size \in Nat,
         NEW v \in [Levels -> Nat], Accounts(d, t, v), Earlier(d, t, l)
  PROVE  /\ Accounts(emit_set(d, t, l, size), t, [v EXCEPT ![l] = scaled_qty(size)])
         /\ Wrote(d, emit_set(d, t, l, size), t, {l})
         /\ Renewed(emit_set(d, t, l, size), t, l)
<1> DEFINE e == emit_remove(d, t, l)
           w == [v EXCEPT ![l] = 0]
<1>0. t \in 1 .. t
  OBVIOUS
<1>1. /\ ConverterInv(e, t) /\ e.level_id[l] = 0 /\ Accounts(e, t, w) /\ Wrote(d, e, t, {l})
      /\ Earlier(e, t, l)
  BY <1>0, RemoveKeeps, RemoveWrites
<1>2. PICK qty \in Nat : qty = scaled_qty(size)
  BY ScaledType
<1>3. w \in [Levels -> Nat] /\ [w EXCEPT ![l] = qty] = [v EXCEPT ![l] = qty]
  OBVIOUS
<1>4. emit_set(d, t, l, size) = IF qty <= 0 THEN e ELSE Add(e, t, l, qty)
  BY <1>2 DEF emit_set
<1> HIDE DEF e
<1>5. CASE qty <= 0
  <2>1. qty = 0
    BY <1>5
  <2>2. emit_set(d, t, l, size) = e
    BY <1>4, <1>5
  <2>3. Renewed(e, t, l)
    BY <1>1 DEF Renewed
  <2>4. QED
    BY <1>1, <1>2, <2>1, <2>2, <2>3
<1> HIDE DEF w
<1>6. CASE ~(qty <= 0)
  <2>1. qty \in Nat \ {0}
    BY <1>6
  <2>2. emit_set(d, t, l, size) = Add(e, t, l, qty)
    BY <1>4, <1>6
  <2>3. /\ Accounts(Add(e, t, l, qty), t, [w EXCEPT ![l] = qty])
        /\ Wrote(e, Add(e, t, l, qty), t, {l}) /\ Renewed(Add(e, t, l, qty), t, l)
    BY <1>1, <1>3, <2>1, AddWrites
  <2>4. Wrote(d, Add(e, t, l, qty), t, {l})
    BY <1>1, <2>3, WroteMore
  <2>5. QED
    BY <1>2, <1>3, <2>2, <2>3, <2>4
<1>7. QED
  BY <1>5, <1>6

\* drop_all.
LEMMA DropWrites ==
  ASSUME NEW t \in Nat \ {0}, NEW d, ConverterInv(d, t),
         NEW v \in [Levels -> Nat], Accounts(d, t, v), \A l \in Levels : Earlier(d, t, l)
  PROVE  /\ Accounts(drop_all(d, t), t, [l \in Levels |-> 0])
         /\ Wrote(d, drop_all(d, t), t, Levels)
         /\ \A l \in Levels : Earlier(drop_all(d, t), t, l)
<1>0. NLevels \in Nat /\ Levels = 1 .. NLevels /\ t \in 1 .. t
  BY LevelsAssumption DEF Levels
<1>1. PICK F : DropSteps(d, t, F)
  BY DropBySteps
<1>2. \A l \in 0 .. NLevels : F[l] = DropBody(d, t, F, l)
  BY <1>1 DEF DropSteps
<1> DEFINE w(n) == [l \in Levels |-> IF l <= n THEN 0 ELSE v[l]]
           Done(f, n) == /\ ConverterInv(f, t) /\ Accounts(f, t, w(n)) /\ Wrote(d, f, t, Levels)
                         /\ \A l \in Levels : Earlier(f, t, l)
           K == {n \in Nat : n <= NLevels => Done(F[n], n)}
<1>3. \A n \in Nat : w(n) \in [Levels -> Nat]
  BY <1>0
<1>4. 0 \in K
  <2>1. F[0] = d
    BY <1>0, <1>2 DEF DropBody
  <2>2. w(0) = v
    BY <1>0
  <2>3. Wrote(d, d, t, Levels)
    BY DEF Wrote
  <2> HIDE DEF w
  <2>4. QED
    BY <2>1, <2>2, <2>3
<1>5. \A n \in Nat : n \in K => n + 1 \in K
  <2>1. TAKE n \in Nat
  <2>2. HAVE n \in K
  <2>3. SUFFICES ASSUME n + 1 <= NLevels PROVE Done(F[n + 1], n + 1)
    OBVIOUS
  <2>4. /\ n + 1 \in Levels /\ n + 1 \in 0 .. NLevels /\ n + 1 # 0 /\ (n + 1) - 1 = n
        /\ n <= NLevels
    BY <1>0, <2>3
  <2>5. w(n + 1) = [w(n) EXCEPT ![n + 1] = 0]
    <3>1. \A l \in Levels : l <= n + 1 <=> l <= n \/ l = n + 1
      BY <1>0
    <3>2. QED
      BY <2>4, <3>1
  <2>6. w(n) \in [Levels -> Nat]
    BY <1>3
  <2> HIDE DEF w
  <2>7. Done(F[n], n)
    BY <2>2, <2>4
  <2>8. F[n + 1] = emit_remove(F[n], t, n + 1)
    BY <1>2, <2>4 DEF DropBody
  <2>9. ConverterInv(F[n + 1], t)
    BY <1>0, <2>4, <2>7, <2>8, RemoveKeeps
  <2>10. /\ Accounts(F[n + 1], t, [w(n) EXCEPT ![n + 1] = 0]) /\ Wrote(F[n], F[n + 1], t, {n + 1})
         /\ \A l \in Levels : Earlier(F[n], t, l) => Earlier(F[n + 1], t, l)
    <3>0. PICK f : f = F[n]
      OBVIOUS
    <3>1. PICK l \in Levels, u \in [Levels -> Nat] : l = n + 1 /\ u = w(n)
      BY <2>4, <2>6
    <3>2. ConverterInv(f, t) /\ Accounts(f, t, u) /\ Earlier(f, t, l)
      BY <2>7, <3>0, <3>1
    <3>3. /\ Accounts(emit_remove(f, t, l), t, [u EXCEPT ![l] = 0])
          /\ Wrote(f, emit_remove(f, t, l), t, {l})
          /\ \A k \in Levels : Earlier(f, t, k) => Earlier(emit_remove(f, t, l), t, k)
      BY <3>2, RemoveWrites
    <3>4. QED
      BY <2>8, <3>0, <3>1, <3>3
  <2>11. Wrote(d, F[n + 1], t, Levels)
    BY <2>4, <2>7, <2>10, WroteMore
  <2>12. QED
    BY <2>5, <2>7, <2>9, <2>10, <2>11
<1>6. NLevels \in K
  <2> HIDE DEF K
  <2>1. QED
    BY <1>0, <1>4, <1>5, EveryNumber
<1>7. w(NLevels) = [l \in Levels |-> 0]
  BY <1>0
<1> HIDE DEF w
<1>8. Done(F[NLevels], NLevels)
  BY <1>0, <1>6
<1>9. QED
  BY <1>1, <1>7, <1>8 DEF DropSteps

\* The levels a message is about.
About(snapshot, message) == IF snapshot THEN Levels ELSE DOMAIN message

\* on_book.
LEMMA BookWrites ==
  ASSUME NEW t \in Nat \ {0}, NEW d, ConverterInv(d, t), NEW snapshot \in BOOLEAN,
         NEW message, DOMAIN message \subseteq Levels, \A l \in DOMAIN message : message[l] \in Nat,
         NEW v \in [Levels -> Nat], Accounts(d, t, v), \A l \in Levels : Earlier(d, t, l)
  PROVE  /\ Accounts(on_book(d, t, snapshot, message), t, Updated(v, snapshot, message))
         /\ Wrote(d, on_book(d, t, snapshot, message), t, About(snapshot, message))
         /\ \A l \in DOMAIN message : Renewed(on_book(d, t, snapshot, message), t, l)
<1>0. NLevels \in Nat /\ Levels = 1 .. NLevels /\ t \in 1 .. t
  BY LevelsAssumption DEF Levels
<1>1. PICK F : BookSteps(d, t, snapshot, message, F)
  BY BookBySteps
<1>2. \A l \in 0 .. NLevels : F[l] = BookBody(d, t, snapshot, message, F, l)
  BY <1>1 DEF BookSteps
<1> DEFINE was == IF snapshot THEN [l \in Levels |-> 0] ELSE v
           w(n) == [l \in Levels |-> IF l <= n /\ l \in DOMAIN message THEN scaled_qty(message[l])
                                     ELSE was[l]]
           Done(f, n) ==
             /\ ConverterInv(f, t) /\ Accounts(f, t, w(n)) /\ Wrote(d, f, t, About(snapshot, message))
             /\ \A l \in Levels : n < l => Earlier(f, t, l)
             /\ \A l \in DOMAIN message : l <= n => Renewed(f, t, l)
           K == {n \in Nat : n <= NLevels => Done(F[n], n)}
<1>3. was \in [Levels -> Nat] /\ \A l \in Levels : was[l] = IF snapshot THEN 0 ELSE v[l]
  OBVIOUS
<1>4. \A n \in Nat : w(n) \in [Levels -> Nat]
  <2> HIDE DEF was
  <2>1. QED
    BY <1>3, ScaledType
<1>5. 0 \in K
  <2>1. F[0] = IF snapshot THEN drop_all(d, t) ELSE d
    BY <1>0, <1>2 DEF BookBody
  <2>2. /\ ConverterInv(drop_all(d, t), t) /\ Accounts(drop_all(d, t), t, [l \in Levels |-> 0])
        /\ Wrote(d, drop_all(d, t), t, Levels)
        /\ \A l \in Levels : Earlier(drop_all(d, t), t, l)
    BY <1>0, DropKeeps, DropWrites
  <2>3. Wrote(d, d, t, About(snapshot, message))
    BY DEF Wrote
  <2>4. /\ ConverterInv(F[0], t) /\ Accounts(F[0], t, was) /\ \A l \in Levels : Earlier(F[0], t, l)
    BY <2>1, <2>2
  <2>5. Wrote(d, F[0], t, About(snapshot, message))
    BY <2>1, <2>2, <2>3 DEF About
  <2> HIDE DEF was
  <2>6. \A l \in Levels : ~(l <= 0)
    BY <1>0
  <2>7. w(0) = was
    BY <1>3, <2>6
  <2> HIDE DEF w
  <2>8. QED
    BY <2>4, <2>5, <2>6, <2>7
<1> HIDE DEF was
<1>6. \A n \in Nat : n \in K => n + 1 \in K
  <2>1. TAKE n \in Nat
  <2>2. HAVE n \in K
  <2>3. SUFFICES ASSUME n + 1 <= NLevels PROVE Done(F[n + 1], n + 1)
    OBVIOUS
  <2>4. /\ n + 1 \in Levels /\ n + 1 \in 0 .. NLevels /\ n + 1 # 0 /\ (n + 1) - 1 = n
        /\ n <= NLevels /\ n < n + 1
    BY <1>0, <2>3
  <2>5. w(n) \in [Levels -> Nat]
    BY <1>4
  <2>6. /\ ConverterInv(F[n], t) /\ Accounts(F[n], t, w(n))
        /\ Wrote(d, F[n], t, About(snapshot, message))
        /\ \A l \in Levels : n < l => Earlier(F[n], t, l)
        /\ \A l \in DOMAIN message : l <= n => Renewed(F[n], t, l)
    <3> HIDE DEF w
    <3>1. QED
      BY <2>2, <2>4
  <2>7. F[n + 1] = IF n + 1 \in DOMAIN message
                   THEN emit_set(F[n], t, n + 1, message[n + 1]) ELSE F[n]
    BY <1>2, <2>4 DEF BookBody
  <2>8. /\ \A l \in Levels : l <= n + 1 <=> l <= n \/ l = n + 1
        /\ \A l \in Levels : n + 1 < l => n < l /\ l # n + 1
    BY <1>0
  <2>9. CASE n + 1 \in DOMAIN message
    <3>1. message[n + 1] \in Nat
      BY <2>9
    <3>2. w(n + 1) = [w(n) EXCEPT ![n + 1] = scaled_qty(message[n + 1])]
      BY <2>4, <2>8, <2>9
    <3> HIDE DEF w
    <3>3. F[n + 1] = emit_set(F[n], t, n + 1, message[n + 1])
      BY <2>7, <2>9
    <3>4. ConverterInv(F[n + 1], t)
      BY <1>0, <2>4, <2>6, <3>1, <3>3, SetKeeps
    <3>5. /\ Accounts(F[n + 1], t, w(n + 1)) /\ Wrote(F[n], F[n + 1], t, {n + 1})
          /\ Renewed(F[n + 1], t, n + 1)
      <4>0. PICK f : f = F[n]
        OBVIOUS
      <4>1. PICK l \in Levels, u \in [Levels -> Nat] : l = n + 1 /\ u = w(n)
        BY <2>4, <2>5
      <4>2. ConverterInv(f, t) /\ Accounts(f, t, u) /\ Earlier(f, t, l) /\ message[l] \in Nat
        BY <2>4, <2>6, <3>1, <4>0, <4>1
      <4>3. /\ Accounts(emit_set(f, t, l, message[l]), t, [u EXCEPT ![l] = scaled_qty(message[l])])
            /\ Wrote(f, emit_set(f, t, l, message[l]), t, {l})
            /\ Renewed(emit_set(f, t, l, message[l]), t, l)
        BY <4>2, SetWrites
      <4>4. QED
        BY <3>2, <3>3, <4>0, <4>1, <4>3
    <3>6. n + 1 \in About(snapshot, message)
      BY <2>4, <2>9 DEF About
    <3>7. Wrote(d, F[n + 1], t, About(snapshot, message))
      BY <2>6, <3>5, <3>6, WroteMore
    <3>8. \A l \in Levels : n + 1 < l => Earlier(F[n + 1], t, l)
      BY <2>6, <2>8, <3>5, OthersStay
    <3>9. \A l \in DOMAIN message : l <= n + 1 => Renewed(F[n + 1], t, l)
      <4>1. TAKE l \in DOMAIN message
      <4>2. HAVE l <= n + 1
      <4>3. l \in Levels
        OBVIOUS
      <4>4. CASE l = n + 1
        BY <3>5, <4>4
      <4>5. CASE l # n + 1
        <5>1. Renewed(F[n], t, l)
          BY <2>6, <2>8, <4>2, <4>3, <4>5
        <5>2. QED
          BY <3>5, <4>3, <4>5, <5>1, OthersStay
      <4>6. QED
        BY <4>4, <4>5
    <3>10. QED
      BY <3>4, <3>5, <3>7, <3>8, <3>9
  <2>10. CASE n + 1 \notin DOMAIN message
    <3>1. w(n + 1) = w(n)
      BY <2>8, <2>10
    <3> HIDE DEF w
    <3>2. F[n + 1] = F[n]
      BY <2>7, <2>10
    <3>3. \A l \in DOMAIN message : l <= n + 1 => l <= n
      BY <2>8, <2>10
    <3>4. QED
      BY <2>6, <2>8, <3>1, <3>2, <3>3
  <2>11. QED
    BY <2>9, <2>10
<1>7. NLevels \in K
  <2> HIDE DEF K
  <2>1. QED
    BY <1>0, <1>5, <1>6, EveryNumber
<1>8. \A l \in Levels : l <= NLevels
  BY <1>0
<1>9. w(NLevels) = Updated(v, snapshot, message)
  BY <1>3, <1>8 DEF Updated
<1> HIDE DEF w
<1>10. Done(F[NLevels], NLevels)
  BY <1>0, <1>7
<1>11. \A l \in DOMAIN message : Renewed(F[NLevels], t, l)
  BY <1>8, <1>10
<1>12. QED
  BY <1>1, <1>9, <1>10, <1>11 DEF BookSteps

(***************************************************************************)
(* Every step of the model is one of two: a depth message, or one that     *)
(* writes no order and takes no message.                                   *)
(***************************************************************************)

\* The trade of a print, received or under way, was at the level l at time t.
TradedIn(r, q, l, t) ==
  \/ \E i \in DOMAIN r : r[i].event = "trade" /\ r[i].level = l /\ r[i].ts = t
  \/ \E k \in DOMAIN q : q[k].level = l /\ q[k].ts = t
SentIn(S, l, t) == \E p \in S : p.level = l /\ p.ts = t

Continues(r, s) == \A i \in DOMAIN r : i \in DOMAIN s /\ s[i] = r[i]

Quiet ==
  /\ level_id' = level_id /\ next_id' = next_id /\ told' = told
  /\ Continues(rows, rows')
  /\ \A i \in DOMAIN rows' : i \notin DOMAIN rows => rows'[i].event = "trade"
  /\ \A p \in traded' : p \in traded \/ p.level \in Levels
  /\ \/ /\ clock' = clock /\ pushed' = pushed /\ book' = book /\ traded' = traded
        /\ \A l \in Levels, t \in Nat :
             TradedIn(rows', prints', l, t) => TradedIn(rows, prints, l, t)
     \/ /\ clock' = clock + 1 /\ pushed' \in {pushed, <<>>}
        /\ pushed' # <<>> => traded \subseteq traded'
        /\ \A l \in Levels, t \in Nat : TradedIn(rows', prints', l, t) =>
             TradedIn(rows, prints, l, t) \/ (t = clock + 1 /\ SentIn(traded', l, t))

Message(L) ==
  /\ L \subseteq Levels
  /\ \A l \in Levels : l \notin L => pushed # <<>> /\ book[l] = pushed[l]
  /\ pushed # book
  /\ clock' = clock /\ book' = book /\ pushed' = book /\ prints' = prints /\ traded' = {}
  /\ told' = Append(told, [ts |-> clock, book |-> book, short |-> Short(L)])

ReadsMessage(L, snapshot, message) ==
  /\ Message(L) /\ L = DOMAIN message /\ (snapshot => L = Levels)
  /\ snapshot = (pushed = <<>>)
  /\ \A l \in L : message[l] = book[l]
  /\ Converter' = on_book(Converter, clock, snapshot, message)

LEMMA DepthMessageIs ==
  ASSUME FeedSound, DepthMessage
  PROVE  \E L, snapshot, message : ReadsMessage(L, snapshot, message)
<1> DEFINE message == IF pushed = <<>> THEN book
                      ELSE Restrict(book, {l \in Levels : book[l] # pushed[l]})
           L == DOMAIN message
           snapshot == pushed = <<>>
           d == on_book(Converter, clock, snapshot, message)
<1>1. /\ clock' = clock /\ book' = book /\ pushed' = book /\ prints' = prints /\ traded' = {}
      /\ rows' = d.rows /\ level_id' = d.level_id /\ next_id' = d.next_id /\ L # {}
      /\ told' = Append(told, [ts |-> clock, book |-> book, short |-> Short(L)])
  BY DEF DepthMessage, Receives, Converter
<1>2. book \in [Levels -> Sizes] /\ ConverterInv(Converter, clock) /\ clock \in Nat \ {0}
  BY ClockIs DEF FeedSound, Book
<1>3. /\ L \subseteq Levels /\ \A l \in L : message[l] = book[l]
      /\ \A l \in Levels : l \notin L => pushed # <<>> /\ book[l] = pushed[l]
      /\ snapshot => L = Levels
  BY <1>2 DEF Restrict
<1>4. pushed # book
  <2>1. CASE pushed = <<>>
    <3>1. 1 \in Levels
      BY LevelsAssumption DEF Levels
    <3>2. DOMAIN book # {}
      BY <1>2, <3>1
    <3>3. DOMAIN (<<>>) = {}
      OBVIOUS
    <3>4. QED
      BY <2>1, <3>2, <3>3
  <2>2. CASE pushed # <<>>
    <3>1. L = {l \in Levels : book[l] # pushed[l]}
      BY <1>2, <2>2 DEF Restrict
    <3>2. QED
      BY <1>1, <3>1
  <2>3. QED
    BY <2>1, <2>2
<1>5. \A l \in L : message[l] \in Nat
  BY <1>2, <1>3, BoundsAssumption
<1>6. ConverterInv(d, clock)
  <2> HIDE DEF message
  <2>1. snapshot \in BOOLEAN /\ clock \in 1 .. clock
    BY <1>2
  <2>2. QED
    BY <1>2, <1>5, <2>1, BookKeeps
<1> HIDE DEF message
<1>7. Converter' = d
  <2> HIDE DEF d
  <2>1. QED
    BY <1>1, <1>6 DEF Converter, ConverterInv, Converters
<1>8. Message(L)
  BY <1>1, <1>3, <1>4 DEF Message
<1>9. ReadsMessage(L, snapshot, message)
  BY <1>3, <1>7, <1>8 DEF ReadsMessage
<1> HIDE DEF L, snapshot
<1>10. QED
  BY <1>9, Zenon

LEMMA TradeMessageIsQuiet == ASSUME FeedSound, TradeMessage PROVE Quiet
<1>1. /\ rows' = rows \o trade_rows(Head(prints)) /\ prints' = Tail(prints) /\ prints # <<>>
      /\ level_id' = level_id /\ next_id' = next_id /\ told' = told
      /\ clock' = clock /\ pushed' = pushed /\ book' = book /\ traded' = traded
  BY DEF TradeMessage, depthVars
<1>2. prints \in Seq(PrintOf(clock)) /\ clock \in Nat \ {0}
  BY ClockIs DEF FeedSound
<1>3. rows \in Seq(RowsUntil(clock))
  BY DEF FeedSound, ConverterInv, Converter, Converters
<1>4. PICK p \in PrintOf(clock) : p = Head(prints) /\ p = prints[1]
  <2> DEFINE S == PrintOf(clock)
  <2> HIDE DEF S
  <2>1. prints \in Seq(S)
    BY <1>2 DEF S
  <2>2. Head(prints) \in S /\ Head(prints) = prints[1]
    BY <1>1, <2>1
  <2>3. QED
    BY <2>2 DEF S
<1>5. PICK m \in Nat : /\ DOMAIN prints = 1 .. m + 1 /\ DOMAIN prints' = 1 .. m
                       /\ \A k \in 1 .. m : prints'[k] = prints[k + 1]
  <2>1. Len(prints) \in Nat /\ Len(prints) # 0 /\ DOMAIN prints = 1 .. Len(prints)
    BY <1>1, <1>2
  <2>2. PICK m \in Nat : Len(prints) = m + 1
    <3>1. Len(prints) - 1 \in Nat /\ Len(prints) = (Len(prints) - 1) + 1
      BY <2>1
    <3>2. QED
      BY <3>1
  <2>3. DOMAIN Tail(prints) = 1 .. m /\ \A k \in 1 .. m : Tail(prints)[k] = prints[k + 1]
    <3> DEFINE S == PrintOf(clock)
    <3> HIDE DEF S
    <3>1. prints \in Seq(S)
      BY <1>2 DEF S
    <3>2. Len(prints) - 1 = m
      BY <2>2
    <3>3. /\ Tail(prints) \in Seq(S) /\ Len(Tail(prints)) = Len(prints) - 1
          /\ \A k \in 1 .. Len(prints) - 1 : Tail(prints)[k] = prints[k + 1]
      BY <1>1, <3>1
    <3>4. DOMAIN Tail(prints) = 1 .. Len(Tail(prints))
      BY <3>3
    <3>5. QED
      BY <3>2, <3>3, <3>4
  <2>4. QED
    BY <1>1, <2>1, <2>2, <2>3
<1>6. CASE scaled_qty(p.size) <= 0
  <2>1. rows' = rows
    BY <1>1, <1>3, <1>4, <1>6 DEF trade_rows
  <2>2. ASSUME NEW l \in Levels, NEW t \in Nat, TradedIn(rows', prints', l, t)
        PROVE  TradedIn(rows, prints, l, t)
    <3>1. CASE \E k \in 1 .. m : prints'[k].level = l /\ prints'[k].ts = t
      <4>1. PICK k \in 1 .. m : prints'[k].level = l /\ prints'[k].ts = t
        BY <3>1
      <4>2. k + 1 \in DOMAIN prints /\ prints'[k] = prints[k + 1]
        BY <1>5
      <4>3. QED
        BY <4>1, <4>2 DEF TradedIn
    <3>2. QED
      BY <1>5, <2>1, <2>2, <3>1, Zenon DEF TradedIn
  <2>3. QED
    BY <1>1, <2>1, <2>2, Zenon DEF Quiet, Continues
<1>7. CASE ~(scaled_qty(p.size) <= 0)
  <2> DEFINE x == Row(p.ts, "trade", p.level, scaled_qty(p.size), 0)
             S == RowsUntil(clock) \cup {x}
  <2>1. x.event = "trade" /\ x.level = p.level /\ x.ts = p.ts
    BY DEF Row
  <2>2. trade_rows(Head(prints)) = <<x>>
    BY <1>4, <1>7 DEF trade_rows
  <2>3. rows \in Seq(S) /\ x \in S
    <3> HIDE DEF x
    <3>1. RowsUntil(clock) \subseteq S
      OBVIOUS
    <3> HIDE DEF S
    <3>2. QED
      BY <1>3, <3>1 DEF S
  <2> HIDE DEF x, S
  <2>4. rows \o <<x>> = Append(rows, x)
    BY <2>3
  <2>5. rows' = Append(rows, x)
    BY <1>1, <2>2, <2>4
  <2>6. PICK n \in Nat : /\ DOMAIN rows = 1 .. n /\ DOMAIN rows' = 1 .. n + 1
                         /\ rows'[n + 1] = x /\ \A i \in 1 .. n : rows'[i] = rows[i]
    <3>1. QED
      BY <2>3, <2>5, OneMoreIs
  <2>7. (\A i \in 1 .. n + 1 : i \in 1 .. n \/ i = n + 1) /\ \A i \in 1 .. n : i \in 1 .. n + 1
    OBVIOUS
  <2>8. 1 \in DOMAIN prints
    BY <1>5
  <2>9. ASSUME NEW l \in Levels, NEW t \in Nat, TradedIn(rows', prints', l, t)
        PROVE  TradedIn(rows, prints, l, t)
    <3>1. CASE \E k \in 1 .. m : prints'[k].level = l /\ prints'[k].ts = t
      <4>1. PICK k \in 1 .. m : prints'[k].level = l /\ prints'[k].ts = t
        BY <3>1
      <4>2. k + 1 \in DOMAIN prints /\ prints'[k] = prints[k + 1]
        BY <1>5
      <4>3. QED
        BY <4>1, <4>2 DEF TradedIn
    <3>2. CASE \E i \in 1 .. n + 1 : /\ rows'[i].event = "trade" /\ rows'[i].level = l
                                    /\ rows'[i].ts = t
      <4>1. PICK i \in 1 .. n + 1 : /\ rows'[i].event = "trade" /\ rows'[i].level = l
                                   /\ rows'[i].ts = t
        BY <3>2
      <4>2. CASE i \in 1 .. n
        BY <2>6, <4>1, <4>2, Zenon DEF TradedIn
      <4>3. CASE i = n + 1
        BY <1>4, <2>1, <2>6, <2>8, <4>1, <4>3, Zenon DEF TradedIn
      <4>4. QED
        BY <2>7, <4>2, <4>3
    <3>3. QED
      BY <1>5, <2>6, <2>9, <3>1, <3>2, Zenon DEF TradedIn
  <2>10. Continues(rows, rows')
    BY <2>6, <2>7, Zenon DEF Continues
  <2>11. \A i \in DOMAIN rows' : i \notin DOMAIN rows => rows'[i].event = "trade"
    BY <2>1, <2>6, <2>7, Zenon
  <2>12. QED
    BY <1>1, <2>9, <2>10, <2>11, Zenon DEF Quiet
<1>8. QED
  BY <1>6, <1>7

LEMMA TradesIsQuiet ==
  ASSUME FeedSound, NEW l \in Levels, NEW size \in Sizes, Trades(l, size) PROVE Quiet
<1>1. /\ clock' = clock + 1 /\ pushed' = pushed /\ rows' = rows /\ told' = told
      /\ level_id' = level_id /\ next_id' = next_id
  BY DEF Trades, Tick, depthVars
<1> DEFINE p == [ts |-> clock + 1, level |-> l, size |-> size]
<1>2. \/ prints' = Append(prints, p) /\ traded' = traded \cup {p}
      \/ prints' = prints /\ traded' = traded
  BY DEF Trades
<1>3. p.ts = clock + 1 /\ p.level = l
  OBVIOUS
<1>4. prints \in Seq(PrintOf(clock))
  BY DEF FeedSound
<1> HIDE DEF p
<1>5. ASSUME NEW k \in DOMAIN prints', prints' = Append(prints, p)
      PROVE  (k \in DOMAIN prints /\ prints'[k] = prints[k]) \/ prints'[k] = p
  <2> DEFINE S == PrintOf(clock) \cup {p}
  <2>1. PrintOf(clock) \subseteq S /\ p \in S
    OBVIOUS
  <2> HIDE DEF S
  <2>2. prints \in Seq(S)
    BY <1>4, <2>1
  <2>3. PICK n \in Nat : /\ DOMAIN prints = 1 .. n /\ DOMAIN prints' = 1 .. n + 1
                         /\ prints'[n + 1] = p /\ \A i \in 1 .. n : prints'[i] = prints[i]
    BY <1>5, <2>1, <2>2, OneMoreRow
  <2>4. \A i \in 1 .. n + 1 : i \in 1 .. n \/ i = n + 1
    OBVIOUS
  <2>5. QED
    BY <2>3, <2>4
<1>6. ASSUME NEW j \in Levels, NEW t \in Nat, TradedIn(rows', prints', j, t)
      PROVE  TradedIn(rows, prints, j, t) \/ (t = clock + 1 /\ SentIn(traded', j, t))
  <2>1. CASE prints' = prints
    BY <1>1, <1>6, <2>1 DEF TradedIn
  <2>2. CASE prints' # prints
    <3>1. prints' = Append(prints, p) /\ p \in traded'
      BY <1>2, <2>2
    <3>2. CASE \E k \in DOMAIN prints' : prints'[k].level = j /\ prints'[k].ts = t
      <4>1. PICK k \in DOMAIN prints' : prints'[k].level = j /\ prints'[k].ts = t
        BY <3>2
      <4>2. CASE k \in DOMAIN prints /\ prints'[k] = prints[k]
        BY <4>1, <4>2, Zenon DEF TradedIn
      <4>3. CASE prints'[k] = p
        BY <1>3, <3>1, <4>1, <4>3, Zenon DEF SentIn
      <4>4. QED
        BY <1>5, <3>1, <4>2, <4>3
    <3>3. QED
      BY <1>1, <1>6, <3>2, Zenon DEF TradedIn
  <2>3. QED
    BY <2>1, <2>2
<1>7. traded \subseteq traded' /\ \A q \in traded' : q \in traded \/ q.level \in Levels
  BY <1>2, <1>3
<1>8. /\ Continues(rows, rows')
      /\ \A i \in DOMAIN rows' : i \notin DOMAIN rows => rows'[i].event = "trade"
  BY <1>1 DEF Continues
<1>9. pushed' \in {pushed, <<>>}
  BY <1>1
<1>10. QED
  BY <1>1, <1>6, <1>7, <1>8, <1>9, Zenon DEF Quiet

LEMMA StepIs ==
  ASSUME FeedSound, [Next]_vars
  PROVE  \/ Quiet
         \/ \E L, snapshot, message : ReadsMessage(L, snapshot, message)
<1>1. ASSUME rows' = rows, level_id' = level_id, next_id' = next_id, told' = told,
             clock' = clock, pushed' = pushed, book' = book, traded' = traded, prints' = prints
      PROVE  Quiet
  <2>1. Continues(rows, rows')
    BY <1>1 DEF Continues
  <2>2. QED
    BY <1>1, <2>1, Zenon DEF Quiet
<1>2. ASSUME NEW l \in Levels, NEW size \in Sizes, Moves(l, size) PROVE Quiet
  <2>1. /\ rows' = rows /\ level_id' = level_id /\ next_id' = next_id /\ told' = told
        /\ clock' = clock + 1 /\ pushed' = pushed /\ traded' = traded /\ prints' = prints
    BY <1>2 DEF Moves, Tick, depthVars
  <2>2. Continues(rows, rows') /\ pushed' \in {pushed, <<>>} /\ traded \subseteq traded'
    BY <2>1 DEF Continues
  <2>3. QED
    BY <2>1, <2>2, Zenon DEF Quiet
<1>3. CASE Drops
  <2>1. /\ rows' = rows /\ level_id' = level_id /\ next_id' = next_id /\ told' = told
        /\ clock' = clock + 1 /\ pushed' = <<>> /\ prints' = <<>> /\ traded' = {}
    BY <1>3 DEF Drops, Tick, depthVars
  <2>2. Continues(rows, rows') /\ pushed' \in {pushed, <<>>} /\ DOMAIN prints' = {}
    BY <2>1 DEF Continues
  <2>3. \A l \in Levels, t \in Nat : TradedIn(rows', prints', l, t) => TradedIn(rows, prints, l, t)
    BY <2>1, <2>2, Zenon DEF TradedIn
  <2>4. QED
    BY <2>1, <2>2, <2>3, Zenon DEF Quiet
<1>4. CASE Opens \/ Leaves \/ load_l2 \/ Ties \/ UNCHANGED vars
  <2>1. /\ rows' = rows /\ level_id' = level_id /\ next_id' = next_id /\ told' = told
        /\ clock' = clock /\ pushed' = pushed /\ book' = book /\ traded' = traded /\ prints' = prints
    BY <1>4 DEF Opens, Leaves, load_l2, Ties, vars, feedVars, exchangeVars, depthVars
  <2>2. QED
    BY <1>1, <2>1
<1>5. QED
  BY <1>2, <1>3, <1>4, TradesIsQuiet, TradeMessageIsQuiet, DepthMessageIs
     DEF Next, Feed, ExchangeStep, RecorderStep

(***************************************************************************)
(* The clock, the depth messages and the orders.                           *)
(***************************************************************************)
Messages(t) == [ts : 1 .. t, book : Book, short : SUBSET Levels]

\* Since the book last differed from what was sent, the clock has moved on, and
\* what was traded at the clock's time is among what was traded since.
Fresh ==
  pushed # book =>
    /\ \A m \in DOMAIN told : told[m].ts < clock
    /\ \A i \in DOMAIN rows : rows[i].event # "trade" => rows[i].ts < clock
    /\ \A l \in Levels : TradedIn(rows, prints, l, clock) => SentIn(traded, l, clock)

\* The orders on the map have the volumes of the book that was sent.
Quoted ==
  \E v \in [Levels -> Nat] : /\ Accounts(Converter, clock, v)
                             /\ pushed # <<>> => \A l \in Levels : v[l] = scaled_qty(pushed[l])

Stamped ==
  /\ told \in Seq(Messages(clock))
  /\ pushed # <<>> => told # <<>>
  /\ \A p \in traded : p.level \in Levels
  /\ Fresh
  /\ Quoted

LEMMA StampedInit == Init => Stamped
<1> SUFFICES ASSUME Init PROVE Stamped
  OBVIOUS
<1>1. /\ rows = <<>> /\ told = <<>> /\ prints = <<>> /\ pushed = <<>>
      /\ traded = {} /\ level_id = [l \in Levels |-> 0]
  BY DEF Init, FeedInit
<1>2. DOMAIN (<<>>) = {}
  OBVIOUS
<1>3. Fresh
  BY <1>1, <1>2 DEF Fresh, TradedIn
<1>4. Quoted
  <2> DEFINE v == [l \in Levels |-> 0]
  <2>1. v \in [Levels -> Nat] /\ \A l \in Levels : v[l] = 0
    OBVIOUS
  <2> HIDE DEF v
  <2>2. Accounts(Converter, clock, v)
    BY <1>1, <1>2, <2>1 DEF Accounts, Converter
  <2>3. QED
    BY <1>1, <2>1, <2>2 DEF Quoted
<1>5. told \in Seq(Messages(clock))
  BY <1>1
<1>6. QED
  BY <1>1, <1>3, <1>4, <1>5 DEF Stamped

LEMMA RowTimes ==
  ASSUME NEW t, NEW r \in Seq(RowsUntil(t))
  PROVE  \A i \in DOMAIN r : r[i].ts \in 1 .. t /\ r[i].level \in Levels
<1> DEFINE S == RowsUntil(t)
<1>1. \A x \in S : x.ts \in 1 .. t /\ x.level \in Levels
  BY DEF RowsUntil
<1> HIDE DEF S
<1>2. r \in Seq(S)
  BY DEF S
<1>3. QED
  BY <1>1, <1>2

\* The time of a row and of a print.
LEMMA TradedBy ==
  ASSUME FeedSound
  PROVE  /\ \A i \in DOMAIN rows : rows[i].ts \in 1 .. clock /\ rows[i].level \in Levels
         /\ \A l \in Levels, t \in Nat : TradedIn(rows, prints, l, t) => t <= clock
<1>1. clock \in Nat
  BY ClockIs
<1>3. \A k \in DOMAIN prints : prints[k] \in PrintOf(clock)
  <2> DEFINE S == PrintOf(clock)
  <2> HIDE DEF S
  <2>1. prints \in Seq(S)
    BY DEF FeedSound, S
  <2>2. QED
    BY <2>1 DEF S
<1>4. \A i \in DOMAIN rows : rows[i].ts \in 1 .. clock /\ rows[i].level \in Levels
  BY RowTimes DEF FeedSound, ConverterInv, Converter, Converters
<1>5. \A k \in DOMAIN prints : prints[k].ts \in 1 .. clock
  BY <1>3 DEF PrintOf
<1>6. \A t \in 1 .. clock : t <= clock
  BY <1>1
<1>7. QED
  BY <1>4, <1>5, <1>6 DEF TradedIn

\* Orders stay accounted for as time passes and trades are written.
LEMMA AccountsStay ==
  ASSUME NEW r, NEW s, NEW a, NEW b, NEW t \in Nat, NEW u \in Nat, t <= u, NEW v,
         \A i \in DOMAIN r : r[i].ts \in Nat,
         Continues(r, s), \A i \in DOMAIN s : i \notin DOMAIN r => s[i].event = "trade",
         Accounts([level_id |-> a, next_id |-> b, rows |-> r], t, v)
  PROVE  Accounts([level_id |-> a, next_id |-> b, rows |-> s], u, v)
<1>1. /\ \A l \in Levels : a[l] = 0 => v[l] = 0
      /\ \A i \in DOMAIN r : r[i].event = "add" => GoneBy(r, i, t) \/ Rests(r, i, a, v)
  BY DEF Accounts
<1>2. \A i \in DOMAIN r : i \in DOMAIN s /\ s[i] = r[i]
  BY DEF Continues
<1>3. ASSUME NEW i \in DOMAIN s, s[i].event = "add" PROVE GoneBy(s, i, u) \/ Rests(s, i, a, v)
  <2>1. i \in DOMAIN r /\ s[i] = r[i]
    BY <1>2, <1>3
  <2>2. CASE GoneBy(r, i, t)
    <3>1. PICK k \in DOMAIN r : Is(r, k, "cancel", r[i].id) /\ r[i].ts < r[k].ts /\ r[k].ts <= t
      BY <2>2, Zenon DEF GoneBy
    <3>2. k \in DOMAIN s /\ s[k] = r[k] /\ r[k].ts <= u
      <4>1. r[k].ts \in Nat
        OBVIOUS
      <4>2. QED
        BY <1>2, <3>1, <4>1
    <3>3. QED
      BY <2>1, <3>1, <3>2, Zenon DEF GoneBy, Is
  <2>3. CASE Rests(r, i, a, v)
    <3>1. \A j \in DOMAIN s : AddsTo(s, j, s[i].level) => j \in DOMAIN r /\ s[j] = r[j]
      BY <1>2 DEF AddsTo
    <3>2. QED
      BY <2>1, <2>3, <3>1, Zenon DEF Rests, AddsTo
  <2>4. QED
    BY <1>1, <1>3, <2>1, <2>2, <2>3
<1>4. QED
  BY <1>1, <1>3 DEF Accounts

\* What a depth message writes is about its levels; then the map has its book.
LEMMA MessageWrites ==
  ASSUME FeedSound, Stamped, NEW L, NEW snapshot, NEW message, ReadsMessage(L, snapshot, message)
  PROVE  /\ Wrote(Converter, Converter', clock, L)
         /\ \A l \in L : Renewed(Converter', clock, l)
         /\ \E w \in [Levels -> Nat] : /\ Accounts(Converter', clock, w)
                                       /\ \A l \in Levels : w[l] = scaled_qty(book[l])
<1>1. clock \in Nat \ {0} /\ ConverterInv(Converter, clock) /\ book \in Book
  BY ClockIs DEF FeedSound
<1>2. PICK v \in [Levels -> Nat] :
        /\ Accounts(Converter, clock, v)
        /\ pushed # <<>> => \A l \in Levels : v[l] = scaled_qty(pushed[l])
  BY DEF Stamped, Quoted
<1>3. /\ L = DOMAIN message /\ (snapshot => L = Levels) /\ snapshot = (pushed = <<>>)
      /\ L \subseteq Levels /\ pushed # book
      /\ \A l \in Levels : l \notin L => pushed # <<>> /\ book[l] = pushed[l]
      /\ \A l \in L : message[l] = book[l]
      /\ Converter' = on_book(Converter, clock, snapshot, message)
  BY DEF ReadsMessage, Message
<1> DEFINE w == Updated(v, snapshot, message)
<1>4. \A l \in L : message[l] \in Nat
  BY <1>1, <1>3, BoundsAssumption DEF Book
<1>5. \A l \in Levels : Earlier(Converter, clock, l)
  BY <1>3 DEF Stamped, Fresh, Earlier, AddsTo, Converter
<1>6. snapshot \in BOOLEAN /\ DOMAIN message \subseteq Levels
  BY <1>3
<1>7. /\ Accounts(on_book(Converter, clock, snapshot, message), clock, w)
      /\ Wrote(Converter, on_book(Converter, clock, snapshot, message), clock,
               About(snapshot, message))
      /\ \A l \in DOMAIN message : Renewed(on_book(Converter, clock, snapshot, message), clock, l)
  BY <1>1, <1>2, <1>3, <1>4, <1>5, <1>6, BookWrites
<1>8. About(snapshot, message) = L
  BY <1>3 DEF About
<1>9. \A l \in Levels : w[l] = scaled_qty(book[l])
  <2>1. TAKE l \in Levels
  <2>2. CASE l \in L
    BY <1>3, <2>2 DEF Updated
  <2>3. CASE l \notin L
    <3>1. pushed # <<>> /\ book[l] = pushed[l]
      BY <1>3, <2>3
    <3>2. w[l] = v[l]
      BY <1>3, <2>3, <3>1 DEF Updated
    <3>3. QED
      BY <1>2, <3>1, <3>2
  <2>4. QED
    BY <2>2, <2>3
<1>10. \A l \in Levels : scaled_qty(book[l]) \in Nat
  BY <1>1, ScaledType, BoundsAssumption DEF Book
<1>11. w \in [Levels -> Nat]
  <2>1. w = [l \in Levels |-> w[l]]
    BY DEF Updated
  <2> HIDE DEF w
  <2>2. QED
    BY <1>9, <1>10, <2>1
<1> HIDE DEF w
<1>12. QED
  BY <1>3, <1>7, <1>8, <1>9, <1>11

LEMMA StampedNext == FeedSound /\ Stamped /\ [Next]_vars => Stamped'
<1> SUFFICES ASSUME FeedSound, Stamped, [Next]_vars PROVE Stamped'
  OBVIOUS
<1>1. clock \in Nat \ {0} /\ clock \in 1 .. clock
  BY ClockIs
<1>2. /\ \A i \in DOMAIN rows : rows[i].ts \in 1 .. clock /\ rows[i].level \in Levels
      /\ \A l \in Levels, t \in Nat : TradedIn(rows, prints, l, t) => t <= clock
  BY TradedBy
<1>3. told \in Seq(Messages(clock)) /\ (pushed # <<>> => told # <<>>)
  BY DEF Stamped
<1>4. \A m \in DOMAIN told : told[m] \in Messages(clock) /\ told[m].ts \in 1 .. clock
  <2> DEFINE S == Messages(clock)
  <2>1. \A x \in S : x.ts \in 1 .. clock
    BY DEF Messages
  <2> HIDE DEF S
  <2>2. told \in Seq(S)
    BY <1>3 DEF S
  <2>3. QED
    BY <2>1, <2>2 DEF S
<1>5. PICK v \in [Levels -> Nat] :
        /\ Accounts(Converter, clock, v)
        /\ pushed # <<>> => \A l \in Levels : v[l] = scaled_qty(pushed[l])
  BY DEF Stamped, Quoted
<1>6. CASE Quiet
  <2>1. /\ level_id' = level_id /\ next_id' = next_id /\ told' = told /\ Continues(rows, rows')
        /\ \A i \in DOMAIN rows' : i \notin DOMAIN rows => rows'[i].event = "trade"
    BY <1>6 DEF Quiet
  <2>2. clock' \in Nat /\ clock <= clock' /\ pushed' \in {pushed, <<>>}
    BY <1>1, <1>6 DEF Quiet
  <2>3. Quoted'
    <3>1. \A i \in DOMAIN rows : rows[i].ts \in Nat
      BY <1>2
    <3>2. Accounts([level_id |-> level_id, next_id |-> next_id, rows |-> rows'], clock', v)
      BY <1>1, <1>5, <2>1, <2>2, <3>1, AccountsStay DEF Converter
    <3>3. Accounts(Converter', clock', v)
      BY <2>1, <3>2 DEF Converter
    <3>4. pushed' # <<>> => \A l \in Levels : v[l] = scaled_qty(pushed'[l])
      BY <1>5, <2>2
    <3>5. QED
      BY <3>3, <3>4 DEF Quoted
  <2>4. told' \in Seq(Messages(clock'))
    <3> DEFINE S == Messages(clock)
               T == Messages(clock')
    <3>1. S \subseteq T
      BY <1>1, <2>2 DEF Messages
    <3> HIDE DEF S, T
    <3>2. told \in Seq(S)
      BY <1>3 DEF S
    <3>3. told \in Seq(T)
      BY <3>1, <3>2
    <3>4. QED
      BY <2>1, <3>3 DEF T
  <2>5. \A i \in DOMAIN rows' : rows'[i].event # "trade" => i \in DOMAIN rows /\ rows'[i] = rows[i]
    BY <2>1 DEF Continues
  <2>6. Fresh'
    <3>1. CASE /\ clock' = clock /\ pushed' = pushed /\ book' = book /\ traded' = traded
               /\ \A l \in Levels, t \in Nat :
                    TradedIn(rows', prints', l, t) => TradedIn(rows, prints, l, t)
      <4>1. SUFFICES ASSUME pushed' # book'
                     PROVE  /\ \A m \in DOMAIN told' : told'[m].ts < clock'
                            /\ \A i \in DOMAIN rows' : rows'[i].event # "trade" => rows'[i].ts < clock'
                            /\ \A l \in Levels : TradedIn(rows', prints', l, clock') =>
                                                 SentIn(traded', l, clock')
        BY DEF Fresh
      <4>2. /\ \A m \in DOMAIN told : told[m].ts < clock
            /\ \A i \in DOMAIN rows : rows[i].event # "trade" => rows[i].ts < clock
            /\ \A l \in Levels : TradedIn(rows, prints, l, clock) => SentIn(traded, l, clock)
        BY <3>1, <4>1 DEF Stamped, Fresh
      <4>3. \A i \in DOMAIN rows' : rows'[i].event # "trade" => rows'[i].ts < clock'
        BY <2>5, <3>1, <4>2, Zenon
      <4>4. \A l \in Levels : TradedIn(rows', prints', l, clock') => SentIn(traded', l, clock')
        BY <1>1, <3>1, <4>2
      <4>5. QED
        BY <2>1, <3>1, <4>2, <4>3, <4>4, Zenon
    <3>2. CASE /\ clock' = clock + 1
               /\ \A l \in Levels, t \in Nat : TradedIn(rows', prints', l, t) =>
                    TradedIn(rows, prints, l, t) \/ (t = clock + 1 /\ SentIn(traded', l, t))
      <4>1. \A t \in 1 .. clock : t < clock'
        BY <1>1, <3>2
      <4>2. \A m \in DOMAIN told' : told'[m].ts < clock'
        BY <1>4, <2>1, <4>1
      <4>3. \A i \in DOMAIN rows' : rows'[i].event # "trade" => rows'[i].ts < clock'
        BY <1>2, <2>5, <4>1
      <4>4. clock' \in Nat /\ ~(clock' <= clock)
        BY <1>1, <3>2
      <4>5. \A l \in Levels : TradedIn(rows', prints', l, clock') => SentIn(traded', l, clock')
        BY <1>2, <3>2, <4>4, Zenon
      <4>6. QED
        BY <4>2, <4>3, <4>5 DEF Fresh
    <3>3. QED
      BY <1>6, <3>1, <3>2, Zenon DEF Quiet
  <2>7. \A p \in traded' : p.level \in Levels
    BY <1>6, Zenon DEF Quiet, Stamped
  <2>8. QED
    BY <1>3, <2>1, <2>2, <2>3, <2>4, <2>6, <2>7 DEF Stamped
<1>7. ASSUME NEW L, NEW snapshot, NEW message, ReadsMessage(L, snapshot, message)
      PROVE  Stamped'
  <2>1. Message(L) /\ L = DOMAIN message /\ (snapshot => L = Levels) /\ snapshot = (pushed = <<>>)
    BY <1>7 DEF ReadsMessage
  <2>2. /\ L \subseteq Levels /\ pushed # book /\ clock' = clock /\ book' = book /\ pushed' = book
        /\ told' = Append(told, [ts |-> clock, book |-> book, short |-> Short(L)])
        /\ traded' = {}
        /\ \A l \in Levels : l \notin L => pushed # <<>> /\ book[l] = pushed[l]
    BY <2>1 DEF Message
  <2>3. \A l \in L : message[l] = book[l]
    BY <1>7 DEF ReadsMessage
  <2>4. book \in Book
    BY DEF FeedSound
  <2>5. PICK w \in [Levels -> Nat] : /\ Accounts(Converter', clock, w)
                                     /\ \A l \in Levels : w[l] = scaled_qty(book[l])
    BY <1>7, MessageWrites
  <2>6. Quoted'
    BY <2>2, <2>5 DEF Quoted
  <2>7. Fresh'
    BY <2>2 DEF Fresh
  <2>8. told' \in Seq(Messages(clock')) /\ told' # <<>>
    <3> DEFINE S == Messages(clock)
               x == [ts |-> clock, book |-> book, short |-> Short(L)]
    <3>1. Short(L) \in SUBSET Levels
      <4>1. SameTime \subseteq Levels
        BY DEF SameTime, Stamped
      <4>2. pushed # <<>> => Last(told).short \subseteq Levels
        <5> DEFINE T == Messages(clock)
        <5>1. \A y \in T : y.short \subseteq Levels
          BY DEF Messages
        <5> HIDE DEF T
        <5>2. told \in Seq(T)
          BY <1>3 DEF T
        <5>3. pushed # <<>> => Last(told) \in T
          BY <1>3, <5>2 DEF Last
        <5>4. QED
          BY <5>1, <5>3
      <4>3. Refilled \subseteq Levels
        BY DEF Refilled
      <4>4. QED
        BY <4>1, <4>2, <4>3 DEF Short
    <3>2. x \in S
      BY <1>1, <2>4, <3>1 DEF Messages
    <3> HIDE DEF S, x
    <3>3. told \in Seq(S)
      BY <1>3 DEF S
    <3>4. Append(told, x) \in Seq(S) /\ Append(told, x) # <<>>
      BY <3>2, <3>3
    <3>5. QED
      BY <2>2, <3>4 DEF S, x
  <2>9. QED
    BY <2>2, <2>6, <2>7, <2>8 DEF Stamped
<1>8. QED
  BY <1>6, <1>7, StepIs

(***************************************************************************)
(* What was told of a level, in terms of the rows alone.                   *)
(***************************************************************************)

\* The i-th row's order is the one at its level at the time t.
Stands(r, i, t, l) ==
  /\ AddsTo(r, i, l) /\ r[i].ts <= t
  /\ \A k \in DOMAIN r : Is(r, k, "cancel", r[i].id) => ~(r[k].ts <= t)
  /\ \A j \in DOMAIN r : AddsTo(r, j, l) /\ r[j].ts <= t /\ j # i =>
                           r[j].ts < r[i].ts /\ GoneBy(r, j, t)

Nothing(r, t, l) == \A i \in DOMAIN r : AddsTo(r, i, l) /\ r[i].ts <= t => GoneBy(r, i, t)

\* The rows say of the level what the message m did, as far as trades that the
\* message includes do not take from it once more.
Agree(r, q, m, l) ==
  \/ scaled_qty(m.book[l]) = 0 /\ Nothing(r, m.ts, l)
  \/ \E i \in DOMAIN r :
       /\ Stands(r, i, m.ts, l) /\ r[i].qty = scaled_qty(m.book[l])
       /\ \A t \in Nat : TradedIn(r, q, l, t) /\ r[i].ts <= t /\ t <= m.ts => l \in m.short

\* Trades at a level since its order was added: those the next message does not
\* name, or those of which some message told.
Pending ==
  pushed # <<>> =>
    \A l \in Levels : \A i \in DOMAIN rows : \A t \in Nat :
      /\ AddsTo(rows, i, l) /\ rows[i].id = level_id[l] /\ level_id[l] # 0
      /\ TradedIn(rows, prints, l, t) /\ rows[i].ts <= t
      => SentIn(traded, l, t) \/ l \in Last(told).short

RowsAgree == \A m \in DOMAIN told, l \in Levels : Agree(rows, prints, told[m], l)

\* What came later changes nothing about it.
LEMMA AgreeStays ==
  ASSUME NEW r, NEW s, NEW q, NEW p, NEW m, NEW l \in Levels,
         Agree(r, q, m, l), Continues(r, s),
         \A i \in DOMAIN s : i \notin DOMAIN r => s[i].event = "trade" \/ ~(s[i].ts <= m.ts),
         \A t \in Nat : TradedIn(s, p, l, t) /\ t <= m.ts => TradedIn(r, q, l, t)
  PROVE  Agree(s, p, m, l)
<1>1. \A i \in DOMAIN r : i \in DOMAIN s /\ s[i] = r[i]
  BY DEF Continues
<1>2. \A j \in DOMAIN s : AddsTo(s, j, l) /\ s[j].ts <= m.ts => j \in DOMAIN r /\ s[j] = r[j]
  BY <1>1 DEF AddsTo
<1>3. \A i \in DOMAIN r : GoneBy(r, i, m.ts) => GoneBy(s, i, m.ts)
  BY <1>1, Zenon DEF GoneBy, Is
<1>4. CASE scaled_qty(m.book[l]) = 0 /\ Nothing(r, m.ts, l)
  <2>1. Nothing(s, m.ts, l)
    BY <1>2, <1>3, <1>4, Zenon DEF Nothing, AddsTo
  <2>2. QED
    BY <1>4, <2>1 DEF Agree
<1>5. ASSUME NEW i \in DOMAIN r, Stands(r, i, m.ts, l), r[i].qty = scaled_qty(m.book[l]),
             \A t \in Nat : TradedIn(r, q, l, t) /\ r[i].ts <= t /\ t <= m.ts => l \in m.short
      PROVE  Agree(s, p, m, l)
  <2>1. i \in DOMAIN s /\ s[i] = r[i]
    BY <1>1
  <2>2. AddsTo(s, i, l) /\ s[i].ts <= m.ts
    BY <1>5, <2>1 DEF Stands, AddsTo
  <2>3. \A k \in DOMAIN s : Is(s, k, "cancel", s[i].id) => ~(s[k].ts <= m.ts)
    <3>1. TAKE k \in DOMAIN s
    <3>2. HAVE Is(s, k, "cancel", s[i].id)
    <3>3. CASE k \in DOMAIN r
      BY <1>1, <1>5, <2>1, <3>2, <3>3, Zenon DEF Stands, Is
    <3>4. CASE k \notin DOMAIN r
      BY <3>2, <3>4 DEF Is
    <3>5. QED
      BY <3>3, <3>4
  <2>4. \A j \in DOMAIN s : AddsTo(s, j, l) /\ s[j].ts <= m.ts /\ j # i =>
                              s[j].ts < s[i].ts /\ GoneBy(s, j, m.ts)
    BY <1>2, <1>3, <1>5, <2>1, Zenon DEF Stands, AddsTo
  <2>5. Stands(s, i, m.ts, l)
    BY <2>2, <2>3, <2>4 DEF Stands
  <2>6. \A t \in Nat : TradedIn(s, p, l, t) /\ s[i].ts <= t /\ t <= m.ts => l \in m.short
    BY <1>5, <2>1
  <2>7. s[i].qty = scaled_qty(m.book[l])
    BY <1>5, <2>1
  <2>8. QED
    BY <2>1, <2>5, <2>6, <2>7, Zenon DEF Agree
<1>6. QED
  BY <1>4, <1>5, Zenon DEF Agree

\* A depth message lists the levels where a trade takes from what it tells.
LEMMA ShortCovers ==
  ASSUME FeedSound, FeedSound', Stamped, Pending,
         NEW L, NEW snapshot, NEW message, ReadsMessage(L, snapshot, message),
         NEW l \in Levels, NEW i \in DOMAIN rows', NEW t \in Nat,
         AddsTo(rows', i, l), rows'[i].id = level_id'[l], level_id'[l] # 0,
         TradedIn(rows', prints', l, t), rows'[i].ts <= t
  PROVE  l \in Short(L)
<1>1. /\ Wrote(Converter, Converter', clock, L) /\ \A k \in L : Renewed(Converter', clock, k)
  BY MessageWrites
<1>2. /\ \A k \in DOMAIN rows : k \in DOMAIN rows' /\ rows'[k] = rows[k]
      /\ \A k \in DOMAIN rows' : k \notin DOMAIN rows =>
           rows'[k].event # "trade" /\ rows'[k].level \in L
      /\ l \notin L => level_id'[l] = level_id[l]
  BY <1>1 DEF Wrote, Converter
<1>3. /\ prints' = prints /\ pushed # book
      /\ l \notin L => pushed # <<>> /\ book[l] = pushed[l]
  BY DEF ReadsMessage, Message
<1>4. TradedIn(rows, prints, l, t)
  BY <1>2, <1>3, Zenon DEF TradedIn
<1>5. clock \in Nat /\ t <= clock
  BY <1>4, TradedBy, ClockIs
<1>6. CASE l \in L
  <2>1. rows'[i].ts = clock
    BY <1>1, <1>6 DEF Renewed, Converter
  <2>2. t = clock
    BY <1>5, <2>1
  <2>3. SentIn(traded, l, clock)
    BY <1>3, <1>4, <2>2 DEF Stamped, Fresh
  <2>4. l \in SameTime
    BY <2>3 DEF SameTime, SentIn
  <2>5. QED
    BY <2>4 DEF Short
<1>7. CASE l \notin L
  <2>1. i \in DOMAIN rows /\ rows'[i] = rows[i]
    BY <1>2, <1>7 DEF AddsTo
  <2>2. AddsTo(rows, i, l) /\ rows[i].id = level_id[l] /\ level_id[l] # 0 /\ rows[i].ts <= t
    BY <1>2, <1>7, <2>1 DEF AddsTo
  <2>3. pushed # <<>> /\ book[l] = pushed[l]
    BY <1>3, <1>7
  <2>4. SentIn(traded, l, t) \/ l \in Last(told).short
    BY <1>4, <2>1, <2>2, <2>3 DEF Pending
  <2>5. SentIn(traded, l, t) => l \in Refilled
    BY <2>3 DEF SentIn, Refilled
  <2>6. QED
    BY <1>7, <2>3, <2>4, <2>5 DEF Short
<1>8. QED
  BY <1>6, <1>7

LEMMA PendingNext == FeedSound /\ FeedSound' /\ Stamped /\ Pending /\ [Next]_vars => Pending'
<1> SUFFICES ASSUME FeedSound, FeedSound', Stamped, Pending, [Next]_vars PROVE Pending'
  OBVIOUS
<1>1. SUFFICES ASSUME pushed' # <<>>, NEW l \in Levels, NEW i \in DOMAIN rows', NEW t \in Nat,
                      AddsTo(rows', i, l), rows'[i].id = level_id'[l], level_id'[l] # 0,
                      TradedIn(rows', prints', l, t), rows'[i].ts <= t
               PROVE  SentIn(traded', l, t) \/ l \in Last(told').short
  BY DEF Pending
<1>2. CASE Quiet
  <2>1. /\ level_id' = level_id /\ told' = told /\ Continues(rows, rows')
        /\ \A k \in DOMAIN rows' : k \notin DOMAIN rows => rows'[k].event = "trade"
    BY <1>2 DEF Quiet
  <2>2. i \in DOMAIN rows /\ rows'[i] = rows[i]
    BY <1>1, <2>1 DEF Continues, AddsTo
  <2>3. pushed # <<>> /\ traded \subseteq traded'
    BY <1>1, <1>2 DEF Quiet
  <2>4. TradedIn(rows, prints, l, t) \/ SentIn(traded', l, t)
    BY <1>1, <1>2, Zenon DEF Quiet
  <2>5. CASE TradedIn(rows, prints, l, t)
    <3>1. SentIn(traded, l, t) \/ l \in Last(told).short
      BY <1>1, <2>1, <2>2, <2>3, <2>5 DEF Pending, AddsTo
    <3>2. QED
      BY <2>1, <2>3, <3>1 DEF SentIn
  <2>6. QED
    BY <2>4, <2>5
<1>3. ASSUME NEW L, NEW snapshot, NEW message, ReadsMessage(L, snapshot, message)
      PROVE  l \in Last(told').short
  <2>1. l \in Short(L)
    BY <1>1, <1>3, ShortCovers
  <2>2. Last(told').short = Short(L)
    <3> DEFINE x == [ts |-> clock, book |-> book, short |-> Short(L)]
               S == Messages(clock) \cup {x}
    <3>1. told' = Append(told, x) /\ x.short = Short(L)
      BY <1>3 DEF ReadsMessage, Message
    <3>2. Messages(clock) \subseteq S /\ x \in S
      OBVIOUS
    <3> HIDE DEF x, S
    <3>3. told \in Seq(S)
      BY <3>2 DEF Stamped
    <3>4. Last(Append(told, x)) = x
      BY <3>2, <3>3 DEF Last
    <3>5. QED
      BY <3>1, <3>4
  <2>3. QED
    BY <2>1, <2>2
<1>4. QED
  BY <1>2, <1>3, StepIs

\* When a message is handled, the rows agree with it.
LEMMA NewAgrees ==
  ASSUME FeedSound, FeedSound', Stamped, Pending,
         NEW L, NEW snapshot, NEW message, ReadsMessage(L, snapshot, message),
         NEW l \in Levels, NEW m, m.ts = clock, m.book = book, m.short = Short(L)
  PROVE  Agree(rows', prints', m, l)
<1>1. clock' = clock /\ clock \in Nat
  BY ClockIs DEF ReadsMessage, Message
<1>2. PICK w \in [Levels -> Nat] : /\ Accounts(Converter', clock, w)
                                   /\ \A k \in Levels : w[k] = scaled_qty(book[k])
  BY MessageWrites
<1>3. PICK r, a, b : r = rows' /\ a = level_id' /\ b = next_id' /\ RowsSound(r)
                     /\ MapSound([level_id |-> a, next_id |-> b, rows |-> r])
  BY DEF FeedSound, ConverterInv, Converter
<1>4. /\ a[l] = 0 => w[l] = 0
      /\ \A i \in DOMAIN r : r[i].event = "add" => GoneBy(r, i, clock) \/ Rests(r, i, a, w)
  BY <1>2, <1>3 DEF Accounts, Converter
<1>5. CASE a[l] = 0
  <2>1. scaled_qty(m.book[l]) = 0
    BY <1>2, <1>4, <1>5
  <2>2. \A i \in DOMAIN r : AddsTo(r, i, l) => ~Rests(r, i, a, w)
    BY <1>5 DEF Rests, AddsTo
  <2>3. Nothing(r, m.ts, l)
    BY <1>4, <2>2 DEF Nothing, AddsTo
  <2>4. QED
    BY <1>3, <2>1, <2>3 DEF Agree
<1>6. CASE a[l] # 0
  <2>1. PICK i \in DOMAIN r : Is(r, i, "add", a[l]) /\ r[i].level = l
    BY <1>3, <1>6 DEF MapSound
  <2>2. \A k \in DOMAIN r : ~Is(r, k, "cancel", a[l])
    BY <1>3, <1>6 DEF MapSound
  <2>3. r[i].event = "add" /\ r[i].id = a[l] /\ AddsTo(r, i, l)
    BY <2>1 DEF Is, AddsTo
  <2>4. Rests(r, i, a, w)
    BY <1>4, <2>2, <2>3, Zenon DEF GoneBy
  <2>5. \A j \in DOMAIN r : AddsTo(r, j, l) /\ j # i => r[j].ts < r[i].ts /\ GoneBy(r, j, clock)
    <3>1. TAKE j \in DOMAIN r
    <3>2. HAVE AddsTo(r, j, l) /\ j # i
    <3>3. r[j].ts < r[i].ts
      BY <2>1, <2>4, <3>2 DEF Rests
    <3>4. ~Rests(r, j, a, w)
      <4>1. SUFFICES ASSUME Rests(r, j, a, w) PROVE FALSE
        OBVIOUS
      <4>2. Is(r, j, "add", r[i].id)
        BY <2>3, <3>2, <4>1 DEF Rests, AddsTo, Is
      <4>3. QED
        BY <1>3, <2>3, <3>2, <4>2 DEF RowsSound
    <3>5. QED
      BY <1>4, <3>2, <3>3, <3>4 DEF AddsTo
  <2>6. r[i].ts <= clock
    <3>1. r \in Seq(RowsUntil(clock))
      BY <1>1, <1>3 DEF FeedSound, ConverterInv, Converter, Converters
    <3>2. r[i].ts \in 1 .. clock
      BY <3>1, RowTimes
    <3>3. QED
      BY <1>1, <3>2
  <2>7. Stands(r, i, m.ts, l)
    BY <2>2, <2>3, <2>5, <2>6, Zenon DEF Stands
  <2>8. r[i].qty = scaled_qty(m.book[l])
    BY <1>2, <2>1, <2>4 DEF Rests
  <2>9. \A t \in Nat : TradedIn(r, prints', l, t) /\ r[i].ts <= t /\ t <= m.ts => l \in m.short
    BY <1>3, <1>6, <2>3, ShortCovers
  <2>10. QED
    BY <1>3, <2>7, <2>8, <2>9, Zenon DEF Agree
<1>7. QED
  BY <1>5, <1>6

LEMMA RowsAgreeNext ==
  FeedSound /\ FeedSound' /\ Stamped /\ Pending /\ RowsAgree /\ [Next]_vars => RowsAgree'
<1> SUFFICES ASSUME FeedSound, FeedSound', Stamped, Pending, RowsAgree, [Next]_vars
             PROVE  RowsAgree'
  OBVIOUS
<1>1. told \in Seq(Messages(clock)) /\ clock \in Nat
  BY ClockIs DEF Stamped
<1>2. \A m \in DOMAIN told : told[m].ts \in 1 .. clock
  <2> DEFINE S == Messages(clock)
  <2>1. \A x \in S : x.ts \in 1 .. clock
    BY DEF Messages
  <2> HIDE DEF S
  <2>2. told \in Seq(S)
    BY <1>1 DEF S
  <2>3. QED
    BY <2>1, <2>2 DEF S
<1>3. CASE Quiet
  <2>1. /\ told' = told /\ Continues(rows, rows')
        /\ \A k \in DOMAIN rows' : k \notin DOMAIN rows => rows'[k].event = "trade"
    BY <1>3 DEF Quiet
  <2>2. ASSUME NEW m \in DOMAIN told, NEW l \in Levels PROVE Agree(rows', prints', told[m], l)
    <3>1. \A t \in Nat : t <= told[m].ts => t # clock + 1
      BY <1>1, <1>2
    <3>2. \A t \in Nat : TradedIn(rows', prints', l, t) /\ t <= told[m].ts =>
                         TradedIn(rows, prints, l, t)
      BY <1>3, <3>1, Zenon DEF Quiet
    <3>3. Agree(rows, prints, told[m], l)
      BY DEF RowsAgree
    <3>4. QED
      BY <2>1, <3>2, <3>3, AgreeStays
  <2>3. QED
    BY <2>1, <2>2 DEF RowsAgree
<1>4. ASSUME NEW L, NEW snapshot, NEW message, ReadsMessage(L, snapshot, message)
      PROVE  RowsAgree'
  <2> DEFINE x == [ts |-> clock, book |-> book, short |-> Short(L)]
  <2>1. told' = Append(told, x) /\ prints' = prints /\ pushed # book
    BY <1>4 DEF ReadsMessage, Message
  <2>2. x.ts = clock /\ x.book = book /\ x.short = Short(L)
    OBVIOUS
  <2> HIDE DEF x
  <2>3. ASSUME NEW m \in DOMAIN told'
        PROVE  (m \in DOMAIN told /\ told'[m] = told[m]) \/ told'[m] = x
    <3> DEFINE S == Messages(clock) \cup {x}
    <3>1. Messages(clock) \subseteq S /\ x \in S
      OBVIOUS
    <3> HIDE DEF S
    <3>2. told \in Seq(S)
      BY <1>1, <3>1
    <3>3. PICK n \in Nat : /\ DOMAIN told = 1 .. n /\ DOMAIN told' = 1 .. n + 1
                           /\ told'[n + 1] = x /\ \A k \in 1 .. n : told'[k] = told[k]
      BY <2>1, <3>1, <3>2, OneMoreRow
    <3>4. \A k \in 1 .. n + 1 : k \in 1 .. n \/ k = n + 1
      OBVIOUS
    <3>5. QED
      BY <3>3, <3>4
  <2>4. Wrote(Converter, Converter', clock, L)
    BY <1>4, MessageWrites
  <2>5. /\ Continues(rows, rows')
        /\ \A k \in DOMAIN rows' : k \notin DOMAIN rows =>
             rows'[k].ts = clock /\ rows'[k].event # "trade"
    BY <2>4 DEF Wrote, Converter, Continues
  <2>6. ASSUME NEW m \in DOMAIN told, NEW l \in Levels PROVE Agree(rows', prints', told[m], l)
    <3>1. ~(clock <= told[m].ts)
      <4>1. told[m].ts < clock
        BY <2>1 DEF Stamped, Fresh
      <4>2. QED
        BY <1>1, <1>2, <4>1
    <3>2. \A k \in DOMAIN rows' : k \notin DOMAIN rows =>
            rows'[k].event = "trade" \/ ~(rows'[k].ts <= told[m].ts)
      BY <2>5, <3>1
    <3>3. \A t \in Nat : TradedIn(rows', prints', l, t) /\ t <= told[m].ts =>
                         TradedIn(rows, prints, l, t)
      BY <2>1, <2>5, Zenon DEF TradedIn, Continues
    <3>4. Agree(rows, prints, told[m], l)
      BY DEF RowsAgree
    <3>5. QED
      BY <2>5, <3>2, <3>3, <3>4, AgreeStays
  <2>7. \A l \in Levels : Agree(rows', prints', x, l)
    BY <1>4, <2>2, NewAgrees
  <2>8. QED
    BY <2>3, <2>6, <2>7 DEF RowsAgree
<1>5. QED
  BY <1>3, <1>4, StepIs

MessagesSound == Stamped /\ Pending /\ RowsAgree

LEMMA MessagesAreSound == Spec => []MessagesSound
<1>1. Init => MessagesSound
  <2> SUFFICES ASSUME Init PROVE MessagesSound
    OBVIOUS
  <2>1. told = <<>> /\ pushed = <<>> /\ Stamped
    BY StampedInit DEF Init, FeedInit
  <2>2. DOMAIN (<<>>) = {}
    OBVIOUS
  <2>3. QED
    BY <2>1, <2>2 DEF MessagesSound, Pending, RowsAgree
<1>2. FeedSound /\ FeedSound' /\ MessagesSound /\ [Next]_vars => MessagesSound'
  BY StampedNext, PendingNext, RowsAgreeNext DEF MessagesSound
<1>3. QED
  BY <1>1, <1>2, FeedIsSound, PTL DEF Spec

(***************************************************************************)
(* Loading.                                                                *)
(***************************************************************************)

\* e has the rows of r in another order.
Reorders(o, n, r, e) ==
  /\ n \in Nat /\ DOMAIN r = 1 .. n /\ DOMAIN e = 1 .. n
  /\ \A k \in 1 .. n : o[k] \in 1 .. n /\ e[k] = r[o[k]]
  /\ \A i, j \in 1 .. n : o[i] = o[j] => i = j
  /\ \A i \in 1 .. n : \E k \in 1 .. n : o[k] = i

\* Which order the rows are in is not part of what they say.
LEMMA AgreeReordered ==
  ASSUME NEW o, NEW n, NEW r, NEW e, Reorders(o, n, r, e), NEW q, NEW m, NEW l, Agree(r, q, m, l)
  PROVE  Agree(e, q, m, l)
<1>1. /\ DOMAIN r = 1 .. n /\ DOMAIN e = 1 .. n
      /\ \A k \in 1 .. n : o[k] \in 1 .. n /\ e[k] = r[o[k]]
      /\ \A i, j \in 1 .. n : o[i] = o[j] => i = j
      /\ \A i \in 1 .. n : \E k \in 1 .. n : o[k] = i
  BY DEF Reorders
<1>2. \A k \in 1 .. n : GoneBy(r, o[k], m.ts) => GoneBy(e, k, m.ts)
  <2>1. TAKE k \in 1 .. n
  <2>2. HAVE GoneBy(r, o[k], m.ts)
  <2>3. PICK i \in 1 .. n : /\ Is(r, i, "cancel", r[o[k]].id)
                            /\ r[o[k]].ts < r[i].ts /\ r[i].ts <= m.ts
    BY <1>1, <2>2, Zenon DEF GoneBy
  <2>4. PICK j \in 1 .. n : o[j] = i
    BY <1>1
  <2>5. e[j] = r[i] /\ e[k] = r[o[k]]
    BY <1>1, <2>4
  <2>6. QED
    BY <1>1, <2>3, <2>5, Zenon DEF GoneBy, Is
<1>3. CASE scaled_qty(m.book[l]) = 0 /\ Nothing(r, m.ts, l)
  <2>1. Nothing(e, m.ts, l)
    BY <1>1, <1>2, <1>3, Zenon DEF Nothing, AddsTo
  <2>2. QED
    BY <1>3, <2>1 DEF Agree
<1>4. ASSUME NEW i \in DOMAIN r, Stands(r, i, m.ts, l), r[i].qty = scaled_qty(m.book[l]),
             \A t \in Nat : TradedIn(r, q, l, t) /\ r[i].ts <= t /\ t <= m.ts => l \in m.short
      PROVE  Agree(e, q, m, l)
  <2>1. PICK k \in 1 .. n : o[k] = i
    BY <1>1
  <2>2. e[k] = r[i]
    BY <1>1, <2>1
  <2>3. AddsTo(e, k, l) /\ e[k].ts <= m.ts
    BY <1>4, <2>2 DEF Stands, AddsTo
  <2>4. \A j \in DOMAIN e : Is(e, j, "cancel", e[k].id) => ~(e[j].ts <= m.ts)
    <3>1. TAKE j \in DOMAIN e
    <3>2. o[j] \in DOMAIN r /\ e[j] = r[o[j]]
      BY <1>1
    <3>3. Is(r, o[j], "cancel", r[i].id) => ~(r[o[j]].ts <= m.ts)
      BY <1>4, <3>2 DEF Stands
    <3>4. QED
      BY <2>2, <3>2, <3>3 DEF Is
  <2>5. \A j \in DOMAIN e : AddsTo(e, j, l) /\ e[j].ts <= m.ts /\ j # k =>
                              e[j].ts < e[k].ts /\ GoneBy(e, j, m.ts)
    <3>1. TAKE j \in DOMAIN e
    <3>2. HAVE AddsTo(e, j, l) /\ e[j].ts <= m.ts /\ j # k
    <3>3. o[j] # i /\ o[j] \in DOMAIN r /\ e[j] = r[o[j]]
      BY <1>1, <2>1, <3>2
    <3>4. AddsTo(r, o[j], l) /\ r[o[j]].ts <= m.ts
      BY <3>2, <3>3 DEF AddsTo
    <3>5. r[o[j]].ts < r[i].ts /\ GoneBy(r, o[j], m.ts)
      BY <1>4, <3>3, <3>4 DEF Stands
    <3>6. QED
      BY <1>1, <1>2, <2>2, <3>3, <3>5
  <2>6. \A t \in Nat : TradedIn(e, q, l, t) /\ e[k].ts <= t /\ t <= m.ts => l \in m.short
    <3>1. ASSUME NEW t \in Nat, TradedIn(e, q, l, t) PROVE TradedIn(r, q, l, t)
      <4>1. CASE \E j \in DOMAIN e : e[j].event = "trade" /\ e[j].level = l /\ e[j].ts = t
        <5>1. PICK j \in DOMAIN e : e[j].event = "trade" /\ e[j].level = l /\ e[j].ts = t
          BY <4>1
        <5>2. o[j] \in DOMAIN r /\ e[j] = r[o[j]]
          BY <1>1
        <5>3. QED
          BY <5>1, <5>2 DEF TradedIn
      <4>2. QED
        BY <3>1, <4>1, Zenon DEF TradedIn
    <3>2. QED
      BY <1>4, <2>2, <3>1
  <2>7. Stands(e, k, m.ts, l)
    BY <2>3, <2>4, <2>5, Zenon DEF Stands
  <2>8. e[k].qty = scaled_qty(m.book[l])
    BY <1>4, <2>2
  <2>9. QED
    BY <1>1, <2>6, <2>7, <2>8, Zenon DEF Agree
<1>5. QED
  BY <1>3, <1>4, Zenon DEF Agree

\* The events are rows, and agree with every message.
EventsSound ==
  Loaded => /\ events \in Seq(RowsUntil(clock))
            /\ \A m \in DOMAIN told, l \in Levels : Agree(events, prints, told[m], l)

\* They do in any order.
LEMMA ReorderedSound ==
  ASSUME NEW o, NEW n, NEW r, NEW e, Reorders(o, n, r, e), NEW S, r \in Seq(S),
         e = [k \in 1 .. n |-> e[k]]
  PROVE  e \in Seq(S)
<1>1. /\ n \in Nat /\ DOMAIN r = 1 .. n
      /\ \A k \in 1 .. n : o[k] \in 1 .. n /\ e[k] = r[o[k]]
  BY DEF Reorders
<1>2. \A k \in 1 .. n : e[k] \in S
  BY <1>1
<1>3. e \in [1 .. n -> S]
  BY <1>2
<1>4. QED
  BY <1>1, <1>3

LEMMA EventsSoundNext ==
  FeedSound /\ FeedSound' /\ MessagesSound /\ MessagesSound' /\ EventsSound /\ [Next]_vars
    => EventsSound'
<1> SUFFICES ASSUME FeedSound, FeedSound', MessagesSound, EventsSound, [Next]_vars
             PROVE  EventsSound'
  OBVIOUS
<1>1. CASE Feed
  <2>1. conn' # "loaded"
    BY <1>1 DEF Feed, ExchangeStep, RecorderStep, Moves, Trades, Opens, Drops, DepthMessage,
                TradeMessage, Leaves, OpensLate
  <2>2. QED
    BY <2>1 DEF EventsSound, Loaded
<1>2. rows \in Seq(RowsUntil(clock)) /\ clock \in Nat
  BY ClockIs DEF FeedSound, ConverterInv, Converter, Converters
<1>3. PICK n \in Nat : n = Len(rows) /\ DOMAIN rows = 1 .. n
  BY <1>2
<1>4. CASE load_l2
  <2>1. /\ events' = sorted(rows) /\ clock' = clock /\ prints' = prints /\ told' = told
    BY <1>4 DEF load_l2, exchangeVars
  <2>2. \A i \in 1 .. n : rows[i].ts \in Int
    BY <1>2, <1>3, RowTimes
  <2>3. PICK o \in [1 .. n -> 1 .. n] :
          /\ sorted(rows) = [k \in 1 .. n |-> rows[o[k]]]
          /\ \A i, j \in 1 .. n : o[i] = o[j] => i = j
          /\ \A i \in 1 .. n : \E k \in 1 .. n : o[k] = i
          /\ \A i, j \in 1 .. n : i <= j => rows[o[i]].ts <= rows[o[j]].ts
    BY <1>3, <2>2, SortedIs
  <2>4. /\ DOMAIN events' = 1 .. n /\ \A k \in 1 .. n : events'[k] = rows[o[k]]
        /\ events' = [k \in 1 .. n |-> events'[k]]
    BY <2>1, <2>3
  <2>5. Reorders(o, n, rows, events')
    BY <1>3, <2>3, <2>4 DEF Reorders
  <2>6. events' \in Seq(RowsUntil(clock))
    BY <1>2, <2>4, <2>5, ReorderedSound
  <2>7. \A m \in DOMAIN told, l \in Levels : Agree(events', prints, told[m], l)
    BY <2>5, AgreeReordered DEF MessagesSound, RowsAgree
  <2>8. QED
    BY <2>1, <2>6, <2>7 DEF EventsSound
<1>5. CASE Ties
  <2>1. PICK i \in 1 .. Len(events) - 1 :
          events' = [events EXCEPT ![i] = events[i + 1], ![i + 1] = events[i]]
    BY <1>5 DEF Ties
  <2>2. UNCHANGED feedVars /\ Loaded
    BY <1>5 DEF Ties, Loaded
  <2>3. /\ clock' = clock /\ prints' = prints /\ told' = told
        /\ events \in Seq(RowsUntil(clock))
        /\ \A m \in DOMAIN told, l \in Levels : Agree(events, prints, told[m], l)
    BY <2>2 DEF feedVars, exchangeVars, EventsSound
  <2>4. PICK k \in Nat : k = Len(events) /\ DOMAIN events = 1 .. k
    BY <2>3
  <2> DEFINE o == [j \in 1 .. k |-> IF j = i THEN i + 1 ELSE IF j = i + 1 THEN i ELSE j]
  <2>5. i \in 1 .. k /\ i + 1 \in 1 .. k /\ i # i + 1
    BY <2>4
  <2>6. /\ DOMAIN events' = 1 .. k
        /\ events' = [j \in 1 .. k |-> events'[j]]
        /\ \A j \in 1 .. k : o[j] \in 1 .. k /\ events'[j] = events[o[j]]
    BY <2>1, <2>4, <2>5
  <2>7. /\ \A a, b \in 1 .. k : o[a] = o[b] => a = b
        /\ \A a \in 1 .. k : o[o[a]] = a
    BY <2>5
  <2> HIDE DEF o
  <2>8. Reorders(o, k, events, events')
    BY <2>4, <2>6, <2>7 DEF Reorders
  <2>9. events' \in Seq(RowsUntil(clock))
    BY <2>3, <2>6, <2>8, ReorderedSound
  <2>10. \A m \in DOMAIN told, l \in Levels : Agree(events', prints, told[m], l)
    BY <2>3, <2>8, AgreeReordered
  <2>11. QED
    BY <2>3, <2>9, <2>10 DEF EventsSound
<1>6. CASE UNCHANGED vars
  BY <1>6 DEF vars, feedVars, exchangeVars, EventsSound, Loaded
<1>7. QED
  BY <1>1, <1>4, <1>5, <1>6 DEF Next

LEMMA EventsAreSound == Spec => []EventsSound
<1>1. Init => EventsSound
  BY DEF Init, FeedInit, EventsSound, Loaded
<1>2. QED
  BY <1>1, EventsSoundNext, FeedIsSound, MessagesAreSound, PTL DEF Spec

(***************************************************************************)
(* A replay.  src says which event added the k-th order of the book q that *)
(* n events of s leave: an order has no more than was added, nothing once  *)
(* it is cancelled, and all of it unless there was a cancel or a trade at  *)
(* its level since.                                                        *)
(***************************************************************************)
Touches(s, j, x) ==
  Is(s, j, "cancel", x.id) \/ (s[j].event = "trade" /\ s[j].level = x.level)

Traces(q, s, n, src) ==
  /\ q \in Seq(Orders)
  /\ src \in [1 .. Len(q) -> 1 .. n]
  /\ \A k \in 1 .. Len(q) :
       /\ s[src[k]].event = "add" /\ q[k].id = s[src[k]].id /\ q[k].level = s[src[k]].level
       /\ q[k].qty <= s[src[k]].qty
  /\ \A j, k \in 1 .. Len(q) : src[j] = src[k] => j = k
  /\ \A i \in 1 .. n : s[i].event = "add" => \E k \in 1 .. Len(q) : src[k] = i
  /\ \A k \in 1 .. Len(q) : \A j \in 1 .. n :
       src[k] < j /\ Is(s, j, "cancel", q[k].id) => q[k].qty = 0
  /\ \A k \in 1 .. Len(q) :
       q[k].qty = s[src[k]].qty \/ \E j \in 1 .. n : src[k] < j /\ Touches(s, j, q[k])

LEMMA RestingType == ASSUME NEW q \in Seq(Orders), NEW l PROVE Resting(q, l) \in Nat
<1>1. PICK m \in Nat : m = Len(q)
  OBVIOUS
<1>2. \A k \in 1 .. m : q[k].qty \in Nat
  BY <1>1, OrderAt
<1>3. PICK F : SumSteps(q, l, m, F)
  BY <1>1, SumBySteps
<1>4. \A k \in 0 .. m : F[k] = SumBody(q, l, F, k)
  BY <1>3 DEF SumSteps
<1> DEFINE K == {k \in Nat : k <= m => F[k] \in Nat}
<1>5. 0 \in K
  BY <1>4 DEF SumBody
<1>6. \A k \in Nat : k \in K => k + 1 \in K
  <2>1. TAKE k \in Nat
  <2>2. HAVE k \in K
  <2>3. SUFFICES ASSUME k + 1 <= m PROVE F[k + 1] \in Nat
    OBVIOUS
  <2>4. F[k] \in Nat
    BY <2>2, <2>3
  <2>5. k + 1 \in 1 .. m /\ k + 1 \in 0 .. m /\ (k + 1) - 1 = k /\ k + 1 # 0
    BY <2>3
  <2>6. F[k + 1] = IF q[k + 1].level = l THEN F[k] + q[k + 1].qty ELSE F[k]
    BY <1>4, <2>5 DEF SumBody
  <2>7. q[k + 1].qty \in Nat
    BY <1>2, <2>5
  <2>8. QED
    BY <2>4, <2>6, <2>7
<1>7. m \in K
  <2> HIDE DEF K
  <2>1. QED
    BY <1>5, <1>6, EveryNumber
<1>8. QED
  BY <1>3, <1>7 DEF SumSteps

\* A trade takes from its level only, and never more than there is.
LEMMA LeftIs ==
  ASSUME NEW q \in Seq(Orders), NEW k \in 1 .. Len(q), NEW x, x.qty \in Nat
  PROVE  /\ LeftOf(q, k, x) \in 0 .. q[k].qty
         /\ q[k].level # x.level => LeftOf(q, k, x) = q[k].qty
<1>1. q[k].qty \in Nat
  BY OrderAt
<1>2. CASE q[k].level # x.level
  BY <1>1, <1>2 DEF LeftOf
<1>3. CASE q[k].level = x.level
  <2>1. SubSeq(q, 1, k - 1) \in Seq(Orders)
    <3> HIDE DEF Orders
    <3>1. QED
      OBVIOUS
  <2>2. PICK ahead \in Nat : ahead = Resting(SubSeq(q, 1, k - 1), x.level)
    BY <2>1, RestingType
  <2>3. PICK a \in Nat : a = IF ahead >= x.qty THEN 0 ELSE x.qty - ahead
    OBVIOUS
  <2>4. LeftOf(q, k, x) = q[k].qty - min(q[k].qty, a)
    BY <1>3, <2>2, <2>3 DEF LeftOf
  <2>5. QED
    BY <1>1, <1>3, <2>3, <2>4 DEF min
<1>4. QED
  BY <1>2, <1>3

\* An event that adds no order: those that are there keep their names and levels.
LEMMA TracesOn ==
  ASSUME NEW q, NEW s, NEW n \in Nat, NEW src, Traces(q, s, n, src),
         \A i \in 1 .. n + 1 : s[i].qty \in Nat,
         s[n + 1].event # "add", NEW p \in Seq(Orders), Len(p) = Len(q),
         \A k \in 1 .. Len(q) :
           /\ p[k].id = q[k].id /\ p[k].level = q[k].level /\ p[k].qty <= q[k].qty
           /\ p[k].qty = q[k].qty \/ Touches(s, n + 1, q[k])
           /\ Is(s, n + 1, "cancel", q[k].id) => p[k].qty = 0
  PROVE  Traces(p, s, n + 1, src)
<1>1. PICK m \in Nat : m = Len(q) /\ m = Len(p)
  BY DEF Traces
<1>2. \A k \in 1 .. m : q[k].qty \in Nat /\ p[k].qty \in Nat
  BY <1>1, OrderAt DEF Traces
<1>3. /\ src \in [1 .. m -> 1 .. n]
      /\ \A k \in 1 .. m : /\ s[src[k]].event = "add" /\ q[k].id = s[src[k]].id
                           /\ q[k].level = s[src[k]].level /\ q[k].qty <= s[src[k]].qty
      /\ \A j, k \in 1 .. m : src[j] = src[k] => j = k
      /\ \A i \in 1 .. n : s[i].event = "add" => \E k \in 1 .. m : src[k] = i
      /\ \A k \in 1 .. m : \A j \in 1 .. n : src[k] < j /\ Is(s, j, "cancel", q[k].id) => q[k].qty = 0
      /\ \A k \in 1 .. m :
           q[k].qty = s[src[k]].qty \/ \E j \in 1 .. n : src[k] < j /\ Touches(s, j, q[k])
  BY <1>1 DEF Traces
<1>4. /\ \A i \in 1 .. n + 1 : i \in 1 .. n \/ i = n + 1
      /\ \A i \in 1 .. n : i \in 1 .. n + 1 /\ i < n + 1
  OBVIOUS
<1>5. src \in [1 .. m -> 1 .. n + 1]
  BY <1>3, <1>4
<1>6. ASSUME NEW k \in 1 .. m
      PROVE  /\ s[src[k]].event = "add" /\ p[k].id = s[src[k]].id
             /\ p[k].level = s[src[k]].level /\ p[k].qty <= s[src[k]].qty
  <2>1. p[k].qty <= q[k].qty /\ q[k].qty <= s[src[k]].qty /\ src[k] \in 1 .. n + 1
    BY <1>1, <1>3, <1>5
  <2>2. s[src[k]].qty \in Nat
    BY <2>1
  <2>3. p[k].qty <= s[src[k]].qty
    BY <1>2, <2>1, <2>2
  <2>4. QED
    BY <1>1, <1>3, <2>3
<1>7. \A i \in 1 .. n + 1 : s[i].event = "add" => \E k \in 1 .. m : src[k] = i
  BY <1>3, <1>4
<1>8. ASSUME NEW k \in 1 .. m, NEW j \in 1 .. n + 1, src[k] < j, Is(s, j, "cancel", p[k].id)
      PROVE  p[k].qty = 0
  <2>1. p[k].id = q[k].id /\ p[k].qty <= q[k].qty
    BY <1>1
  <2>2. CASE j \in 1 .. n
    <3>1. q[k].qty = 0
      BY <1>3, <1>8, <2>1, <2>2
    <3>2. QED
      BY <1>2, <2>1, <3>1
  <2>3. CASE j = n + 1
    BY <1>1, <1>8, <2>1, <2>3
  <2>4. QED
    BY <1>4, <2>2, <2>3
<1>9. ASSUME NEW k \in 1 .. m, p[k].qty # s[src[k]].qty
      PROVE  \E j \in 1 .. n + 1 : src[k] < j /\ Touches(s, j, p[k])
  <2>1. p[k].id = q[k].id /\ p[k].level = q[k].level
    BY <1>1
  <2>2. \A j \in 1 .. n + 1 : Touches(s, j, q[k]) => Touches(s, j, p[k])
    BY <2>1 DEF Touches
  <2>3. CASE p[k].qty = q[k].qty
    <3>1. PICK j \in 1 .. n : src[k] < j /\ Touches(s, j, q[k])
      BY <1>3, <1>9, <2>3
    <3>2. QED
      BY <1>4, <2>2, <3>1
  <2>4. CASE p[k].qty # q[k].qty
    <3>1. Touches(s, n + 1, q[k])
      BY <1>1, <2>4
    <3>2. n + 1 \in 1 .. n + 1 /\ src[k] < n + 1
      BY <1>3, <1>4
    <3>3. QED
      BY <2>2, <3>1, <3>2
  <2>5. QED
    BY <2>3, <2>4
<1>10. QED
  BY <1>1, <1>3, <1>5, <1>6, <1>7, <1>8, <1>9 DEF Traces

\* An event that adds one.
LEMMA TracesAdd ==
  ASSUME NEW q, NEW s, NEW n \in Nat, NEW src, Traces(q, s, n, src),
         s[n + 1].event = "add", NEW x \in Orders,
         x.id = s[n + 1].id, x.level = s[n + 1].level, x.qty = s[n + 1].qty
  PROVE  Traces(Append(q, x), s, n + 1, [k \in 1 .. Len(q) + 1 |-> IF k <= Len(q) THEN src[k] ELSE n + 1])
<1>1. PICK m \in Nat : m = Len(q)
  BY DEF Traces
<1> DEFINE p == Append(q, x)
           to == [k \in 1 .. m + 1 |-> IF k <= m THEN src[k] ELSE n + 1]
<1>3. /\ src \in [1 .. m -> 1 .. n]
      /\ \A k \in 1 .. m : /\ s[src[k]].event = "add" /\ q[k].id = s[src[k]].id
                           /\ q[k].level = s[src[k]].level /\ q[k].qty <= s[src[k]].qty
      /\ \A j, k \in 1 .. m : src[j] = src[k] => j = k
      /\ \A i \in 1 .. n : s[i].event = "add" => \E k \in 1 .. m : src[k] = i
      /\ \A k \in 1 .. m : \A j \in 1 .. n : src[k] < j /\ Is(s, j, "cancel", q[k].id) => q[k].qty = 0
      /\ \A k \in 1 .. m :
           q[k].qty = s[src[k]].qty \/ \E j \in 1 .. n : src[k] < j /\ Touches(s, j, q[k])
  BY <1>1 DEF Traces
<1>4. /\ \A i \in 1 .. n + 1 : i \in 1 .. n \/ i = n + 1
      /\ \A i \in 1 .. n : i \in 1 .. n + 1 /\ i # n + 1
      /\ \A i \in 1 .. m + 1 : i \in 1 .. m \/ i = m + 1
      /\ \A i \in 1 .. m : i \in 1 .. m + 1
      /\ m + 1 \in 1 .. m + 1 /\ n + 1 \in 1 .. n + 1
  OBVIOUS
<1>5. /\ p \in Seq(Orders) /\ Len(p) = m + 1 /\ p[m + 1] = x /\ \A k \in 1 .. m : p[k] = q[k]
  <2> DEFINE S == Orders
  <2> HIDE DEF S
  <2>1. q \in Seq(S) /\ x \in S
    BY DEF Traces, S
  <2>2. QED
    BY <1>1, <2>1 DEF S
<1>6. /\ to \in [1 .. m + 1 -> 1 .. n + 1] /\ to[m + 1] = n + 1
      /\ \A k \in 1 .. m : to[k] = src[k] /\ to[k] \in 1 .. n
  BY <1>3
<1> HIDE DEF p, to
<1>7. ASSUME NEW k \in 1 .. m + 1
      PROVE  /\ s[to[k]].event = "add" /\ p[k].id = s[to[k]].id
             /\ p[k].level = s[to[k]].level /\ p[k].qty <= s[to[k]].qty
  <2>1. CASE k \in 1 .. m
    BY <1>3, <1>5, <1>6, <2>1
  <2>2. CASE k = m + 1
    <3>1. x.qty <= x.qty
      <4>1. x.qty \in Nat
        BY DEF Orders
      <4>2. QED
        BY <4>1
    <3>2. QED
      BY <1>5, <1>6, <2>2, <3>1
  <2>3. QED
    BY <1>4, <2>1, <2>2
<1>8. \A j, k \in 1 .. m + 1 : to[j] = to[k] => j = k
  BY <1>3, <1>4, <1>6
<1>9. \A i \in 1 .. n + 1 : s[i].event = "add" => \E k \in 1 .. m + 1 : to[k] = i
  <2>1. TAKE i \in 1 .. n + 1
  <2>2. HAVE s[i].event = "add"
  <2>3. CASE i \in 1 .. n
    <3>1. PICK k \in 1 .. m : src[k] = i
      BY <1>3, <2>2, <2>3
    <3>2. QED
      BY <1>4, <1>6, <3>1
  <2>4. CASE i = n + 1
    BY <1>4, <1>6, <2>4
  <2>5. QED
    BY <1>4, <2>3, <2>4
<1>10. \A j \in 1 .. n + 1 : n + 1 < j => FALSE
  OBVIOUS
<1>11. ASSUME NEW k \in 1 .. m + 1, NEW j \in 1 .. n + 1, to[k] < j, Is(s, j, "cancel", p[k].id)
       PROVE  p[k].qty = 0
  <2>1. j \in 1 .. n
    BY <1>4, <1>11 DEF Is
  <2>2. k \in 1 .. m
    BY <1>4, <1>6, <1>10, <1>11
  <2>3. QED
    BY <1>3, <1>5, <1>6, <1>11, <2>1, <2>2
<1>12. ASSUME NEW k \in 1 .. m + 1, p[k].qty # s[to[k]].qty
       PROVE  \E j \in 1 .. n + 1 : to[k] < j /\ Touches(s, j, p[k])
  <2>1. k \in 1 .. m
    BY <1>4, <1>5, <1>6, <1>12
  <2>2. PICK j \in 1 .. n : src[k] < j /\ Touches(s, j, q[k])
    BY <1>3, <1>5, <1>6, <1>12, <2>1
  <2>3. QED
    BY <1>4, <1>5, <1>6, <2>1, <2>2
<1>13. Traces(p, s, n + 1, to)
  BY <1>5, <1>6, <1>7, <1>8, <1>9, <1>11, <1>12 DEF Traces
<1>14. QED
  BY <1>1, <1>13 DEF p, to

\* Any event.
LEMMA TracesNext ==
  ASSUME NEW q, NEW s, NEW n \in Nat, NEW src, Traces(q, s, n, src), NEW t,
         \A i \in 1 .. n + 1 : s[i] \in RowsUntil(t)
  PROVE  \E to : Traces(apply_event(q, s[n + 1]), s, n + 1, to)
<1> DEFINE e == s[n + 1]
           p == apply_event(q, e)
<1>1. PICK m \in Nat : m = Len(q)
  BY DEF Traces
<1>2. /\ e.event \in {"add", "cancel", "trade"} /\ e.level \in Levels /\ e.qty \in Nat /\ e.id \in Nat
      /\ \A i \in 1 .. n + 1 : s[i].qty \in Nat
  <2>1. n + 1 \in 1 .. n + 1
    OBVIOUS
  <2>2. e \in RowsUntil(t)
    BY <2>1
  <2>3. QED
    BY <2>2 DEF RowsUntil
<1>3. q \in Seq(Orders) /\ DOMAIN q = 1 .. m /\ q = [k \in 1 .. m |-> q[k]]
  BY <1>1 DEF Traces
<1>4. \A k \in 1 .. m : q[k] \in Orders /\ q[k].id \in Nat /\ q[k].level \in Levels /\ q[k].qty \in Nat
  BY <1>1, <1>3, OrderAt
<1>5. CASE e.event = "add"
  <2>1. PICK x : x = [id |-> e.id, level |-> e.level, qty |-> e.qty]
    OBVIOUS
  <2>2. x \in Orders /\ x.id = e.id /\ x.level = e.level /\ x.qty = e.qty
    BY <1>2, <2>1 DEF Orders
  <2>3. p = Append(q, x)
    BY <1>5, <2>1 DEF apply_event
  <2>4. QED
    BY <1>5, <2>2, <2>3, TracesAdd
<1>6. CASE e.event = "cancel"
  <2>1. p = [k \in 1 .. m |-> IF q[k].id = e.id THEN [q[k] EXCEPT !.qty = 0] ELSE q[k]]
    BY <1>3, <1>6 DEF apply_event
  <2>2. ASSUME NEW k \in 1 .. m
        PROVE  /\ p[k] \in Orders /\ p[k].id = q[k].id /\ p[k].level = q[k].level
               /\ p[k].qty <= q[k].qty
               /\ IF q[k].id = e.id THEN p[k].qty = 0 ELSE p[k].qty = q[k].qty
    <3>1. CASE q[k].id = e.id
      <4>1. p[k] = [q[k] EXCEPT !.qty = 0]
        BY <2>1, <3>1
      <4>2. q[k] \in Orders /\ q[k].qty \in Nat
        BY <1>4
      <4>3. QED
        BY <3>1, <4>1, <4>2 DEF Orders
    <3>2. CASE q[k].id # e.id
      <4>1. p[k] = q[k]
        BY <2>1, <3>2
      <4>2. q[k] \in Orders /\ q[k].qty \in Nat
        BY <1>4
      <4>3. QED
        BY <3>2, <4>1, <4>2
    <3>3. QED
      BY <3>1, <3>2
  <2>3. p \in Seq(Orders) /\ Len(p) = m
    <3>1. DOMAIN p = 1 .. m /\ p = [k \in 1 .. m |-> p[k]]
      BY <2>1
    <3> HIDE DEF p, Orders
    <3>2. p \in [1 .. m -> Orders]
      BY <2>2, <3>1
    <3>3. QED
      BY <3>2
  <2>4. \A k \in 1 .. m : /\ p[k].qty = q[k].qty \/ Touches(s, n + 1, q[k])
                          /\ Is(s, n + 1, "cancel", q[k].id) => p[k].qty = 0
    BY <1>6, <2>2, Zenon DEF Touches, Is
  <2>5. \A k \in 1 .. Len(q) :
          /\ p[k].id = q[k].id /\ p[k].level = q[k].level /\ p[k].qty <= q[k].qty
          /\ p[k].qty = q[k].qty \/ Touches(s, n + 1, q[k])
          /\ Is(s, n + 1, "cancel", q[k].id) => p[k].qty = 0
    BY <1>1, <2>2, <2>4, Zenon
  <2>6. s[n + 1].event # "add" /\ Len(p) = Len(q)
    BY <1>1, <1>6, <2>3
  <2> HIDE DEF p
  <2>7. Traces(p, s, n + 1, src)
    BY <1>2, <2>3, <2>5, <2>6, TracesOn
  <2>8. QED
    BY <2>7 DEF p
<1>7. CASE e.event = "trade"
  <2>1. p = [k \in 1 .. m |-> [q[k] EXCEPT !.qty = LeftOf(q, k, e)]]
    BY <1>3, <1>7 DEF apply_event
  <2>2. ASSUME NEW k \in 1 .. m
        PROVE  /\ p[k] \in Orders /\ p[k].id = q[k].id /\ p[k].level = q[k].level
               /\ p[k].qty <= q[k].qty
               /\ q[k].level # e.level => p[k].qty = q[k].qty
    <3>1. PICK u : u = LeftOf(q, k, e)
      OBVIOUS
    <3>2. u \in 0 .. q[k].qty /\ (q[k].level # e.level => u = q[k].qty)
      BY <1>1, <1>2, <1>3, <3>1, LeftIs
    <3>3. p[k] = [q[k] EXCEPT !.qty = u]
      BY <2>1, <3>1
    <3>4. q[k] \in Orders /\ q[k].qty \in Nat
      BY <1>4
    <3>5. u \in Nat /\ u <= q[k].qty
      BY <3>2, <3>4
    <3>6. p[k] \in Orders /\ p[k].id = q[k].id /\ p[k].level = q[k].level /\ p[k].qty = u
      BY <3>3, <3>4, <3>5 DEF Orders
    <3>7. QED
      BY <3>2, <3>5, <3>6
  <2>3. p \in Seq(Orders) /\ Len(p) = m
    <3>1. DOMAIN p = 1 .. m /\ p = [k \in 1 .. m |-> p[k]]
      BY <2>1
    <3> HIDE DEF p, Orders
    <3>2. p \in [1 .. m -> Orders]
      BY <2>2, <3>1
    <3>3. QED
      BY <3>2
  <2>4. \A k \in 1 .. m : /\ p[k].qty = q[k].qty \/ Touches(s, n + 1, q[k])
                          /\ Is(s, n + 1, "cancel", q[k].id) => p[k].qty = 0
    BY <1>7, <2>2, Zenon DEF Touches, Is
  <2>5. \A k \in 1 .. Len(q) :
          /\ p[k].id = q[k].id /\ p[k].level = q[k].level /\ p[k].qty <= q[k].qty
          /\ p[k].qty = q[k].qty \/ Touches(s, n + 1, q[k])
          /\ Is(s, n + 1, "cancel", q[k].id) => p[k].qty = 0
    BY <1>1, <2>2, <2>4, Zenon
  <2>6. s[n + 1].event # "add" /\ Len(p) = Len(q)
    BY <1>1, <1>7, <2>3
  <2> HIDE DEF p
  <2>7. Traces(p, s, n + 1, src)
    BY <1>2, <2>3, <2>5, <2>6, TracesOn
  <2>8. QED
    BY <2>7 DEF p
<1>8. QED
  BY <1>2, <1>5, <1>6, <1>7

\* So the book of a replay comes from its events.
LEMMA Replayed ==
  ASSUME NEW t, NEW s \in Seq(RowsUntil(t)), NEW n \in Nat, Len(s) = n
  PROVE  \E src : Traces(Replay(s, AllEvents), s, n, src)
<1>1. PICK F : ReplaySteps(s, AllEvents, n, F)
  BY ReplayBySteps
<1>2. /\ \A k \in 0 .. n : F[k] = ReplayBody(s, AllEvents, F, k)
      /\ Replay(s, AllEvents) = F[n]
  BY <1>1 DEF ReplaySteps
<1>3. \A i \in 1 .. n : s[i] \in RowsUntil(t) /\ s[i].event \in AllEvents
  <2>1. \A i \in 1 .. n : s[i] \in RowsUntil(t)
    <3> HIDE DEF RowsUntil
    <3>1. QED
      OBVIOUS
  <2>2. QED
    BY <2>1 DEF RowsUntil, AllEvents, AddsAndCancels
<1> DEFINE K == {k \in Nat : k <= n => \E src : Traces(F[k], s, k, src)}
<1>4. 0 \in K
  <2>1. F[0] = <<>>
    BY <1>2 DEF ReplayBody
  <2>2. <<>> \in Seq(Orders) /\ Len(<<>>) = 0
    OBVIOUS
  <2>3. [k \in 1 .. 0 |-> 0] \in [1 .. 0 -> 1 .. 0] /\ \A k \in 1 .. 0 : FALSE
    OBVIOUS
  <2>4. Traces(<<>>, s, 0, [k \in 1 .. 0 |-> 0])
    BY <2>2, <2>3 DEF Traces
  <2>5. QED
    BY <2>1, <2>4
<1>5. \A k \in Nat : k \in K => k + 1 \in K
  <2>1. TAKE k \in Nat
  <2>2. HAVE k \in K
  <2>3. SUFFICES ASSUME k + 1 <= n PROVE \E src : Traces(F[k + 1], s, k + 1, src)
    OBVIOUS
  <2>4. PICK src : Traces(F[k], s, k, src)
    BY <2>2, <2>3
  <2>5. /\ k + 1 \in 1 .. n /\ k + 1 \in 0 .. n /\ (k + 1) - 1 = k /\ k + 1 # 0
        /\ \A i \in 1 .. k + 1 : i \in 1 .. n
    BY <2>3
  <2>6. PICK q : q = F[k]
    OBVIOUS
  <2>7. F[k + 1] = apply_event(q, s[k + 1])
    BY <1>2, <1>3, <2>5, <2>6 DEF ReplayBody
  <2>8. Traces(q, s, k, src) /\ \A i \in 1 .. k + 1 : s[i] \in RowsUntil(t)
    BY <1>3, <2>4, <2>5, <2>6
  <2>9. \E to : Traces(apply_event(q, s[k + 1]), s, k + 1, to)
    BY <2>8, TracesNext
  <2>10. QED
    BY <2>7, <2>9
<1>6. n \in K
  <2> HIDE DEF K
  <2>1. QED
    BY <1>4, <1>5, EveryNumber
<1>7. QED
  BY <1>2, <1>6

\* The order that the i-th event added is cancelled after it.
CancelledLater(s, n, i) == \E j \in 1 .. n : i < j /\ Is(s, j, "cancel", s[i].id)

\* Nothing is left at a level all of whose orders were cancelled.
LEMMA NoneLeft ==
  ASSUME NEW q, NEW s, NEW n \in Nat, NEW src, Traces(q, s, n, src), NEW l,
         \A i \in 1 .. n : AddsTo(s, i, l) => CancelledLater(s, n, i)
  PROVE  Resting(q, l) = 0
<1>1. PICK m \in Nat : m = Len(q)
  BY DEF Traces
<1>2. \A k \in 1 .. m : q[k].level = l => q[k].qty = 0
  <2>1. TAKE k \in 1 .. m
  <2>2. HAVE q[k].level = l
  <2>3. src[k] \in 1 .. n /\ AddsTo(s, src[k], l) /\ q[k].id = s[src[k]].id
    BY <1>1, <2>2 DEF Traces, AddsTo
  <2>4. PICK j \in 1 .. n : src[k] < j /\ Is(s, j, "cancel", q[k].id)
    BY <2>3 DEF CancelledLater
  <2>5. QED
    BY <1>1, <2>4 DEF Traces
<1>3. m + 1 \in 1 .. m + 1 /\ m + 1 \notin 1 .. m /\ ~(m + 1 <= m) /\ 0 \in Nat
  OBVIOUS
<1>4. OneRests(q, l, m, m + 1, 0)
  BY <1>2, <1>3 DEF OneRests
<1>5. QED
  BY <1>1, <1>3, <1>4, RestingIs

\* What is left at a level all of whose orders but one, the i-th event, were
\* cancelled.
Alone(s, n, i, l) ==
  /\ i \in 1 .. n /\ AddsTo(s, i, l)
  /\ \A j \in 1 .. n : AddsTo(s, j, l) /\ j # i => CancelledLater(s, n, j)
LeftBy(d, s, n, i, l) ==
  /\ d \in Nat /\ d <= s[i].qty
  /\ \/ d = s[i].qty
     \/ CancelledLater(s, n, i)
     \/ \E j \in 1 .. n : i < j /\ s[j].event = "trade" /\ s[j].level = l

LEMMA OneLeft ==
  ASSUME NEW q, NEW s, NEW n \in Nat, NEW src, Traces(q, s, n, src), NEW l, NEW i, Alone(s, n, i, l)
  PROVE  LeftBy(Resting(q, l), s, n, i, l)
<1>0. /\ i \in 1 .. n /\ AddsTo(s, i, l)
      /\ \A j \in 1 .. n : AddsTo(s, j, l) /\ j # i => CancelledLater(s, n, j)
  BY DEF Alone
<1>1. PICK m \in Nat : m = Len(q)
  BY DEF Traces
<1>2. PICK a \in 1 .. m : src[a] = i
  BY <1>0, <1>1 DEF Traces, AddsTo
<1>3. q[a].id = s[i].id /\ q[a].level = l /\ q[a].qty <= s[i].qty
  BY <1>0, <1>1, <1>2 DEF Traces, AddsTo
<1>4. q[a].qty \in Nat
  BY <1>1, OrderAt DEF Traces
<1>5. \A k \in 1 .. m : q[k].level = l => q[k].qty = IF k = a THEN q[a].qty ELSE 0
  <2>1. TAKE k \in 1 .. m
  <2>2. HAVE q[k].level = l
  <2>3. SUFFICES ASSUME k # a PROVE q[k].qty = 0
    OBVIOUS
  <2>4. src[k] \in 1 .. n /\ AddsTo(s, src[k], l) /\ q[k].id = s[src[k]].id
    BY <1>1, <2>2 DEF Traces, AddsTo
  <2>5. src[k] # i
    BY <1>1, <1>2, <2>3 DEF Traces
  <2>6. PICK j \in 1 .. n : src[k] < j /\ Is(s, j, "cancel", q[k].id)
    BY <1>0, <2>4, <2>5 DEF CancelledLater
  <2>7. QED
    BY <1>1, <2>6 DEF Traces
<1>6. Resting(q, l) = q[a].qty
  <2>1. a \in 1 .. m + 1 /\ a <= m
    OBVIOUS
  <2>2. OneRests(q, l, m, a, q[a].qty)
    BY <1>3, <1>5 DEF OneRests
  <2>3. QED
    BY <1>1, <1>4, <2>1, <2>2, RestingIs
<1>7. q[a].qty = s[i].qty \/ \E j \in 1 .. n : i < j /\ Touches(s, j, q[a])
  BY <1>1, <1>2 DEF Traces
<1>8. QED
  BY <1>3, <1>4, <1>6, <1>7 DEF LeftBy, Touches, CancelledLater

(***************************************************************************)
(* The events until a time, of events in the order of their timestamps.    *)
(***************************************************************************)
Until(r, n, x, m, t) ==
  /\ m \in 0 .. n /\ DOMAIN r = 1 .. n /\ x = SubSeq(r, 1, m)
  /\ \A i \in 1 .. n : r[i].ts <= t <=> i <= m

LEMMA UpToIs ==
  ASSUME NEW S, NEW r \in Seq(S), NEW n \in Nat, Len(r) = n, NEW t \in Int,
         \A i \in 1 .. n : r[i].ts \in Int,
         \A i, j \in 1 .. n : i <= j => r[i].ts <= r[j].ts
  PROVE  \E m : Until(r, n, UpTo(r, t), m, t)
<1> DEFINE P(m) == (\A i \in 1 .. m : r[i].ts <= t) /\ (m < Len(r) => r[m + 1].ts > t)
           K == {k \in Nat : k <= n => \/ \A i \in 1 .. k : r[i].ts <= t
                                       \/ \E m \in 0 .. n : P(m)}
<1>1. 0 \in K
  OBVIOUS
<1>2. \A k \in Nat : k \in K => k + 1 \in K
  <2>1. TAKE k \in Nat
  <2>2. HAVE k \in K
  <2>3. SUFFICES ASSUME k + 1 <= n, ~\E m \in 0 .. n : P(m)
                 PROVE  \A i \in 1 .. k + 1 : r[i].ts <= t
    OBVIOUS
  <2>4. \A i \in 1 .. k : r[i].ts <= t
    BY <2>2, <2>3
  <2>5. k \in 0 .. n /\ k + 1 \in 1 .. n /\ k < Len(r)
    BY <2>3
  <2>6. ~(r[k + 1].ts > t)
    BY <2>3, <2>4, <2>5
  <2>7. r[k + 1].ts <= t
    BY <2>5, <2>6
  <2>8. \A i \in 1 .. k + 1 : i \in 1 .. k \/ i = k + 1
    OBVIOUS
  <2>9. QED
    BY <2>4, <2>7, <2>8
<1>3. \E m \in 0 .. n : P(m)
  <2>1. n \in K
    <3> HIDE DEF K
    <3>1. QED
      BY <1>1, <1>2, EveryNumber
  <2>2. n \in 0 .. n /\ ~(n < Len(r))
    OBVIOUS
  <2>3. QED
    BY <2>1, <2>2
<1>4. PICK m : m = CHOOSE k \in 0 .. Len(r) : P(k)
  OBVIOUS
<1>5. m \in 0 .. n /\ P(m)
  <2> HIDE DEF P
  <2>1. QED
    BY <1>3, <1>4
<1>6. UpTo(r, t) = SubSeq(r, 1, m)
  BY <1>4 DEF UpTo
<1>7. \A i \in 1 .. n : r[i].ts <= t <=> i <= m
  <2>1. TAKE i \in 1 .. n
  <2>2. CASE i <= m
    BY <1>5, <2>2
  <2>3. CASE ~(i <= m)
    <3>1. m + 1 \in 1 .. n /\ m + 1 <= i /\ m < Len(r)
      BY <1>5, <2>3
    <3>2. r[m + 1].ts > t /\ r[m + 1].ts <= r[i].ts /\ r[i].ts \in Int /\ r[m + 1].ts \in Int
      BY <1>5, <3>1
    <3>3. QED
      BY <2>3, <3>2
  <2>4. QED
    BY <2>2, <2>3
<1>8. DOMAIN r = 1 .. n
  OBVIOUS
<1>9. QED
  BY <1>5, <1>6, <1>7, <1>8 DEF Until

(***************************************************************************)
(* A slice of the events: from some event on and until some time.          *)
(***************************************************************************)
InOrder(e, n) ==
  /\ \A i \in 1 .. n : e[i].ts \in Int
  /\ \A i, j \in 1 .. n : i <= j => e[i].ts <= e[j].ts

Sliced(e, n, from, x, m, t) ==
  /\ DOMAIN e = 1 .. n /\ m \in 0 .. n - from /\ Len(x) = m
  /\ \A i \in 1 .. m : x[i] = e[from + i]
  /\ \A i \in 1 .. n : from < i => (e[i].ts <= t <=> i <= from + m)

LEMMA SubSeqIs ==
  ASSUME NEW S, NEW e \in Seq(S), NEW a \in Nat, NEW b \in Nat, a <= b + 1, b <= Len(e), a >= 1
  PROVE  /\ SubSeq(e, a, b) \in Seq(S) /\ Len(SubSeq(e, a, b)) = b + 1 - a
         /\ \A i \in 1 .. b + 1 - a : SubSeq(e, a, b)[i] = e[a + i - 1]
  OBVIOUS

LEMMA SliceIs ==
  ASSUME NEW S, NEW e \in Seq(S), NEW n \in Nat, Len(e) = n, InOrder(e, n), NEW t \in Int,
         NEW from \in 0 .. n, NEW x, x = UpTo(SubSeq(e, from + 1, n), t)
  PROVE  x \in Seq(S) /\ \E m : Sliced(e, n, from, x, m, t)
<1> DEFINE r == SubSeq(e, from + 1, n)
<1>1. PICK k \in Nat : k = n - from
  OBVIOUS
<1>2. r \in Seq(S) /\ Len(r) = k /\ \A i \in 1 .. k : r[i] = e[from + i]
  <2>1. /\ from + 1 \in Nat /\ from + 1 <= n + 1 /\ n <= Len(e) /\ from + 1 >= 1
        /\ n + 1 - (from + 1) = k
    BY <1>1
  <2>2. r \in Seq(S) /\ Len(r) = k /\ \A i \in 1 .. k : r[i] = e[from + 1 + i - 1]
    BY <2>1, SubSeqIs
  <2>3. \A i \in 1 .. k : from + 1 + i - 1 = from + i
    OBVIOUS
  <2>4. QED
    BY <2>2, <2>3
<1> HIDE DEF r
<1>3. \A i \in 1 .. k : from + i \in 1 .. n
  BY <1>1
<1>4. \A i \in 1 .. k : r[i].ts \in Int
  BY <1>2, <1>3 DEF InOrder
<1>5. \A i, j \in 1 .. k : i <= j => r[i].ts <= r[j].ts
  <2>1. TAKE i, j \in 1 .. k
  <2>2. HAVE i <= j
  <2>3. from + i <= from + j /\ from + i \in 1 .. n /\ from + j \in 1 .. n
    BY <1>3, <2>2
  <2>4. QED
    BY <1>2, <2>3 DEF InOrder
<1>6. PICK m : Until(r, k, UpTo(r, t), m, t)
  BY <1>2, <1>4, <1>5, UpToIs
<1>7. m \in 0 .. k /\ x = SubSeq(r, 1, m) /\ \A i \in 1 .. k : r[i].ts <= t <=> i <= m
  BY <1>6 DEF Until, r
<1>8. x \in Seq(S) /\ Len(x) = m /\ \A i \in 1 .. m : x[i] = r[i]
  <2>1. /\ m \in Nat /\ 1 <= m + 1 /\ m <= Len(r) /\ 1 \in Nat /\ 1 >= 1 /\ m + 1 - 1 = m
        /\ \A i \in 1 .. m : 1 + i - 1 = i
    BY <1>2, <1>7
  <2>2. QED
    BY <1>2, <1>7, <2>1, SubSeqIs
<1>9. \A i \in 1 .. m : x[i] = e[from + i]
  BY <1>2, <1>7, <1>8
<1>10. \A i \in 1 .. n : from < i => (e[i].ts <= t <=> i <= from + m)
  <2>1. TAKE i \in 1 .. n
  <2>2. HAVE from < i
  <2>3. PICK j \in 1 .. k : i = from + j
    <3>1. i - from \in 1 .. k /\ i = from + (i - from)
      BY <1>1, <2>2
    <3>2. QED
      BY <3>1
  <2>4. e[i].ts <= t <=> j <= m
    BY <1>2, <1>7, <2>3
  <2>5. i <= from + m <=> j <= m
    BY <1>7, <2>3
  <2>6. QED
    BY <2>4, <2>5
<1>11. DOMAIN e = 1 .. n /\ m \in 0 .. n - from
  BY <1>1, <1>7
<1>12. QED
  BY <1>8, <1>9, <1>10, <1>11 DEF Sliced

\* What a replay of it shows of a level, with the message y.
Truthful(d, from, x, y, l) ==
  \/ d = scaled_qty(y.book[l])
  \/ l \in y.short /\ d < scaled_qty(y.book[l])
  \/ from > 0 /\ d = 0 /\ \A i \in DOMAIN x : x[i].level = l => x[i].event # "add"

LEMMA SliceShows ==
  ASSUME NEW c, NEW e, NEW n \in Nat, InOrder(e, n), \A i \in 1 .. n : e[i].ts \in Nat /\ e[i].qty \in Nat,
         NEW from \in 0 .. n, NEW x \in Seq(RowsUntil(c)), NEW m, NEW y, y.ts \in Nat,
         Sliced(e, n, from, x, m, y.ts), NEW l, Agree(e, prints, y, l)
  PROVE  Truthful(Resting(Replay(x, AllEvents), l), from, x, y, l)
<1> DEFINE q == Replay(x, AllEvents)
           d == Resting(q, l)
<1>1. /\ DOMAIN e = 1 .. n /\ m \in 0 .. n - from /\ m \in Nat /\ Len(x) = m
      /\ \A i \in 1 .. m : x[i] = e[from + i]
      /\ \A i \in 1 .. n : from < i => (e[i].ts <= y.ts <=> i <= from + m)
  BY DEF Sliced
<1>2. PICK src : Traces(q, x, m, src)
  BY <1>1, Replayed
<1> HIDE DEF q
<1>3. \A i \in 1 .. m : from + i \in 1 .. n /\ from < from + i /\ e[from + i].ts <= y.ts
  <2>1. TAKE i \in 1 .. m
  <2>2. from + i \in 1 .. n /\ from < from + i /\ from + i <= from + m
    BY <1>1
  <2>3. QED
    BY <1>1, <2>2
<1>4. \A i \in 1 .. m : /\ x[i] = e[from + i]
                        /\ AddsTo(x, i, l) <=> AddsTo(e, from + i, l)
  BY <1>1 DEF AddsTo
<1>5. ASSUME NEW i \in 1 .. m, GoneBy(e, from + i, y.ts)
      PROVE  CancelledLater(x, m, i)
  <2>1. PICK a \in 1 .. n : a = from + i
    BY <1>3
  <2>2. PICK k \in 1 .. n : Is(e, k, "cancel", e[a].id) /\ e[a].ts < e[k].ts /\ e[k].ts <= y.ts
    BY <1>1, <1>5, <2>1 DEF GoneBy
  <2>3. a < k
    <3>1. e[a].ts \in Nat /\ e[k].ts \in Nat
      OBVIOUS
    <3>2. k <= a => e[k].ts <= e[a].ts
      BY DEF InOrder
    <3>3. QED
      BY <2>2, <3>1, <3>2
  <2>4. k <= from + m
    BY <1>1, <2>1, <2>2, <2>3
  <2>5. PICK j \in 1 .. m : k = from + j /\ i < j
    <3>1. k - from \in 1 .. m /\ k = from + (k - from) /\ i < k - from
      BY <1>1, <2>1, <2>3, <2>4
    <3>2. QED
      BY <3>1
  <2>6. x[j] = e[k] /\ x[i] = e[a]
    BY <1>4, <2>1, <2>5
  <2>7. Is(x, j, "cancel", x[i].id)
    BY <2>2, <2>6 DEF Is
  <2>8. QED
    BY <2>5, <2>7 DEF CancelledLater
<1>6. CASE scaled_qty(y.book[l]) = 0 /\ Nothing(e, y.ts, l)
  <2>1. \A i \in 1 .. m : AddsTo(x, i, l) => CancelledLater(x, m, i)
    BY <1>1, <1>3, <1>4, <1>5, <1>6 DEF Nothing
  <2>2. d = 0
    BY <1>1, <1>2, <2>1, NoneLeft
  <2>3. QED
    BY <1>6, <2>2 DEF Truthful, q
<1>7. ASSUME NEW a \in 1 .. n, Stands(e, a, y.ts, l), e[a].qty = scaled_qty(y.book[l]),
             \A t \in Nat : TradedIn(e, prints, l, t) /\ e[a].ts <= t /\ t <= y.ts => l \in y.short
      PROVE  Truthful(d, from, x, y, l)
  <2>1. \A j \in 1 .. m : AddsTo(x, j, l) /\ from + j # a =>
          e[from + j].ts < e[a].ts /\ CancelledLater(x, m, j)
    BY <1>1, <1>3, <1>4, <1>5, <1>7 DEF Stands
  <2>2. CASE from < a
    <3>1. a <= from + m
      BY <1>1, <1>7, <2>2 DEF Stands
    <3>2. PICK i \in 1 .. m : a = from + i
      <4>1. a - from \in 1 .. m /\ a = from + (a - from)
        BY <1>1, <2>2, <3>1
      <4>2. QED
        BY <4>1
    <3>3. AddsTo(x, i, l) /\ x[i] = e[a]
      BY <1>4, <1>7, <3>2 DEF Stands
    <3>4. \A j \in 1 .. m : AddsTo(x, j, l) /\ j # i => CancelledLater(x, m, j)
      <4>1. \A j \in 1 .. m : j # i => from + j # a
        BY <3>2
      <4>2. QED
        BY <2>1, <4>1
    <3>5. /\ d \in Nat /\ d <= x[i].qty
          /\ \/ d = x[i].qty
             \/ CancelledLater(x, m, i)
             \/ \E j \in 1 .. m : i < j /\ x[j].event = "trade" /\ x[j].level = l
      <4>1. Alone(x, m, i, l)
        BY <3>3, <3>4 DEF Alone
      <4>2. LeftBy(d, x, m, i, l)
        BY <1>1, <1>2, <4>1, OneLeft
      <4>3. QED
        BY <4>2 DEF LeftBy
    <3>6. ~CancelledLater(x, m, i)
      <4>1. SUFFICES ASSUME NEW j \in 1 .. m, Is(x, j, "cancel", x[i].id) PROVE FALSE
        BY DEF CancelledLater
      <4>2. Is(e, from + j, "cancel", e[a].id) /\ e[from + j].ts <= y.ts /\ from + j \in DOMAIN e
        BY <1>1, <1>3, <1>4, <3>3, <4>1 DEF Is
      <4>3. QED
        BY <1>7, <4>2 DEF Stands
    <3>7. ASSUME NEW j \in 1 .. m, i < j, x[j].event = "trade", x[j].level = l
          PROVE  l \in y.short
      <4>1. PICK b \in 1 .. n : b = from + j /\ a <= b
        <5>1. from + j \in 1 .. n /\ a <= from + j
          BY <1>3, <3>2, <3>7
        <5>2. QED
          BY <5>1
      <4>2. x[j] = e[b] /\ e[b].ts <= y.ts
        BY <1>3, <1>4, <4>1
      <4>3. e[a].ts <= e[b].ts /\ e[b].ts \in Nat
        BY <4>1 DEF InOrder
      <4>4. TradedIn(e, prints, l, e[b].ts)
        BY <1>1, <3>7, <4>2 DEF TradedIn
      <4>5. QED
        BY <1>7, <4>2, <4>3, <4>4
    <3>8. d = e[a].qty \/ l \in y.short
      BY <3>3, <3>5, <3>6, <3>7
    <3>9. d <= e[a].qty /\ d \in Nat /\ e[a].qty \in Nat
      BY <3>3, <3>5
    <3> HIDE DEF d
    <3>10. d = e[a].qty \/ (l \in y.short /\ d < e[a].qty)
      BY <3>8, <3>9
    <3>11. QED
      BY <1>7, <3>10 DEF Truthful
  <2>3. CASE ~(from < a)
    <3>1. from > 0
      BY <2>3
    <3>2. \A j \in 1 .. m : ~AddsTo(x, j, l)
      <4>1. SUFFICES ASSUME NEW j \in 1 .. m, AddsTo(x, j, l) PROVE FALSE
        OBVIOUS
      <4>2. PICK b \in 1 .. n : b = from + j /\ a < b
        <5>1. from + j \in 1 .. n /\ a < from + j
          BY <1>3, <2>3
        <5>2. QED
          BY <5>1
      <4>3. e[b].ts < e[a].ts
        BY <2>1, <4>1, <4>2
      <4>4. e[a].ts <= e[b].ts /\ e[a].ts \in Nat /\ e[b].ts \in Nat
        BY <4>2 DEF InOrder
      <4>5. QED
        BY <4>3, <4>4
    <3>3. d = 0
      BY <1>1, <1>2, <3>2, NoneLeft
    <3>4. DOMAIN x = 1 .. m
      BY <1>1
    <3>5. QED
      BY <3>1, <3>2, <3>3, <3>4 DEF Truthful, AddsTo
  <2>4. QED
    BY <2>2, <2>3
<1>8. CASE \E a \in 1 .. n :
             /\ Stands(e, a, y.ts, l) /\ e[a].qty = scaled_qty(y.book[l])
             /\ \A t \in Nat : TradedIn(e, prints, l, t) /\ e[a].ts <= t /\ t <= y.ts => l \in y.short
  BY <1>7, <1>8 DEF q
<1>9. QED
  BY <1>1, <1>6, <1>8, Zenon DEF Agree

LEMMA WholeIs ==
  ASSUME NEW S, NEW e \in Seq(S)
  PROVE  SubSeq(e, 0 + 1, Len(e)) = e
  OBVIOUS

\* From wherever a replay starts, it is truthful at every message.
LEMMA SlicesHold ==
  ASSUME FeedSound, LoadedSound, MessagesSound, EventsSound, Loaded,
         NEW from \in 0 .. Len(events), NEW m \in DOMAIN told, NEW x,
         x = UpTo(SubSeq(events, from + 1, Len(events)), told[m].ts), NEW l \in Levels
  PROVE  Truthful(Depth(x, AllEvents)[l], from, x, told[m], l)
<1>1. clock \in Nat /\ events \in Seq(RowsUntil(clock)) /\ told \in Seq(Messages(clock))
  BY ClockIs DEF EventsSound, MessagesSound, Stamped
<1>2. told[m] \in Messages(clock)
  <2> DEFINE S == Messages(clock)
  <2> HIDE DEF S
  <2>1. told \in Seq(S)
    BY <1>1 DEF S
  <2>2. told[m] \in S
    BY <2>1
  <2>3. QED
    BY <2>2 DEF S
<1>3. told[m].ts \in Nat
  BY <1>1, <1>2 DEF Messages
<1>4. PICK n \in Nat : n = Len(events) /\ DOMAIN events = 1 .. n
  BY <1>1
<1>5. \A i \in 1 .. n : events[i] \in RowsUntil(clock)
  <2> DEFINE S == RowsUntil(clock)
  <2> HIDE DEF S
  <2>1. events \in Seq(S)
    BY <1>1 DEF S
  <2>2. \A i \in 1 .. n : events[i] \in S
    BY <1>4, <2>1
  <2>3. QED
    BY <2>2 DEF S
<1>6. \A i \in 1 .. n : events[i].ts \in Nat /\ events[i].qty \in Nat
  BY <1>1, <1>5 DEF RowsUntil
<1>7. InOrder(events, n)
  BY <1>4 DEF LoadedSound, InOrder
<1>8. from \in 0 .. n /\ x = UpTo(SubSeq(events, from + 1, n), told[m].ts)
  BY <1>4
<1>9. x \in Seq(RowsUntil(clock)) /\ \E k : Sliced(events, n, from, x, k, told[m].ts)
  <2> DEFINE S == RowsUntil(clock)
  <2> HIDE DEF S
  <2>1. events \in Seq(S) /\ Len(events) = n /\ told[m].ts \in Int
    BY <1>1, <1>3, <1>4 DEF S
  <2>2. x \in Seq(S) /\ \E k : Sliced(events, n, from, x, k, told[m].ts)
    BY <1>7, <1>8, <2>1, SliceIs
  <2>3. QED
    BY <2>2 DEF S
<1>10. PICK k : Sliced(events, n, from, x, k, told[m].ts)
  BY <1>9
<1>11. Agree(events, prints, told[m], l)
  BY DEF EventsSound
<1>12. Truthful(Resting(Replay(x, AllEvents), l), from, x, told[m], l)
  BY <1>3, <1>6, <1>7, <1>8, <1>9, <1>10, <1>11, SliceShows
<1>13. Depth(x, AllEvents)[l] = Resting(Replay(x, AllEvents), l)
  BY DEF Depth
<1>14. QED
  BY <1>12, <1>13

LEMMA TruthfulWhenSound ==
  FeedSound /\ LoadedSound /\ MessagesSound /\ EventsSound => ReplaysAreTruthful
<1> SUFFICES ASSUME FeedSound, LoadedSound, MessagesSound, EventsSound, Loaded
             PROVE  LoadedDepthHolds /\ SlicesAreTruthful
  BY DEF ReplaysAreTruthful, LoadedDepthHolds, SlicesAreTruthful
<1>1. PICK n \in Nat : n = Len(events)
  BY DEF EventsSound
<1>2. SubSeq(events, 0 + 1, Len(events)) = events
  <2> DEFINE S == RowsUntil(clock)
  <2> HIDE DEF S
  <2>1. events \in Seq(S)
    BY DEF EventsSound, S
  <2>2. QED
    BY <2>1, WholeIs
<1>3. LoadedDepthHolds
  <2>1. SUFFICES ASSUME NEW m \in DOMAIN told, NEW l \in Levels
                 PROVE  LET d == Depth(UpTo(events, told[m].ts), AllEvents)
                        IN \/ d[l] = scaled_qty(told[m].book[l])
                           \/ l \in told[m].short /\ d[l] < scaled_qty(told[m].book[l])
    BY DEF LoadedDepthHolds
  <2>2. 0 \in 0 .. Len(events)
    BY <1>1
  <2>3. PICK x : x = UpTo(events, told[m].ts)
    OBVIOUS
  <2>4. x = UpTo(SubSeq(events, 0 + 1, Len(events)), told[m].ts)
    BY <1>2, <2>3
  <2>5. Truthful(Depth(x, AllEvents)[l], 0, x, told[m], l)
    BY <2>2, <2>4, SlicesHold
  <2>6. QED
    BY <2>3, <2>5 DEF Truthful
<1>4. SlicesAreTruthful
  <2>1. SUFFICES ASSUME NEW from \in 0 .. Len(events), NEW m \in DOMAIN told, NEW l \in Levels
                 PROVE  LET seen == UpTo(SubSeq(events, from + 1, Len(events)), told[m].ts)
                            d == Depth(seen, AllEvents)
                        IN \/ d[l] = scaled_qty(told[m].book[l])
                           \/ l \in told[m].short /\ d[l] < scaled_qty(told[m].book[l])
                           \/ d[l] = 0 /\ \A i \in DOMAIN seen :
                                seen[i].level = l => seen[i].event # "add"
    BY DEF SlicesAreTruthful
  <2>2. PICK x : x = UpTo(SubSeq(events, from + 1, Len(events)), told[m].ts)
    OBVIOUS
  <2>3. Truthful(Depth(x, AllEvents)[l], from, x, told[m], l)
    BY <2>2, SlicesHold
  <2>4. QED
    BY <2>2, <2>3 DEF Truthful
<1>5. QED
  BY <1>3, <1>4

\* A replay of the recording, or of a slice of it, never shows volume that was
\* not there, for every exchange, book depth, tick size and number of
\* connections, and shows less only where a trade or the cut explains it.
THEOREM ReplaysTruthful == Spec => []ReplaysAreTruthful
  BY TruthfulWhenSound, FeedIsSound, LoadedIsSound, MessagesAreSound, EventsAreSound, PTL
=============================================================================

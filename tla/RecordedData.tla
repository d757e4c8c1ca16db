---------------------------- MODULE RecordedData ----------------------------
(***************************************************************************)
(* What becomes of a recording: fetch_okx writes the rows to a file,       *)
(* load_l2 (data/crypto_l2.py) reads and sorts them, partition_events cuts *)
(* them, and Dataset (data/dataset.py) hands out slices, each of which a   *)
(* simulator replays on an empty book.                                     *)
(***************************************************************************)
EXTENDS DepthFeed, Splits

CONSTANTS
  Fractions,  \* bound: (train, val, embargo) of a configuration, in percent
  NWindows    \* bound: walk_forward_windows and folds

ASSUME FractionsAssumption ==
  \A f \in Fractions : f.train \in 0 .. 100 /\ f.val \in 0 .. 100 /\ f.embargo \in 0 .. 100
ASSUME WindowsAssumption == NWindows \in Nat

VARIABLES
  events,  \* Dataset._events
  bounds,  \* Dataset._bounds, <<>> before there is a dataset
  cut      \* embargo, for the properties

vars == <<feedVars, events, bounds, cut>>

Init ==
  /\ FeedInit
  /\ events = <<>>
  /\ bounds = <<>>
  /\ cut = 0

Feed ==
  /\ ExchangeStep \/ RecorderStep
  /\ UNCHANGED <<events, bounds, cut>>

\* Mutant: the rows are taken in the order of their arrival.
AsReceived(rs) == rs

\* DataFrame.sort("ts"): row i comes after the rows with a lesser timestamp and,
\* of those with its own, after the ones received before it.
sorted(rs) ==
  LET place(i) == Cardinality({j \in DOMAIN rs : \/ rs[j].ts < rs[i].ts
                                                 \/ rs[j].ts = rs[i].ts /\ j <= i})
  IN [k \in DOMAIN rs |-> rs[CHOOSE i \in DOMAIN rs : place(i) = k]]

\* load_l2 on the file fetch_okx wrote; without a row neither succeeds.
load_l2 ==
  /\ conn = "returned"
  /\ conn' = "loaded"
  /\ Len(rows) \in Nat \ {0}
  /\ events' = sorted(rows)
  /\ \E f \in Fractions :
       \E embargo \in Truncated(Len(rows) * f.embargo, 100),
          n_train \in Truncated(Len(rows) * f.train, 100),
          n_val \in Truncated(Len(rows) * f.val, 100) :
         /\ bounds' = partition_events(Len(rows), n_train, n_val, embargo)
         /\ cut' = embargo
  /\ UNCHANGED <<exchangeVars, depthVars, rows, last_err, told>>

\* The sort need not keep the order of rows with the same timestamp.
Ties ==
  /\ conn = "loaded"
  /\ \E i \in 1 .. Len(events) - 1 :
       /\ events[i].ts = events[i + 1].ts
       /\ events[i].event # events[i + 1].event
       /\ events' = [events EXCEPT ![i] = events[i + 1], ![i + 1] = events[i]]
  /\ UNCHANGED <<feedVars, bounds, cut>>

Next == Feed \/ load_l2 \/ Ties

Spec == Init /\ [][Next]_vars

(***************************************************************************)
(* The book a simulator has after a slice: the orders that were added,     *)
(* oldest first, with what is left of each.  A cancel of an order that is  *)
(* not there does nothing, a trade takes from the front of its level       *)
(* (sim/python_sim.py).                                                    *)
(***************************************************************************)
Resting(q, l) ==
  LET sum[k \in 0 .. Len(q)] ==
        IF k = 0 THEN 0 ELSE IF q[k].level = l THEN sum[k - 1] + q[k].qty ELSE sum[k - 1]
  IN sum[Len(q)]

\* What a trade of the given quantity leaves of the k-th order.
LeftOf(q, k, trade) ==
  LET ahead == Resting(SubSeq(q, 1, k - 1), trade.level)
  IN IF q[k].level # trade.level THEN q[k].qty
     ELSE q[k].qty - min(q[k].qty, IF ahead >= trade.qty THEN 0 ELSE trade.qty - ahead)

apply_event(q, e) ==
  CASE e.event = "add" -> Append(q, [id |-> e.id, level |-> e.level, qty |-> e.qty])
    [] e.event = "cancel" -> [k \in DOMAIN q |-> IF q[k].id = e.id THEN [q[k] EXCEPT !.qty = 0]
                                                                   ELSE q[k]]
    [] e.event = "trade" -> [k \in DOMAIN q |-> [q[k] EXCEPT !.qty = LeftOf(q, k, e)]]

AddsAndCancels == {"add", "cancel"}
AllEvents == AddsAndCancels \cup {"trade"}

\* The book after the events of the given kinds.
Replay(slice, kinds) ==
  LET after[k \in 0 .. Len(slice)] ==
        IF k = 0 THEN <<>>
        ELSE IF slice[k].event \in kinds THEN apply_event(after[k - 1], slice[k])
                                        ELSE after[k - 1]
  IN after[Len(slice)]

Depth(slice, kinds) ==
  LET q == Replay(slice, kinds)
  IN [l \in Levels |-> Resting(q, l)]

\* The events of a slice up to a time: a simulator that has come to it has gone
\* on until the next event is later.
UpTo(slice, ts) ==
  LET idx == CHOOSE n \in 0 .. Len(slice) : /\ \A i \in 1 .. n : slice[i].ts <= ts
                                            /\ n < Len(slice) => slice[n + 1].ts > ts
  IN SubSeq(slice, 1, idx)

\* bisect_right(_ts, ts, lo, hi): halving the n indices from a.
bisect_right(ts, lo, hi) ==
  LET halve[n \in 0 .. hi - lo] ==
        [a \in Nat |->
           IF n = 0 THEN a
           ELSE LET half == n \div 2
                IN IF ts < events[a + half + 1].ts THEN halve[half][a]
                   ELSE halve[n - half - 1][a + half + 1]]
  IN halve[hi - lo][lo]

\* Mutant: the search does not stop at the end of the partition.
PastPartition(p, ts) == bounds[p].from .. bisect_right(ts, bounds[p].from, Len(events)) - 1

\* as_of, as the indices of the events it returns.
as_of(p, ts) == bounds[p].from .. bisect_right(ts, bounds[p].from, bounds[p].to) - 1

Loaded == conn = "loaded"

-----------------------------------------------------------------------------
\* Type invariant.
TypeOK ==
  /\ clock \in 1 .. MaxClock
  /\ book \in Book
  /\ pushed \in Book \cup {<<>>}
  /\ \A i \in DOMAIN prints : prints[i].ts \in 1 .. clock /\ prints[i].level \in Levels
  /\ conn \in {"connecting", "open", "raised", "returned", "loaded"}
  /\ level_id \in [Levels -> 0 .. next_id - 1]
  /\ \A i \in DOMAIN rows :
       /\ rows[i].ts \in 1 .. clock
       /\ rows[i].event \in {"add", "cancel", "trade"}
       /\ rows[i].level \in Levels
       /\ rows[i].event # "cancel" => rows[i].qty > 0
  /\ last_err \in BOOLEAN
  /\ Loaded => Len(events) = Len(rows)

\* "A CANCEL correctly refers to an ADD": in the order in which rows are
\* written, a cancel names an order that was added to its level and is not
\* cancelled yet, and no two orders share an identifier, in spite of
\* snapshots, sizes that round away and new connections.
CancelsNameOrders ==
  \A j \in DOMAIN rows :
    LET before(event) == {i \in 1 .. j - 1 : rows[i].event = event /\ rows[i].id = rows[j].id}
    IN /\ rows[j].event = "add" => before("add") = {}
       /\ rows[j].event = "cancel" =>
            /\ before("cancel") = {}
            /\ \E i \in before("add") : rows[i].level = rows[j].level

\* The file as written: well-formed rows, whose cancels name orders.
FeedInv == TypeOK /\ CancelsNameOrders

\* The aggregate depth is right whenever a depth message was handled: what is
\* written so far, prints aside, adds up to what the exchange sent, however
\* many connections it took, so that nothing lingers as orphan liquidity.
DepthIsRebuilt ==
  pushed # <<>> =>
    LET d == Depth(rows, AddsAndCancels)
    IN \A l \in Levels : d[l] = scaled_qty(pushed[l])

\* After loading, at the time of every depth message, whatever order equal
\* timestamps came out in and however late the prints arrived: the replay
\* shows the exchange's book, except that it may show less at a level that was
\* traded and refilled between two messages, or traded in the very millisecond
\* of the message that includes the trade.
LoadedDepthHolds ==
  Loaded => \A m \in DOMAIN told :
    LET d == Depth(UpTo(events, told[m].ts), AllEvents)
    IN \A l \in Levels :
         \/ d[l] = scaled_qty(told[m].book[l])
         \/ l \in told[m].short /\ d[l] < scaled_qty(told[m].book[l])

\* A partition or a walk-forward window is replayed on an empty book, where
\* most of its cancels name orders of an earlier slice.  It shows less than
\* there is but never anything else: at every depth message it contains, a level
\* has its true depth if the slice added to it, and none otherwise.
SlicesAreTruthful ==
  Loaded => \A from \in 0 .. Len(events) : \A m \in DOMAIN told :
    LET seen == UpTo(SubSeq(events, from + 1, Len(events)), told[m].ts)
        d == Depth(seen, AllEvents)
    IN \A l \in Levels :
         \/ d[l] = scaled_qty(told[m].book[l])
         \/ l \in told[m].short /\ d[l] < scaled_qty(told[m].book[l])
         \/ d[l] = 0 /\ \A i \in DOMAIN seen : seen[i].level = l => seen[i].event # "add"

\* A replay, of the whole or from the middle, never shows volume that was not
\* there, whatever arrived late and however ties were sorted.
ReplaysAreTruthful == LoadedDepthHolds /\ SlicesAreTruthful

\* as_of never returns a later event, and leaves out no earlier one of the
\* partition: bisect_right needs the order that loading established.
AsOfIsPointInTime ==
  Loaded => \A p \in DOMAIN bounds, ts \in 0 .. MaxClock :
    as_of(p, ts) = {i \in Indices(bounds[p]) : events[i + 1].ts <= ts}

\* Partitions keep the embargo: between an event of one and an event of a
\* later one lie at least that many events of neither.
PartitionsKeepEmbargo ==
  Loaded => LET apart(p, q) ==
                  \A i \in Indices(bounds[p]), j \in Indices(bounds[q]) : j - i > cut
            IN /\ apart("train", "validation")
               /\ apart("train", "holdout")
               /\ apart("validation", "holdout")

\* The windows of the holdout do not overlap, and what they leave out is less
\* than two events for each window that is skipped; the test blocks of the
\* folds are disjoint and leave out nothing.
CutsTile ==
  Loaded =>
    /\ LET m == bounds["holdout"].to - bounds["holdout"].from
       IN \A k \in 1 .. NWindows : \A b \in WindowBounds(m, k) :
            LET ws == Windows(b)
            IN /\ \A v, w \in ws : v # w => Indices(v) \cap Indices(w) = {}
               /\ Cardinality((0 .. m - 1) \ UNION {Indices(w) : w \in ws}) <= k - Cardinality(ws)
    /\ \A k \in 2 .. min(Len(events), NWindows + 1) :
         LET test(i) == Fold(Len(events), k, cut, i).test
         IN /\ UNION {test(i) : i \in 0 .. k - 1} = 0 .. Len(events) - 1
            /\ \A i, j \in 0 .. k - 1 : i # j => test(i) \cap test(j) = {}

\* No fold trains on its test block or on an event within the embargo after one
\* of the block.  (The holdout ends where the events end.)
FoldsArePurged ==
  Loaded => \A k \in 2 .. bounds["holdout"].to : \A i \in 0 .. k - 1 :
    LET f == Fold(bounds["holdout"].to, k, cut, i)
    IN \A s \in f.test, t \in f.train : t < s \/ t > s + cut

\* Nothing is learnt within the embargo of what it is tested on, across
\* partitions and within folds.
CutsKeepEmbargo == PartitionsKeepEmbargo /\ FoldsArePurged
=============================================================================

----------------------------- MODULE DepthFeed -----------------------------
(***************************************************************************)
(* _DepthToEvents and record_okx_async (data/okx.py): the depth and trade  *)
(* messages of an exchange become rows of single synthetic orders, one for *)
(* each price level, through dropped connections and new snapshots.        *)
(*                                                                         *)
(* Levels are 1, 2, ... in the order in which on_book visits them (bids,   *)
(* then asks).  A size is a number of half units: qty_scale and round()    *)
(* turn it into an integer, half to even, so that the size 1 rounds away.  *)
(*                                                                         *)
(* The exchange is external.  It sends a snapshot when the subscription    *)
(* begins, then the levels whose size is another one than it sent last,    *)
(* and a print of every trade, which may arrive after depth messages that  *)
(* include it.  No two changes of its book share a millisecond.  Assumed:  *)
(* its depth messages are well-formed.  One that makes on_book raise half- *)
(* way changes level_id and writes no row, and nothing below holds of it.  *)
(***************************************************************************)
EXTENDS Integers, SequencesExt

CONSTANTS
  NLevels,    \* price levels
  Sizes,      \* bound: sizes of a level, in half units
  Openings,   \* bound: what the book may be at first
  MaxEvents,  \* max_events
  MaxClock    \* bound: what happens at the exchange

ASSUME LevelsAssumption == NLevels \in Nat \ {0}

Levels == 1 .. NLevels
Book == [Levels -> Sizes]

ASSUME BoundsAssumption ==
  /\ Sizes \subseteq Nat /\ Openings \subseteq Book /\ MaxEvents \in Nat
  /\ MaxClock \in Nat \ {0}

VARIABLES
  \* The exchange.
  clock,     \* its time
  book,      \* the size of each level
  pushed,    \* what the depth messages of this connection add up to, or <<>>
  prints,    \* trades sent and not received
  \* The recorder.
  conn,      \* where record_okx_async is
  level_id,  \* the synthetic order of each level, 0 if it has none
  next_id,
  rows,
  last_err,  \* whether a connection failed
  \* History, for the properties.
  told,      \* the depth messages received
  traded     \* prints sent since the last depth message

exchangeVars == <<clock, book, pushed, prints, traded>>
depthVars == <<level_id, next_id>>
feedVars == <<exchangeVars, conn, depthVars, rows, last_err, told>>

FeedInit ==
  /\ clock = 1
  /\ book \in Openings
  /\ pushed = <<>>
  /\ prints = <<>>
  /\ conn = "connecting"
  /\ level_id = [l \in Levels |-> 0]
  /\ next_id = 1
  /\ rows = <<>>
  /\ last_err = FALSE
  /\ told = <<>>
  /\ traded = {}

(***************************************************************************)
(* _DepthToEvents.  A converter is a record of the level map, the next     *)
(* identifier and the rows written so far.                                 *)
(***************************************************************************)

\* int(round(size * qty_scale)), half to even.
scaled_qty(size) == (size \div 2) + (IF size % 4 = 3 THEN 1 ELSE 0)

Row(ts, event, l, qty, id) ==
  [ts |-> ts, event |-> event, level |-> l, qty |-> qty, id |-> id]

emit_remove(d, ts, l) ==
  IF d.level_id[l] = 0 THEN d
  ELSE [d EXCEPT !.rows = Append(@, Row(ts, "cancel", l, 0, d.level_id[l])),
                 !.level_id[l] = 0]

Add(d, ts, l, qty) ==
  [d EXCEPT !.rows = Append(@, Row(ts, "add", l, qty, d.next_id)),
            !.level_id[l] = d.next_id,
            !.next_id = @ + 1]

\* Mutant: a size that rounds away is no change.
IgnoresDust(d, ts, l, size) ==
  IF scaled_qty(size) <= 0 THEN d
  ELSE Add(emit_remove(d, ts, l), ts, l, scaled_qty(size))

\* A size of zero and one that rounds to zero both remove the level.
emit_set(d, ts, l, size) ==
  IF scaled_qty(size) <= 0 THEN emit_remove(d, ts, l)
  ELSE Add(emit_remove(d, ts, l), ts, l, scaled_qty(size))

\* Mutant: the map is emptied without cancelling what was in it.
ForgetsLevels(d, ts) == [d EXCEPT !.level_id = [l \in Levels |-> 0]]

\* A snapshot cancels everything that is believed to rest.
drop_all(d, ts) ==
  LET after[l \in 0 .. NLevels] == IF l = 0 THEN d ELSE emit_remove(after[l - 1], ts, l)
  IN after[NLevels]

\* on_book: message maps the levels it names to their sizes.
on_book(d, ts, snapshot, message) ==
  LET after[l \in 0 .. NLevels] ==
        IF l = 0 THEN IF snapshot THEN drop_all(d, ts) ELSE d
        ELSE IF l \in DOMAIN message THEN emit_set(after[l - 1], ts, l, message[l])
             ELSE after[l - 1]
  IN after[NLevels]

\* _trade_rows: a print of a quantity that rounds away gives no row.
trade_rows(print) ==
  IF scaled_qty(print.size) <= 0 THEN <<>>
  ELSE <<Row(print.ts, "trade", print.level, scaled_qty(print.size), 0)>>

(***************************************************************************)
(* The exchange.                                                           *)
(***************************************************************************)
Tick == clock < MaxClock /\ clock' = clock + 1

\* Orders are placed or cancelled at a level.
Moves(l, size) ==
  /\ Tick
  /\ size # book[l]
  /\ book' = [book EXCEPT ![l] = size]
  /\ UNCHANGED <<pushed, prints, traded, conn, depthVars, rows, last_err, told>>

\* A trade takes volume from a level; the print goes to who is subscribed.
Trades(l, size) ==
  /\ Tick
  /\ size # 0 /\ book[l] - size \in Sizes
  /\ book' = [book EXCEPT ![l] = @ - size]
  /\ IF conn = "open"
     THEN LET print == [ts |-> clock + 1, level |-> l, size |-> size]
          IN prints' = Append(prints, print) /\ traded' = traded \cup {print}
     ELSE UNCHANGED <<prints, traded>>
  /\ UNCHANGED <<pushed, conn, depthVars, rows, last_err, told>>

(***************************************************************************)
(* record_okx_async.                                                       *)
(***************************************************************************)
Wanted == Len(rows) < MaxEvents

Opens ==
  /\ conn = "connecting"
  /\ Wanted
  /\ conn' = "open"
  /\ UNCHANGED <<exchangeVars, depthVars, rows, last_err, told>>

\* A connection that cannot be opened, a reset, an error message: pause, so
\* that time passes, and connect again.  What the exchange had sent is lost.
Drops ==
  /\ conn \in {"connecting", "open"}
  /\ Wanted
  /\ Tick
  /\ conn' = "connecting"
  /\ last_err' = TRUE
  /\ pushed' = <<>>
  /\ prints' = <<>>
  /\ traded' = {}
  /\ UNCHANGED <<book, depthVars, rows, told>>

\* Levels that traded and are back at the size the exchange sent last: the
\* message does not name them, the prints take from them.
Refilled == {l \in Levels : pushed # <<>> /\ book[l] = pushed[l]
                            /\ \E p \in traded : p.level = l}

\* Levels whose size in the message follows a trade of its own millisecond.
SameTime == {p.level : p \in {q \in traded : q.ts = clock}}

\* Where a replay of prints on top of a message about the given levels may
\* show less than the exchange has.
Short(levels) ==
  ((IF pushed = <<>> THEN {} ELSE Last(told).short \cup Refilled) \ levels) \cup SameTime

\* Mutant: each connection has a converter of its own.
ReceivesAfresh(snapshot, message) ==
  LET d == on_book([level_id |-> level_id,
                    next_id |-> IF snapshot THEN 1 ELSE next_id, rows |-> rows],
                   clock, snapshot, message)
  IN rows' = d.rows /\ level_id' = d.level_id /\ next_id' = d.next_id

\* _handle_message on a depth message.
Receives(snapshot, message) ==
  LET d == on_book([level_id |-> level_id, next_id |-> next_id, rows |-> rows],
                   clock, snapshot, message)
  IN rows' = d.rows /\ level_id' = d.level_id /\ next_id' = d.next_id

DepthMessage ==
  LET message == IF pushed = <<>> THEN book
                 ELSE Restrict(book, {l \in Levels : book[l] # pushed[l]})
  IN /\ conn = "open"
     /\ Wanted
     /\ DOMAIN message # {}
     /\ Receives(pushed = <<>>, message)
     /\ pushed' = book
     /\ traded' = {}
     /\ told' = Append(told, [ts |-> clock, book |-> book,
                              short |-> Short(DOMAIN message)])
     /\ UNCHANGED <<clock, book, prints, conn, last_err>>

\* _handle_message on a print.
TradeMessage ==
  /\ conn = "open"
  /\ Wanted
  /\ prints # <<>>
  /\ rows' = rows \o trade_rows(Head(prints))
  /\ prints' = Tail(prints)
  /\ UNCHANGED <<clock, book, pushed, traded, conn, depthVars, last_err, told>>

\* A connection may open after the deadline.  Its loop is left at once, the
\* pinger is cancelled before its first step, and the CancelledError passes
\* "except Exception": record_okx_async raises, and every row is gone.
OpensLate == conn = "connecting" /\ Wanted /\ conn' = "raised"

\* The deadline passes, or max_events is reached.
Leaves ==
  /\ conn \in {"connecting", "open"}
  /\ \/ conn' = IF rows = <<>> /\ last_err THEN "raised" ELSE "returned"
     \/ OpensLate
  /\ UNCHANGED <<exchangeVars, depthVars, rows, last_err, told>>

ExchangeStep ==
  /\ conn \in {"connecting", "open"}
  /\ \E l \in Levels, size \in Sizes : Moves(l, size) \/ Trades(l, size)

RecorderStep == Opens \/ Drops \/ DepthMessage \/ TradeMessage \/ Leaves
=============================================================================

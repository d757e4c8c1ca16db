---------------------------- MODULE PythonSimCore ----------------------------
(***************************************************************************)
(* The reference market simulator (sim/python_sim.py): a book of one FIFO  *)
(* queue per side and price, replayed from the feed's add, cancel and      *)
(* trade events, in which the strategy's own orders queue behind what      *)
(* rested before them.                                                     *)
(*                                                                         *)
(* An event or an action of the strategy is one step, the loops of         *)
(* consume, cross_or_rest and market_order go on in steps of their own     *)
(* (task says how far), and nothing else happens between them.  Timestamps *)
(* are left out: the strategy acts between two events, at any of them.     *)
(* Fees, the equity curve and its mark are left out, cash is in ticks.     *)
(***************************************************************************)
EXTENDS Integers, FiniteSets, SequencesExt

CONSTANTS
  Prices,       \* ticks
  Quantities,   \* sizes of orders and trades
  Nodes,        \* identities of queue entries
  OrderIds,     \* ids the strategy gives its limit orders
  ImpactNum,    \* impact_coeff, in ticks for each unit, is ImpactNum over
  ImpactDen,    \* ImpactDen
  MaxEvents,    \* bound: events of the feed
  MaxActions,   \* bound: actions of the strategy
  NoNode, NoPrice

ASSUME QuantitiesAssumption == Quantities \subseteq Nat \ {0}
ASSUME PricesAssumption == Prices \subseteq Nat /\ NoPrice \notin Prices
ASSUME NodesAssumption == NoNode \notin Nodes
ASSUME ImpactAssumption == ImpactNum \in Nat /\ ImpactDen \in Nat \ {0}
ASSUME BoundsAssumption == MaxEvents \in Nat /\ MaxActions \in Nat

Sides == {"buy", "sell"}
opposite(side) == IF side = "buy" THEN "sell" ELSE "buy"
sign(side) == IF side = "buy" THEN 1 ELSE -1

\* _MARKET_OWNER, 0 in the code: no strategy has used that id for an order.
Market == "market"
ASSUME OrderIdsAssumption == Market \notin OrderIds

ExtIds == 1 .. MaxEvents

VARIABLES
  levels,       \* side -> price -> queue of nodes
  market_nodes, \* external id -> its node
  our_nodes,    \* our id -> its node
  position,
  cash,
  task,         \* the order or trade in progress
  lastExt,      \* external ids handed out by the feed
  events,       \* events applied
  actions,      \* actions taken
  rested,       \* observed: what an order of ours had left when it rested
  ahead,        \* observed: volume then ahead of it that is still there
  reused,       \* observed: ids used again while an order of theirs stood
  net           \* observed: units bought from the market less units sold to it

bookVars == <<levels, market_nodes, our_nodes>>
inputVars == <<lastExt, events, actions>>
observed == <<rested, ahead, reused, net>>
vars == <<bookVars, position, cash, task, inputVars, observed>>

\* filled is what consume has taken from the level so far; depth is only
\* used by market orders.
NewTask(kind, side, price, qty, id, level) ==
  [kind |-> kind, side |-> side, price |-> price, remaining |-> qty, id |-> id,
   level |-> level, filled |-> 0, depth |-> 0]
NoTask == NewTask("none", "buy", NoPrice, 0, Market, NoPrice)

Idle == task.kind = "none"

Init ==
  /\ levels = [s \in Sides |-> [p \in Prices |-> <<>>]]
  /\ market_nodes = [x \in ExtIds |-> NoNode]
  /\ our_nodes = [o \in OrderIds |-> NoNode]
  /\ position = 0 /\ cash = 0
  /\ task = NoTask
  /\ lastExt = 0 /\ events = 0 /\ actions = 0
  /\ rested = [n \in Nodes |-> 0]
  /\ ahead = [n \in Nodes |-> {}]
  /\ reused = {}
  /\ net = 0

(***************************************************************************)
(* The book.                                                               *)
(***************************************************************************)
Queued(side, price) == ToSet(levels[side][price])
InBook == UNION {Queued(s, p) : s \in Sides, p \in Prices}
Fresh == Nodes \ {n.id : n \in InBook}

HasVolume(side, price) == \E n \in Queued(side, price) : n.qty > 0

Better(side, p, q) == IF side = "buy" THEN p > q ELSE p < q

\* best: the best price with volume; there is none if the side is empty.
best(side) ==
  {p \in Prices : /\ HasVolume(side, p)
                  /\ ~\E q \in Prices : HasVolume(side, q) /\ Better(side, q, p)}

\* Mutant: our orders go to the front of the queue.
JumpsQueue(side, price, n) ==
  levels' = [levels EXCEPT ![side][price] =
               IF n.owner = Market THEN Append(@, n) ELSE <<n>> \o @]

Enqueue(side, price, n) ==
  levels' = [levels EXCEPT ![side][price] = Append(@, n)]

\* The queues once the node called id, wherever it is, is set to zero.
Zeroed(id) ==
  [s \in Sides |-> [p \in Prices |->
    [i \in DOMAIN levels[s][p] |->
      IF levels[s][p][i].id = id
      THEN [levels[s][p][i] EXCEPT !.qty = 0] ELSE levels[s][p][i]]]]

\* Node id has no volume any more.
Forget(id) ==
  /\ ahead' = [n \in Nodes |-> IF n = id THEN {} ELSE ahead[n] \ {id}]
  /\ rested' = [n \in Nodes |-> IF n = id THEN 0 ELSE rested[n]]

\* The orders of ours that stand under an id.
Standing(o) == {n \in InBook : n.owner = o /\ n.qty > 0}

\* The order in progress joins its queue as node id.
Joins(id) ==
  /\ rested' = [rested EXCEPT ![id] = task.remaining]
  /\ ahead' = [ahead EXCEPT ![id] =
                 {n.id : n \in {m \in Queued(task.side, task.price) : m.qty > 0}}]
  /\ reused' = IF Standing(task.id) # {} THEN reused \cup {task.id}
               ELSE reused \ {task.id}

(***************************************************************************)
(* The feed: apply_event.                                                  *)
(***************************************************************************)
Event == Idle /\ events < MaxEvents /\ events' = events + 1

\* An id the feed hands out is never used for a second order, and an order
\* without one is an order the feed does not cancel.
add_market(side, price, qty) ==
  /\ Event
  /\ lastExt' = lastExt + 1
  /\ \E id \in Fresh :
       /\ Enqueue(side, price, [id |-> id, qty |-> qty, owner |-> Market])
       /\ market_nodes' = [market_nodes EXCEPT ![lastExt'] = id]
  /\ UNCHANGED <<our_nodes, position, cash, task, actions, observed>>

\* The feed may cancel an order that trades, or the strategy, have consumed
\* since: the synthetic one does whenever it takes its oldest orders off.
cancel_external(x) ==
  /\ Event
  /\ x <= lastExt
  /\ levels' = Zeroed(market_nodes[x])
  /\ market_nodes' = [market_nodes EXCEPT ![x] = NoNode]
  /\ Forget(market_nodes[x])
  /\ UNCHANGED <<our_nodes, position, cash, task, lastExt, actions, reused, net>>

\* side is the aggressor; a trade consumes nothing but the level it names.
Trade(side, price, qty) ==
  /\ Event
  /\ task' = NewTask("trade", side, NoPrice, qty, Market, price)
  /\ UNCHANGED <<bookVars, position, cash, lastExt, actions, observed>>

(***************************************************************************)
(* The strategy.                                                           *)
(***************************************************************************)
Action ==
  Idle /\ events > 0 /\ actions < MaxActions /\ actions' = actions + 1

\* Nothing keeps a strategy from using the id of an order that stands.
LimitOrder(side, price, qty, id) ==
  /\ Action
  /\ task' = NewTask("limit", side, price, qty, id, NoPrice)
  /\ UNCHANGED <<bookVars, position, cash, lastExt, events, observed>>

MarketOrder(side, qty) ==
  /\ Action
  /\ task' = NewTask("market", side, NoPrice, qty, Market, NoPrice)
  /\ UNCHANGED <<bookVars, position, cash, lastExt, events, observed>>

cancel_ours(id) ==
  /\ Action
  /\ levels' = Zeroed(our_nodes[id])
  /\ our_nodes' = [our_nodes EXCEPT ![id] = NoNode]
  /\ Forget(our_nodes[id])
  /\ UNCHANGED <<market_nodes, position, cash, task, lastExt, events, reused, net>>

(***************************************************************************)
(* consume: the front of the level in progress.                            *)
(***************************************************************************)
Resting == opposite(task.side)
Queue == levels[Resting][task.level]
Consuming == task.level # NoPrice /\ Queue # <<>> /\ task.filled < task.remaining

Smaller(a, b) == IF a <= b THEN a ELSE b
\* Mutant: the quantity is not capped by what the node has.
TakesAll == task.remaining - task.filled

Taken == Smaller(task.remaining - task.filled, Head(Queue).qty)

\* A node whose volume was cancelled is dropped on the way.
Sweep ==
  /\ Consuming
  /\ Head(Queue).qty = 0
  /\ levels' = [levels EXCEPT ![Resting][task.level] = Tail(@)]
  /\ UNCHANGED <<market_nodes, our_nodes, position, cash, task, inputVars, observed>>

\* Mutant: only a trade of the feed settles our resting order.
SettleIfTraded(owner, qty) ==
  IF owner = Market \/ task.kind # "trade" THEN UNCHANGED <<position, cash>>
  ELSE /\ position' = position + sign(Resting) * qty
       /\ cash' = cash - sign(Resting) * qty * task.level

\* settle as maker, if the node is ours.
SettleMaker(owner, qty) ==
  IF owner = Market THEN UNCHANGED <<position, cash>>
  ELSE /\ position' = position + sign(Resting) * qty
       /\ cash' = cash - sign(Resting) * qty * task.level

\* What the market gave us, or took from us, with this fill.
NetOf(owner, qty) ==
  IF task.kind = "trade"
  THEN IF owner = Market THEN 0 ELSE sign(Resting) * qty
  ELSE IF owner = Market THEN sign(task.side) * qty ELSE 0

\* Mutant: a filled order stays listed as ours.
StaysListed(node) ==
  /\ market_nodes' = [x \in ExtIds |->
                        IF market_nodes[x] = node.id THEN NoNode ELSE market_nodes[x]]
  /\ UNCHANGED our_nodes

\* The entry of an id goes with the first order of it that is filled, be it
\* the one the entry leads to or another.  The dictionary of external ids
\* keeps the node of a consumed order, which is in no queue any more: setting
\* its quantity changes nothing, so the entry is dropped here.
Unlinked(node) ==
  /\ our_nodes' = [o \in OrderIds |-> IF o = node.owner THEN NoNode ELSE our_nodes[o]]
  /\ market_nodes' = [x \in ExtIds |->
                        IF market_nodes[x] = node.id THEN NoNode ELSE market_nodes[x]]

Take ==
  /\ Consuming
  /\ LET node == Head(Queue)
         left == node.qty - Taken
     IN /\ node.qty > 0
        /\ task' = [task EXCEPT !.filled = @ + Taken]
        /\ SettleMaker(node.owner, Taken)
        /\ net' = net + NetOf(node.owner, Taken)
        /\ IF left = 0
           THEN /\ levels' = [levels EXCEPT ![Resting][task.level] = Tail(@)]
                /\ Unlinked(node)
                /\ Forget(node.id)
           ELSE /\ levels' = [levels EXCEPT ![Resting][task.level] =
                                <<[node EXCEPT !.qty = left]>> \o Tail(@)]
                /\ UNCHANGED <<market_nodes, our_nodes, rested, ahead>>
  /\ UNCHANGED <<inputVars, reused>>

LevelDone ==
  task.level # NoPrice /\ (Queue = <<>> \/ task.filled = task.remaining)

TradeDone ==
  /\ task.kind = "trade"
  /\ LevelDone
  /\ task' = NoTask
  /\ UNCHANGED <<bookVars, position, cash, inputVars, observed>>

(***************************************************************************)
(* cross_or_rest and market_order.  A level they go to has volume, so that *)
(* their test for filled == 0 is never met.                                *)
(***************************************************************************)
Ours == task.kind \in {"limit", "market"}

Crosses(opp) ==
  IF task.side = "buy" THEN task.price >= opp ELSE task.price <= opp

\* The level of the opposite side the order trades with next, if any.
NextLevel == {p \in best(Resting) : task.kind = "market" \/ Crosses(p)}

GoToLevel ==
  /\ Ours
  /\ task.level = NoPrice /\ task.remaining > 0
  /\ \E p \in NextLevel : task' = [task EXCEPT !.level = p, !.filled = 0]
  /\ UNCHANGED <<bookVars, position, cash, inputVars, observed>>

\* round() of Python, of num ticks over ImpactDen: a half goes to the even
\* neighbour.
Rounded(num) ==
  LET below == num \div ImpactDen
      rest == 2 * (num % ImpactDen)
  IN IF rest < ImpactDen \/ (rest = ImpactDen /\ below % 2 = 0) THEN below
     ELSE below + 1

\* The price of a level with the impact of what the order took before.
Impacted == ImpactDen * task.level + sign(task.side) * ImpactNum * task.depth

\* The price a taker pays for what the level gave: with impact if market.
TakerPrice == IF task.kind = "limit" THEN task.level ELSE Rounded(Impacted)

SettleAt(price) ==
  /\ Ours
  /\ LevelDone
  /\ position' = position + sign(task.side) * task.filled
  /\ cash' = cash - sign(task.side) * task.filled * price
  /\ task' = [task EXCEPT !.remaining = @ - task.filled,
                          !.depth = @ + task.filled,
                          !.level = NoPrice, !.filled = 0]
  /\ UNCHANGED <<bookVars, inputVars, observed>>

SettleTaker == SettleAt(TakerPrice)

\* add_ours.
Rest ==
  /\ task.kind = "limit"
  /\ task.level = NoPrice /\ task.remaining > 0
  /\ NextLevel = {}
  /\ \E id \in Fresh :
       /\ Enqueue(task.side, task.price,
                  [id |-> id, qty |-> task.remaining, owner |-> task.id])
       /\ our_nodes' = [our_nodes EXCEPT ![task.id] = id]
       /\ Joins(id)
  /\ task' = NoTask
  /\ UNCHANGED <<market_nodes, position, cash, inputVars, net>>

OrderDone ==
  /\ Ours
  /\ task.level = NoPrice
  /\ task.remaining = 0 \/ (task.kind = "market" /\ NextLevel = {})
  /\ task' = NoTask
  /\ UNCHANGED <<bookVars, position, cash, inputVars, observed>>

-----------------------------------------------------------------------------
Feed ==
  \/ \E s \in Sides, p \in Prices, q \in Quantities : add_market(s, p, q)
  \/ \E x \in ExtIds : cancel_external(x)
  \/ \E s \in Sides, p \in Prices, q \in Quantities : Trade(s, p, q)

Strategy ==
  \/ \E s \in Sides, p \in Prices, q \in Quantities, o \in OrderIds :
       LimitOrder(s, p, q, o)
  \/ \E s \in Sides, q \in Quantities : MarketOrder(s, q)
  \/ \E o \in OrderIds : cancel_ours(o)

Matching ==
  Sweep \/ Take \/ TradeDone \/ GoToLevel \/ SettleTaker \/ Rest \/ OrderDone

Next == Feed \/ Strategy \/ Matching

Spec == Init /\ [][Next]_vars

-----------------------------------------------------------------------------
Node == [id : Nodes, qty : Nat, owner : OrderIds \cup {Market}]
Task == [kind : {"none", "trade", "limit", "market"}, side : Sides,
         price : Prices \cup {NoPrice}, remaining : Nat,
         id : OrderIds \cup {Market}, level : Prices \cup {NoPrice},
         filled : Nat, depth : Nat]

\* Type invariant; a level in progress never gives more than was asked.
TypeOK ==
  /\ levels \in [Sides -> [Prices -> Seq(Node)]]
  /\ market_nodes \in [ExtIds -> Nodes \cup {NoNode}]
  /\ our_nodes \in [OrderIds -> Nodes \cup {NoNode}]
  /\ position \in Int /\ cash \in Int /\ net \in Int
  /\ task \in Task
  /\ task.filled <= task.remaining
  /\ lastExt \in 0 .. events
  /\ events \in 0 .. MaxEvents /\ actions \in 0 .. MaxActions
  /\ rested \in [Nodes -> Nat]
  /\ ahead \in [Nodes -> SUBSET Nodes]
  /\ reused \subseteq OrderIds

\* The position is what the market gave us less what it took, at every step
\* of every sweep: a trade with ourselves, settled once as maker and once as
\* taker, changes nothing, and no fill is settled twice or left out.
PositionIsNet ==
  position + (IF Ours THEN sign(task.side) * task.filled ELSE 0) = net

\* "A resting order only fills once the volume that was ahead of it at its
\* price level has traded": while one of our orders has filled in part,
\* nothing that was ahead of it is left, whatever was cancelled, swept or
\* added in between.
QueueIsHonest ==
  \A s \in Sides, p \in Prices : \A n \in Queued(s, p) :
    n.owner # Market /\ n.qty > 0 /\ n.qty < rested[n.id] => ahead[n.id] = {}

\* An id leads only to an order of its own that stands, so that cancelling it
\* takes away that order's volume and no other; and it leads to every such
\* order, unless the strategy used the id again while an order of it stood:
\* fills, partial fills and cancels, in any order, lose no entry.
OrdersAreListed ==
  \A o \in OrderIds :
    LET mine == {n.id : n \in Standing(o)}
    IN /\ our_nodes[o] \in mine \cup {NoNode}
       /\ o \notin reused => mine \subseteq {our_nodes[o]}
=============================================================================

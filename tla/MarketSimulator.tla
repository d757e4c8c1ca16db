--------------------------- MODULE MarketSimulator ---------------------------
(***************************************************************************)
(* The native market simulator (sim_core/include/alphaforge_sim/           *)
(* simulator.hpp): the loops of PythonSimCore over nodes of an object pool.*)
(* A queue holds pointers; a node goes back to the pool when it leaves its *)
(* queue, while market_nodes_ keeps the pointer of every order the feed    *)
(* ever added.  PythonSimCore is the specification it has to implement.    *)
(*                                                                         *)
(* Names shared with PythonSimCore mean the same thing; task, the inputs   *)
(* and what is observed are read there.  Prices are at least 0 in the C++  *)
(* code as in the Python code, so that its -1 is NoPrice.                  *)
(***************************************************************************)
EXTENDS Integers, FiniteSets, SequencesExt

CONSTANTS
  Prices, Quantities, OrderIds, ImpactNum, ImpactDen, MaxEvents, MaxActions,
  NoNode, NoPrice,
  Slots         \* of the pool

ASSUME PricesAssumption == Prices \subseteq Nat /\ NoPrice \notin Prices
ASSUME QuantitiesAssumption == Quantities \subseteq Nat \ {0}
ASSUME ImpactAssumption == ImpactNum \in Nat /\ ImpactDen \in Nat \ {0}
ASSUME BoundsAssumption == MaxEvents \in Nat /\ MaxActions \in Nat
ASSUME SlotsAssumption == NoNode \notin Slots

VARIABLES
  book_,         \* side -> price -> queue of slots
  slot,          \* contents of each slot: qty, owner
  market_nodes_, \* external id -> its slot, for ever
  our_nodes_,    \* our id -> its slot
  position, cash, task, lastExt, events, actions,
  rested, ahead, reused, net,
  standing       \* observed: external ids neither cancelled nor consumed

bookVars == <<book_, slot, market_nodes_, our_nodes_, standing>>
inputVars == <<lastExt, events, actions>>
observed == <<rested, ahead, reused, net>>
vars == <<bookVars, position, cash, task, inputVars, observed>>

ExtIds == 1 .. MaxEvents

\* The book by value: what a reader of the queues finds in them.
Contents == [s \in {"buy", "sell"} |-> [p \in Prices |->
  [i \in DOMAIN book_[s][p] |->
    [id |-> book_[s][p][i], qty |-> slot[book_[s][p][i]].qty,
     owner |-> slot[book_[s][p][i]].owner]]]]

Reference == INSTANCE PythonSimCore WITH
  Nodes <- Slots,
  levels <- Contents,
  our_nodes <- our_nodes_,
  market_nodes <- [x \in ExtIds |->
                     IF x \in standing THEN market_nodes_[x] ELSE NoNode]

Market == Reference!Market
sign(side) == Reference!sign(side)

Init ==
  /\ book_ = [s \in Reference!Sides |-> [p \in Prices |-> <<>>]]
  /\ slot = [n \in Slots |-> [qty |-> 0, owner |-> Market]]
  /\ market_nodes_ = [x \in ExtIds |-> NoNode]
  /\ our_nodes_ = [o \in OrderIds |-> NoNode]
  /\ standing = {}
  /\ position = 0 /\ cash = 0
  /\ task = Reference!NoTask
  /\ lastExt = 0 /\ events = 0 /\ actions = 0
  /\ rested = [n \in Slots |-> 0]
  /\ ahead = [n \in Slots |-> {}]
  /\ reused = {}
  /\ net = 0

\* Mutant: a cancelled node is back in the pool while its queue has it.
ZeroSlots == {n \in Slots : slot[n].qty = 0}

\* ObjectPool.allocate: any slot of the pool that is not handed out.
Allocatable ==
  Slots \ UNION {ToSet(book_[s][p]) : s \in Reference!Sides, p \in Prices}

\* make_node and push_back.
Enqueue(side, price, n, qty, owner) ==
  /\ slot' = [slot EXCEPT ![n] = [qty |-> qty, owner |-> owner]]
  /\ book_' = [book_ EXCEPT ![side][price] = Append(@, n)]

(***************************************************************************)
(* apply_event.                                                            *)
(***************************************************************************)
Add(side, price, qty) ==
  /\ Reference!Event
  /\ lastExt' = lastExt + 1
  /\ \E n \in Allocatable :
       /\ Enqueue(side, price, n, qty, Market)
       /\ market_nodes_' = [market_nodes_ EXCEPT ![lastExt'] = n]
  /\ standing' = standing \cup {lastExt'}
  /\ UNCHANGED <<our_nodes_, position, cash, task, actions, observed>>

\* The slot the pointer leads to is set to zero, whatever it holds by now.
Cancel(x) ==
  /\ Reference!Event
  /\ x <= lastExt
  /\ slot' = [slot EXCEPT ![market_nodes_[x]].qty = 0]
  /\ standing' = standing \ {x}
  /\ IF x \in standing THEN Reference!Forget(market_nodes_[x])
     ELSE UNCHANGED <<rested, ahead>>
  /\ UNCHANGED <<book_, market_nodes_, our_nodes_, position, cash, task, lastExt,
                 actions, reused, net>>

Trade(side, price, qty) ==
  /\ Reference!Event
  /\ task' = Reference!NewTask("trade", side, NoPrice, qty, Market, price)
  /\ UNCHANGED <<bookVars, position, cash, lastExt, actions, observed>>

(***************************************************************************)
(* apply_action.                                                           *)
(***************************************************************************)
LimitOrder(side, price, qty, id) ==
  /\ Reference!Action
  /\ task' = Reference!NewTask("limit", side, price, qty, id, NoPrice)
  /\ UNCHANGED <<bookVars, position, cash, lastExt, events, observed>>

MarketOrder(side, qty) ==
  /\ Reference!Action
  /\ task' = Reference!NewTask("market", side, NoPrice, qty, Market, NoPrice)
  /\ UNCHANGED <<bookVars, position, cash, lastExt, events, observed>>

\* Mutant: the entry of a cancelled order is not erased.
LeavesEntry(id) == UNCHANGED our_nodes_

erase_ours(id) == our_nodes_' = [our_nodes_ EXCEPT ![id] = NoNode]

cancel_ours(id) ==
  /\ Reference!Action
  /\ IF our_nodes_[id] = NoNode THEN UNCHANGED <<slot, our_nodes_>>
     ELSE /\ slot' = [slot EXCEPT ![our_nodes_[id]].qty = 0]
          /\ erase_ours(id)
  /\ Reference!Forget(our_nodes_[id])
  /\ UNCHANGED <<book_, market_nodes_, standing, position, cash, task, lastExt,
                 events, reused, net>>

(***************************************************************************)
(* consume.  pop_front and deallocate take the front out of its queue.     *)
(***************************************************************************)
Resting == Reference!Resting
Queue == book_[Resting][task.level]
Consuming == task.level # NoPrice /\ Queue # <<>> /\ task.filled < task.remaining

\* What a slot of the pool holds until it is handed out again is never read.
Blank == [qty |-> 0, owner |-> Market]

PopFront ==
  /\ book_' = [book_ EXCEPT ![Resting][task.level] = Tail(@)]
  /\ slot' = [slot EXCEPT ![Head(Queue)] = Blank]

Taken == Reference!Smaller(task.remaining - task.filled, slot[Head(Queue)].qty)

Sweep ==
  /\ Consuming
  /\ slot[Head(Queue)].qty = 0
  /\ PopFront
  /\ UNCHANGED <<market_nodes_, our_nodes_, standing, position, cash, task,
                 inputVars, observed>>

Take ==
  /\ Consuming
  /\ LET nd == Head(Queue)
         owner == slot[nd].owner
     IN /\ slot[nd].qty > 0
        /\ task' = [task EXCEPT !.filled = @ + Taken]
        /\ Reference!SettleMaker(owner, Taken)
        /\ net' = net + Reference!NetOf(owner, Taken)
        /\ IF Taken = slot[nd].qty
           THEN /\ PopFront
                /\ our_nodes_' = [o \in OrderIds |->
                                    IF o = owner THEN NoNode ELSE our_nodes_[o]]
                /\ standing' = {x \in standing : market_nodes_[x] # nd}
                /\ Reference!Forget(nd)
           ELSE /\ slot' = [slot EXCEPT ![nd].qty = @ - Taken]
                /\ UNCHANGED <<book_, our_nodes_, standing, rested, ahead>>
  /\ UNCHANGED <<market_nodes_, inputVars, reused>>

LevelDone ==
  task.level # NoPrice /\ (Queue = <<>> \/ task.filled = task.remaining)

TradeDone ==
  /\ task.kind = "trade"
  /\ LevelDone
  /\ task' = Reference!NoTask
  /\ UNCHANGED <<bookVars, position, cash, inputVars, observed>>

(***************************************************************************)
(* place_limit and place_market.                                           *)
(***************************************************************************)
GoToLevel ==
  /\ Reference!Ours
  /\ task.level = NoPrice /\ task.remaining > 0
  /\ \E p \in Reference!NextLevel :
       task' = [task EXCEPT !.level = p, !.filled = 0]
  /\ UNCHANGED <<bookVars, position, cash, inputVars, observed>>

\* static_cast<int64_t>(eff + 0.5): truncated, a half goes up.
Rounded(num) ==
  LET up == 2 * num + ImpactDen
  IN IF up >= 0 THEN up \div (2 * ImpactDen) ELSE -((-up) \div (2 * ImpactDen))

TakerPrice ==
  IF task.kind = "limit" THEN task.level ELSE Rounded(Reference!Impacted)

SettleTaker ==
  /\ Reference!Ours
  /\ LevelDone
  /\ position' = position + sign(task.side) * task.filled
  /\ cash' = cash - sign(task.side) * task.filled * TakerPrice
  /\ task' = [task EXCEPT !.remaining = @ - task.filled,
                          !.depth = @ + task.filled,
                          !.level = NoPrice, !.filled = 0]
  /\ UNCHANGED <<bookVars, inputVars, observed>>

Rest ==
  /\ task.kind = "limit"
  /\ task.level = NoPrice /\ task.remaining > 0
  /\ Reference!NextLevel = {}
  /\ \E n \in Allocatable :
       /\ Enqueue(task.side, task.price, n, task.remaining, task.id)
       /\ our_nodes_' = [our_nodes_ EXCEPT ![task.id] = n]
       /\ Reference!Joins(n)
  /\ task' = Reference!NoTask
  /\ UNCHANGED <<market_nodes_, standing, position, cash, inputVars, net>>

OrderDone ==
  /\ Reference!Ours
  /\ task.level = NoPrice
  /\ \/ task.remaining = 0
     \/ task.kind = "market" /\ Reference!NextLevel = {}
  /\ task' = Reference!NoTask
  /\ UNCHANGED <<bookVars, position, cash, inputVars, observed>>

-----------------------------------------------------------------------------
apply_event ==
  \/ \E s \in Reference!Sides, p \in Prices, q \in Quantities :
       Add(s, p, q) \/ Trade(s, p, q)
  \/ \E x \in ExtIds : Cancel(x)

apply_action ==
  \/ \E s \in Reference!Sides, p \in Prices, q \in Quantities, o \in OrderIds :
       LimitOrder(s, p, q, o)
  \/ \E s \in Reference!Sides, q \in Quantities : MarketOrder(s, q)
  \/ \E o \in OrderIds : cancel_ours(o)

Matching ==
  Sweep \/ Take \/ TradeDone \/ GoToLevel \/ SettleTaker \/ Rest \/ OrderDone

Next == apply_event \/ apply_action \/ Matching

Spec == Init /\ [][Next]_vars

-----------------------------------------------------------------------------
\* Type invariant.
TypeOK ==
  /\ book_ \in [Reference!Sides -> [Prices -> Seq(Slots)]]
  /\ slot \in [Slots -> [qty : Nat, owner : OrderIds \cup {Market}]]
  /\ market_nodes_ \in [ExtIds -> Slots \cup {NoNode}]
  /\ our_nodes_ \in [OrderIds -> Slots \cup {NoNode}]
  /\ standing \subseteq 1 .. lastExt

\* The pool hands no slot out twice: a node is in one queue, once, although
\* nodes come back to the pool from the front of every queue.
QueuedOnce ==
  \A s, t \in Reference!Sides, p, q \in Prices :
    \A i \in DOMAIN book_[s][p], k \in DOMAIN book_[t][q] :
      book_[s][p][i] = book_[t][q][k] => <<s, p, i>> = <<t, q, k>>

\* The book over the pool is well-formed: pointers lead to slots, and no slot
\* is in two places.
PoolInv == TypeOK /\ QueuedOnce

\* A cancel of an order that is gone: the slot may be another order's by now.
LateCancel == \E x \in ExtIds : x \notin standing /\ Cancel(x)

\* A market fill at a tick above the reference's: its price with impact lies
\* half-way between two ticks, or below zero.
TickAbove ==
  /\ task.kind = "market"
  /\ Reference!Impacted < 0 \/ 2 * (Reference!Impacted % ImpactDen) = ImpactDen
  /\ Reference!SettleAt(Reference!TakerPrice + 1)

\* The native simulator takes the steps of the reference, whatever slots the
\* pool hands out and whatever ids are used again: the same fills in the same
\* order at the same prices, from the book as it is.  It parts from it only by
\* a late cancel, and by the tick of a market fill; each step after that is
\* again one the reference would take from the same book.
FollowsReference ==
  Reference!Init /\ [][Reference!Next \/ LateCancel \/ TickAbove]_(Reference!vars)

-----------------------------------------------------------------------------
\* "a parity test guarantees they produce identical equity curves": every
\* step one of the reference.
Parity == [][Reference!Next]_(Reference!vars)
=============================================================================

------------------------ MODULE PythonSimCore_proofs ------------------------
(***************************************************************************)
(* Proofs about PythonSimCore, for any prices, quantities, impact and any  *)
(* number of events and actions: its types, and that the position is       *)
(* exactly what was exchanged with the market.                             *)
(***************************************************************************)
EXTENDS PythonSimCore, SequenceTheorems, TLAPS

\* Between two levels nothing of the order in progress is unsettled, and
\* without one no level is; a limit order has a price.
TaskConsistent ==
  /\ task.level = NoPrice => task.filled = 0
  /\ Idle => task.level = NoPrice
  /\ task.kind = "limit" => task.price \in Prices /\ task.id \in OrderIds

SimInv == TypeOK /\ TaskConsistent /\ PositionIsNet

LEMMA ZeroAdded == ASSUME NEW n \in Int PROVE n + 0 = n
  OBVIOUS

LEMMA PriceIsInt == ASSUME NEW p \in Prices PROVE p \in Int
  BY PricesAssumption

LEMMA SignValues ==
  ASSUME NEW side \in Sides
  PROVE  /\ opposite(side) \in Sides
         /\ sign(side) \in {1, -1}
         /\ sign(opposite(side)) = -sign(side)
  BY DEF Sides, opposite, sign

LEMMA FunctionIsSeq ==
  ASSUME NEW S, NEW n \in Nat, NEW f \in [1 .. n -> S]
  PROVE  f \in Seq(S)
<1>1. f \in UNION {[1 .. k -> S] : k \in Nat}
  BY Zenon
<1>2. QED
  BY <1>1, SeqDef, Zenon

\* Setting the quantity of one node to zero keeps the book well-formed.
LEMMA ZeroedType ==
  ASSUME levels \in [Sides -> [Prices -> Seq(Node)]], NEW id
  PROVE  Zeroed(id) \in [Sides -> [Prices -> Seq(Node)]]
<1>1. ASSUME NEW s \in Sides, NEW p \in Prices
      PROVE  Zeroed(id)[s][p] \in Seq(Node)
  <2>1. levels[s][p] \in Seq(Node)
    OBVIOUS
  <2>2. Zeroed(id)[s][p] = [i \in DOMAIN levels[s][p] |->
                              IF levels[s][p][i].id = id
                              THEN [levels[s][p][i] EXCEPT !.qty = 0]
                              ELSE levels[s][p][i]]
    BY DEF Zeroed
  <2>3. ASSUME NEW n \in Node PROVE [n EXCEPT !.qty = 0] \in Node
    BY <2>3 DEF Node
  <2>4. DOMAIN levels[s][p] = 1 .. Len(levels[s][p]) /\ Len(levels[s][p]) \in Nat
    BY <2>1
  <2>5. ASSUME NEW i \in 1 .. Len(levels[s][p]) PROVE Zeroed(id)[s][p][i] \in Node
    BY <2>1, <2>2, <2>3, <2>4
  <2>6. Zeroed(id)[s][p] \in [1 .. Len(levels[s][p]) -> Node]
    <3>1. Zeroed(id)[s][p] =
            [i \in 1 .. Len(levels[s][p]) |-> Zeroed(id)[s][p][i]]
      BY <2>2, <2>4
    <3>2. QED
      BY <3>1, <2>5
  <2>7. QED
    BY <2>4, <2>6, FunctionIsSeq
<1>2. QED
  BY <1>1 DEF Zeroed

\* Putting a node at the end of a queue keeps the book well-formed.
LEMMA EnqueueType ==
  ASSUME levels \in [Sides -> [Prices -> Seq(Node)]],
         NEW s \in Sides, NEW p \in Prices, NEW n \in Node,
         Enqueue(s, p, n)
  PROVE  levels' \in [Sides -> [Prices -> Seq(Node)]]
<1>1. Append(levels[s][p], n) \in Seq(Node)
  OBVIOUS
<1>2. QED
  BY <1>1 DEF Enqueue

LEMMA SimInvInit == Init => SimInv
<1> SUFFICES ASSUME Init PROVE SimInv
  OBVIOUS
<1> USE DEF Init
<1>1. task = NoTask /\ NoTask \in Task
  BY DEF NoTask, NewTask, Task, Sides
<1>2. TypeOK
  <2>1. levels \in [Sides -> [Prices -> Seq(Node)]]
    OBVIOUS
  <2>2. task.filled <= task.remaining
    BY <1>1 DEF NoTask, NewTask
  <2>3. QED
    BY <1>1, <2>1, <2>2, BoundsAssumption DEF TypeOK
<1>3. TaskConsistent
  BY <1>1 DEF TaskConsistent, Idle, NoTask, NewTask
<1>4. PositionIsNet
  BY <1>1 DEF PositionIsNet, NoTask, NewTask, Ours
<1>5. QED
  BY <1>2, <1>3, <1>4 DEF SimInv

\* An order or a trade that begins has exchanged nothing yet.
LEMMA StartSettled ==
  ASSUME TypeOK, PositionIsNet, ~Ours, TypeOK',
         UNCHANGED <<position, net>>, task'.filled = 0, task'.kind # "none",
         task'.kind = "limit" => task'.price \in Prices /\ task'.id \in OrderIds
  PROVE  SimInv'
<1>1. position = net
  BY DEF PositionIsNet, TypeOK
<1>2. sign(task'.side) \in Int
  BY SignValues DEF TypeOK, Task
<1>3. sign(task'.side) * task'.filled = 0
  BY <1>2
<1>4. PositionIsNet'
  BY <1>1, <1>3 DEF PositionIsNet, TypeOK
<1>5. QED
  BY <1>4 DEF SimInv, TaskConsistent, Idle

\* The feed and the strategy: nothing is exchanged by the step itself.
LEMMA InputKeeps ==
  ASSUME SimInv, Feed \/ Strategy
  PROVE  SimInv'
<1> USE DEF SimInv
<1>1. task.kind = "none" /\ ~Ours
  BY DEF Feed, Strategy, add_market, cancel_external, Trade, LimitOrder,
         MarketOrder, cancel_ours, Event, Action, Idle, Ours
<1>2. ASSUME NEW s \in Sides, NEW p \in Prices, NEW q \in Quantities,
             add_market(s, p, q)
      PROVE  SimInv'
  <2> USE <1>2 DEF add_market
  <2>1. PICK id \in Fresh :
          /\ Enqueue(s, p, [id |-> id, qty |-> q, owner |-> Market])
          /\ market_nodes' = [market_nodes EXCEPT ![lastExt'] = id]
    OBVIOUS
  <2>2. id \in Nodes /\ q \in Nat
    BY QuantitiesAssumption DEF Fresh
  <2>3. [id |-> id, qty |-> q, owner |-> Market] \in Node
    BY <2>2 DEF Node
  <2>4. levels' \in [Sides -> [Prices -> Seq(Node)]]
    BY <2>1, <2>3, EnqueueType DEF TypeOK
  <2>5. lastExt' \in 0 .. events' /\ events' \in 0 .. MaxEvents
    BY BoundsAssumption DEF TypeOK, Event
  <2>6. market_nodes' \in [ExtIds -> Nodes \cup {NoNode}]
    BY <2>1, <2>2 DEF TypeOK
  <2>7. UNCHANGED <<our_nodes, position, cash, task, actions, rested, ahead, reused, net>>
    BY DEF observed
  <2>8. TypeOK'
    BY <2>4, <2>5, <2>6, <2>7 DEF TypeOK
  <2>9. QED
    BY <2>7, <2>8 DEF TaskConsistent, PositionIsNet, Ours, Idle
<1>3. ASSUME NEW x \in ExtIds, cancel_external(x)
      PROVE  SimInv'
  <2> USE <1>3 DEF cancel_external
  <2>1. levels' \in [Sides -> [Prices -> Seq(Node)]]
    BY ZeroedType DEF TypeOK
  <2>2. events' \in 0 .. MaxEvents /\ lastExt' \in 0 .. events'
    BY BoundsAssumption DEF TypeOK, Event
  <2>3. ahead' \in [Nodes -> SUBSET Nodes] /\ rested' \in [Nodes -> Nat]
    BY DEF TypeOK, Forget
  <2>4. market_nodes' \in [ExtIds -> Nodes \cup {NoNode}]
    BY DEF TypeOK
  <2>5. TypeOK'
    BY <2>1, <2>2, <2>3, <2>4 DEF TypeOK
  <2>6. QED
    BY <2>5 DEF TaskConsistent, PositionIsNet, Ours, Idle
<1>4. ASSUME NEW s \in Sides, NEW p \in Prices, NEW q \in Quantities,
             Trade(s, p, q)
      PROVE  SimInv'
  <2> USE <1>4 DEF Trade
  <2>1. /\ task' \in Task /\ task'.filled = 0 /\ task'.filled <= task'.remaining
        /\ task'.kind # "none"
        /\ task'.kind = "limit" => task'.price \in Prices /\ task'.id \in OrderIds
    BY QuantitiesAssumption DEF Task, NewTask, Market
  <2>2. events' \in 0 .. MaxEvents /\ lastExt' \in 0 .. events' /\ UNCHANGED actions
    BY BoundsAssumption DEF TypeOK, Event
  <2>3. UNCHANGED <<levels, market_nodes, our_nodes, position, cash, rested,
                    ahead, reused, net>>
    BY DEF bookVars, observed
  <2>4. TypeOK'
    BY <2>1, <2>2, <2>3 DEF TypeOK
  <2>5. QED
    BY <1>1, <2>1, <2>3, <2>4, StartSettled
<1>5. ASSUME NEW s \in Sides, NEW p \in Prices, NEW q \in Quantities,
             NEW o \in OrderIds, LimitOrder(s, p, q, o)
      PROVE  SimInv'
  <2> USE <1>5 DEF LimitOrder
  <2>1. /\ task' \in Task /\ task'.filled = 0 /\ task'.filled <= task'.remaining
        /\ task'.kind # "none"
        /\ task'.kind = "limit" => task'.price \in Prices /\ task'.id \in OrderIds
    BY QuantitiesAssumption DEF Task, NewTask, Market
  <2>2. actions' \in 0 .. MaxActions /\ UNCHANGED <<events, lastExt>>
    BY BoundsAssumption DEF TypeOK, Action
  <2>3. UNCHANGED <<levels, market_nodes, our_nodes, position, cash, rested,
                    ahead, reused, net>>
    BY DEF bookVars, observed
  <2>4. TypeOK'
    BY <2>1, <2>2, <2>3 DEF TypeOK
  <2>5. QED
    BY <1>1, <2>1, <2>3, <2>4, StartSettled
<1>6. ASSUME NEW s \in Sides, NEW q \in Quantities, MarketOrder(s, q)
      PROVE  SimInv'
  <2> USE <1>6 DEF MarketOrder
  <2>1. /\ task' \in Task /\ task'.filled = 0 /\ task'.filled <= task'.remaining
        /\ task'.kind # "none"
        /\ task'.kind = "limit" => task'.price \in Prices /\ task'.id \in OrderIds
    BY QuantitiesAssumption DEF Task, NewTask, Market
  <2>2. actions' \in 0 .. MaxActions /\ UNCHANGED <<events, lastExt>>
    BY BoundsAssumption DEF TypeOK, Action
  <2>3. UNCHANGED <<levels, market_nodes, our_nodes, position, cash, rested,
                    ahead, reused, net>>
    BY DEF bookVars, observed
  <2>4. TypeOK'
    BY <2>1, <2>2, <2>3 DEF TypeOK
  <2>5. QED
    BY <1>1, <2>1, <2>3, <2>4, StartSettled
<1>7. ASSUME NEW o \in OrderIds, cancel_ours(o)
      PROVE  SimInv'
  <2> USE <1>7 DEF cancel_ours
  <2>1. levels' \in [Sides -> [Prices -> Seq(Node)]]
    BY ZeroedType DEF TypeOK
  <2>2. actions' \in 0 .. MaxActions
    BY BoundsAssumption DEF TypeOK, Action
  <2>3. ahead' \in [Nodes -> SUBSET Nodes] /\ rested' \in [Nodes -> Nat]
    BY DEF TypeOK, Forget
  <2>4. our_nodes' \in [OrderIds -> Nodes \cup {NoNode}]
    BY DEF TypeOK
  <2>5. TypeOK'
    BY <2>1, <2>2, <2>3, <2>4 DEF TypeOK
  <2>6. QED
    BY <2>5 DEF TaskConsistent, PositionIsNet, Ours, Idle
<1>8. QED
  BY <1>2, <1>3, <1>4, <1>5, <1>6, <1>7 DEF Feed, Strategy

\* What consume works on: a level of the book, and the node at its front.
LEMMA FrontOfQueue ==
  ASSUME TypeOK, Consuming
  PROVE  /\ Resting \in Sides /\ task.level \in Prices
         /\ Queue \in Seq(Node)
         /\ Head(Queue) \in Node /\ Tail(Queue) \in Seq(Node)
         /\ task \in Task /\ task.filled < task.remaining
<1>1. task \in Task /\ task.level # NoPrice
  BY DEF TypeOK, Consuming
<1>2. Resting \in Sides /\ task.level \in Prices
  BY <1>1, SignValues DEF Resting, Task
<1>3. Queue \in Seq(Node) /\ Queue # <<>>
  BY <1>2 DEF Queue, TypeOK, Consuming
<1>4. Head(Queue) \in Node /\ Tail(Queue) \in Seq(Node)
  BY <1>3
<1>5. QED
  BY <1>1, <1>2, <1>3, <1>4 DEF Consuming

LEMMA SweepKeeps == ASSUME SimInv, Sweep PROVE SimInv'
<1> USE DEF SimInv, Sweep
<1>1. levels' \in [Sides -> [Prices -> Seq(Node)]]
  BY FrontOfQueue DEF TypeOK, Queue
<1>2. UNCHANGED <<market_nodes, our_nodes, position, cash, task, lastExt, events,
                  actions, rested, ahead, reused, net>>
  BY DEF inputVars, observed
<1>3. TypeOK'
  BY <1>1, <1>2 DEF TypeOK
<1>4. QED
  BY <1>2, <1>3 DEF TaskConsistent, PositionIsNet, Ours, Idle

\* A fill: what position, the order in progress and the market exchange.
LEMMA TakeKeeps == ASSUME SimInv, Take PROVE SimInv'
<1> DEFINE node == Head(Queue)
<1> DEFINE left == node.qty - Taken
<1>1. Consuming /\ TypeOK /\ PositionIsNet
  BY DEF SimInv, Take
<1>2. /\ node \in Node /\ Tail(Queue) \in Seq(Node) /\ task \in Task
      /\ Resting \in Sides /\ task.level \in Prices
      /\ task.filled < task.remaining
  BY <1>1, FrontOfQueue
<1>3. /\ node.qty \in Nat /\ node.id \in Nodes
      /\ task.side \in Sides /\ task.filled \in Nat /\ task.remaining \in Nat
  BY <1>2 DEF Node, Task
<1>4. Taken \in Nat /\ left \in Nat /\ task.filled + Taken <= task.remaining
  BY <1>2, <1>3 DEF Taken, Smaller
<1>5. /\ sign(task.side) \in {1, -1}
      /\ sign(Resting) = -sign(task.side)
  BY <1>3, SignValues DEF Resting
<1>6. task' = [task EXCEPT !.filled = @ + Taken]
  BY DEF Take
<1>7. /\ task' \in Task /\ task'.filled = task.filled + Taken
      /\ task'.kind = task.kind /\ task'.side = task.side
      /\ task'.remaining = task.remaining /\ task'.level = task.level
      /\ task'.price = task.price /\ task'.id = task.id
  <2>1. task.filled + Taken \in Nat
    BY <1>3, <1>4
  <2>2. QED
    BY <1>2, <1>6, <2>1 DEF Task
<1>8. /\ SettleMaker(node.owner, Taken)
      /\ net' = net + NetOf(node.owner, Taken)
      /\ UNCHANGED <<lastExt, events, actions, reused>>
  BY DEF Take, inputVars
<1>9. position \in Int /\ cash \in Int /\ net \in Int /\ task.level \in Int
  <2>1. position \in Int /\ cash \in Int /\ net \in Int
    BY <1>1 DEF TypeOK
  <2>2. task.level \in Int
    BY <1>2, PriceIsInt, Zenon
  <2>3. QED
    BY <2>1, <2>2
<1>10. position' \in Int /\ cash' \in Int /\ net' \in Int
  <2>1. sign(Resting) * Taken \in Int /\ sign(task.side) * Taken \in Int
    BY <1>4, <1>5
  <2>2. sign(Resting) * Taken * task.level \in Int
    BY <2>1, <1>9
  <2>3. position' \in Int /\ cash' \in Int
    BY <2>1, <2>2, <1>8, <1>9 DEF SettleMaker
  <2>4. QED
    BY <2>1, <2>3, <1>8, <1>9 DEF NetOf
<1>11. ASSUME left = 0 PROVE TypeOK'
  <2>1. /\ levels' = [levels EXCEPT ![Resting][task.level] = Tail(@)]
        /\ Unlinked(node)
        /\ Forget(node.id)
    BY <1>11 DEF Take
  <2>2. levels' \in [Sides -> [Prices -> Seq(Node)]]
    BY <2>1, <1>1, <1>2 DEF TypeOK, Queue
  <2>3. /\ our_nodes' \in [OrderIds -> Nodes \cup {NoNode}]
        /\ market_nodes' \in [ExtIds -> Nodes \cup {NoNode}]
        /\ ahead' \in [Nodes -> SUBSET Nodes] /\ rested' \in [Nodes -> Nat]
    BY <2>1, <1>1 DEF TypeOK, Unlinked, Forget
  <2>4. QED
    BY <2>2, <2>3, <1>1, <1>4, <1>7, <1>8, <1>10 DEF TypeOK
<1>12. ASSUME left # 0 PROVE TypeOK'
  <2>1. /\ levels' = [levels EXCEPT ![Resting][task.level] =
                        <<[node EXCEPT !.qty = left]>> \o Tail(@)]
        /\ UNCHANGED <<market_nodes, our_nodes, rested, ahead>>
    BY <1>12 DEF Take
  <2>2. [node EXCEPT !.qty = left] \in Node
    BY <1>2, <1>4 DEF Node
  <2>3. <<[node EXCEPT !.qty = left]>> \o Tail(Queue) \in Seq(Node)
    BY <2>2, <1>2
  <2>4. levels' \in [Sides -> [Prices -> Seq(Node)]]
    BY <2>1, <2>3, <1>1, <1>2 DEF TypeOK, Queue
  <2>5. QED
    BY <2>1, <2>4, <1>1, <1>4, <1>7, <1>8, <1>10 DEF TypeOK
<1>13. TypeOK'
  BY <1>11, <1>12
<1>14. TaskConsistent'
  BY <1>1, <1>2, <1>7, PricesAssumption DEF TaskConsistent, SimInv, Idle
<1>15. PositionIsNet'
  <2>1. task.kind # "none" /\ task.kind \in {"none", "trade", "limit", "market"}
    BY <1>1, <1>2 DEF Task, SimInv, TaskConsistent, Idle, Consuming
  <2>2. CASE task.kind = "trade"
    <3>1. ~Ours /\ ~Ours'
      BY <2>2, <1>7 DEF Ours
    <3>2. position' - position = net' - net
      BY <2>2, <1>4, <1>5, <1>8, <1>9 DEF SettleMaker, NetOf
    <3>3. position = net
      BY <3>1, <1>1, <1>9 DEF PositionIsNet
    <3>4. position' = net'
      BY <3>2, <3>3, <1>9, <1>10
    <3>5. (IF Ours THEN sign(task.side) * task.filled ELSE 0)' = 0
      BY <3>1, Zenon
    <3>6. position' + 0 = net'
      BY <3>4, <1>10, ZeroAdded, Zenon
    <3>7. QED
      BY <3>5, <3>6, Zenon DEF PositionIsNet
  <2>3. CASE task.kind \in {"limit", "market"}
    <3>1. Ours /\ Ours'
      BY <2>3, <1>7 DEF Ours
    <3>2. position' + sign(task.side) * Taken - position = net' - net
      BY <2>3, <1>4, <1>5, <1>8, <1>9 DEF SettleMaker, NetOf
    <3>3. sign(task'.side) * task'.filled =
            sign(task.side) * task.filled + sign(task.side) * Taken
      BY <1>3, <1>4, <1>5, <1>7
    <3>4. position + sign(task.side) * task.filled = net
      BY <3>1, <1>1 DEF PositionIsNet
    <3>5. position' + sign(task'.side) * task'.filled = net'
      BY <3>2, <3>3, <3>4, <1>3, <1>4, <1>5, <1>9, <1>10
    <3>6. QED
      BY <3>1, <3>5 DEF PositionIsNet
  <2>4. QED
    BY <2>1, <2>2, <2>3
<1>16. QED
  BY <1>13, <1>14, <1>15 DEF SimInv

LEMMA TradeDoneKeeps == ASSUME SimInv, TradeDone PROVE SimInv'
<1> USE DEF SimInv, TradeDone
<1>1. /\ task' \in Task /\ task'.filled = 0 /\ task'.remaining = 0
      /\ task'.kind = "none" /\ task'.level = NoPrice
  BY DEF NoTask, NewTask, Task, Sides
<1>2. UNCHANGED <<levels, market_nodes, our_nodes, position, cash, lastExt, events,
                  actions, rested, ahead, reused, net>>
  BY DEF bookVars, inputVars, observed
<1>3. TypeOK'
  BY <1>1, <1>2 DEF TypeOK
<1>4. PositionIsNet'
  BY <1>1, <1>2 DEF PositionIsNet, Ours
<1>5. QED
  BY <1>1, <1>3, <1>4 DEF TaskConsistent

LEMMA GoToLevelKeeps == ASSUME SimInv, GoToLevel PROVE SimInv'
<1>1. PICK p \in NextLevel : task' = [task EXCEPT !.level = p, !.filled = 0]
  BY DEF GoToLevel
<1>2. p \in Prices /\ p # NoPrice
  BY <1>1, PricesAssumption DEF NextLevel, best
<1>3. TypeOK /\ PositionIsNet /\ task \in Task /\ task.level = NoPrice /\ Ours
  BY DEF SimInv, TypeOK, GoToLevel
<1>4. /\ task' \in Task /\ task'.filled = 0 /\ task'.remaining = task.remaining
      /\ task'.kind = task.kind /\ task'.side = task.side
      /\ task'.level # NoPrice /\ task'.price = task.price
  BY <1>1, <1>2, <1>3 DEF Task
<1>5. UNCHANGED <<levels, market_nodes, our_nodes, position, cash, lastExt, events,
                  actions, rested, ahead, reused, net>>
  BY DEF GoToLevel, bookVars, inputVars, observed
<1>6. task'.filled <= task'.remaining
  BY <1>4 DEF Task
<1>7. TypeOK'
  BY <1>3, <1>4, <1>5, <1>6 DEF TypeOK
<1>8. task.filled = 0
  BY <1>3 DEF SimInv, TaskConsistent
<1>9. PositionIsNet'
  BY <1>3, <1>4, <1>5, <1>8 DEF PositionIsNet, Ours
<1>10. TaskConsistent'
  <2>1. task'.kind = task.kind /\ task'.price = task.price /\ task'.id = task.id
    BY <1>1, <1>3 DEF Task
  <2>2. task'.level # NoPrice /\ task'.filled = 0 /\ task'.kind # "none"
    BY <1>3, <1>4, <2>1, PricesAssumption DEF Ours, Task
  <2>3. QED
    BY <2>1, <2>2 DEF SimInv, TaskConsistent, Idle
<1>11. QED
  BY <1>7, <1>9, <1>10 DEF SimInv

\* What the price of a fill is does not matter here, but it is a number.
LEMMA TakerPriceIsInt ==
  ASSUME TypeOK, task.level \in Prices
  PROVE  TakerPrice \in Int
<1>1. ASSUME NEW h \in Int PROVE Rounded(h) \in Int
  <2>1. h \div ImpactDen \in Int
    BY ImpactAssumption
  <2>2. QED
    BY <2>1 DEF Rounded
<1>2. task.level \in Int /\ task.depth \in Int /\ task.side \in Sides
  <2>1. task.depth \in Nat /\ task.side \in Sides
    BY DEF TypeOK, Task
  <2>2. task.level \in Int
    BY PriceIsInt, Zenon
  <2>3. QED
    BY <2>1, <2>2
<1>3. sign(task.side) * ImpactNum * task.depth \in Int
  <2>1. sign(task.side) * ImpactNum \in Int
    BY <1>2, SignValues, ImpactAssumption
  <2>2. QED
    BY <1>2, <2>1
<1>4. Impacted \in Int
  <2>1. ImpactDen * task.level \in Int
    BY <1>2, ImpactAssumption
  <2>2. QED
    BY <1>3, <2>1 DEF Impacted
<1>5. QED
  BY <1>1, <1>2, <1>4 DEF TakerPrice

\* The settlement of a level: what was pending in the task enters position.
LEMMA SettleTakerKeeps == ASSUME SimInv, SettleTaker PROVE SimInv'
<1>1. TypeOK /\ PositionIsNet /\ task \in Task /\ Ours /\ task.level # NoPrice
  BY DEF SimInv, TypeOK, SettleTaker, SettleAt, LevelDone
<1>2. /\ task.level \in Prices /\ task.side \in Sides
      /\ task.filled \in Nat /\ task.remaining \in Nat /\ task.depth \in Nat
  BY <1>1 DEF Task
<1>3. task.filled <= task.remaining
  BY <1>1 DEF TypeOK
<1>4. task' = [task EXCEPT !.remaining = @ - task.filled,
                           !.depth = @ + task.filled,
                           !.level = NoPrice, !.filled = 0]
  BY DEF SettleTaker, SettleAt
<1>5. task.remaining - task.filled \in Nat /\ task.depth + task.filled \in Nat
  BY <1>2, <1>3
<1>6. /\ task' \in Task /\ task'.filled = 0 /\ task'.level = NoPrice
      /\ task'.kind = task.kind /\ task'.side = task.side
      /\ task'.remaining \in Nat /\ task'.price = task.price
      /\ task'.id = task.id
  BY <1>1, <1>4, <1>5 DEF Task
<1>7. position' = position + sign(task.side) * task.filled
  BY DEF SettleTaker, SettleAt
<1>8. position \in Int /\ cash \in Int /\ net \in Int
  BY <1>1 DEF TypeOK
<1>9. sign(task.side) \in {1, -1} /\ sign(task.side) * task.filled \in Int
  BY <1>2, SignValues
<1>10. position' \in Int /\ cash' \in Int
  <2>1. TakerPrice \in Int
    BY <1>1, <1>2, TakerPriceIsInt
  <2>2. sign(task.side) * task.filled * TakerPrice \in Int
    BY <1>9, <2>1
  <2>3. cash' = cash - sign(task.side) * task.filled * TakerPrice
    BY DEF SettleTaker, SettleAt
  <2>4. QED
    BY <1>7, <1>8, <1>9, <2>2, <2>3
<1>11. UNCHANGED <<levels, market_nodes, our_nodes, lastExt, events, actions,
                   rested, ahead, reused, net>>
  BY DEF SettleTaker, SettleAt, bookVars, inputVars, observed
<1>12. TypeOK'
  BY <1>1, <1>6, <1>10, <1>11 DEF TypeOK
<1>13. position' = net' /\ net' \in Int
  BY <1>1, <1>7, <1>8, <1>11 DEF PositionIsNet
<1>14. sign(task'.side) * task'.filled = 0
  BY <1>6, <1>9
<1>15. PositionIsNet'
  <2>1. (IF Ours THEN sign(task.side) * task.filled ELSE 0)' = 0
    BY <1>14, Zenon
  <2>2. position' + 0 = net'
    BY <1>10, <1>13, ZeroAdded, Zenon
  <2>3. QED
    BY <2>1, <2>2, Zenon DEF PositionIsNet
<1>16. TaskConsistent'
  BY <1>1, <1>6 DEF SimInv, TaskConsistent, Idle, Ours
<1>17. QED
  BY <1>12, <1>15, <1>16 DEF SimInv

\* An order that ends with everything settled leaves nothing behind.
LEMMA EndSettled ==
  ASSUME TypeOK, PositionIsNet, task.filled = 0, task' = NoTask, TypeOK',
         UNCHANGED <<position, net>>
  PROVE  SimInv'
<1>1. task.side \in Sides
  BY DEF TypeOK, Task
<1>2. sign(task.side) * task.filled = 0
  BY <1>1, SignValues
<1>3. position = net
  BY <1>2 DEF PositionIsNet, TypeOK
<1>4. task'.kind = "none" /\ task'.level = NoPrice /\ task'.filled = 0
  BY DEF NoTask, NewTask
<1>5. PositionIsNet'
  BY <1>3, <1>4 DEF PositionIsNet, Ours, TypeOK
<1>6. QED
  BY <1>4, <1>5 DEF SimInv, TaskConsistent

LEMMA NoTaskType ==
  /\ NoTask \in Task
  /\ NoTask.filled = 0 /\ NoTask.remaining = 0
BY DEF NoTask, NewTask, Task, Sides

LEMMA RestKeeps == ASSUME SimInv, Rest PROVE SimInv'
<1>1. /\ TypeOK /\ PositionIsNet /\ task \in Task
      /\ task.level = NoPrice /\ task.kind = "limit" /\ task' = NoTask
  BY DEF SimInv, TypeOK, Rest
<1>2. task.filled = 0 /\ task.price \in Prices /\ task.id \in OrderIds
  BY <1>1 DEF SimInv, TaskConsistent
<1>3. PICK id \in Fresh :
        /\ Enqueue(task.side, task.price,
                   [id |-> id, qty |-> task.remaining, owner |-> task.id])
        /\ our_nodes' = [our_nodes EXCEPT ![task.id] = id]
        /\ Joins(id)
  BY DEF Rest
<1>4. id \in Nodes
  BY <1>3 DEF Fresh
<1>5. /\ task.side \in Sides /\ task.remaining \in Nat
      /\ task.id \in OrderIds \cup {Market}
  BY <1>1 DEF Task
<1>6. [id |-> id, qty |-> task.remaining, owner |-> task.id] \in Node
  BY <1>4, <1>5 DEF Node
<1>7. levels' \in [Sides -> [Prices -> Seq(Node)]]
  BY <1>1, <1>2, <1>3, <1>5, <1>6, EnqueueType DEF TypeOK
<1>8. our_nodes' \in [OrderIds -> Nodes \cup {NoNode}]
  BY <1>1, <1>3, <1>4 DEF TypeOK
<1>9. rested' \in [Nodes -> Nat] /\ reused' \subseteq OrderIds
  BY <1>1, <1>2, <1>3, <1>5 DEF Joins, TypeOK
<1>10. ahead' \in [Nodes -> SUBSET Nodes]
  <2>1. {n.id : n \in {m \in Queued(task.side, task.price) : m.qty > 0}}
          \subseteq Nodes
    <3>1. levels[task.side][task.price] \in Seq(Node)
      BY <1>1, <1>2, <1>5 DEF TypeOK
    <3>2. Queued(task.side, task.price) \subseteq Node
      BY <3>1 DEF Queued, ToSet
    <3>3. QED
      BY <3>2 DEF Node
  <2>2. ahead \in [Nodes -> SUBSET Nodes]
    BY <1>1 DEF TypeOK
  <2>3. ahead' = [ahead EXCEPT ![id] =
          {n.id : n \in {m \in Queued(task.side, task.price) : m.qty > 0}}]
    BY <1>3 DEF Joins
  <2>4. QED
    BY <2>1, <2>2, <2>3
<1>11. UNCHANGED <<market_nodes, position, cash, lastExt, events, actions, net>>
  BY DEF Rest, inputVars
<1>12. TypeOK'
  BY <1>1, <1>7, <1>8, <1>9, <1>10, <1>11, NoTaskType DEF TypeOK
<1>13. QED
  BY <1>1, <1>2, <1>11, <1>12, EndSettled

LEMMA OrderDoneKeeps == ASSUME SimInv, OrderDone PROVE SimInv'
<1>1. TypeOK /\ PositionIsNet /\ task.level = NoPrice /\ task' = NoTask
  BY DEF SimInv, OrderDone
<1>2. task.filled = 0
  BY <1>1 DEF SimInv, TaskConsistent
<1>3. UNCHANGED <<levels, market_nodes, our_nodes, position, cash, lastExt, events,
                  actions, rested, ahead, reused, net>>
  BY DEF OrderDone, bookVars, inputVars, observed
<1>4. TypeOK'
  BY <1>1, <1>3, NoTaskType DEF TypeOK
<1>5. QED
  BY <1>1, <1>2, <1>3, <1>4, EndSettled

LEMMA SimInvNext == SimInv /\ [Next]_vars => SimInv'
<1> SUFFICES ASSUME SimInv, [Next]_vars PROVE SimInv'
  OBVIOUS
<1>1. CASE Feed \/ Strategy
  BY <1>1, InputKeeps
<1>2. CASE Matching
  BY <1>2, SweepKeeps, TakeKeeps, TradeDoneKeeps, GoToLevelKeeps,
     SettleTakerKeeps, RestKeeps, OrderDoneKeeps DEF Matching
<1>3. CASE UNCHANGED vars
  <2>1. UNCHANGED <<levels, market_nodes, our_nodes, position, cash, task, lastExt,
                    events, actions, rested, ahead, reused, net>>
    BY <1>3 DEF vars, bookVars, inputVars, observed
  <2>2. TypeOK' /\ TaskConsistent'
    BY <2>1 DEF SimInv, TypeOK, TaskConsistent, Idle
  <2>3. PositionIsNet'
    BY <2>1 DEF SimInv, PositionIsNet, Ours
  <2>4. QED
    BY <2>2, <2>3 DEF SimInv
<1>4. QED
  BY <1>1, <1>2, <1>3 DEF Next

\* The book stays a book of nodes with natural quantities, and a level never
\* gives an order more than it asked for.
THEOREM SimTypeCorrect == Spec => []TypeOK
<1>1. SimInv => TypeOK
  BY DEF SimInv
<1>2. QED
  BY SimInvInit, SimInvNext, <1>1, PTL DEF Spec

\* The position is exact in the middle of every sweep: each fill is settled
\* once on each side of ours it has.
THEOREM PositionIsExact == Spec => []PositionIsNet
<1>1. SimInv => PositionIsNet
  BY DEF SimInv
<1>2. QED
  BY SimInvInit, SimInvNext, <1>1, PTL DEF Spec

(***************************************************************************)
(* The queues, by place: side, price and position from the front.          *)
(***************************************************************************)
Places == {c \in Sides \X Prices \X (Nat \ {0}) : c[3] <= Len(levels[c[1]][c[2]])}
at(c) == levels[c[1]][c[2]][c[3]]

IsOurs(c) == at(c).owner # Market /\ at(c).qty > 0

\* No node is in two places, so that an id means one of them.
IdsOnce == \A c, d \in Places : at(c).id = at(d).id => c = d

\* our_nodes and market_nodes lead to what they say, and only to volume; an
\* order has no entry only where its id was used again.
Listed ==
  /\ \A c \in Places : IsOurs(c) /\ at(c).owner \notin reused =>
       our_nodes[at(c).owner] = at(c).id
  /\ \A o \in OrderIds : our_nodes[o] # NoNode =>
       \E c \in Places : at(c).id = our_nodes[o] /\ at(c).owner = o /\ at(c).qty > 0

External ==
  /\ \A x \in ExtIds : market_nodes[x] # NoNode =>
       \E c \in Places : /\ at(c).id = market_nodes[x] /\ at(c).owner = Market
                         /\ at(c).qty > 0
  /\ \A x, y \in ExtIds : market_nodes[x] = market_nodes[y] /\ market_nodes[x] # NoNode => x = y

\* What is still ahead of an order of ours stands before it in its queue, and
\* nothing is once the order has filled in part.
AheadIsBefore ==
  \A c \in Places : IsOurs(c) =>
    /\ \A id \in ahead[at(c).id] :
         \E d \in Places : /\ d[1] = c[1] /\ d[2] = c[2] /\ d[3] < c[3]
                           /\ at(d).id = id /\ at(d).qty > 0
    /\ at(c).qty < rested[at(c).id] => ahead[at(c).id] = {}

BookInv == IdsOnce /\ Listed /\ External /\ AheadIsBefore

LEMMA PlaceFacts ==
  ASSUME TypeOK, NEW c \in Places
  PROVE  /\ c[1] \in Sides /\ c[2] \in Prices /\ c[3] \in Nat \ {0}
         /\ levels[c[1]][c[2]] \in Seq(Node)
         /\ c[3] \in 1 .. Len(levels[c[1]][c[2]])
         /\ at(c) \in Node
         /\ c = <<c[1], c[2], c[3]>>
<1>1. /\ c[1] \in Sides /\ c[2] \in Prices /\ c[3] \in Nat \ {0}
      /\ c = <<c[1], c[2], c[3]>> /\ c[3] <= Len(levels[c[1]][c[2]])
  BY DEF Places
<1>2. levels[c[1]][c[2]] \in Seq(Node)
  BY <1>1 DEF TypeOK
<1>3. c[3] \in 1 .. Len(levels[c[1]][c[2]])
  BY <1>1, <1>2
<1>4. levels[c[1]][c[2]][c[3]] \in Node
  BY <1>2, <1>3
<1>5. QED
  BY <1>1, <1>2, <1>3, <1>4 DEF at

LEMMA PlaceIs ==
  ASSUME TypeOK, NEW s \in Sides, NEW p \in Prices, NEW i \in 1 .. Len(levels[s][p])
  PROVE  <<s, p, i>> \in Places /\ at(<<s, p, i>>) = levels[s][p][i]
<1>1. levels[s][p] \in Seq(Node)
  BY DEF TypeOK
<1>2. i \in Nat \ {0} /\ i <= Len(levels[s][p])
  BY <1>1
<1>3. QED
  BY <1>2 DEF Places, at

LEMMA BookIsPlaces == TypeOK => InBook = {at(c) : c \in Places}
<1> SUFFICES ASSUME TypeOK PROVE InBook = {at(c) : c \in Places}
  OBVIOUS
<1>1. ASSUME NEW n \in InBook PROVE \E c \in Places : n = at(c)
  <2>1. PICK s \in Sides, p \in Prices : n \in Queued(s, p)
    BY DEF InBook
  <2>2. PICK i \in DOMAIN levels[s][p] : n = levels[s][p][i]
    BY <2>1 DEF Queued, ToSet
  <2>3. i \in 1 .. Len(levels[s][p])
    BY DEF TypeOK
  <2>4. QED
    BY <2>2, <2>3, PlaceIs
<1>2. ASSUME NEW c \in Places PROVE at(c) \in InBook
  <2>1. at(c) \in Queued(c[1], c[2])
    BY PlaceFacts DEF at, Queued, ToSet
  <2>2. QED
    BY <2>1, PlaceFacts DEF InBook
<1>3. QED
  BY <1>1, <1>2

(***************************************************************************)
(* What cancelling and consuming do to the places: f says which place each *)
(* one was before the step, G holds the ids whose volume ended in it.      *)
(***************************************************************************)
Shrinks(f, G) ==
  /\ f \in [Places' -> Places]
  /\ \A c \in Places' :
       /\ f[c][1] = c[1] /\ f[c][2] = c[2]
       /\ at(c)'.id = at(f[c]).id /\ at(c)'.owner = at(f[c]).owner
       /\ at(c)'.qty > 0 => at(f[c]).qty > 0 /\ at(f[c]).id \notin G
       /\ at(c)'.qty > 0 => at(c)'.qty = at(f[c]).qty \/ f[c][3] = 1
  /\ \A c, d \in Places' : f[c] = f[d] => c = d
  /\ \A c, d \in Places' : c[1] = d[1] /\ c[2] = d[2] /\ f[c][3] < f[d][3] => c[3] < d[3]
  /\ \A d \in Places : at(d).qty > 0 /\ at(d).id \notin G =>
       \E c \in Places' : f[c] = d /\ at(c)'.qty > 0

\* What happens to the entries of our ids: those that led to G are gone, and
\* no other is lost unless its id was used again.
Dropped(G) ==
  \A o \in OrderIds :
    /\ our_nodes'[o] \in {our_nodes[o], NoNode}
    /\ our_nodes[o] \in G => our_nodes'[o] = NoNode
    /\ our_nodes[o] \notin G /\ o \notin reused => our_nodes'[o] = our_nodes[o]

\* What ends takes along what was observed of it.
Forgotten(G) ==
  /\ ahead' = [n \in Nodes |-> IF n \in G THEN {} ELSE ahead[n] \ G]
  /\ rested' = [n \in Nodes |-> IF n \in G THEN 0 ELSE rested[n]]
  /\ reused' = reused

LEMMA ShrinkKeeps ==
  ASSUME TypeOK, TypeOK', BookInv, NEW f, NEW G, Shrinks(f, G), Dropped(G), Forgotten(G),
         market_nodes' = [x \in ExtIds |->
                            IF market_nodes[x] \in G THEN NoNode ELSE market_nodes[x]]
  PROVE  BookInv'
<1>0. \A c \in Places : /\ at(c) \in Node /\ at(c).id \in Nodes
                        /\ at(c).owner # Market => at(c).owner \in OrderIds
  BY PlaceFacts DEF Node
<1>00. \A c \in Places' : f[c] \in Places
  BY DEF Shrinks
<1>1. IdsOnce'
  BY <1>00 DEF Shrinks, BookInv, IdsOnce
<1>2. ASSUME NEW c \in Places', IsOurs(c)'
      PROVE  /\ IsOurs(f[c]) /\ at(f[c]).id \notin G /\ at(c)'.id = at(f[c]).id
             /\ at(c)'.owner = at(f[c]).owner /\ at(c)'.owner \in OrderIds
  BY <1>0, <1>00, <1>2 DEF Shrinks, IsOurs
<1>3. ASSUME NEW c \in Places', IsOurs(c)', at(c)'.owner \notin reused'
      PROVE  our_nodes'[at(c)'.owner] = at(c)'.id
  <2>1. at(f[c]).owner \notin reused
    BY <1>2, <1>3 DEF Forgotten
  <2>2. our_nodes[at(f[c]).owner] = at(f[c]).id
    BY <1>00, <1>2, <1>3, <2>1 DEF BookInv, Listed
  <2>3. QED
    BY <1>2, <1>3, <2>1, <2>2 DEF Dropped
<1>4. ASSUME NEW o \in OrderIds, our_nodes'[o] # NoNode
      PROVE  \E c \in Places' : at(c)'.id = our_nodes'[o] /\ at(c)'.owner = o /\ at(c)'.qty > 0
  <2>1. our_nodes[o] \notin G /\ our_nodes[o] # NoNode /\ our_nodes'[o] = our_nodes[o]
    BY <1>4 DEF Dropped
  <2>2. PICK d \in Places : at(d).id = our_nodes[o] /\ at(d).owner = o /\ at(d).qty > 0
    BY <2>1 DEF BookInv, Listed
  <2>3. PICK c \in Places' : f[c] = d /\ at(c)'.qty > 0
    BY <2>1, <2>2 DEF Shrinks
  <2>4. QED
    BY <2>1, <2>2, <2>3 DEF Shrinks
<1>5. Listed'
  BY <1>3, <1>4 DEF Listed
<1>6. External'
  <2>1. ASSUME NEW x \in ExtIds, market_nodes'[x] # NoNode
        PROVE  \E c \in Places' : /\ at(c)'.id = market_nodes'[x] /\ at(c)'.owner = Market
                                  /\ at(c)'.qty > 0
    <3>1. market_nodes[x] \notin G /\ market_nodes[x] # NoNode
          /\ market_nodes'[x] = market_nodes[x]
      BY <2>1
    <3>2. PICK d \in Places : /\ at(d).id = market_nodes[x] /\ at(d).owner = Market
                              /\ at(d).qty > 0
      BY <3>1 DEF BookInv, External
    <3>3. PICK c \in Places' : f[c] = d /\ at(c)'.qty > 0
      BY <3>1, <3>2 DEF Shrinks
    <3>4. QED
      BY <3>1, <3>2, <3>3 DEF Shrinks
  <2>2. \A x, y \in ExtIds : market_nodes'[x] = market_nodes'[y] /\ market_nodes'[x] # NoNode
                               => x = y
    BY DEF BookInv, External
  <2>3. QED
    BY <2>1, <2>2 DEF External
<1>7. ASSUME NEW c \in Places', IsOurs(c)'
      PROVE  /\ \A id \in ahead'[at(c)'.id] :
                  \E d \in Places' : /\ d[1] = c[1] /\ d[2] = c[2] /\ d[3] < c[3]
                                     /\ at(d)'.id = id /\ at(d)'.qty > 0
             /\ at(c)'.qty < rested'[at(c)'.id] => ahead'[at(c)'.id] = {}
  <2> DEFINE m == at(f[c]).id
  <2>1. /\ IsOurs(f[c]) /\ f[c] \in Places /\ m \in Nodes \ G /\ at(c)'.id = m
        /\ ahead'[m] = ahead[m] \ G /\ rested'[m] = rested[m]
    BY <1>0, <1>00, <1>2, <1>7 DEF Forgotten
  <2>2. ASSUME NEW id \in ahead'[m]
        PROVE  \E d \in Places' : /\ d[1] = c[1] /\ d[2] = c[2] /\ d[3] < c[3]
                                  /\ at(d)'.id = id /\ at(d)'.qty > 0
    <3>1. id \in ahead[m] /\ id \notin G
      BY <2>1
    <3>2. PICK e \in Places : /\ e[1] = f[c][1] /\ e[2] = f[c][2] /\ e[3] < f[c][3]
                              /\ at(e).id = id /\ at(e).qty > 0
      BY <2>1, <3>1 DEF BookInv, AheadIsBefore
    <3>3. PICK d \in Places' : f[d] = e /\ at(d)'.qty > 0
      BY <3>1, <3>2 DEF Shrinks
    <3>4. QED
      BY <3>2, <3>3 DEF Shrinks
  <2>3. ASSUME at(c)'.qty < rested[m] PROVE ahead[m] = {}
    <3>1. CASE at(c)'.qty = at(f[c]).qty
      BY <2>1, <2>3, <3>1 DEF BookInv, AheadIsBefore
    <3>2. CASE f[c][3] = 1
      <4>1. \A e \in Places : ~(e[3] < 1)
        BY DEF Places
      <4>2. QED
        BY <2>1, <3>2, <4>1 DEF BookInv, AheadIsBefore
    <3>3. QED
      BY <1>7, <3>1, <3>2 DEF Shrinks, IsOurs
  <2>4. QED
    BY <2>1, <2>2, <2>3
<1>8. AheadIsBefore'
  BY <1>7 DEF AheadIsBefore
<1>9. QED
  BY <1>1, <1>5, <1>6, <1>8 DEF BookInv

LEMMA ZeroedShrinks ==
  ASSUME TypeOK, NEW id, levels' = Zeroed(id)
  PROVE  \E f : Shrinks(f, {id})
<1> DEFINE f == [c \in Places |-> c]
<1>1. ASSUME NEW s \in Sides, NEW p \in Prices
      PROVE  /\ Len(levels'[s][p]) = Len(levels[s][p])
             /\ \A i \in 1 .. Len(levels[s][p]) :
                  levels'[s][p][i] = IF levels[s][p][i].id = id
                                     THEN [levels[s][p][i] EXCEPT !.qty = 0]
                                     ELSE levels[s][p][i]
  <2>1. levels[s][p] \in Seq(Node) /\ Len(levels[s][p]) \in Nat
        /\ DOMAIN levels[s][p] = 1 .. Len(levels[s][p])
    BY DEF TypeOK
  <2>2. levels'[s][p] = [i \in 1 .. Len(levels[s][p]) |->
                           IF levels[s][p][i].id = id
                           THEN [levels[s][p][i] EXCEPT !.qty = 0] ELSE levels[s][p][i]]
    BY <2>1 DEF Zeroed
  <2>3. QED
    BY <2>1, <2>2
<1>2. Places' = Places
  BY <1>1 DEF Places
<1>3. ASSUME NEW c \in Places
      PROVE  /\ at(c)'.id = at(c).id /\ at(c)'.owner = at(c).owner
             /\ at(c)'.qty = IF at(c).id = id THEN 0 ELSE at(c).qty
  <2>1. at(c)' = IF at(c).id = id THEN [at(c) EXCEPT !.qty = 0] ELSE at(c)
    BY <1>1, PlaceFacts DEF at
  <2>2. at(c) \in Node
    BY PlaceFacts
  <2>3. QED
    BY <2>1, <2>2 DEF Node
<1>4. \A c \in Places : c[3] \in Nat /\ at(c).qty \in Nat
  BY PlaceFacts DEF Node
<1>5. Shrinks(f, {id})
  BY <1>2, <1>3, <1>4 DEF Shrinks
<1>6. QED
  BY <1>5

LEMMA TailPlaces ==
  ASSUME NEW S, NEW q \in Seq(S), q # <<>>
  PROVE  /\ Tail(q) \in Seq(S) /\ Len(Tail(q)) = Len(q) - 1
         /\ \A i \in 1 .. Len(q) - 1 : Tail(q)[i] = q[i + 1]
         /\ Head(q) = q[1] /\ Len(q) \in Nat \ {0}
OBVIOUS

\* pop_front of a node that has no volume, or whose id is in G.
LEMMA PopShrinks ==
  ASSUME TypeOK, IdsOnce, NEW s \in Sides, NEW p \in Prices, levels[s][p] # <<>>,
         levels' = [levels EXCEPT ![s][p] = Tail(@)],
         NEW G, G \subseteq {Head(levels[s][p]).id},
         Head(levels[s][p]).qty = 0 \/ Head(levels[s][p]).id \in G
  PROVE  \E f : Shrinks(f, G)
<1> DEFINE n == Len(levels[s][p])
           Old(c) == IF c[1] = s /\ c[2] = p THEN <<s, p, c[3] + 1>> ELSE c
           f == [c \in Places' |-> Old(c)]
           front == <<s, p, 1>>
<1>1. /\ levels[s][p] \in Seq(Node) /\ n \in Nat \ {0}
      /\ levels'[s][p] = Tail(levels[s][p])
      /\ \A t \in Sides, q \in Prices : <<t, q>> # <<s, p>> => levels'[t][q] = levels[t][q]
  BY DEF TypeOK
<1>2. /\ Len(levels'[s][p]) = n - 1
      /\ \A i \in 1 .. n - 1 : levels'[s][p][i] = levels[s][p][i + 1]
      /\ Head(levels[s][p]) = levels[s][p][1]
  <2> DEFINE q == levels[s][p]
  <2>1. q \in Seq(Node) /\ q # <<>> /\ levels'[s][p] = Tail(q)
    BY <1>1
  <2> HIDE DEF q
  <2>2. /\ Len(Tail(q)) = Len(q) - 1
        /\ \A i \in 1 .. Len(q) - 1 : Tail(q)[i] = q[i + 1]
        /\ Head(q) = q[1]
    BY <2>1, TailPlaces
  <2>3. QED
    BY <2>1, <2>2, Zenon DEF q
<1>3. front \in Places /\ at(front) = Head(levels[s][p])
  BY <1>1, <1>2, PlaceIs
<1>4. ASSUME NEW c \in Places'
      PROVE  /\ Old(c) \in Places /\ at(c)' = at(Old(c)) /\ Old(c) # front
             /\ Old(c)[1] = c[1] /\ Old(c)[2] = c[2] /\ c[3] \in Nat /\ Old(c)[3] \in Nat
             /\ c = <<c[1], c[2], c[3]>>
  <2>1. /\ c[1] \in Sides /\ c[2] \in Prices /\ c[3] \in Nat \ {0}
        /\ c = <<c[1], c[2], c[3]>> /\ c[3] <= Len(levels'[c[1]][c[2]])
    BY DEF Places
  <2>2. CASE c[1] = s /\ c[2] = p
    <3>1. c[3] \in 1 .. n - 1 /\ c[3] + 1 \in 1 .. n
      BY <1>1, <1>2, <2>1, <2>2
    <3>2. <<s, p, c[3] + 1>> \in Places /\ at(<<s, p, c[3] + 1>>) = levels[s][p][c[3] + 1]
      BY <3>1, PlaceIs
    <3>3. at(c)' = levels[s][p][c[3] + 1]
      BY <1>2, <2>2, <3>1 DEF at
    <3>4. QED
      BY <2>1, <2>2, <3>1, <3>2, <3>3
  <2>3. CASE ~(c[1] = s /\ c[2] = p)
    <3>1. levels'[c[1]][c[2]] = levels[c[1]][c[2]]
      BY <1>1, <2>1, <2>3
    <3>2. c \in Places
      BY <2>1, <3>1 DEF Places
    <3>3. at(c)' = at(c)
      BY <3>1 DEF at
    <3>4. QED
      BY <2>1, <2>3, <3>2, <3>3
  <2>4. QED
    BY <2>2, <2>3
<1>5. ASSUME NEW d \in Places, d # front
      PROVE  \E c \in Places' : Old(c) = d
  <2>1. /\ d[1] \in Sides /\ d[2] \in Prices /\ d[3] \in Nat \ {0}
        /\ d = <<d[1], d[2], d[3]>> /\ d[3] <= Len(levels[d[1]][d[2]])
    BY DEF Places
  <2>2. CASE d[1] = s /\ d[2] = p
    <3>1. d[3] - 1 \in Nat \ {0} /\ d[3] - 1 <= n - 1
      BY <1>1, <1>5, <2>1, <2>2
    <3>2. <<s, p, d[3] - 1>> \in Places'
      BY <1>2, <3>1 DEF Places
    <3>3. Old(<<s, p, d[3] - 1>>) = d
      BY <2>1, <2>2, <3>1
    <3>4. QED
      BY <3>2, <3>3
  <2>3. CASE ~(d[1] = s /\ d[2] = p)
    <3>1. levels'[d[1]][d[2]] = levels[d[1]][d[2]]
      BY <1>1, <2>1, <2>3
    <3>2. d \in Places'
      BY <2>1, <3>1 DEF Places
    <3>3. QED
      BY <2>3, <3>2
  <2>4. QED
    BY <2>2, <2>3
<1>6. \A c, d \in Places' : Old(c) = Old(d) => c = d
  <2> SUFFICES ASSUME NEW c \in Places', NEW d \in Places', Old(c) = Old(d) PROVE c = d
    OBVIOUS
  <2>1. c[1] = d[1] /\ c[2] = d[2]
    BY <1>4
  <2>2. c[3] = d[3]
    BY <1>4, <2>1
  <2>3. QED
    BY <1>4, <2>1, <2>2
<1>7. ASSUME NEW c \in Places', NEW d \in Places', c[1] = d[1], c[2] = d[2],
             Old(c)[3] < Old(d)[3]
      PROVE  c[3] < d[3]
  <2>1. CASE c[1] = s /\ c[2] = p
    <3>1. Old(c) = <<s, p, c[3] + 1>> /\ Old(d) = <<s, p, d[3] + 1>>
      BY <1>7, <2>1
    <3>2. c[3] \in Nat /\ d[3] \in Nat
      BY <1>4
    <3>3. c[3] + 1 < d[3] + 1
      BY <1>7, <3>1
    <3>4. QED
      BY <3>2, <3>3
  <2>2. CASE ~(c[1] = s /\ c[2] = p)
    <3>1. Old(c) = c /\ Old(d) = d
      BY <1>7, <2>2
    <3>2. QED
      BY <1>7, <3>1
  <2>3. QED
    BY <2>1, <2>2
<1>8. \A c \in Places' : at(Old(c)).id \notin G
  BY <1>3, <1>4 DEF IdsOnce
<1> HIDE DEF Old
<1>9. \A c \in Places' : f[c] = Old(c)
  OBVIOUS
<1>10. f \in [Places' -> Places]
  BY <1>4
<1> HIDE DEF f
<1>11. \A d \in Places : at(d).qty > 0 /\ at(d).id \notin G =>
         \E c \in Places' : f[c] = d /\ at(c)'.qty > 0
  <2> SUFFICES ASSUME NEW d \in Places, at(d).qty > 0, at(d).id \notin G
               PROVE  \E c \in Places' : f[c] = d /\ at(c)'.qty > 0
    OBVIOUS
  <2>1. d # front
    BY <1>3
  <2>2. PICK c \in Places' : Old(c) = d
    BY <1>5, <2>1
  <2>3. QED
    BY <1>4, <1>9, <2>2
<1>12. Shrinks(f, G)
  BY <1>4, <1>6, <1>7, <1>8, <1>9, <1>10, <1>11 DEF Shrinks
<1>13. QED
  BY <1>12

\* A fill that leaves volume in the node at the front.
LEMMA PartialShrinks ==
  ASSUME TypeOK, NEW s \in Sides, NEW p \in Prices, levels[s][p] # <<>>,
         Head(levels[s][p]).qty > 0, NEW left \in Nat \ {0},
         levels' = [levels EXCEPT ![s][p] =
                      <<[Head(@) EXCEPT !.qty = left]>> \o Tail(@)]
  PROVE  \E f : Shrinks(f, {})
<1> DEFINE f == [c \in Places |-> c]
           n == Len(levels[s][p])
           new == [Head(levels[s][p]) EXCEPT !.qty = left]
<1>1. /\ levels[s][p] \in Seq(Node) /\ n \in Nat \ {0}
      /\ levels'[s][p] = <<new>> \o Tail(levels[s][p])
      /\ \A t \in Sides, q \in Prices : <<t, q>> # <<s, p>> => levels'[t][q] = levels[t][q]
  <2>1. levels \in [Sides -> [Prices -> Seq(Node)]]
    BY DEF TypeOK
  <2>2. levels[s][p] \in Seq(Node) /\ n \in Nat \ {0}
    BY <2>1
  <2>3. levels'[s][p] = <<new>> \o Tail(levels[s][p])
    BY <2>1, Zenon
  <2>4. \A t \in Sides, q \in Prices : <<t, q>> # <<s, p>> => levels'[t][q] = levels[t][q]
    BY <2>1
  <2>5. QED
    BY <2>2, <2>3, <2>4
<1>2. /\ Len(levels'[s][p]) = n
      /\ levels'[s][p][1] = new
      /\ \A i \in 2 .. n : levels'[s][p][i] = levels[s][p][i]
      /\ Head(levels[s][p]) = levels[s][p][1]
  BY <1>1
<1>3. /\ new.id = Head(levels[s][p]).id /\ new.owner = Head(levels[s][p]).owner
      /\ new.qty = left
  BY <1>1, <1>2 DEF Node
<1> HIDE DEF new
<1>4. Places' = Places
  BY <1>1, <1>2 DEF Places
<1>5. ASSUME NEW c \in Places
      PROVE  \/ at(c)' = at(c)
             \/ /\ at(c)'.id = at(c).id /\ at(c)'.owner = at(c).owner
                /\ at(c)'.qty > 0 /\ at(c).qty > 0 /\ c[3] = 1
  <2>1. CASE ~(c[1] = s /\ c[2] = p)
    BY <1>1, <2>1, PlaceFacts DEF at
  <2>2. CASE c[1] = s /\ c[2] = p /\ c[3] # 1
    <3>1. c[3] \in 2 .. n
      BY <1>1, <2>2, PlaceFacts
    <3>2. QED
      BY <1>2, <2>2, <3>1 DEF at
  <2>3. CASE c[1] = s /\ c[2] = p /\ c[3] = 1
    BY <1>2, <1>3, <2>3 DEF at
  <2>4. QED
    BY <2>1, <2>2, <2>3
<1>6. \A c \in Places : c[3] \in Nat /\ at(c).qty \in Nat
  BY PlaceFacts DEF Node
<1>7. Shrinks(f, {})
  BY <1>4, <1>5, <1>6 DEF Shrinks
<1>8. QED
  BY <1>7

(***************************************************************************)
(* What an order that rests does to the places: k is the place it takes.   *)
(***************************************************************************)
LEMMA GrowPlaces ==
  ASSUME TypeOK, NEW s \in Sides, NEW p \in Prices, NEW n \in Node, Enqueue(s, p, n),
         NEW k, k = Len(levels[s][p]) + 1
  PROVE  /\ Places' = Places \cup {<<s, p, k>>}
         /\ at(<<s, p, k>>)' = n
         /\ \A c \in Places : at(c)' = at(c)
         /\ \A c \in Places : c[1] = s /\ c[2] = p => c[3] < k
<1>1. /\ levels[s][p] \in Seq(Node) /\ Len(levels[s][p]) \in Nat
      /\ levels'[s][p] = Append(levels[s][p], n)
      /\ \A t \in Sides, q \in Prices : <<t, q>> # <<s, p>> => levels'[t][q] = levels[t][q]
  BY DEF TypeOK, Enqueue
<1>2. /\ Len(levels'[s][p]) = k /\ levels'[s][p][k] = n
      /\ \A i \in 1 .. k - 1 : levels'[s][p][i] = levels[s][p][i]
  <2> DEFINE q == levels[s][p]
  <2>1. q \in Seq(Node) /\ levels'[s][p] = Append(q, n) /\ k = Len(q) + 1
    BY <1>1
  <2> HIDE DEF q
  <2>2. /\ Len(Append(q, n)) = k /\ Append(q, n)[k] = n
        /\ \A i \in 1 .. k - 1 : Append(q, n)[i] = q[i]
    BY <2>1
  <2>3. QED
    BY <2>1, <2>2, Zenon DEF q
<1>3. k \in Nat \ {0} /\ Len(levels[s][p]) = k - 1
  BY <1>1
<1>4. ASSUME NEW c \in Places PROVE c \in Places' /\ at(c)' = at(c)
  <2>1. CASE c[1] = s /\ c[2] = p
    <3>1. c[3] \in 1 .. k - 1 /\ c[3] <= k
      BY <1>3, <2>1, PlaceFacts
    <3>2. at(c)' = at(c)
      BY <1>2, <2>1, <3>1 DEF at
    <3>3. c[3] <= Len(levels'[c[1]][c[2]])
      BY <1>2, <2>1, <3>1
    <3>4. QED
      BY <3>2, <3>3 DEF Places
  <2>2. CASE ~(c[1] = s /\ c[2] = p)
    <3>1. levels'[c[1]][c[2]] = levels[c[1]][c[2]]
      BY <1>1, <2>2, PlaceFacts
    <3>2. QED
      BY <3>1 DEF Places, at
  <2>3. QED
    BY <2>1, <2>2
<1>5. ASSUME NEW c \in Places' PROVE c \in Places \/ c = <<s, p, k>>
  <2>1. /\ c[1] \in Sides /\ c[2] \in Prices /\ c[3] \in Nat \ {0}
        /\ c = <<c[1], c[2], c[3]>> /\ c[3] <= Len(levels'[c[1]][c[2]])
    BY DEF Places
  <2>2. CASE c[1] = s /\ c[2] = p
    <3>1. c[3] <= k
      BY <1>2, <2>1, <2>2
    <3>2. c[3] = k \/ c[3] <= Len(levels[s][p])
      BY <1>3, <2>1, <3>1
    <3>3. QED
      BY <2>1, <2>2, <3>2 DEF Places
  <2>3. CASE ~(c[1] = s /\ c[2] = p)
    <3>1. levels'[c[1]][c[2]] = levels[c[1]][c[2]]
      BY <1>1, <2>1, <2>3
    <3>2. QED
      BY <2>1, <3>1 DEF Places
  <2>4. QED
    BY <2>2, <2>3
<1>6. <<s, p, k>> \in Places' /\ at(<<s, p, k>>)' = n
  <2>1. k <= Len(levels'[s][p])
    BY <1>2, <1>3
  <2>2. QED
    BY <1>2, <1>3, <2>1 DEF Places, at
<1>7. \A c \in Places : c[1] = s /\ c[2] = p => c[3] < k
  BY <1>3, PlaceFacts
<1>8. QED
  BY <1>4, <1>5, <1>6, <1>7

LEMMA FreshIsNew == ASSUME TypeOK, NEW id \in Fresh PROVE \A c \in Places : at(c).id # id
BY BookIsPlaces DEF Fresh

LEMMA AddMarketBook ==
  ASSUME TypeOK, TypeOK', BookInv, NEW s \in Sides, NEW p \in Prices,
         NEW q \in Quantities, add_market(s, p, q)
  PROVE  BookInv'
<1>1. PICK id \in Fresh :
        /\ Enqueue(s, p, [id |-> id, qty |-> q, owner |-> Market])
        /\ market_nodes' = [market_nodes EXCEPT ![lastExt'] = id]
  BY DEF add_market
<1> DEFINE n == [id |-> id, qty |-> q, owner |-> Market]
<1>2. n \in Node /\ n.id = id /\ n.owner = Market /\ n.qty > 0 /\ id \in Nodes
  BY QuantitiesAssumption DEF Node, Fresh
<1>3. Enqueue(s, p, n)
  BY <1>1
<1> HIDE DEF n
<1>4. PICK k : k = Len(levels[s][p]) + 1
  OBVIOUS
<1> DEFINE new == <<s, p, k>>
<1>5. /\ Places' = Places \cup {new} /\ at(new)' = n
      /\ \A c \in Places : at(c)' = at(c)
  BY <1>2, <1>3, <1>4, GrowPlaces
<1> HIDE DEF new
<1>6. \A c \in Places : at(c).id # id
  BY FreshIsNew
<1>7. UNCHANGED <<our_nodes, ahead, rested, reused>>
  BY DEF add_market, observed
<1>8. IdsOnce'
  BY <1>2, <1>5, <1>6 DEF BookInv, IdsOnce
<1>9. \A c \in Places' : IsOurs(c)' => c \in Places /\ IsOurs(c)
  BY <1>2, <1>5 DEF IsOurs
<1>10. Listed'
  BY <1>5, <1>7, <1>9 DEF BookInv, Listed
<1>11. External'
  <2>1. ASSUME NEW x \in ExtIds PROVE market_nodes'[x] = IF x = lastExt' THEN id ELSE market_nodes[x]
    BY <1>1 DEF TypeOK
  <2>2. \A x \in ExtIds : market_nodes[x] # id
    BY <1>2, <1>6, NodesAssumption DEF BookInv, External
  <2>3. ASSUME NEW x \in ExtIds, market_nodes'[x] # NoNode
        PROVE  \E c \in Places' : /\ at(c)'.id = market_nodes'[x] /\ at(c)'.owner = Market
                                  /\ at(c)'.qty > 0
    <3>1. CASE x = lastExt'
      BY <1>2, <1>5, <2>1, <3>1
    <3>2. CASE x # lastExt'
      <4>1. PICK c \in Places : /\ at(c).id = market_nodes[x] /\ at(c).owner = Market
                                /\ at(c).qty > 0
        BY <2>1, <2>3, <3>2 DEF BookInv, External
      <4>2. QED
        BY <1>5, <2>1, <3>2, <4>1
    <3>3. QED
      BY <3>1, <3>2
  <2>4. \A x, y \in ExtIds : market_nodes'[x] = market_nodes'[y] /\ market_nodes'[x] # NoNode
                               => x = y
    BY <2>1, <2>2 DEF BookInv, External
  <2>5. QED
    BY <2>3, <2>4 DEF External
<1>12. AheadIsBefore'
  BY <1>5, <1>7, <1>9 DEF BookInv, AheadIsBefore
<1>13. QED
  BY <1>8, <1>10, <1>11, <1>12 DEF BookInv

LEMMA RestBook == ASSUME SimInv, SimInv', BookInv, Rest PROVE BookInv'
<1>1. TypeOK /\ TypeOK'
  BY DEF SimInv
<1>2. PICK s \in Sides, p \in Prices, o \in OrderIds, q \in Nat \ {0} :
        /\ s = task.side /\ p = task.price /\ o = task.id /\ q = task.remaining
  BY DEF SimInv, TaskConsistent, TypeOK, Task, Rest
<1>3. PICK id \in Fresh :
        /\ Enqueue(s, p, [id |-> id, qty |-> q, owner |-> o])
        /\ our_nodes' = [our_nodes EXCEPT ![o] = id]
        /\ Joins(id)
  BY <1>2 DEF Rest
<1>4. /\ rested' = [rested EXCEPT ![id] = q]
      /\ ahead' = [ahead EXCEPT ![id] = {n.id : n \in {m \in Queued(s, p) : m.qty > 0}}]
      /\ reused' = IF Standing(o) # {} THEN reused \cup {o} ELSE reused \ {o}
      /\ UNCHANGED market_nodes
  BY <1>2, <1>3 DEF Rest, Joins
<1> DEFINE n == [id |-> id, qty |-> q, owner |-> o]
<1>5. /\ n \in Node /\ n.id = id /\ n.owner = o /\ n.qty = q /\ id \in Nodes
      /\ o # Market /\ q > 0
  BY OrderIdsAssumption DEF Node, Fresh
<1>6. Enqueue(s, p, n)
  BY <1>3
<1> HIDE DEF n
<1>7. PICK k : k = Len(levels[s][p]) + 1
  OBVIOUS
<1> DEFINE new == <<s, p, k>>
<1>8. /\ Places' = Places \cup {new} /\ at(new)' = n
      /\ \A c \in Places : at(c)' = at(c)
      /\ \A c \in Places : c[1] = s /\ c[2] = p => c[3] < k
      /\ new[1] = s /\ new[2] = p /\ new[3] = k
  BY <1>1, <1>5, <1>6, <1>7, GrowPlaces
<1> HIDE DEF new
<1>9. \A c \in Places : at(c).id # id
  BY <1>1, FreshIsNew
<1>10. IdsOnce'
  BY <1>5, <1>8, <1>9 DEF BookInv, IdsOnce
<1>11. /\ our_nodes'[o] = id /\ rested'[id] = q
       /\ ahead'[id] = {m.id : m \in {x \in Queued(s, p) : x.qty > 0}}
       /\ \A x \in OrderIds : x # o => our_nodes'[x] = our_nodes[x]
       /\ \A x \in Nodes : x # id => rested'[x] = rested[x] /\ ahead'[x] = ahead[x]
  BY <1>1, <1>3, <1>4, <1>5 DEF TypeOK
\* An order that already stands under the id o has used it up.
<1>12. ASSUME NEW c \in Places, IsOurs(c)
       PROVE  /\ at(c).owner \in OrderIds /\ at(c).id \in Nodes \ {id}
              /\ at(c).owner = o => o \in reused'
              /\ at(c).owner # o /\ at(c).owner \notin reused' => at(c).owner \notin reused
  <2>1. at(c) \in Node /\ at(c).owner # Market /\ at(c) \in InBook
    BY <1>1, <1>12, PlaceFacts, BookIsPlaces DEF IsOurs
  <2>2. at(c).owner \in OrderIds /\ at(c).id \in Nodes \ {id}
    BY <1>9, <2>1 DEF Node
  <2>3. at(c).owner = o => Standing(o) # {}
    BY <1>12, <2>1 DEF Standing, IsOurs
  <2>4. QED
    BY <1>4, <2>2, <2>3
<1>13. \A c \in Places' : IsOurs(c)' => c = new \/ (c \in Places /\ IsOurs(c))
  BY <1>8 DEF IsOurs
<1>14. Listed'
  <2>1. ASSUME NEW c \in Places', IsOurs(c)', at(c)'.owner \notin reused'
        PROVE  our_nodes'[at(c)'.owner] = at(c)'.id
    <3>1. CASE c = new
      BY <1>5, <1>8, <1>11, <3>1
    <3>2. CASE c \in Places /\ IsOurs(c)
      BY <1>8, <1>11, <1>12, <2>1, <3>2 DEF BookInv, Listed
    <3>3. QED
      BY <1>13, <2>1, <3>1, <3>2
  <2>2. ASSUME NEW x \in OrderIds, our_nodes'[x] # NoNode
        PROVE  \E c \in Places' : at(c)'.id = our_nodes'[x] /\ at(c)'.owner = x /\ at(c)'.qty > 0
    <3>1. CASE x = o
      BY <1>5, <1>8, <1>11, <3>1
    <3>2. CASE x # o
      <4>1. PICK c \in Places : at(c).id = our_nodes[x] /\ at(c).owner = x /\ at(c).qty > 0
        BY <1>11, <2>2, <3>2 DEF BookInv, Listed
      <4>2. QED
        BY <1>8, <1>11, <3>2, <4>1
    <3>3. QED
      BY <3>1, <3>2
  <2>3. QED
    BY <2>1, <2>2 DEF Listed
<1>15. External'
  <2>1. \A x \in ExtIds : market_nodes[x] # NoNode =>
          \E c \in Places' : /\ at(c)'.id = market_nodes[x] /\ at(c)'.owner = Market
                             /\ at(c)'.qty > 0
    BY <1>8 DEF BookInv, External
  <2>2. QED
    BY <1>4, <2>1 DEF BookInv, External
<1>16. ASSUME NEW c \in Places', IsOurs(c)'
       PROVE  /\ \A y \in ahead'[at(c)'.id] :
                   \E d \in Places' : /\ d[1] = c[1] /\ d[2] = c[2] /\ d[3] < c[3]
                                      /\ at(d)'.id = y /\ at(d)'.qty > 0
              /\ at(c)'.qty < rested'[at(c)'.id] => ahead'[at(c)'.id] = {}
  <2>1. CASE c = new
    <3>1. at(c)'.id = id /\ at(c)'.qty = q
      BY <1>5, <1>8, <2>1
    <3>2. ASSUME NEW y \in ahead'[id]
          PROVE  \E d \in Places' : /\ d[1] = c[1] /\ d[2] = c[2] /\ d[3] < c[3]
                                    /\ at(d)'.id = y /\ at(d)'.qty > 0
      <4>1. PICK m \in Queued(s, p) : m.qty > 0 /\ m.id = y
        BY <1>11
      <4>2. PICK i \in 1 .. Len(levels[s][p]) : m = levels[s][p][i]
        BY <1>1, <4>1 DEF Queued, ToSet, TypeOK
      <4>3. <<s, p, i>> \in Places /\ at(<<s, p, i>>) = m
        BY <1>1, <4>2, PlaceIs
      <4>4. <<s, p, i>>[3] < k
        BY <1>8, <4>3
      <4>5. QED
        BY <1>8, <2>1, <4>1, <4>3, <4>4
    <3>3. ~(q < q)
      OBVIOUS
    <3>4. QED
      BY <1>11, <3>1, <3>2, <3>3
  <2>2. CASE c \in Places /\ IsOurs(c)
    <3>1. /\ at(c)' = at(c) /\ ahead'[at(c).id] = ahead[at(c).id]
          /\ rested'[at(c).id] = rested[at(c).id]
      BY <1>8, <1>11, <1>12, <2>2
    <3>2. \A y \in ahead[at(c).id] :
            \E d \in Places' : /\ d[1] = c[1] /\ d[2] = c[2] /\ d[3] < c[3]
                               /\ at(d)'.id = y /\ at(d)'.qty > 0
      BY <1>8, <2>2 DEF BookInv, AheadIsBefore
    <3>3. QED
      BY <2>2, <3>1, <3>2 DEF BookInv, AheadIsBefore
  <2>3. QED
    BY <1>13, <1>16, <2>1, <2>2
<1>17. AheadIsBefore'
  BY <1>16 DEF AheadIsBefore
<1>18. QED
  BY <1>10, <1>14, <1>15, <1>17 DEF BookInv

LEMMA CancelBook ==
  ASSUME SimInv, SimInv', BookInv, NEW id \in Nodes \cup {NoNode},
         levels' = Zeroed(id), Forget(id), reused' = reused,
         our_nodes' = [o \in OrderIds |-> IF our_nodes[o] = id THEN NoNode ELSE our_nodes[o]],
         market_nodes' = [x \in ExtIds |->
                            IF market_nodes[x] = id THEN NoNode ELSE market_nodes[x]]
  PROVE  BookInv'
<1>1. TypeOK /\ TypeOK'
  BY DEF SimInv
<1>2. PICK f : Shrinks(f, {id})
  BY <1>1, ZeroedShrinks
<1>3. /\ market_nodes' = [x \in ExtIds |->
                            IF market_nodes[x] \in {id} THEN NoNode ELSE market_nodes[x]]
      /\ Dropped({id}) /\ Forgotten({id})
  BY DEF Forget, Dropped, Forgotten
<1>4. QED
  BY <1>1, <1>2, <1>3, ShrinkKeeps

\* The two dictionaries lead to different orders, and so do two ids of ours.
LEMMA NodesApart ==
  ASSUME TypeOK, BookInv
  PROVE  /\ \A o \in OrderIds, x \in ExtIds :
              our_nodes[o] = market_nodes[x] => our_nodes[o] = NoNode
         /\ \A o, a \in OrderIds : our_nodes[o] = our_nodes[a] /\ our_nodes[o] # NoNode => o = a
<1>1. ASSUME NEW o \in OrderIds, NEW x \in ExtIds, our_nodes[o] = market_nodes[x],
             our_nodes[o] # NoNode
      PROVE  FALSE
  <2>1. PICK c \in Places : at(c).id = our_nodes[o] /\ at(c).owner = o
    BY <1>1 DEF BookInv, Listed
  <2>2. PICK d \in Places : at(d).id = market_nodes[x] /\ at(d).owner = Market
    BY <1>1 DEF BookInv, External
  <2>3. QED
    BY <1>1, <2>1, <2>2, OrderIdsAssumption DEF BookInv, IdsOnce
<1>2. ASSUME NEW o \in OrderIds, NEW a \in OrderIds, our_nodes[o] = our_nodes[a],
             our_nodes[o] # NoNode
      PROVE  o = a
  <2>1. PICK c \in Places : at(c).id = our_nodes[o] /\ at(c).owner = o
    BY <1>2 DEF BookInv, Listed
  <2>2. PICK d \in Places : at(d).id = our_nodes[a] /\ at(d).owner = a
    BY <1>2 DEF BookInv, Listed
  <2>3. QED
    BY <1>2, <2>1, <2>2 DEF BookInv, IdsOnce
<1>3. QED
  BY <1>1, <1>2

LEMMA CancelExternalBook ==
  ASSUME SimInv, SimInv', BookInv, NEW x \in ExtIds, cancel_external(x)
  PROVE  BookInv'
<1>1. TypeOK
  BY DEF SimInv
<1>2. PICK id \in Nodes \cup {NoNode} : id = market_nodes[x]
  BY <1>1 DEF TypeOK
<1>3. /\ levels' = Zeroed(id) /\ Forget(id) /\ reused' = reused
      /\ our_nodes' = our_nodes /\ market_nodes' = [market_nodes EXCEPT ![x] = NoNode]
  BY <1>2 DEF cancel_external
<1>4. our_nodes' = [o \in OrderIds |-> IF our_nodes[o] = id THEN NoNode ELSE our_nodes[o]]
  <2>1. \A o \in OrderIds : our_nodes[o] = id => our_nodes[o] = NoNode
    BY <1>1, <1>2, NodesApart
  <2>2. QED
    BY <1>1, <1>3, <2>1 DEF TypeOK
<1>5. market_nodes' = [y \in ExtIds |-> IF market_nodes[y] = id THEN NoNode ELSE market_nodes[y]]
  <2>1. \A y \in ExtIds : market_nodes[y] = id => y = x \/ market_nodes[y] = NoNode
    BY <1>2 DEF BookInv, External
  <2>2. QED
    BY <1>1, <1>2, <1>3, <2>1 DEF TypeOK
<1>6. QED
  BY <1>3, <1>4, <1>5, CancelBook

LEMMA CancelOursBook ==
  ASSUME SimInv, SimInv', BookInv, NEW x \in OrderIds, cancel_ours(x)
  PROVE  BookInv'
<1>1. TypeOK
  BY DEF SimInv
<1>2. PICK id \in Nodes \cup {NoNode} : id = our_nodes[x]
  BY <1>1 DEF TypeOK
<1>3. /\ levels' = Zeroed(id) /\ Forget(id) /\ reused' = reused
      /\ market_nodes' = market_nodes /\ our_nodes' = [our_nodes EXCEPT ![x] = NoNode]
  BY <1>2 DEF cancel_ours
<1>4. our_nodes' = [o \in OrderIds |-> IF our_nodes[o] = id THEN NoNode ELSE our_nodes[o]]
  <2>1. \A o \in OrderIds : our_nodes[o] = id => o = x \/ our_nodes[o] = NoNode
    BY <1>1, <1>2, NodesApart
  <2>2. QED
    BY <1>1, <1>2, <1>3, <2>1 DEF TypeOK
<1>5. market_nodes' = [y \in ExtIds |-> IF market_nodes[y] = id THEN NoNode ELSE market_nodes[y]]
  <2>1. \A y \in ExtIds : market_nodes[y] = id => market_nodes[y] = NoNode
    BY <1>1, <1>2, NodesApart
  <2>2. QED
    BY <1>1, <1>3, <2>1 DEF TypeOK
<1>6. QED
  BY <1>3, <1>4, <1>5, CancelBook

\* A step of consume that ends the volume of no node leaves the ids alone.
LEMMA NothingEnds ==
  ASSUME TypeOK, UNCHANGED <<our_nodes, market_nodes, rested, ahead, reused>>
  PROVE  /\ Dropped({}) /\ Forgotten({})
         /\ market_nodes' = [x \in ExtIds |->
                               IF market_nodes[x] \in {} THEN NoNode ELSE market_nodes[x]]
<1>1. \A n \in Nodes : ahead[n] \ {} = ahead[n]
  OBVIOUS
<1>2. QED
  BY <1>1 DEF TypeOK, Dropped, Forgotten

LEMMA SweepBook == ASSUME SimInv, SimInv', BookInv, Sweep PROVE BookInv'
<1>1. TypeOK /\ TypeOK' /\ Consuming
  BY DEF SimInv, Sweep
<1>2. PICK s \in Sides, p \in Prices : s = Resting /\ p = task.level
  BY <1>1, FrontOfQueue
<1>3. /\ levels[s][p] # <<>> /\ Head(levels[s][p]).qty = 0
      /\ levels' = [levels EXCEPT ![s][p] = Tail(@)]
      /\ UNCHANGED <<our_nodes, market_nodes, rested, ahead, reused>>
  BY <1>2 DEF Sweep, Consuming, Queue, observed
<1>4. \E f : Shrinks(f, {})
  BY <1>1, <1>3, PopShrinks DEF BookInv
<1>5. QED
  BY <1>1, <1>3, <1>4, NothingEnds, ShrinkKeeps

LEMMA TakeBook == ASSUME SimInv, SimInv', BookInv, Take PROVE BookInv'
<1>1. TypeOK /\ TypeOK' /\ Consuming
  BY DEF SimInv, Take
<1>2. PICK s \in Sides, p \in Prices : s = Resting /\ p = task.level
  BY <1>1, FrontOfQueue
<1>3. PICK node \in Node : node = Head(levels[s][p])
  BY <1>1, <1>2, FrontOfQueue DEF Queue
<1>4. PICK left : left = node.qty - Taken
  OBVIOUS
<1>5. levels[s][p] # <<>> /\ levels[s][p] \in Seq(Node)
  BY <1>1, <1>2 DEF Consuming, Queue, TypeOK
<1>6. /\ node.qty > 0 /\ reused' = reused
      /\ \/ /\ left = 0
            /\ levels' = [levels EXCEPT ![s][p] = Tail(@)]
            /\ Unlinked(node) /\ Forget(node.id)
         \/ /\ left # 0
            /\ levels' = [levels EXCEPT ![s][p] = <<[node EXCEPT !.qty = left]>> \o Tail(@)]
            /\ UNCHANGED <<market_nodes, our_nodes, rested, ahead>>
  <2>1. node.qty > 0 /\ reused' = reused
    BY <1>2, <1>3 DEF Take, Queue
  <2>2. IF left = 0
        THEN /\ levels' = [levels EXCEPT ![s][p] = Tail(@)]
             /\ Unlinked(node) /\ Forget(node.id)
        ELSE /\ levels' = [levels EXCEPT ![s][p] = <<[node EXCEPT !.qty = left]>> \o Tail(@)]
             /\ UNCHANGED <<market_nodes, our_nodes, rested, ahead>>
    BY <1>2, <1>3, <1>4 DEF Take, Queue
  <2>3. QED
    BY <2>1, <2>2, Zenon
<1> DEFINE front == <<s, p, 1>>
<1>7. front \in Places /\ at(front) = node
  <2>1. 1 \in 1 .. Len(levels[s][p]) /\ Head(levels[s][p]) = levels[s][p][1]
    BY <1>5
  <2>2. QED
    BY <1>1, <1>3, <2>1, PlaceIs
<1>8. ASSUME left = 0 PROVE BookInv'
  <2>1. /\ levels' = [levels EXCEPT ![s][p] = Tail(@)]
        /\ Unlinked(node) /\ Forget(node.id)
    BY <1>6, <1>8
  <2>2. \E f : Shrinks(f, {node.id})
    BY <1>1, <1>3, <1>5, <2>1, PopShrinks DEF BookInv
  <2>3. \A o \in OrderIds : our_nodes[o] \in {node.id} => o = node.owner
    <3>1. SUFFICES ASSUME NEW o \in OrderIds, our_nodes[o] = node.id PROVE o = node.owner
      OBVIOUS
    <3>2. our_nodes[o] # NoNode
      BY <1>3, <3>1, NodesAssumption DEF Node
    <3>3. PICK c \in Places : at(c).id = our_nodes[o] /\ at(c).owner = o
      BY <3>2 DEF BookInv, Listed
    <3>4. QED
      BY <1>7, <3>1, <3>3 DEF BookInv, IdsOnce
  <2>4. node.owner \in OrderIds /\ node.owner \notin reused => our_nodes[node.owner] = node.id
    BY <1>6, <1>7, OrderIdsAssumption DEF IsOurs, BookInv, Listed
  <2>5. Dropped({node.id})
    <3>1. our_nodes' = [o \in OrderIds |-> IF o = node.owner THEN NoNode ELSE our_nodes[o]]
      BY <2>1 DEF Unlinked
    <3>2. QED
      BY <2>3, <2>4, <3>1 DEF Dropped
  <2>6. /\ market_nodes' = [x \in ExtIds |->
                              IF market_nodes[x] \in {node.id} THEN NoNode ELSE market_nodes[x]]
        /\ Forgotten({node.id})
    BY <1>6, <2>1 DEF Unlinked, Forget, Forgotten
  <2>7. QED
    BY <1>1, <2>2, <2>5, <2>6, ShrinkKeeps
<1>9. ASSUME left # 0 PROVE BookInv'
  <2>1. /\ levels' = [levels EXCEPT ![s][p] = <<[node EXCEPT !.qty = left]>> \o Tail(@)]
        /\ UNCHANGED <<our_nodes, market_nodes, rested, ahead, reused>>
    BY <1>6, <1>9
  <2>2. left \in Nat \ {0}
    <3>1. /\ task.remaining \in Nat /\ task.filled \in Nat /\ node.qty \in Nat
          /\ task.filled < task.remaining
      BY <1>1, <1>3, FrontOfQueue DEF Task, Node
    <3>2. Taken \in Nat /\ Taken <= node.qty
      BY <1>2, <1>3, <3>1 DEF Taken, Smaller, Queue
    <3>3. QED
      BY <1>4, <1>9, <3>1, <3>2
  <2>3. levels' = [levels EXCEPT ![s][p] = <<[Head(@) EXCEPT !.qty = left]>> \o Tail(@)]
    BY <1>3, <2>1
  <2>4. \E f : Shrinks(f, {})
    BY <1>1, <1>3, <1>5, <1>6, <2>2, <2>3, PartialShrinks
  <2>5. QED
    BY <1>1, <1>6, <2>1, <2>4, NothingEnds, ShrinkKeeps
<1>10. QED
  BY <1>8, <1>9

\* A step that touches no queue, no dictionary and nothing observed of them.
LEMMA SameBook ==
  ASSUME BookInv, UNCHANGED <<levels, our_nodes, market_nodes, rested, ahead, reused>>
  PROVE  BookInv'
<1>1. Places' = Places /\ \A c : at(c)' = at(c)
  BY DEF Places, at
<1>2. \A c : IsOurs(c)' <=> IsOurs(c)
  BY <1>1 DEF IsOurs
<1>3. IdsOnce' /\ Listed'
  BY <1>1, <1>2 DEF BookInv, IdsOnce, Listed
<1>4. External'
  BY <1>1 DEF BookInv, External
<1>5. AheadIsBefore'
  BY <1>1, <1>2 DEF BookInv, AheadIsBefore
<1>6. QED
  BY <1>3, <1>4, <1>5 DEF BookInv

LEMMA BookInvInit == Init => BookInv
<1> SUFFICES ASSUME Init PROVE BookInv
  OBVIOUS
<1>1. Places = {}
  BY DEF Init, Places
<1>2. QED
  BY <1>1 DEF Init, BookInv, IdsOnce, Listed, External, AheadIsBefore

LEMMA BookInvNext == SimInv /\ SimInv' /\ BookInv /\ [Next]_vars => BookInv'
<1> SUFFICES ASSUME SimInv, SimInv', BookInv, [Next]_vars PROVE BookInv'
  OBVIOUS
<1>0. TypeOK /\ TypeOK'
  BY DEF SimInv
<1>1. CASE Feed
  <2>1. ASSUME NEW s \in Sides, NEW p \in Prices, NEW q \in Quantities, add_market(s, p, q)
        PROVE  BookInv'
    BY <1>0, <2>1, AddMarketBook
  <2>2. ASSUME NEW x \in ExtIds, cancel_external(x) PROVE BookInv'
    BY <2>2, CancelExternalBook
  <2>3. ASSUME NEW s \in Sides, NEW p \in Prices, NEW q \in Quantities, Trade(s, p, q)
        PROVE  BookInv'
    <3>1. UNCHANGED <<levels, our_nodes, market_nodes, rested, ahead, reused>>
      BY <2>3 DEF Trade, bookVars, observed
    <3>2. QED
      BY <3>1, SameBook
  <2>4. QED
    BY <1>1, <2>1, <2>2, <2>3 DEF Feed
<1>2. CASE Strategy
  <2>1. ASSUME NEW s \in Sides, NEW p \in Prices, NEW q \in Quantities, NEW o \in OrderIds,
               LimitOrder(s, p, q, o)
        PROVE  BookInv'
    <3>1. UNCHANGED <<levels, our_nodes, market_nodes, rested, ahead, reused>>
      BY <2>1 DEF LimitOrder, bookVars, observed
    <3>2. QED
      BY <3>1, SameBook
  <2>2. ASSUME NEW s \in Sides, NEW q \in Quantities, MarketOrder(s, q) PROVE BookInv'
    <3>1. UNCHANGED <<levels, our_nodes, market_nodes, rested, ahead, reused>>
      BY <2>2 DEF MarketOrder, bookVars, observed
    <3>2. QED
      BY <3>1, SameBook
  <2>3. ASSUME NEW o \in OrderIds, cancel_ours(o) PROVE BookInv'
    BY <2>3, CancelOursBook
  <2>4. QED
    BY <1>2, <2>1, <2>2, <2>3 DEF Strategy
<1>3. CASE Matching
  <2>1. CASE GoToLevel \/ SettleTaker \/ TradeDone \/ OrderDone
    <3>1. UNCHANGED <<levels, our_nodes, market_nodes, rested, ahead, reused>>
      BY <2>1 DEF GoToLevel, SettleTaker, SettleAt, TradeDone, OrderDone, bookVars, observed
    <3>2. QED
      BY <3>1, SameBook
  <2>2. QED
    BY <1>3, <2>1, SweepBook, TakeBook, RestBook DEF Matching
<1>4. CASE UNCHANGED vars
  <2>1. UNCHANGED <<levels, our_nodes, market_nodes, rested, ahead, reused>>
    BY <1>4 DEF vars, bookVars, observed
  <2>2. QED
    BY <2>1, SameBook
<1>5. QED
  BY <1>1, <1>2, <1>3, <1>4 DEF Next

LEMMA BookInvHolds == Spec => [](SimInv /\ BookInv)
<1>1. Init => SimInv /\ BookInv
  BY SimInvInit, BookInvInit
<1>2. (SimInv /\ BookInv) /\ [Next]_vars => (SimInv /\ BookInv)'
  BY SimInvNext, BookInvNext
<1>3. QED
  BY <1>1, <1>2, PTL DEF Spec

\* A node that has volume stands at one place of its queue.
LEMMA QueuedIsPlaced ==
  ASSUME TypeOK, NEW s \in Sides, NEW p \in Prices, NEW n \in Queued(s, p)
  PROVE  \E c \in Places : at(c) = n
BY BookIsPlaces DEF InBook

\* "A resting order only fills once the volume that was ahead of it at its
\* price level has traded", whatever was cancelled, swept or added meanwhile.
THEOREM QueueHonest == Spec => []QueueIsHonest
<1>1. SimInv /\ BookInv => QueueIsHonest
  <2> SUFFICES ASSUME SimInv, BookInv, NEW s \in Sides, NEW p \in Prices,
                      NEW n \in Queued(s, p),
                      n.owner # Market, n.qty > 0, n.qty < rested[n.id]
               PROVE  ahead[n.id] = {}
    BY DEF QueueIsHonest
  <2>1. PICK c \in Places : at(c) = n
    BY QueuedIsPlaced DEF SimInv
  <2>2. QED
    BY <2>1 DEF BookInv, AheadIsBefore, IsOurs
<1>2. QED
  BY BookInvHolds, <1>1, PTL

\* An id leads only to an order of its own that stands, and to every one of
\* them unless it was used again while one of them stood.
THEOREM OrdersListed == Spec => []OrdersAreListed
<1>1. SimInv /\ BookInv => OrdersAreListed
  <2> SUFFICES ASSUME SimInv, BookInv, NEW o \in OrderIds
               PROVE  /\ our_nodes[o] \in {n.id : n \in Standing(o)} \cup {NoNode}
                      /\ o \notin reused =>
                           {n.id : n \in Standing(o)} \subseteq {our_nodes[o]}
    BY DEF OrdersAreListed
  <2>1. TypeOK /\ InBook = {at(c) : c \in Places}
    BY BookIsPlaces DEF SimInv
  <2>2. ASSUME NEW m \in Standing(o), o \notin reused PROVE m.id = our_nodes[o]
    <3>1. PICK c \in Places : at(c) = m
      BY <2>1 DEF Standing
    <3>2. IsOurs(c) /\ m.owner = o
      BY <3>1, OrderIdsAssumption DEF IsOurs, Standing
    <3>3. QED
      BY <2>2, <3>1, <3>2 DEF BookInv, Listed
  <2>3. ASSUME our_nodes[o] # NoNode
        PROVE  \E m \in Standing(o) : m.id = our_nodes[o]
    BY <2>1, <2>3 DEF BookInv, Listed, Standing
  <2>4. QED
    BY <2>2, <2>3
<1>2. QED
  BY BookInvHolds, <1>1, PTL
=============================================================================

----------------------- MODULE MarketSimulator_proofs -----------------------
(***************************************************************************)
(* Theorems about the native simulator: the pool over which its queues are *)
(* built stays sound, and its steps are those of the reference simulator   *)
(* but for a late cancel and for the tick of a market fill.                *)
(***************************************************************************)
EXTENDS MarketSimulator, TLAPS

Sides == {"buy", "sell"}
Held == [qty : Nat, owner : OrderIds \cup {Market}]

\* What the order or trade in progress is like, however far it is.
TaskOK ==
  /\ task \in Reference!Task
  /\ task.filled <= task.remaining
  /\ task.level # NoPrice => task.remaining > 0
  /\ task.kind = "limit" => task.price \in Prices /\ task.id \in OrderIds
  /\ lastExt \in Nat

NativeInv == PoolInv /\ TaskOK

\* What a reader of the queues finds in slot n.
Entry(n) == [id |-> n, qty |-> slot[n].qty, owner |-> slot[n].owner]
NewEntry(n) == [id |-> n, qty |-> slot'[n].qty, owner |-> slot'[n].owner]

\* q is a sequence of k entries.
Row(q, k) == q = [i \in 1 .. k |-> q[i]]

LEMMA AppendIs ==
  ASSUME NEW k \in Nat \ {0}, NEW q, NEW r, NEW e, Row(q, k - 1), Row(r, k),
         r[k] = e, \A i \in 1 .. k - 1 : r[i] = q[i]
  PROVE  r = Append(q, e)
<1>1. Append(q, e) = [i \in 1 .. k |-> IF i = k THEN e ELSE q[i]]
  <2>1. \A f : f = [i \in 1 .. k - 1 |-> q[i]] =>
          Append(f, e) = [i \in 1 .. k |-> IF i = k THEN e ELSE f[i]]
    OBVIOUS
  <2>2. QED
    BY <2>1, Zenon DEF Row
<1>2. \A i \in 1 .. k : i = k \/ i \in 1 .. k - 1
  OBVIOUS
<1>3. \A i \in 1 .. k : r[i] = IF i = k THEN e ELSE q[i]
  BY <1>2, Zenon
<1>4. QED
  BY <1>1, <1>3, Zenon DEF Row

LEMMA TailIs ==
  ASSUME NEW k \in Nat \ {0}, NEW q, NEW r, Row(q, k), Row(r, k - 1),
         \A i \in 1 .. k - 1 : r[i] = q[i + 1]
  PROVE  r = Tail(q)
<1>1. Tail(q) = [i \in 1 .. k - 1 |-> q[i + 1]]
  <2>1. \A f : f = [i \in 1 .. k |-> q[i]] => Tail(f) = [i \in 1 .. k - 1 |-> f[i + 1]]
    OBVIOUS
  <2>2. QED
    BY <2>1, Zenon DEF Row
<1>2. QED
  BY <1>1, Zenon DEF Row

LEMMA HeadIs == ASSUME NEW k \in Nat \ {0}, NEW q, Row(q, k) PROVE Head(q) = q[1]
BY DEF Row

LEMMA NewHeadIs ==
  ASSUME NEW k \in Nat \ {0}, NEW q, NEW r, NEW e, Row(q, k), Row(r, k),
         r[1] = e, \A i \in 2 .. k : r[i] = q[i]
  PROVE  r = <<e>> \o Tail(q)
<1>1. <<e>> \o Tail(q) = [i \in 1 .. k |-> IF i = 1 THEN e ELSE q[i]]
  <2>1. \A f : f = [i \in 1 .. k |-> q[i]] =>
          <<e>> \o Tail(f) = [i \in 1 .. k |-> IF i = 1 THEN e ELSE f[i]]
    <3> SUFFICES ASSUME NEW f, f = [i \in 1 .. k |-> q[i]]
                 PROVE  <<e>> \o Tail(f) = [i \in 1 .. k |-> IF i = 1 THEN e ELSE f[i]]
      OBVIOUS
    <3>0. Tail(f) = [i \in 1 .. k - 1 |-> f[i + 1]]
      OBVIOUS
    <3>1. PICK g : g = [i \in 1 .. k - 1 |-> f[i + 1]] /\ g = Tail(f)
      BY <3>0, Zenon
    <3>2. Len(g) = k - 1 /\ Len(<<e>>) = 1 /\ Len(<<e>>) + Len(g) = k
      BY <3>1
    <3>3. <<e>> \o g = [i \in 1 .. k |-> IF i <= 1 THEN <<e>>[i] ELSE g[i - 1]]
      BY <3>1, <3>2
    <3>4. \A i \in 1 .. k : (IF i <= 1 THEN <<e>>[i] ELSE g[i - 1])
                               = IF i = 1 THEN e ELSE f[i]
      BY <3>1
    <3>5. QED
      BY <3>1, <3>3, <3>4, Zenon
  <2>2. QED
    BY <2>1, Zenon DEF Row
<1>2. \A i \in 1 .. k : i = 1 \/ i \in 2 .. k
  OBVIOUS
<1>3. \A i \in 1 .. k : r[i] = IF i = 1 THEN e ELSE q[i]
  BY <1>2, Zenon
<1>4. QED
  BY <1>1, <1>3, Zenon DEF Row

LEMMA SideNames ==
  /\ Reference!Sides = Sides
  /\ \A s \in Sides : Reference!opposite(s) \in Sides /\ Reference!sign(s) \in {1, -1}
BY DEF Reference!Sides, Sides, Reference!opposite, Reference!sign

LEMMA QueueFacts ==
  ASSUME TypeOK, NEW s \in Sides, NEW p \in Prices
  PROVE  /\ book_[s][p] \in Seq(Slots) /\ Len(book_[s][p]) \in Nat
         /\ DOMAIN book_[s][p] = 1 .. Len(book_[s][p])
         /\ \A i \in 1 .. Len(book_[s][p]) : book_[s][p][i] \in Slots
BY SideNames DEF TypeOK

LEMMA ContentsFacts ==
  ASSUME NEW s \in Sides, NEW p \in Prices
  PROVE  /\ Contents[s][p] = [i \in DOMAIN book_[s][p] |-> Entry(book_[s][p][i])]
         /\ DOMAIN Contents[s][p] = DOMAIN book_[s][p]
         /\ \A i \in DOMAIN book_[s][p] : Contents[s][p][i] = Entry(book_[s][p][i])
         /\ \A k : DOMAIN book_[s][p] = 1 .. k => Row(Contents[s][p], k)
<1>1. Contents[s][p] = [i \in DOMAIN book_[s][p] |-> Entry(book_[s][p][i])]
  BY DEF Contents, Entry, Sides
<1>2. QED
  BY <1>1 DEF Row

LEMMA ContentsNext ==
  ASSUME NEW s \in Sides, NEW p \in Prices
  PROVE  /\ DOMAIN Contents'[s][p] = DOMAIN book_'[s][p]
         /\ \A i \in DOMAIN book_'[s][p] : Contents'[s][p][i] = NewEntry(book_'[s][p][i])
         /\ \A k : DOMAIN book_'[s][p] = 1 .. k => Row(Contents'[s][p], k)
         /\ Contents'[s][p] = [i \in DOMAIN book_'[s][p] |-> NewEntry(book_'[s][p][i])]
<1>1. Contents'[s][p] = [i \in DOMAIN book_'[s][p] |-> NewEntry(book_'[s][p][i])]
  BY DEF Contents, NewEntry, Sides
<1>2. QED
  BY <1>1 DEF Row

LEMMA ContentsDomain ==
  DOMAIN Contents = Sides /\ \A s \in Sides : DOMAIN Contents[s] = Prices
BY DEF Contents, Sides

LEMMA InBookIds ==
  ASSUME TypeOK
  PROVE  {n.id : n \in Reference!InBook}
           = UNION {ToSet(book_[s][p]) : s \in Sides, p \in Prices}
<1>1. ASSUME NEW n \in Reference!InBook
      PROVE  n.id \in UNION {ToSet(book_[s][p]) : s \in Sides, p \in Prices}
  <2>1. PICK s \in Sides, p \in Prices : n \in Reference!Queued(s, p)
    BY SideNames DEF Reference!InBook
  <2>2. PICK i \in DOMAIN Contents[s][p] : n = Contents[s][p][i]
    BY <2>1 DEF Reference!Queued, Reference!ToSet
  <2>3. i \in DOMAIN book_[s][p] /\ n = Entry(book_[s][p][i])
    BY <2>2, ContentsFacts
  <2>4. n.id = book_[s][p][i]
    BY <2>3 DEF Entry
  <2>5. n.id \in ToSet(book_[s][p])
    BY <2>3, <2>4 DEF ToSet
  <2>6. QED
    BY <2>5
<1>2. ASSUME NEW s \in Sides, NEW p \in Prices, NEW m \in ToSet(book_[s][p])
      PROVE  \E n \in Reference!InBook : n.id = m
  <2>1. PICK i \in DOMAIN book_[s][p] : m = book_[s][p][i]
    BY DEF ToSet
  <2>2. Contents[s][p][i] = Entry(m) /\ i \in DOMAIN Contents[s][p]
    BY <2>1, ContentsFacts
  <2>3. Entry(m) \in Reference!Queued(s, p)
    BY <2>2 DEF Reference!Queued, Reference!ToSet
  <2>4. Entry(m) \in Reference!InBook
    BY <2>3, SideNames DEF Reference!InBook
  <2>5. Entry(m).id = m
    BY DEF Entry
  <2>6. QED
    BY <2>4, <2>5
<1>3. ASSUME NEW m \in UNION {ToSet(book_[s][p]) : s \in Sides, p \in Prices}
      PROVE  m \in {n.id : n \in Reference!InBook}
  <2>1. PICK s \in Sides, p \in Prices : m \in ToSet(book_[s][p])
    OBVIOUS
  <2>2. QED
    BY <1>2, <2>1
<1>4. QED
  BY <1>1, <1>3

\* Any slot that is handed out is fresh to the reference, and the other way round.
LEMMA AllocatableIsFresh == TypeOK => Allocatable = Reference!Fresh
BY InBookIds, SideNames DEF Allocatable, Reference!Fresh

(***************************************************************************)
(* What becomes of the book by value.                                      *)
(***************************************************************************)
LEMMA ContentsBecome ==
  ASSUME NEW s \in Sides, NEW p \in Prices, NEW X, Contents'[s][p] = X,
         \A t \in Sides, q \in Prices : <<t, q>> # <<s, p>> => Contents'[t][q] = Contents[t][q]
  PROVE  Contents' = [Contents EXCEPT ![s][p] = X]
<1>1. Contents = [t \in Sides |-> [q \in Prices |-> Contents[t][q]]]
  BY DEF Contents, Sides
<1>2. Contents' = [t \in Sides |-> [q \in Prices |-> Contents'[t][q]]]
  BY DEF Contents, Sides
<1>3. [Contents EXCEPT ![s][p] = X]
        = [t \in Sides |-> [q \in Prices |-> IF t = s /\ q = p THEN X ELSE Contents[t][q]]]
  BY <1>1
<1>4. \A t \in Sides, q \in Prices :
        Contents'[t][q] = IF t = s /\ q = p THEN X ELSE Contents[t][q]
  OBVIOUS
<1>5. ASSUME NEW t \in Sides
      PROVE  [q \in Prices |-> Contents'[t][q]]
               = [q \in Prices |-> IF t = s /\ q = p THEN X ELSE Contents[t][q]]
  BY <1>4
<1>6. QED
  BY <1>2, <1>3, <1>5

\* A queue whose slots and their contents stay shows what it showed.
LEMMA SameQueue ==
  ASSUME NEW s \in Sides, NEW p \in Prices, book_'[s][p] = book_[s][p],
         \A i \in DOMAIN book_[s][p] : slot'[book_[s][p][i]] = slot[book_[s][p][i]]
  PROVE  Contents'[s][p] = Contents[s][p]
<1>1. \A i \in DOMAIN book_[s][p] : NewEntry(book_[s][p][i]) = Entry(book_[s][p][i])
  BY DEF Entry, NewEntry
<1>2. Contents'[s][p] = [i \in DOMAIN book_[s][p] |-> NewEntry(book_[s][p][i])]
  BY ContentsNext
<1>3. Contents[s][p] = [i \in DOMAIN book_[s][p] |-> Entry(book_[s][p][i])]
  BY ContentsFacts
<1>4. QED
  BY <1>1, <1>2, <1>3

LEMMA OnceAt ==
  ASSUME QueuedOnce, NEW t \in Sides, NEW u \in Sides, NEW q \in Prices, NEW r \in Prices,
         NEW i \in DOMAIN book_[t][q], NEW j \in DOMAIN book_[u][r],
         book_[t][q][i] = book_[u][r][j]
  PROVE  t = u /\ q = r /\ i = j
<1>1. <<t, q, i>> = <<u, r, j>>
  BY SideNames DEF QueuedOnce
<1>2. QED
  BY <1>1

LEMMA PushBack ==
  ASSUME PoolInv, NEW s \in Sides, NEW p \in Prices, NEW n \in Allocatable,
         NEW qty \in Nat, NEW owner \in OrderIds \cup {Market},
         Enqueue(s, p, n, qty, owner)
  PROVE  /\ book_' \in [Sides -> [Prices -> Seq(Slots)]]
         /\ slot' \in [Slots -> Held]
         /\ QueuedOnce'
         /\ Contents' = [Contents EXCEPT ![s][p] =
                           Append(@, [id |-> n, qty |-> qty, owner |-> owner])]
<1>0. /\ book_ \in [Sides -> [Prices -> Seq(Slots)]] /\ slot \in [Slots -> Held]
      /\ QueuedOnce
  BY SideNames DEF PoolInv, TypeOK, Held
<1>1. /\ n \in Slots /\ book_ \in [Sides -> [Prices -> Seq(Slots)]]
      /\ slot \in [Slots -> Held]
      /\ \A t \in Sides, q \in Prices : \A i \in DOMAIN book_[t][q] : book_[t][q][i] # n
  <2>1. n \in Slots /\ \A t \in Sides, q \in Prices : n \notin ToSet(book_[t][q])
    BY SideNames DEF Allocatable
  <2>2. QED
    BY <1>0, <2>1 DEF ToSet
<1>2. /\ slot' = [slot EXCEPT ![n] = [qty |-> qty, owner |-> owner]]
      /\ book_' = [book_ EXCEPT ![s][p] = Append(@, n)]
  BY DEF Enqueue
<1>3. PICK k \in Nat \ {0} : k = Len(book_[s][p]) + 1
  BY <1>1
<1>4. /\ book_'[s][p] = Append(book_[s][p], n) /\ book_[s][p] \in Seq(Slots)
      /\ \A t \in Sides, q \in Prices : <<t, q>> # <<s, p>> => book_'[t][q] = book_[t][q]
  BY <1>1, <1>2
<1>5. /\ DOMAIN book_'[s][p] = 1 .. k /\ DOMAIN book_[s][p] = 1 .. k - 1
      /\ book_'[s][p][k] = n
      /\ \A i \in 1 .. k - 1 : book_'[s][p][i] = book_[s][p][i]
  <2> DEFINE q == book_[s][p]
  <2>1. q \in Seq(Slots) /\ k = Len(q) + 1
    BY <1>3, <1>4
  <2> HIDE DEF q
  <2>2. /\ DOMAIN Append(q, n) = 1 .. k /\ DOMAIN q = 1 .. k - 1 /\ Append(q, n)[k] = n
        /\ \A i \in 1 .. k - 1 : Append(q, n)[i] = q[i]
    BY <1>1, <2>1
  <2>3. QED
    BY <1>4, <2>2, Zenon DEF q
<1>6. book_' \in [Sides -> [Prices -> Seq(Slots)]] /\ slot' \in [Slots -> Held]
  BY <1>1, <1>2 DEF Held
<1>7. QueuedOnce'
  <2>1. ASSUME NEW t \in Sides, NEW q \in Prices, NEW i \in DOMAIN book_'[t][q]
        PROVE  \/ i \in DOMAIN book_[t][q] /\ book_'[t][q][i] = book_[t][q][i]
               \/ t = s /\ q = p /\ i = k /\ book_'[t][q][i] = n
    BY <1>4, <1>5
  <2>2. ASSUME NEW t \in Sides, NEW u \in Sides, NEW q \in Prices, NEW r \in Prices,
               NEW i \in DOMAIN book_'[t][q], NEW j \in DOMAIN book_'[u][r],
               book_'[t][q][i] = book_'[u][r][j]
        PROVE  <<t, q, i>> = <<u, r, j>>
    <3>1. CASE i \in DOMAIN book_[t][q] /\ j \in DOMAIN book_[u][r]
      <4>1. book_'[t][q][i] = book_[t][q][i] \/ book_'[t][q][i] = n
        BY <2>1
      <4>2. book_'[u][r][j] = book_[u][r][j] \/ book_'[u][r][j] = n
        BY <2>1
      <4>3. ~(t = s /\ q = p /\ i = k) /\ ~(u = s /\ r = p /\ j = k)
        BY <1>3, <1>5, <3>1
      <4>4. book_[t][q][i] = book_[u][r][j]
        BY <2>1, <2>2, <4>3
      <4>5. QED
        BY <1>0, <3>1, <4>4, OnceAt
    <3>2. CASE t = s /\ q = p /\ i = k /\ book_'[t][q][i] = n
      BY <1>1, <2>1, <2>2, <3>2
    <3>3. CASE u = s /\ r = p /\ j = k /\ book_'[u][r][j] = n
      BY <1>1, <2>1, <2>2, <3>3
    <3>4. QED
      BY <2>1, <3>1, <3>2, <3>3
  <2>3. QED
    BY <2>2, SideNames DEF QueuedOnce
<1>8. \A m \in Slots : m # n => slot'[m] = slot[m]
  BY <1>1, <1>2
<1>9. ASSUME NEW t \in Sides, NEW q \in Prices, <<t, q>> # <<s, p>>
      PROVE  Contents'[t][q] = Contents[t][q]
  <2>1. \A i \in DOMAIN book_[t][q] : book_[t][q][i] \in Slots
    BY <1>1
  <2>2. QED
    BY <1>1, <1>4, <1>8, <1>9, <2>1, SameQueue
<1> DEFINE e == [id |-> n, qty |-> qty, owner |-> owner]
<1>10. Contents'[s][p] = Append(Contents[s][p], e)
  <2>1. slot'[n] = [qty |-> qty, owner |-> owner]
    BY <1>1, <1>2
  <2>2. NewEntry(n) = e
    BY <2>1 DEF NewEntry
  <2>3. \A i \in 1 .. k - 1 : NewEntry(book_[s][p][i]) = Entry(book_[s][p][i])
    BY <1>1, <1>4, <1>5, <1>8 DEF Entry, NewEntry
  <2> HIDE DEF e
  <2>0. PICK old, new : old = Contents[s][p] /\ new = Contents'[s][p]
    OBVIOUS
  <2>4. Row(new, k)
    BY <1>5, <2>0, ContentsNext
  <2>5. Row(old, k - 1)
    BY <1>5, <2>0, ContentsFacts
  <2>6. new[k] = e
    <3>1. k \in DOMAIN book_'[s][p]
      BY <1>5
    <3>2. new[k] = NewEntry(book_'[s][p][k])
      BY <2>0, <3>1, ContentsNext
    <3>3. QED
      BY <1>5, <2>2, <3>2
  <2>7. \A i \in 1 .. k - 1 : new[i] = old[i]
    <3>1. \A i \in 1 .. k - 1 : i \in DOMAIN book_'[s][p] /\ i \in DOMAIN book_[s][p]
      BY <1>5
    <3>2. ASSUME NEW i \in 1 .. k - 1 PROVE new[i] = old[i]
      <4>0. new[i] = NewEntry(book_'[s][p][i])
        BY <2>0, <3>1, ContentsNext
      <4>1. old[i] = Entry(book_[s][p][i])
        BY <2>0, <3>1, ContentsFacts
      <4>2. NewEntry(book_'[s][p][i]) = NewEntry(book_[s][p][i])
        BY <1>5
      <4>3. QED
        BY <2>3, <4>0, <4>1, <4>2
    <3>3. QED
      BY <3>2
  <2>8. new = Append(old, e)
    BY <2>4, <2>5, <2>6, <2>7, AppendIs
  <2>9. QED
    BY <2>0, <2>8
<1>11. QED
  BY <1>6, <1>7, <1>9, <1>10, ContentsBecome

\* What is in a queue is in no other place, so that a change of one slot is
\* seen in one place.
LEMMA OthersKeep ==
  ASSUME PoolInv, NEW s \in Sides, NEW p \in Prices, NEW a \in DOMAIN book_[s][p],
         \A m \in Slots : m # book_[s][p][a] => slot'[m] = slot[m],
         NEW t \in Sides, NEW q \in Prices, NEW i \in DOMAIN book_[t][q],
         <<t, q, i>> # <<s, p, a>>
  PROVE  /\ book_[t][q][i] # book_[s][p][a]
         /\ slot'[book_[t][q][i]] = slot[book_[t][q][i]]
<1>1. book_[t][q][i] # book_[s][p][a]
  BY OnceAt DEF PoolInv
<1>2. book_[t][q][i] \in Slots
  BY QueueFacts DEF PoolInv
<1>3. QED
  BY <1>1, <1>2

\* pop_front and deallocate.
LEMMA PopEffect ==
  ASSUME PoolInv, NEW s \in Sides, NEW p \in Prices, book_[s][p] # <<>>,
         book_' = [book_ EXCEPT ![s][p] = Tail(@)],
         slot' = [slot EXCEPT ![Head(book_[s][p])] = Blank]
  PROVE  /\ book_' \in [Sides -> [Prices -> Seq(Slots)]]
         /\ slot' \in [Slots -> Held]
         /\ QueuedOnce'
         /\ Contents' = [Contents EXCEPT ![s][p] = Tail(@)]
<1>0. /\ book_ \in [Sides -> [Prices -> Seq(Slots)]] /\ slot \in [Slots -> Held]
      /\ QueuedOnce /\ TypeOK
  BY SideNames DEF PoolInv, TypeOK, Held
<1>1. /\ book_'[s][p] = Tail(book_[s][p]) /\ book_[s][p] \in Seq(Slots)
      /\ \A t \in Sides, q \in Prices : <<t, q>> # <<s, p>> => book_'[t][q] = book_[t][q]
  BY <1>0
<1>2. PICK k \in Nat \ {0} : k = Len(book_[s][p])
  BY <1>1
<1>3. /\ DOMAIN book_[s][p] = 1 .. k /\ DOMAIN book_'[s][p] = 1 .. k - 1
      /\ \A i \in 1 .. k - 1 : book_'[s][p][i] = book_[s][p][i + 1]
      /\ Head(book_[s][p]) = book_[s][p][1] /\ book_'[s][p] \in Seq(Slots)
  <2> DEFINE q == book_[s][p]
  <2>1. q \in Seq(Slots) /\ q # <<>> /\ k = Len(q) /\ book_'[s][p] = Tail(q)
    BY <1>1, <1>2
  <2> HIDE DEF q
  <2>2. /\ DOMAIN q = 1 .. k /\ DOMAIN Tail(q) = 1 .. k - 1
        /\ \A i \in 1 .. k - 1 : Tail(q)[i] = q[i + 1]
        /\ Head(q) = q[1] /\ Tail(q) \in Seq(Slots)
    BY <2>1
  <2>3. QED
    BY <2>1, <2>2, Zenon DEF q
<1>4. 1 \in DOMAIN book_[s][p] /\ book_[s][p][1] \in Slots
  BY <1>0, <1>3, QueueFacts
<1>5. \A m \in Slots : m # book_[s][p][1] => slot'[m] = slot[m]
  BY <1>0, <1>3
<1>6. book_' \in [Sides -> [Prices -> Seq(Slots)]]
  BY <1>0, <1>1, <1>3
<1>7. slot' \in [Slots -> Held]
  BY <1>0, <1>3, <1>4 DEF Blank, Held
<1>8. QueuedOnce'
  <2>1. ASSUME NEW t \in Sides, NEW q \in Prices, NEW i \in DOMAIN book_'[t][q]
        PROVE  \E j \in DOMAIN book_[t][q] :
                 /\ book_'[t][q][i] = book_[t][q][j]
                 /\ j = IF t = s /\ q = p THEN i + 1 ELSE i
    <3>1. CASE t = s /\ q = p
      <4>1. i \in 1 .. k - 1 /\ i + 1 \in 1 .. k
        BY <1>3, <2>1, <3>1
      <4>2. QED
        BY <1>3, <3>1, <4>1
    <3>2. CASE ~(t = s /\ q = p)
      BY <1>1, <2>1, <3>2
    <3>3. QED
      BY <3>1, <3>2
  <2>2. ASSUME NEW t \in Sides, NEW u \in Sides, NEW q \in Prices, NEW r \in Prices,
               NEW i \in DOMAIN book_'[t][q], NEW j \in DOMAIN book_'[u][r],
               book_'[t][q][i] = book_'[u][r][j]
        PROVE  <<t, q, i>> = <<u, r, j>>
    <3>1. PICK a \in DOMAIN book_[t][q] :
            book_'[t][q][i] = book_[t][q][a] /\ a = IF t = s /\ q = p THEN i + 1 ELSE i
      BY <2>1
    <3>2. PICK b \in DOMAIN book_[u][r] :
            book_'[u][r][j] = book_[u][r][b] /\ b = IF u = s /\ r = p THEN j + 1 ELSE j
      BY <2>1
    <3>3. t = u /\ q = r /\ a = b
      BY <1>0, <2>2, <3>1, <3>2, OnceAt
    <3>4. i = j
      <4>1. CASE t = s /\ q = p
        <5>1. i \in 1 .. k - 1 /\ j \in 1 .. k - 1
          BY <1>3, <2>2, <3>3, <4>1
        <5>2. i + 1 = j + 1
          BY <3>1, <3>2, <3>3, <4>1
        <5>3. QED
          BY <5>1, <5>2
      <4>2. CASE ~(t = s /\ q = p)
        BY <3>1, <3>2, <3>3, <4>2
      <4>3. QED
        BY <4>1, <4>2
    <3>5. QED
      BY <3>3, <3>4
  <2>3. QED
    BY <2>2, SideNames DEF QueuedOnce
<1>9. ASSUME NEW t \in Sides, NEW q \in Prices, <<t, q>> # <<s, p>>
      PROVE  Contents'[t][q] = Contents[t][q]
  <2>1. \A i \in DOMAIN book_[t][q] : slot'[book_[t][q][i]] = slot[book_[t][q][i]]
    BY <1>4, <1>5, <1>9, OthersKeep
  <2>2. QED
    BY <1>1, <1>9, <2>1, SameQueue
<1>10. Contents'[s][p] = Tail(Contents[s][p])
  <2>0. PICK old, new : old = Contents[s][p] /\ new = Contents'[s][p]
    OBVIOUS
  <2>1. Row(new, k - 1)
    <3>1. DOMAIN book_'[s][p] = 1 .. k - 1
      BY <1>3
    <3>2. Row(Contents'[s][p], k - 1)
      BY <3>1, ContentsNext
    <3>3. QED
      BY <2>0, <3>2
  <2>2. Row(old, k)
    BY <1>3, <2>0, ContentsFacts
  <2>3. ASSUME NEW i \in 1 .. k - 1 PROVE new[i] = old[i + 1]
    <3>1. i \in DOMAIN book_'[s][p] /\ i + 1 \in DOMAIN book_[s][p] /\ i + 1 # 1
      BY <1>3
    <3>2. new[i] = NewEntry(book_'[s][p][i])
      BY <2>0, <3>1, ContentsNext
    <3>3. old[i + 1] = Entry(book_[s][p][i + 1])
      BY <2>0, <3>1, ContentsFacts
    <3>4. slot'[book_[s][p][i + 1]] = slot[book_[s][p][i + 1]]
      BY <1>4, <1>5, <3>1, OthersKeep
    <3>5. QED
      BY <1>3, <3>2, <3>3, <3>4 DEF Entry, NewEntry
  <2>4. new = Tail(old)
    BY <2>1, <2>2, <2>3, TailIs
  <2>5. QED
    BY <2>0, <2>4
<1>11. Contents' = [Contents EXCEPT ![s][p] = Tail(Contents[s][p])]
  <2>1. PICK X : X = Tail(Contents[s][p])
    OBVIOUS
  <2>2. Contents'[s][p] = X
    BY <1>10, <2>1
  <2>3. Contents' = [Contents EXCEPT ![s][p] = X]
    BY <1>9, <2>2, ContentsBecome
  <2>4. QED
    BY <2>1, <2>3
<1>12. QED
  BY <1>6, <1>7, <1>8, <1>11

\* A fill that leaves something in the node at the front.
LEMMA PartialEffect ==
  ASSUME PoolInv, NEW s \in Sides, NEW p \in Prices, book_[s][p] # <<>>,
         book_' = book_, NEW left \in Nat,
         slot' = [slot EXCEPT ![Head(book_[s][p])].qty = left]
  PROVE  /\ slot' \in [Slots -> Held]
         /\ Contents' = [Contents EXCEPT ![s][p] =
                           <<[Head(@) EXCEPT !.qty = left]>> \o Tail(@)]
<1>0. /\ book_ \in [Sides -> [Prices -> Seq(Slots)]] /\ slot \in [Slots -> Held]
      /\ TypeOK
  BY SideNames DEF PoolInv, TypeOK, Held
<1>1. PICK k \in Nat \ {0} : k = Len(book_[s][p])
  <2>1. book_[s][p] \in Seq(Slots)
    BY <1>0
  <2>2. Len(book_[s][p]) \in Nat \ {0}
    BY <2>1
  <2>3. QED
    BY <2>2
<1>2. DOMAIN book_[s][p] = 1 .. k /\ Head(book_[s][p]) = book_[s][p][1]
  BY <1>0, <1>1
<1>3. PICK front \in Slots : front = book_[s][p][1]
  BY <1>0, <1>2, QueueFacts
<1>4. slot' = [slot EXCEPT ![front] = [slot[front] EXCEPT !.qty = left]]
  BY <1>2, <1>3
<1>5. slot' \in [Slots -> Held]
  BY <1>0, <1>4 DEF Held
<1>6. \A m \in Slots : m # front => slot'[m] = slot[m]
  BY <1>0, <1>4
<1>7. slot'[front].qty = left /\ slot'[front].owner = slot[front].owner
  BY <1>0, <1>4 DEF Held
<1>8. 1 \in DOMAIN book_[s][p]
  BY <1>2
<1>9. ASSUME NEW t \in Sides, NEW q \in Prices, <<t, q>> # <<s, p>>
      PROVE  Contents'[t][q] = Contents[t][q]
  <2>1. \A i \in DOMAIN book_[t][q] : slot'[book_[t][q][i]] = slot[book_[t][q][i]]
    BY <1>3, <1>6, <1>8, <1>9, OthersKeep
  <2>2. QED
    BY <2>1, SameQueue
<1>10. Contents'[s][p] = <<[Head(Contents[s][p]) EXCEPT !.qty = left]>> \o Tail(Contents[s][p])
  <2>0. PICK old, new : old = Contents[s][p] /\ new = Contents'[s][p]
    OBVIOUS
  <2>00. /\ \A i \in DOMAIN book_[s][p] : new[i] = NewEntry(book_[s][p][i])
         /\ \A i \in DOMAIN book_[s][p] : old[i] = Entry(book_[s][p][i])
    <3>1. book_'[s][p] = book_[s][p]
      OBVIOUS
    <3>2. \A i \in DOMAIN book_[s][p] : new[i] = NewEntry(book_[s][p][i])
      BY <2>0, <3>1, ContentsNext
    <3>3. \A i \in DOMAIN book_[s][p] : old[i] = Entry(book_[s][p][i])
      BY <2>0, ContentsFacts
    <3>4. QED
      BY <3>2, <3>3
  <2>1. Row(new, k)
    <3>1. DOMAIN book_'[s][p] = 1 .. k
      BY <1>2
    <3>2. QED
      BY <2>0, <3>1, ContentsNext
  <2>2. Row(old, k)
    BY <1>2, <2>0, ContentsFacts
  <2>3. ASSUME NEW i \in 2 .. k PROVE new[i] = old[i]
    <3>1. i \in DOMAIN book_[s][p] /\ i # 1
      BY <1>2
    <3>2. new[i] = NewEntry(book_[s][p][i]) /\ old[i] = Entry(book_[s][p][i])
      BY <2>00, <3>1
    <3>4. slot'[book_[s][p][i]] = slot[book_[s][p][i]]
      BY <1>3, <1>6, <1>8, <3>1, OthersKeep
    <3>5. QED
      BY <3>2, <3>4 DEF Entry, NewEntry
  <2>4. new[1] = NewEntry(front) /\ old[1] = Entry(front)
    BY <1>3, <1>8, <2>00
  <2>5. new[1] = [old[1] EXCEPT !.qty = left]
    BY <1>7, <2>4 DEF Entry, NewEntry
  <2>6. Head(old) = old[1]
    BY <2>2, HeadIs
  <2>7. new = <<[Head(old) EXCEPT !.qty = left]>> \o Tail(old)
    BY <2>1, <2>2, <2>3, <2>5, <2>6, NewHeadIs
  <2>8. QED
    BY <2>0, <2>7
<1>11. QED
  BY <1>5, <1>9, <1>10, ContentsBecome

\* A slot set to zero, by the pointer to it.
LEMMA ZeroEffect ==
  ASSUME PoolInv, NEW m \in Slots \cup {NoNode}, book_' = book_,
         slot' = [slot EXCEPT ![m].qty = 0]
  PROVE  slot' \in [Slots -> Held] /\ Contents' = Reference!Zeroed(m)
<1>0. slot \in [Slots -> Held] /\ TypeOK
  BY DEF PoolInv, TypeOK, Held
<1>1. \A n \in Slots : /\ slot'[n].qty = IF n = m THEN 0 ELSE slot[n].qty
                       /\ slot'[n].owner = slot[n].owner /\ slot'[n] \in Held
  BY <1>0 DEF Held
<1>2. slot' \in [Slots -> Held]
  BY <1>0, <1>1
<1>3. \A n \in Slots : NewEntry(n) = IF Entry(n).id = m THEN [Entry(n) EXCEPT !.qty = 0]
                                                       ELSE Entry(n)
  BY <1>1 DEF Entry, NewEntry
<1>4. ASSUME NEW s \in Sides, NEW p \in Prices
      PROVE  Contents'[s][p] = [i \in DOMAIN Contents[s][p] |->
               IF Contents[s][p][i].id = m THEN [Contents[s][p][i] EXCEPT !.qty = 0]
               ELSE Contents[s][p][i]]
  <2>1. DOMAIN Contents[s][p] = DOMAIN book_[s][p]
    BY ContentsFacts
  <2>2. Contents'[s][p] = [i \in DOMAIN book_[s][p] |-> NewEntry(book_[s][p][i])]
    BY ContentsNext
  <2>3. \A i \in DOMAIN book_[s][p] : /\ Contents[s][p][i] = Entry(book_[s][p][i])
                                      /\ book_[s][p][i] \in Slots
    BY <1>0, ContentsFacts, QueueFacts
  <2>4. QED
    BY <1>3, <2>1, <2>2, <2>3
<1>5. Contents' = [s \in Sides |-> [p \in Prices |-> Contents'[s][p]]]
  BY DEF Contents, Sides
<1> DEFINE G(s, p) == [i \in DOMAIN Contents[s][p] |->
               IF Contents[s][p][i].id = m THEN [Contents[s][p][i] EXCEPT !.qty = 0]
               ELSE Contents[s][p][i]]
<1>6. \A s \in Sides, p \in Prices : Contents'[s][p] = G(s, p)
  BY <1>4
<1>7. Reference!Zeroed(m) = [s \in Sides |-> [p \in Prices |-> G(s, p)]]
  BY SideNames DEF Reference!Zeroed
<1> HIDE DEF G
<1>8. ASSUME NEW s \in Sides
      PROVE  [p \in Prices |-> Contents'[s][p]] = [p \in Prices |-> G(s, p)]
  BY <1>6
<1>9. Contents' = Reference!Zeroed(m)
  BY <1>5, <1>7, <1>8
<1>10. QED
  BY <1>2, <1>9

(***************************************************************************)
(* The steps, each as a step of the reference.                             *)
(***************************************************************************)
\* market_nodes of the reference.
Entered == [x \in ExtIds |-> IF x \in standing THEN market_nodes_[x] ELSE NoNode]

LEMMA BookStays ==
  ASSUME UNCHANGED bookVars
  PROVE  /\ UNCHANGED Reference!bookVars
         /\ PoolInv /\ lastExt' = lastExt => PoolInv'
<1>1. UNCHANGED <<book_, slot, market_nodes_, our_nodes_, standing>>
  BY DEF bookVars
<1>2. Contents' = Contents
  BY <1>1 DEF Contents
<1>3. Entered' = Entered
  BY <1>1 DEF Entered
<1>4. UNCHANGED Reference!bookVars
  BY <1>1, <1>2, <1>3 DEF Reference!bookVars, Entered
<1>5. PoolInv /\ lastExt' = lastExt => PoolInv'
  BY <1>1 DEF PoolInv, TypeOK, QueuedOnce
<1>6. QED
  BY <1>4, <1>5

LEMMA FrontIs ==
  ASSUME TypeOK, NEW s \in Sides, NEW p \in Prices
  PROVE  /\ book_[s][p] = <<>> <=> Contents[s][p] = <<>>
         /\ book_[s][p] # <<>> => /\ Head(book_[s][p]) \in Slots
                                  /\ Head(Contents[s][p]) = Entry(Head(book_[s][p]))
<1>1. PICK k \in Nat : k = Len(book_[s][p])
  BY QueueFacts
<1>2. book_[s][p] \in Seq(Slots) /\ DOMAIN book_[s][p] = 1 .. k
  BY <1>1, QueueFacts
<1>3. PICK q : q = Contents[s][p] /\ Row(q, k)
  BY <1>2, ContentsFacts
<1>4. book_[s][p] = <<>> <=> k = 0
  BY <1>1, <1>2
<1>5. q = <<>> <=> k = 0
  BY <1>3 DEF Row
<1>6. ASSUME book_[s][p] # <<>>
      PROVE  Head(book_[s][p]) \in Slots /\ Head(q) = Entry(Head(book_[s][p]))
  <2>1. k \in Nat \ {0} /\ 1 \in DOMAIN book_[s][p]
    BY <1>2, <1>4, <1>6
  <2>2. Head(q) = q[1]
    BY <1>3, <2>1, HeadIs
  <2>3. Head(book_[s][p]) = book_[s][p][1] /\ book_[s][p][1] \in Slots
    BY <1>2, <1>6, <2>1
  <2>4. q[1] = Entry(book_[s][p][1])
    BY <1>3, <2>1, ContentsFacts
  <2>5. QED
    BY <2>2, <2>3, <2>4
<1>7. QED
  BY <1>3, <1>4, <1>5, <1>6

\* The level in progress.
LEMMA LevelFacts ==
  ASSUME NativeInv, task.level # NoPrice
  PROVE  /\ Resting \in Sides /\ task.level \in Prices
         /\ Reference!Queue = Contents[Resting][task.level]
         /\ Queue = <<>> <=> Reference!Queue = <<>>
         /\ Queue # <<>> => Head(Queue) \in Slots /\ Head(Reference!Queue) = Entry(Head(Queue))
<1>1. Resting \in Sides /\ task.level \in Prices
  BY SideNames DEF NativeInv, TaskOK, Reference!Task, Resting, Reference!Resting
<1>2. QED
  BY <1>1, FrontIs DEF NativeInv, PoolInv, Queue, Reference!Queue, Resting

LEMMA TaskStays ==
  ASSUME TaskOK, task' = task, lastExt' \in Nat
  PROVE  TaskOK'
BY DEF TaskOK

LEMMA AddStep ==
  ASSUME NativeInv, NEW s \in Sides, NEW p \in Prices, NEW q \in Quantities, Add(s, p, q)
  PROVE  NativeInv' /\ Reference!add_market(s, p, q)
<1>1. PICK n \in Allocatable :
        /\ Enqueue(s, p, n, q, Market)
        /\ market_nodes_' = [market_nodes_ EXCEPT ![lastExt'] = n]
  BY DEF Add
<1>2. /\ Reference!Event /\ lastExt' = lastExt + 1 /\ standing' = standing \cup {lastExt'}
      /\ UNCHANGED <<our_nodes_, position, cash, task, actions, observed>>
  BY DEF Add
<1>3. PoolInv /\ TypeOK /\ TaskOK /\ lastExt \in Nat /\ q \in Nat
  BY QuantitiesAssumption DEF NativeInv, PoolInv, TaskOK
<1> DEFINE e == [id |-> n, qty |-> q, owner |-> Market]
<1>4. /\ book_' \in [Sides -> [Prices -> Seq(Slots)]] /\ slot' \in [Slots -> Held]
      /\ QueuedOnce'
      /\ Contents' = [Contents EXCEPT ![s][p] = Append(@, e)]
  BY <1>1, <1>3, PushBack
<1>5. n \in Slots /\ n \in Reference!Fresh
  BY <1>3, AllocatableIsFresh DEF Allocatable
<1>6. standing' \subseteq 1 .. lastExt' /\ lastExt' \in Nat
  BY <1>2, <1>3 DEF TypeOK
<1>7. market_nodes_' \in [ExtIds -> Slots \cup {NoNode}] /\ our_nodes_' = our_nodes_
  BY <1>1, <1>2, <1>3, <1>5 DEF TypeOK
<1>8. TypeOK'
  BY <1>3, <1>4, <1>6, <1>7, SideNames DEF TypeOK, Held
<1>9. TaskOK'
  BY <1>2, <1>3, <1>6, TaskStays
<1>10. Entered' = [Entered EXCEPT ![lastExt'] = n]
  <2>1. ASSUME NEW x \in ExtIds
        PROVE  (IF x \in standing' THEN market_nodes_'[x] ELSE NoNode)
                 = IF x = lastExt' THEN n ELSE (IF x \in standing THEN market_nodes_[x] ELSE NoNode)
    BY <1>1, <1>2, <1>3 DEF TypeOK
  <2>2. QED
    BY <2>1 DEF Entered
<1>11. Reference!Enqueue(s, p, e)
  BY <1>4 DEF Reference!Enqueue
<1>12. UNCHANGED <<our_nodes_, position, cash, task, actions, Reference!observed>>
  BY <1>2 DEF observed, Reference!observed
<1>13. Reference!add_market(s, p, q)
  BY <1>2, <1>5, <1>10, <1>11, <1>12 DEF Reference!add_market, Reference!Market, Market, Entered
<1>14. QED
  BY <1>4, <1>8, <1>9, <1>13 DEF NativeInv, PoolInv

\* The pool stays sound even where a late cancel hits a slot's next owner.
LEMMA CancelKeeps ==
  ASSUME NativeInv, NEW x \in ExtIds, Cancel(x)
  PROVE  NativeInv'
<1>1. PoolInv /\ TypeOK /\ TaskOK
  BY DEF NativeInv, PoolInv
<1>2. /\ slot' = [slot EXCEPT ![market_nodes_[x]].qty = 0] /\ standing' = standing \ {x}
      /\ UNCHANGED <<book_, market_nodes_, our_nodes_, task, lastExt>>
  BY DEF Cancel
<1>3. PICK m \in Slots \cup {NoNode} : m = market_nodes_[x]
  BY <1>1 DEF TypeOK
<1>4. slot' \in [Slots -> Held]
  BY <1>1, <1>2, <1>3, ZeroEffect
<1>5. PoolInv'
  BY <1>1, <1>2, <1>4 DEF PoolInv, TypeOK, QueuedOnce, Held
<1>6. QED
  BY <1>1, <1>2, <1>5, TaskStays DEF NativeInv, TaskOK

LEMMA CancelStep ==
  ASSUME NativeInv, NEW x \in ExtIds, x \in standing, Cancel(x)
  PROVE  Reference!cancel_external(x)
<1>1. PoolInv /\ TypeOK
  BY DEF NativeInv, PoolInv
<1>2. /\ Reference!Event /\ x <= lastExt
      /\ slot' = [slot EXCEPT ![market_nodes_[x]].qty = 0] /\ standing' = standing \ {x}
      /\ Reference!Forget(market_nodes_[x])
      /\ UNCHANGED <<book_, market_nodes_, our_nodes_, position, cash, task, lastExt,
                     actions, reused, net>>
  BY DEF Cancel
<1>3. PICK m \in Slots \cup {NoNode} : m = market_nodes_[x]
  BY <1>1 DEF TypeOK
<1>4. Contents' = Reference!Zeroed(m)
  BY <1>1, <1>2, <1>3, ZeroEffect
<1>5. Entered[x] = m
  BY <1>2, <1>3 DEF Entered
<1>6. Entered' = [Entered EXCEPT ![x] = NoNode]
  BY <1>2 DEF Entered
<1>7. /\ Contents' = Reference!Zeroed(Entered[x]) /\ Reference!Forget(Entered[x])
  BY <1>2, <1>3, <1>4, <1>5
<1>8. QED
  BY <1>2, <1>6, <1>7 DEF Reference!cancel_external, Entered

\* An order or trade that begins.
LEMMA TaskBegins ==
  ASSUME NativeInv, UNCHANGED bookVars, lastExt' = lastExt,
         NEW kind \in {"trade", "limit", "market"}, NEW s \in Sides, NEW q \in Quantities,
         NEW p \in Prices \cup {NoPrice}, NEW l \in Prices \cup {NoPrice},
         NEW id \in OrderIds \cup {Market},
         kind = "limit" => p \in Prices /\ id \in OrderIds,
         task' = Reference!NewTask(kind, s, p, q, id, l)
  PROVE  NativeInv'
<1>1. PoolInv'
  BY BookStays DEF NativeInv
<1>2. task' = [kind |-> kind, side |-> s, price |-> p, remaining |-> q, id |-> id,
               level |-> l, filled |-> 0, depth |-> 0]
  BY DEF Reference!NewTask
<1>3. q \in Nat /\ 0 <= q /\ 0 + q <= q /\ q > 0
  BY QuantitiesAssumption
<1>4. task' \in Reference!Task
  BY <1>2, <1>3, SideNames DEF Reference!Task, Market, Reference!Market
<1>5. TaskOK'
  BY <1>2, <1>3, <1>4 DEF NativeInv, TaskOK
<1>6. QED
  BY <1>1, <1>5 DEF NativeInv

LEMMA TradeStep ==
  ASSUME NativeInv, NEW s \in Sides, NEW p \in Prices, NEW q \in Quantities, Trade(s, p, q)
  PROVE  NativeInv' /\ Reference!Trade(s, p, q)
<1>1. /\ UNCHANGED bookVars /\ UNCHANGED <<position, cash, lastExt, actions, observed>>
      /\ Reference!Event
      /\ task' = Reference!NewTask("trade", s, NoPrice, q, Market, p)
  BY DEF Trade
<1>2. NativeInv'
  BY <1>1, TaskBegins
<1>3. Reference!Trade(s, p, q)
  BY <1>1, BookStays DEF Reference!Trade, Market, observed, Reference!observed
<1>4. QED
  BY <1>2, <1>3

LEMMA LimitOrderStep ==
  ASSUME NativeInv, NEW s \in Sides, NEW p \in Prices, NEW q \in Quantities,
         NEW id \in OrderIds, LimitOrder(s, p, q, id)
  PROVE  NativeInv' /\ Reference!LimitOrder(s, p, q, id)
<1>1. /\ UNCHANGED bookVars /\ UNCHANGED <<position, cash, lastExt, events, observed>>
      /\ Reference!Action
      /\ task' = Reference!NewTask("limit", s, p, q, id, NoPrice)
  BY DEF LimitOrder
<1>2. NativeInv'
  BY <1>1, TaskBegins
<1>3. Reference!LimitOrder(s, p, q, id)
  BY <1>1, BookStays DEF Reference!LimitOrder, observed, Reference!observed
<1>4. QED
  BY <1>2, <1>3

LEMMA MarketOrderStep ==
  ASSUME NativeInv, NEW s \in Sides, NEW q \in Quantities, MarketOrder(s, q)
  PROVE  NativeInv' /\ Reference!MarketOrder(s, q)
<1>1. /\ UNCHANGED bookVars /\ UNCHANGED <<position, cash, lastExt, events, observed>>
      /\ Reference!Action
      /\ task' = Reference!NewTask("market", s, NoPrice, q, Market, NoPrice)
  BY DEF MarketOrder
<1>2. NativeInv'
  BY <1>1, TaskBegins
<1>3. Reference!MarketOrder(s, q)
  BY <1>1, BookStays DEF Reference!MarketOrder, Market, observed, Reference!observed
<1>4. QED
  BY <1>2, <1>3

LEMMA CancelOursStep ==
  ASSUME NativeInv, NEW id \in OrderIds, cancel_ours(id)
  PROVE  NativeInv' /\ Reference!cancel_ours(id)
<1>1. PoolInv /\ TypeOK /\ TaskOK
  BY DEF NativeInv, PoolInv
<1>2. /\ IF our_nodes_[id] = NoNode THEN UNCHANGED <<slot, our_nodes_>>
         ELSE /\ slot' = [slot EXCEPT ![our_nodes_[id]].qty = 0] /\ erase_ours(id)
      /\ Reference!Action /\ Reference!Forget(our_nodes_[id])
      /\ UNCHANGED <<book_, market_nodes_, standing, position, cash, task, lastExt,
                     events, reused, net>>
  BY DEF cancel_ours
<1>3. PICK m \in Slots \cup {NoNode} : m = our_nodes_[id]
  BY <1>1 DEF TypeOK
\* Nothing is at NoNode, so that setting it to zero changes nothing.
<1>4. slot' = [slot EXCEPT ![m].qty = 0] /\ our_nodes_' = [our_nodes_ EXCEPT ![id] = NoNode]
  <2>1. CASE m = NoNode
    <3>1. m \notin DOMAIN slot
      BY <1>1, <2>1, SlotsAssumption DEF TypeOK
    <3>2. [slot EXCEPT ![m].qty = 0] = slot
      BY <1>1, <3>1 DEF TypeOK
    <3>3. [our_nodes_ EXCEPT ![id] = NoNode] = our_nodes_
      BY <1>1, <1>3, <2>1 DEF TypeOK
    <3>4. QED
      BY <1>2, <1>3, <2>1, <3>2, <3>3
  <2>2. CASE m # NoNode
    BY <1>2, <1>3, <2>2 DEF erase_ours
  <2>3. QED
    BY <2>1, <2>2
<1>5. slot' \in [Slots -> Held] /\ Contents' = Reference!Zeroed(m)
  BY <1>1, <1>2, <1>4, ZeroEffect
<1>6. our_nodes_' \in [OrderIds -> Slots \cup {NoNode}]
  BY <1>1, <1>4 DEF TypeOK
<1>7. PoolInv'
  BY <1>1, <1>2, <1>5, <1>6 DEF PoolInv, TypeOK, QueuedOnce, Held
<1>8. TaskOK'
  BY <1>1, <1>2 DEF TaskOK
<1>9. Entered' = Entered
  BY <1>2 DEF Entered
<1>10. Reference!cancel_ours(id)
  BY <1>2, <1>3, <1>4, <1>5, <1>9 DEF Reference!cancel_ours, Entered
<1>11. QED
  BY <1>7, <1>8, <1>10 DEF NativeInv

LEMMA SweepStep == ASSUME NativeInv, Sweep PROVE NativeInv' /\ Reference!Sweep
<1>1. PoolInv /\ TypeOK /\ TaskOK
  BY DEF NativeInv, PoolInv
<1>2. /\ task.level # NoPrice /\ Queue # <<>> /\ task.filled < task.remaining
      /\ slot[Head(Queue)].qty = 0 /\ PopFront
      /\ UNCHANGED <<market_nodes_, our_nodes_, standing, position, cash, task>>
      /\ UNCHANGED <<lastExt, events, actions, rested, ahead, reused, net>>
  BY DEF Sweep, Consuming, inputVars, observed
<1>3. PICK s \in Sides, p \in Prices : s = Resting /\ p = task.level
  BY <1>2, LevelFacts
<1>4. /\ book_[s][p] # <<>> /\ book_' = [book_ EXCEPT ![s][p] = Tail(@)]
      /\ slot' = [slot EXCEPT ![Head(book_[s][p])] = Blank]
  BY <1>2, <1>3 DEF PopFront, Queue
<1>5. /\ book_' \in [Sides -> [Prices -> Seq(Slots)]] /\ slot' \in [Slots -> Held]
      /\ QueuedOnce'
      /\ Contents' = [Contents EXCEPT ![s][p] = Tail(@)]
  BY <1>1, <1>4, PopEffect
<1>6. NativeInv'
  BY <1>1, <1>2, <1>5, SideNames DEF NativeInv, PoolInv, TypeOK, TaskOK, Held
<1>7. Entered' = Entered
  BY <1>2 DEF Entered
<1>8. Head(Reference!Queue).qty = 0 /\ Reference!Queue # <<>>
  BY <1>2, LevelFacts DEF Entry
<1>9. Contents' = [Contents EXCEPT ![Reference!Resting][task.level] = Tail(@)]
  BY <1>3, <1>5 DEF Resting
<1>10. Reference!Consuming
  BY <1>2, <1>8 DEF Reference!Consuming
<1>11. Reference!Sweep
  BY <1>2, <1>7, <1>8, <1>9, <1>10
  DEF Reference!Sweep, Entered, Reference!inputVars, Reference!observed
<1>12. QED
  BY <1>6, <1>11

LEMMA TakeStep == ASSUME NativeInv, Take PROVE NativeInv' /\ Reference!Take
<1>1. PoolInv /\ TypeOK /\ TaskOK
  BY DEF NativeInv, PoolInv
<1>2. task.level # NoPrice /\ Queue # <<>> /\ task.filled < task.remaining
  BY DEF Take, Consuming
<1>3. PICK s \in Sides, p \in Prices : s = Resting /\ p = task.level
  BY <1>2, LevelFacts
<1>4. PICK nd \in Slots : nd = Head(Queue)
  BY <1>2, LevelFacts
<1>5. PICK owner, qty, taken :
        owner = slot[nd].owner /\ qty = slot[nd].qty /\ taken = Taken
  OBVIOUS
<1>6. /\ task.remaining \in Nat /\ task.filled \in Nat /\ task.depth \in Nat
      /\ task \in Reference!Task /\ task.filled < task.remaining
      /\ qty \in Nat /\ owner \in OrderIds \cup {Market}
  BY <1>1, <1>2, <1>5 DEF TaskOK, Reference!Task, TypeOK
<1>7. /\ taken \in Nat /\ taken <= qty /\ taken <= task.remaining - task.filled
  BY <1>4, <1>5, <1>6 DEF Taken, Reference!Smaller
<1>8. /\ qty > 0 /\ task' = [task EXCEPT !.filled = @ + taken]
      /\ Reference!SettleMaker(owner, taken)
      /\ net' = net + Reference!NetOf(owner, taken)
      /\ IF taken = qty
         THEN /\ PopFront
              /\ our_nodes_' = [o \in OrderIds |-> IF o = owner THEN NoNode ELSE our_nodes_[o]]
              /\ standing' = {x \in standing : market_nodes_[x] # nd}
              /\ Reference!Forget(nd)
         ELSE /\ slot' = [slot EXCEPT ![nd].qty = @ - taken]
              /\ UNCHANGED <<book_, our_nodes_, standing, rested, ahead>>
      /\ UNCHANGED <<market_nodes_, lastExt, events, actions, reused>>
  BY <1>4, <1>5 DEF Take, inputVars
\* What the reference sees at the front.
<1>9. /\ Reference!Queue = Contents[s][p] /\ Reference!Queue # <<>>
      /\ Head(Reference!Queue) = Entry(nd) /\ Queue = book_[s][p]
  BY <1>2, <1>3, <1>4, LevelFacts DEF Queue
<1> DEFINE node == Head(Reference!Queue)
<1>11. /\ node = [id |-> nd, qty |-> qty, owner |-> owner]
       /\ node.id = nd /\ node.qty = qty /\ node.owner = owner
  BY <1>5, <1>9 DEF Entry
<1>12. Reference!Taken = taken
  BY <1>4, <1>5, <1>11 DEF Taken, Reference!Taken
<1>12a. ASSUME IF node.qty - Reference!Taken = 0
               THEN /\ Contents' = [Contents EXCEPT ![Reference!Resting][task.level] = Tail(@)]
                    /\ Reference!Unlinked(node) /\ Reference!Forget(node.id)
               ELSE /\ Contents' = [Contents EXCEPT ![Reference!Resting][task.level] =
                          <<[node EXCEPT !.qty = node.qty - Reference!Taken]>> \o Tail(@)]
                    /\ UNCHANGED <<Entered, our_nodes_, rested, ahead>>
        PROVE  Reference!Take
  <2>1. Reference!Consuming
    BY <1>2, <1>9 DEF Reference!Consuming
  <2>2. UNCHANGED <<Reference!inputVars, reused>>
    BY <1>8 DEF Reference!inputVars
  <2>3. /\ task' = [task EXCEPT !.filled = @ + Reference!Taken] /\ node.qty > 0
        /\ Reference!SettleMaker(node.owner, Reference!Taken)
        /\ net' = net + Reference!NetOf(node.owner, Reference!Taken)
    BY <1>8, <1>11, <1>12, Zenon
  <2>4. QED
    BY <1>12a, <2>1, <2>2, <2>3, Zenon DEF Reference!Take, Entered
<1>13. TaskOK'
  <2>1. /\ task'.kind = task.kind /\ task'.price = task.price /\ task'.id = task.id
        /\ task'.depth = task.depth /\ task'.remaining = task.remaining
        /\ task'.filled = task.filled + taken /\ task' \in Reference!Task
    BY <1>6, <1>7, <1>8 DEF Reference!Task
  <2>2. task.filled + taken <= task.remaining
    BY <1>6, <1>7
  <2>3. lastExt' = lastExt
    BY <1>8
  <2>4. task.remaining > 0
    BY <1>1, <1>2 DEF TaskOK
  <2>5. QED
    BY <1>1, <2>1, <2>2, <2>3, <2>4 DEF TaskOK
<1>14. CASE taken = qty
  <2>1. /\ PopFront /\ standing' = {x \in standing : market_nodes_[x] # nd}
        /\ our_nodes_' = [o \in OrderIds |-> IF o = owner THEN NoNode ELSE our_nodes_[o]]
        /\ Reference!Forget(nd)
    BY <1>8, <1>14
  <2>2. /\ book_[s][p] # <<>> /\ book_' = [book_ EXCEPT ![s][p] = Tail(@)]
        /\ slot' = [slot EXCEPT ![Head(book_[s][p])] = Blank]
    BY <1>2, <1>3, <1>9, <2>1 DEF PopFront
  <2>3. /\ book_' \in [Sides -> [Prices -> Seq(Slots)]] /\ slot' \in [Slots -> Held]
        /\ QueuedOnce'
        /\ Contents' = [Contents EXCEPT ![s][p] = Tail(@)]
    BY <1>1, <2>2, PopEffect
  <2>4. our_nodes_' \in [OrderIds -> Slots \cup {NoNode}]
    BY <1>1, <2>1 DEF TypeOK
  <2>5. PoolInv'
    BY <1>1, <1>8, <2>1, <2>3, <2>4, SideNames DEF PoolInv, TypeOK, Held
  <2>6. Entered' = [x \in ExtIds |-> IF Entered[x] = nd THEN NoNode ELSE Entered[x]]
    BY <1>4, <1>8, <2>1, SlotsAssumption DEF Entered
  <2>7. Reference!Unlinked(node)
    BY <1>11, <2>1, <2>6 DEF Reference!Unlinked, Entered, ExtIds, Reference!ExtIds
  <2>8. Contents' = [Contents EXCEPT ![Reference!Resting][task.level] = Tail(@)]
    BY <1>3, <2>3 DEF Resting
  <2>9. node.qty - taken = 0
    BY <1>6, <1>11, <1>14
  <2>10. Reference!Take
    BY <1>11, <1>12, <1>12a, <2>1, <2>7, <2>8, <2>9
  <2>11. QED
    BY <1>13, <2>5, <2>10 DEF NativeInv
<1>15. CASE taken # qty
  <2> DEFINE left == qty - taken
  <2>1. /\ slot' = [slot EXCEPT ![nd].qty = @ - taken]
        /\ UNCHANGED <<book_, our_nodes_, standing, rested, ahead>>
    BY <1>8, <1>15
  <2>2. left \in Nat /\ left # 0
    BY <1>6, <1>7, <1>15
  <2>3. book_[s][p] # <<>> /\ slot' = [slot EXCEPT ![Head(book_[s][p])].qty = left]
    BY <1>2, <1>4, <1>5, <1>9, <2>1
  <2> HIDE DEF left
  <2>4. /\ slot' \in [Slots -> Held]
        /\ Contents' = [Contents EXCEPT ![s][p] =
                          <<[Head(@) EXCEPT !.qty = left]>> \o Tail(@)]
    BY <1>1, <2>1, <2>2, <2>3, PartialEffect
  <2>5. PoolInv'
    BY <1>1, <1>8, <2>1, <2>4 DEF PoolInv, TypeOK, QueuedOnce, Held
  <2>6. Entered' = Entered
    BY <1>8, <2>1 DEF Entered
  <2>7. Contents' = [Contents EXCEPT ![Reference!Resting][task.level] =
                       <<[node EXCEPT !.qty = left]>> \o Tail(@)]
    BY <1>3, <1>9, <2>4 DEF Resting
  <2>8. left = node.qty - Reference!Taken
    BY <1>11, <1>12 DEF left
  <2>9. Reference!Take
    BY <1>12a, <2>1, <2>2, <2>6, <2>7, <2>8
  <2>10. QED
    BY <1>13, <2>5, <2>9 DEF NativeInv
<1>16. QED
  BY <1>14, <1>15

\* An order or trade that is over.
LEMMA TaskEnds == ASSUME TaskOK, task' = Reference!NoTask, lastExt' = lastExt PROVE TaskOK'
<1>1. task' = [kind |-> "none", side |-> "buy", price |-> NoPrice, remaining |-> 0,
               id |-> Market, level |-> NoPrice, filled |-> 0, depth |-> 0]
  BY DEF Reference!NoTask, Reference!NewTask, Market
<1>2. task' \in Reference!Task
  BY <1>1 DEF Reference!Task, Reference!Sides, Market
<1>3. QED
  BY <1>1, <1>2 DEF TaskOK

LEMMA TradeDoneStep == ASSUME NativeInv, TradeDone PROVE NativeInv' /\ Reference!TradeDone
<1>1. /\ task.kind = "trade" /\ LevelDone /\ task' = Reference!NoTask
      /\ UNCHANGED bookVars /\ UNCHANGED <<position, cash, lastExt, events, actions>>
      /\ UNCHANGED <<rested, ahead, reused, net>>
  BY DEF TradeDone, inputVars, observed
<1>2. Reference!LevelDone
  BY <1>1, LevelFacts DEF LevelDone, Reference!LevelDone
<1>3. NativeInv'
  BY <1>1, BookStays, TaskEnds DEF NativeInv
<1>4. Reference!TradeDone
  BY <1>1, <1>2, BookStays DEF Reference!TradeDone, Reference!inputVars, Reference!observed
<1>5. QED
  BY <1>3, <1>4

LEMMA GoToLevelStep == ASSUME NativeInv, GoToLevel PROVE NativeInv' /\ Reference!GoToLevel
<1>1. /\ Reference!Ours /\ task.level = NoPrice /\ task.remaining > 0
      /\ UNCHANGED bookVars /\ UNCHANGED <<position, cash, lastExt, events, actions>>
      /\ UNCHANGED <<rested, ahead, reused, net>>
  BY DEF GoToLevel, inputVars, observed
<1>2. PICK p \in Reference!NextLevel : task' = [task EXCEPT !.level = p, !.filled = 0]
  BY DEF GoToLevel
<1>3. p \in Prices
  BY DEF Reference!NextLevel, Reference!best
<1>4. TaskOK'
  <2>1. TaskOK /\ task \in Reference!Task /\ task.remaining \in Nat
    BY DEF NativeInv, TaskOK, Reference!Task
  <2>2. /\ task'.kind = task.kind /\ task'.price = task.price /\ task'.id = task.id
        /\ task'.depth = task.depth /\ task'.remaining = task.remaining
        /\ task'.filled = 0 /\ task' \in Reference!Task
    BY <1>2, <1>3, <2>1 DEF Reference!Task
  <2>3. QED
    BY <1>1, <2>1, <2>2 DEF TaskOK
<1>5. NativeInv'
  BY <1>1, <1>4, BookStays DEF NativeInv
<1>6. Reference!GoToLevel
  BY <1>1, <1>2, BookStays DEF Reference!GoToLevel, Reference!inputVars, Reference!observed
<1>7. QED
  BY <1>5, <1>6

LEMMA OrderDoneStep == ASSUME NativeInv, OrderDone PROVE NativeInv' /\ Reference!OrderDone
<1>1. /\ Reference!Ours /\ task.level = NoPrice /\ task' = Reference!NoTask
      /\ task.remaining = 0 \/ (task.kind = "market" /\ Reference!NextLevel = {})
      /\ UNCHANGED bookVars /\ UNCHANGED <<position, cash, lastExt, events, actions>>
      /\ UNCHANGED <<rested, ahead, reused, net>>
  BY DEF OrderDone, inputVars, observed
<1>2. NativeInv'
  BY <1>1, BookStays, TaskEnds DEF NativeInv
<1>3. Reference!OrderDone
  BY <1>1, BookStays DEF Reference!OrderDone, Reference!inputVars, Reference!observed
<1>4. QED
  BY <1>2, <1>3

LEMMA RestStep == ASSUME NativeInv, Rest PROVE NativeInv' /\ Reference!Rest
<1>1. PoolInv /\ TypeOK /\ TaskOK
  BY DEF NativeInv, PoolInv
<1>2. /\ task.kind = "limit" /\ task.level = NoPrice /\ task.remaining > 0
      /\ Reference!NextLevel = {} /\ task' = Reference!NoTask
      /\ UNCHANGED <<market_nodes_, standing, position, cash, net>>
      /\ UNCHANGED <<lastExt, events, actions>>
  BY DEF Rest, inputVars
<1>3. PICK s \in Sides, p \in Prices, o \in OrderIds, q \in Nat :
        s = task.side /\ p = task.price /\ o = task.id /\ q = task.remaining
  BY <1>1, <1>2, SideNames DEF TaskOK, Reference!Task
<1>4. PICK n \in Allocatable :
        /\ Enqueue(s, p, n, q, o) /\ our_nodes_' = [our_nodes_ EXCEPT ![o] = n]
        /\ Reference!Joins(n)
  BY <1>3 DEF Rest
<1> DEFINE e == [id |-> n, qty |-> q, owner |-> o]
<1>5. /\ book_' \in [Sides -> [Prices -> Seq(Slots)]] /\ slot' \in [Slots -> Held]
      /\ QueuedOnce'
      /\ Contents' = [Contents EXCEPT ![s][p] = Append(@, e)]
  BY <1>1, <1>4, PushBack
<1>6. n \in Slots /\ n \in Reference!Fresh
  BY <1>1, AllocatableIsFresh DEF Allocatable
<1>7. our_nodes_' \in [OrderIds -> Slots \cup {NoNode}]
  BY <1>1, <1>4, <1>6 DEF TypeOK
<1>8. NativeInv'
  BY <1>1, <1>2, <1>5, <1>7, SideNames, TaskEnds DEF NativeInv, PoolInv, TypeOK, Held
<1>9. Entered' = Entered
  BY <1>2 DEF Entered
<1>10. /\ Reference!Enqueue(task.side, task.price,
             [id |-> n, qty |-> task.remaining, owner |-> task.id])
       /\ our_nodes_' = [our_nodes_ EXCEPT ![task.id] = n]
  BY <1>3, <1>4, <1>5 DEF Reference!Enqueue
<1>11. Reference!Rest
  BY <1>2, <1>4, <1>6, <1>9, <1>10 DEF Reference!Rest, Entered, Reference!inputVars
<1>12. QED
  BY <1>8, <1>11

(***************************************************************************)
(* The two ways to round a price with impact: half-way between two ticks   *)
(* the one goes up and the other to the even neighbour, and below zero the *)
(* one truncates.                                                          *)
(***************************************************************************)
\* The quotient is known by its remainder.
LEMMA Quotient ==
  ASSUME NEW d \in Nat \ {0}, NEW x \in Int, NEW q \in Int, NEW r \in Nat, r < d, x = d * q + r
  PROVE  x \div d = q
<1>1. PICK k \in Int, w \in Nat : k = x \div d /\ w < d /\ x = d * k + w
  <2>1. /\ x \div d \in Int /\ (x % d) \in Nat /\ (x % d) < d
        /\ x = d * (x \div d) + (x % d)
    OBVIOUS
  <2>2. QED
    BY <2>1
<1>2. PICK g \in Int : g = q - k /\ d * g = w - r
  <2>1. d * (q - k) = d * q - d * k /\ q - k \in Int
    OBVIOUS
  <2>2. QED
    BY <1>1, <2>1
<1>3. ~(g >= 1)
  <2>1. g >= 1 => d * g >= d
    <3>1. g >= 1 => \E h \in Nat : g = h + 1 /\ d * g = d * h + d /\ d * h >= 0
      <4>1. ASSUME g >= 1 PROVE \E h \in Nat : g = h + 1 /\ d * g = d * h + d /\ d * h >= 0
        <5>1. PICK h \in Nat : h = g - 1
          BY <4>1
        <5>2. g = h + 1 /\ d * (h + 1) = d * h + d /\ d * h \in Nat
          BY <5>1
        <5>3. QED
          BY <5>2
      <4>2. QED
        BY <4>1
    <3>2. QED
      BY <3>1
  <2>2. QED
    BY <1>1, <1>2, <2>1
<1>4. ~(g <= -1)
  <2>1. ASSUME g <= -1 PROVE FALSE
    <3>1. PICK h \in Nat : h = -g - 1
      BY <2>1
    <3>2. d * (h + 1) = d * h + d /\ d * h \in Nat /\ g = -(h + 1) /\ d * (-(h + 1)) = -(d * (h + 1))
      BY <3>1
    <3>3. d * g = -(d * h) - d
      BY <3>2
    <3>4. QED
      BY <1>1, <1>2, <3>2, <3>3
  <2>2. QED
    BY <2>1
<1>5. QED
  BY <1>1, <1>2, <1>3, <1>4

\* The native price is the reference's or a tick above it, and it is above
\* only half-way between two ticks or below zero.
LEMMA RoundsApart ==
  ASSUME NEW num \in Int
  PROVE  \/ Rounded(num) = Reference!Rounded(num)
         \/ /\ Rounded(num) = Reference!Rounded(num) + 1
            /\ num < 0 \/ 2 * (num % ImpactDen) = ImpactDen
<1>1. PICK d \in Nat \ {0}, q \in Int, r \in Nat :
        /\ d = ImpactDen /\ q = num \div d /\ r = (num % d) /\ r < d /\ num = d * q + r
  <2>1. ImpactDen \in Nat \ {0}
    BY ImpactAssumption
  <2>2. /\ num \div ImpactDen \in Int /\ (num % ImpactDen) \in Nat
        /\ (num % ImpactDen) < ImpactDen
        /\ num = ImpactDen * (num \div ImpactDen) + (num % ImpactDen)
    BY <2>1
  <2>3. QED
    BY <2>1, <2>2
<1>2. PICK b \in {q, q + 1} :
        /\ b = Reference!Rounded(num)
        /\ 2 * r < d => b = q
        /\ 2 * r > d => b = q + 1
  BY <1>1 DEF Reference!Rounded
<1>3. PICK up \in Int, e \in Nat \ {0} : up = 2 * num + d /\ e = 2 * d /\ up = e * q + (2 * r + d)
  <2>1. 2 * (d * q + r) + d = (2 * d) * q + (2 * r + d)
    OBVIOUS
  <2>2. QED
    BY <1>1, <2>1
\* The floor of up over e.
<1>4. PICK c \in {q, q + 1}, t \in Nat :
        /\ t < e /\ up = e * c + t
        /\ 2 * r < d => c = q
        /\ 2 * r >= d => c = q + 1
        /\ 2 * r = d => t = 0
  <2>1. CASE 2 * r < d
    <3>1. 2 * r + d \in Nat /\ 2 * r + d < e
      BY <1>1, <1>3, <2>1
    <3>2. QED
      BY <1>1, <1>3, <2>1, <3>1
  <2>2. CASE 2 * r >= d
    <3>1. PICK t \in Nat : t = 2 * r - d
      <4>1. 2 * r - d \in Nat
        BY <1>1, <2>2
      <4>2. QED
        BY <4>1
    <3>2. t < e /\ (2 * r = d => t = 0) /\ 2 * r + d = e + t
      BY <1>1, <1>3, <3>1
    <3>3. e * (q + 1) = e * q + e /\ e * q \in Int
      <4>1. e \in Int /\ q \in Int
        BY <1>1, <1>3
      <4>2. QED
        BY <4>1
    <3>4. up = e * (q + 1) + t
      BY <1>1, <1>3, <3>1, <3>2, <3>3
    <3>5. QED
      BY <1>1, <2>2, <3>2, <3>4
  <2>3. QED
    BY <1>1, <2>1, <2>2
<1>5. c \in Int /\ b \in Int
  BY <1>1, <1>2, <1>4
<1>6. CASE up >= 0
  <2>1. Rounded(num) = up \div e
    BY <1>1, <1>3, <1>6 DEF Rounded
  <2>2. up \div e = c
    BY <1>3, <1>4, <1>5, Quotient
  <2>3. c = b \/ (c = b + 1 /\ 2 * r = d)
    BY <1>1, <1>2, <1>4
  <2>4. QED
    BY <1>1, <1>2, <2>1, <2>2, <2>3
<1>7. CASE up < 0
  <2>1. Rounded(num) = -((-up) \div e)
    BY <1>1, <1>3, <1>7 DEF Rounded
  <2>2. num < 0
    BY <1>1, <1>3, <1>7
  <2>3. ASSUME t = 0 PROVE (-up) \div e = -c
    <3>1. -up = e * (-c) + 0 /\ 0 < e /\ -up \in Int /\ -c \in Int
      <4>1. e * (-c) = -(e * c)
        BY <1>3, <1>5
      <4>2. QED
        BY <1>3, <1>4, <1>5, <2>3, <4>1
    <3>2. QED
      BY <1>3, <3>1, Quotient
  <2>4. ASSUME t # 0 PROVE (-up) \div e = -c - 1
    <3>1. PICK w \in Nat : w = e - t /\ w < e
      <4>1. e - t \in Nat /\ e - t < e
        BY <1>3, <1>4, <2>4
      <4>2. QED
        BY <4>1
    <3>2. -up = e * (-c - 1) + w /\ -up \in Int /\ -c - 1 \in Int
      <4>1. e * (-c - 1) = -(e * c) - e
        BY <1>3, <1>5
      <4>2. QED
        BY <1>3, <1>4, <1>5, <3>1, <4>1
    <3>3. QED
      BY <1>3, <3>1, <3>2, Quotient
  <2>5. Rounded(num) \in {c, c + 1} /\ (2 * r = d => Rounded(num) = c)
    BY <1>4, <1>5, <2>1, <2>3, <2>4
  <2>6. Rounded(num) = b \/ Rounded(num) = b + 1
    BY <1>1, <1>2, <1>4, <1>5, <2>5
  <2>7. QED
    BY <1>2, <2>2, <2>6
<1>8. QED
  BY <1>3, <1>6, <1>7

LEMMA SettleTakerStep ==
  ASSUME NativeInv, SettleTaker
  PROVE  NativeInv' /\ (Reference!SettleTaker \/ TickAbove)
<1>1. TaskOK /\ TypeOK /\ task \in Reference!Task
  BY DEF NativeInv, PoolInv, TaskOK
<1>2. /\ Reference!Ours /\ task.level # NoPrice /\ LevelDone
      /\ position' = position + sign(task.side) * task.filled
      /\ cash' = cash - sign(task.side) * task.filled * TakerPrice
      /\ task' = [task EXCEPT !.remaining = @ - task.filled, !.depth = @ + task.filled,
                              !.level = NoPrice, !.filled = 0]
      /\ UNCHANGED bookVars
      /\ UNCHANGED <<lastExt, events, actions, rested, ahead, reused, net>>
  BY DEF SettleTaker, LevelDone, inputVars, observed
<1>3. /\ task.remaining \in Nat /\ task.filled \in Nat /\ task.depth \in Nat
      /\ task.filled <= task.remaining /\ task.side \in Sides /\ task.level \in Prices
  BY <1>1, <1>2, SideNames DEF TaskOK, Reference!Task
<1>4. PICK left \in Nat, deeper \in Nat :
        left = task.remaining - task.filled /\ deeper = task.depth + task.filled
  BY <1>3
<1>5. /\ task'.kind = task.kind /\ task'.price = task.price /\ task'.id = task.id
      /\ task'.depth = deeper /\ task'.remaining = left
      /\ task'.filled = 0 /\ task' \in Reference!Task
  BY <1>1, <1>2, <1>4 DEF Reference!Task
<1>6. TaskOK'
  BY <1>1, <1>2, <1>4, <1>5 DEF TaskOK
<1>7. NativeInv'
  BY <1>2, <1>6, BookStays DEF NativeInv
<1>8. Reference!Impacted \in Int
  <2>1. task.level \in Int /\ task.depth \in Int /\ ImpactNum \in Int /\ ImpactDen \in Int
    <3>1. task.level \in Nat
      BY <1>3, PricesAssumption
    <3>2. QED
      BY <1>3, <3>1, ImpactAssumption
  <2>2. Reference!sign(task.side) \in Int
    BY DEF Reference!sign
  <2>3. ASSUME NEW l \in Int, NEW z \in Int, NEW sg \in Int, NEW c \in Int, NEW d \in Int
        PROVE  d * l + sg * c * z \in Int
    OBVIOUS
  <2>4. QED
    BY <2>1, <2>2, <2>3 DEF Reference!Impacted
<1>9. Reference!LevelDone
  BY <1>2, LevelFacts DEF LevelDone, Reference!LevelDone
<1>10. \A price : TakerPrice = price => Reference!SettleAt(price)
  BY <1>2, <1>9, BookStays
  DEF Reference!SettleAt, Reference!inputVars, Reference!observed, sign
<1>11. CASE task.kind = "limit"
  <2>1. TakerPrice = Reference!TakerPrice
    BY <1>11 DEF TakerPrice, Reference!TakerPrice
  <2>2. QED
    BY <1>7, <1>10, <2>1 DEF Reference!SettleTaker
<1>12. CASE task.kind = "market"
  <2>1. TakerPrice = Rounded(Reference!Impacted) /\ Reference!TakerPrice = Reference!Rounded(Reference!Impacted)
    BY <1>12 DEF TakerPrice, Reference!TakerPrice
  <2>2. CASE Rounded(Reference!Impacted) = Reference!Rounded(Reference!Impacted)
    BY <1>7, <1>10, <2>1, <2>2 DEF Reference!SettleTaker
  <2>3. CASE /\ Rounded(Reference!Impacted) = Reference!Rounded(Reference!Impacted) + 1
             /\ Reference!Impacted < 0 \/ 2 * (Reference!Impacted % ImpactDen) = ImpactDen
    BY <1>7, <1>10, <1>12, <2>1, <2>3 DEF TickAbove
  <2>4. QED
    BY <1>8, <2>2, <2>3, RoundsApart
<1>13. QED
  BY <1>2, <1>11, <1>12 DEF Reference!Ours

LEMMA NativeInvInit == Init => NativeInv
<1> SUFFICES ASSUME Init PROVE NativeInv
  OBVIOUS
<1>1. task = [kind |-> "none", side |-> "buy", price |-> NoPrice, remaining |-> 0,
              id |-> Market, level |-> NoPrice, filled |-> 0, depth |-> 0]
  BY DEF Init, Reference!NoTask, Reference!NewTask, Market
<1>2. task \in Reference!Task
  BY <1>1 DEF Reference!Task, Reference!Sides, Market
<1>3. TaskOK
  BY <1>1, <1>2 DEF TaskOK, Init
<1>4. TypeOK
  BY DEF Init, TypeOK
<1>5. QueuedOnce
  BY DEF Init, QueuedOnce
<1>6. QED
  BY <1>3, <1>4, <1>5 DEF NativeInv, PoolInv

\* What every step does, and which step of the reference it is.
LEMMA NativeStep ==
  ASSUME NativeInv, Next
  PROVE  /\ NativeInv'
         /\ Reference!Next \/ LateCancel \/ TickAbove
<1>1. CASE apply_event
  <2>1. ASSUME NEW s \in Sides, NEW p \in Prices, NEW q \in Quantities, Add(s, p, q)
        PROVE  NativeInv' /\ Reference!Next
    BY <2>1, AddStep, SideNames DEF Reference!Next, Reference!Feed
  <2>2. ASSUME NEW s \in Sides, NEW p \in Prices, NEW q \in Quantities, Trade(s, p, q)
        PROVE  NativeInv' /\ Reference!Next
    BY <2>2, TradeStep, SideNames DEF Reference!Next, Reference!Feed
  <2>3. ASSUME NEW x \in ExtIds, Cancel(x)
        PROVE  NativeInv' /\ (Reference!Next \/ LateCancel)
    BY <2>3, CancelKeeps, CancelStep
    DEF LateCancel, Reference!Next, Reference!Feed, ExtIds, Reference!ExtIds
  <2>4. QED
    BY <1>1, <2>1, <2>2, <2>3, SideNames DEF apply_event
<1>2. CASE apply_action
  <2>1. ASSUME NEW s \in Sides, NEW p \in Prices, NEW q \in Quantities, NEW o \in OrderIds,
               LimitOrder(s, p, q, o)
        PROVE  NativeInv' /\ Reference!Next
    BY <2>1, LimitOrderStep, SideNames DEF Reference!Next, Reference!Strategy
  <2>2. ASSUME NEW s \in Sides, NEW q \in Quantities, MarketOrder(s, q)
        PROVE  NativeInv' /\ Reference!Next
    BY <2>2, MarketOrderStep, SideNames DEF Reference!Next, Reference!Strategy
  <2>3. ASSUME NEW o \in OrderIds, cancel_ours(o) PROVE NativeInv' /\ Reference!Next
    BY <2>3, CancelOursStep DEF Reference!Next, Reference!Strategy
  <2>4. QED
    BY <1>2, <2>1, <2>2, <2>3, SideNames DEF apply_action
<1>3. CASE Matching
  BY <1>3, SweepStep, TakeStep, TradeDoneStep, GoToLevelStep, SettleTakerStep, RestStep,
     OrderDoneStep
  DEF Matching, Reference!Next, Reference!Matching
<1>4. QED
  BY <1>1, <1>2, <1>3 DEF Next

LEMMA NativeStutters ==
  ASSUME NativeInv, UNCHANGED vars
  PROVE  NativeInv' /\ UNCHANGED Reference!vars
<1>1. /\ UNCHANGED bookVars /\ UNCHANGED <<position, cash, task, lastExt, events, actions>>
      /\ UNCHANGED <<rested, ahead, reused, net>>
  BY DEF vars, inputVars, observed
<1>2. NativeInv'
  BY <1>1, BookStays, TaskStays DEF NativeInv, TaskOK
<1>3. QED
  BY <1>1, <1>2, BookStays DEF Reference!vars, Reference!inputVars, Reference!observed

LEMMA NativeInvNext == NativeInv /\ [Next]_vars => NativeInv'
BY NativeStep, NativeStutters

LEMMA NativeInvHolds == Spec => []NativeInv
BY NativeInvInit, NativeInvNext, PTL DEF Spec

\* The pool hands no slot out twice: whatever the feed cancels, the queues hold
\* no node in two places and every pointer leads into the pool.
THEOREM PoolSound == Spec => []PoolInv
<1>1. NativeInv => PoolInv
  BY DEF NativeInv
<1>2. QED
  BY NativeInvHolds, <1>1, PTL

LEMMA RefinedInit == Init => Reference!Init
<1> SUFFICES ASSUME Init PROVE Reference!Init
  OBVIOUS
<1>1. Contents = [s \in Reference!Sides |-> [p \in Prices |-> <<>>]]
  <2>1. ASSUME NEW s \in Sides, NEW p \in Prices PROVE Contents[s][p] = <<>>
    BY NativeInvInit, FrontIs, SideNames DEF Init, NativeInv, PoolInv
  <2>2. Contents = [s \in Sides |-> [p \in Prices |-> Contents[s][p]]]
    BY DEF Contents, Sides
  <2>3. QED
    BY <2>1, <2>2, SideNames
<1>2. Entered = [x \in ExtIds |-> NoNode]
  BY DEF Init, Entered
<1>3. QED
  BY <1>1, <1>2 DEF Init, Reference!Init, Entered, ExtIds, Reference!ExtIds

\* The native simulator takes the steps of the reference, for every feed, every
\* impact and whatever slots the pool hands out: it parts from it only by a
\* cancel of an order that is gone and by the tick of a market fill whose price
\* is half-way between two ticks or below zero.
THEOREM NativeFollows == Spec => FollowsReference
<1>1. NativeInv /\ [Next]_vars =>
        [Reference!Next \/ LateCancel \/ TickAbove]_(Reference!vars)
  BY NativeStep, NativeStutters
<1>2. QED
  BY NativeInvHolds, RefinedInit, <1>1, PTL DEF Spec, FollowsReference

=============================================================================

------------------------ MODULE ModelGateway_proofs ------------------------
(***************************************************************************)
(* Theorems about ModelGateway, for any gateways, sessions, prompts,       *)
(* answers, limits and numbers of retries, wherever sessions fail or are   *)
(* cancelled and the process dies.                                         *)
(***************************************************************************)
EXTENDS ModelGateway, FiniteSetTheorems, SequenceTheorems, TLAPS

(***************************************************************************)
(* Queues: sequences without repetition.                                   *)
(***************************************************************************)
Distinct(s) == \A i, j \in 1 .. Len(s) : s[i] = s[j] => i = j

LEMMA EmptyQueue ==
  ASSUME NEW S
  PROVE  <<>> \in Seq(S) /\ Distinct(<<>>) /\ ToSet(<<>>) = {}
BY DEF Distinct, ToSet

LEMMA NonEmptyQueue ==
  ASSUME NEW S, NEW s \in Seq(S), s # <<>>
  PROVE  Head(s) \in S /\ Head(s) \in ToSet(s) /\ Head(s) = s[1] /\ Len(s) >= 1
BY DEF ToSet

LEMMA AppendToQueue ==
  ASSUME NEW S, NEW s \in Seq(S), NEW e \in S, Distinct(s), e \notin ToSet(s)
  PROVE  /\ Append(s, e) \in Seq(S) /\ Distinct(Append(s, e))
         /\ ToSet(Append(s, e)) = ToSet(s) \cup {e}
<1>1. /\ Len(Append(s, e)) = Len(s) + 1
      /\ Append(s, e)[Len(s) + 1] = e
      /\ \A i \in 1 .. Len(s) : Append(s, e)[i] = s[i]
  OBVIOUS
<1>2. \A i \in 1 .. Len(s) : s[i] # e
  BY DEF ToSet
<1>3. Distinct(Append(s, e))
  BY <1>1, <1>2 DEF Distinct
<1>4. ToSet(Append(s, e)) = ToSet(s) \cup {e}
  BY <1>1 DEF ToSet
<1>5. QED
  BY <1>3, <1>4

LEMMA TailOfQueue ==
  ASSUME NEW S, NEW s \in Seq(S), s # <<>>, Distinct(s)
  PROVE  /\ Tail(s) \in Seq(S) /\ Distinct(Tail(s))
         /\ ToSet(Tail(s)) = ToSet(s) \ {Head(s)}
<1>1. /\ Tail(s) \in Seq(S)
      /\ Len(Tail(s)) = Len(s) - 1
      /\ \A i \in 1 .. Len(s) - 1 : Tail(s)[i] = s[i + 1]
  OBVIOUS
<1>2. Distinct(Tail(s))
  BY <1>1 DEF Distinct
<1>3. ASSUME NEW e \in ToSet(Tail(s)) PROVE e \in ToSet(s) \ {Head(s)}
  BY <1>1 DEF ToSet, Distinct
<1>4. ASSUME NEW e \in ToSet(s) \ {Head(s)} PROVE e \in ToSet(Tail(s))
  <2>1. PICK i \in 1 .. Len(s) : s[i] = e /\ i # 1
    BY DEF ToSet
  <2>2. i - 1 \in 1 .. Len(Tail(s)) /\ Tail(s)[i - 1] = e
    BY <1>1, <2>1
  <2>3. QED
    BY <2>2 DEF ToSet
<1>5. QED
  BY <1>1, <1>2, <1>3, <1>4

LEMMA RemoveFromQueue ==
  ASSUME NEW S, NEW s \in Seq(S), Distinct(s), NEW k \in 1 .. Len(s)
  PROVE  /\ RemoveAt(s, k) \in Seq(S) /\ Distinct(RemoveAt(s, k))
         /\ ToSet(RemoveAt(s, k)) = ToSet(s) \ {s[k]}
<1> DEFINE r == RemoveAt(s, k)
           from(i) == IF i < k THEN i ELSE i + 1
<1>1. r = SubSeq(s, 1, k - 1) \o SubSeq(s, k + 1, Len(s))
  BY DEF RemoveAt
<1>2. /\ r \in Seq(S)
      /\ Len(r) = Len(s) - 1
      /\ \A i \in 1 .. Len(s) - 1 : r[i] = s[from(i)]
  <2> DEFINE front == SubSeq(s, 1, k - 1)
             back == SubSeq(s, k + 1, Len(s))
  <2>1. front \in Seq(S) /\ Len(front) = k - 1 /\ \A i \in 1 .. k - 1 : front[i] = s[i]
    BY SubSeqProperties
  <2>2. /\ back \in Seq(S) /\ Len(back) = Len(s) - k
        /\ \A i \in 1 .. Len(s) - k : back[i] = s[i + k]
    BY SubSeqProperties
  <2>3. r = front \o back
    BY <1>1
  <2> HIDE DEF front, back, r
  <2>4. r \in Seq(S) /\ Len(r) = Len(s) - 1
    <3>1. r \in Seq(S) /\ Len(r) = Len(front) + Len(back)
      BY <2>1, <2>2, <2>3, ConcatProperties
    <3>2. Len(s) \in Nat
      OBVIOUS
    <3>3. QED
      BY <2>1, <2>2, <3>1, <3>2
  <2>5. \A i \in 1 .. Len(r) : r[i] = IF i <= k - 1 THEN front[i] ELSE back[i - (k - 1)]
    BY <2>1, <2>2, <2>3, ConcatProperties
  <2>6. ASSUME NEW i \in 1 .. Len(s) - 1 PROVE r[i] = s[from(i)]
    <3>1. CASE i < k
      BY <2>1, <2>4, <2>5, <3>1
    <3>2. CASE ~(i < k)
      <4>1. i - (k - 1) \in 1 .. Len(s) - k /\ r[i] = back[i - (k - 1)]
        BY <2>4, <2>5, <3>2
      <4>2. QED
        BY <2>2, <3>2, <4>1
    <3>3. QED
      BY <3>1, <3>2
  <2>7. QED
    BY <2>4, <2>6
<1> HIDE DEF r
<1>3. Distinct(r)
  <2>1. SUFFICES ASSUME NEW i \in 1 .. Len(r), NEW j \in 1 .. Len(r), r[i] = r[j] PROVE i = j
    BY DEF Distinct
  <2>2. /\ from(i) \in 1 .. Len(s) /\ from(j) \in 1 .. Len(s)
        /\ i \in 1 .. Len(s) - 1 /\ j \in 1 .. Len(s) - 1
    BY <1>2
  <2>3. s[from(i)] = s[from(j)]
    BY <1>2, <2>1, <2>2, Zenon
  <2>4. from(i) = from(j)
    BY <2>2, <2>3, Zenon DEF Distinct
  <2>5. QED
    BY <2>2, <2>4
<1>4. ASSUME NEW e \in ToSet(r) PROVE e \in ToSet(s) \ {s[k]}
  BY <1>2 DEF ToSet, Distinct
<1>5. ASSUME NEW e \in ToSet(s) \ {s[k]} PROVE e \in ToSet(r)
  <2>1. PICK i \in 1 .. Len(s) : s[i] = e /\ i # k
    BY DEF ToSet
  <2>2. CASE i < k
    BY <1>2, <2>1, <2>2 DEF ToSet
  <2>3. CASE i > k
    <3>1. i - 1 \in 1 .. Len(r) /\ r[i - 1] = e
      BY <1>2, <2>1, <2>3
    <3>2. QED
      BY <1>2, <3>1 DEF ToSet
  <2>4. QED
    BY <2>1, <2>2, <2>3
<1>6. QED
  BY <1>2, <1>3, <1>4, <1>5 DEF r

(***************************************************************************)
(* The semaphore: slots and sessions at the provider add up to its value,  *)
(* and its queue is the waiting sessions, each once.                       *)
(***************************************************************************)
Outside == {"idle", "pause"} \cup Raised
AtPlaces == {"waiting", "provider"} \cup Outside

SemTypes ==
  /\ at \in [Callers -> AtPlaces]
  /\ slots \in [Gateways -> Nat]
  /\ waiters \in [Gateways -> Seq(Callers)]

Waiting(g) == At(g, "waiting")

SemOf(g) ==
  /\ slots[g] + Cardinality(AtProvider(g)) = MaxConcurrency
  /\ slots[g] > 0 => waiters[g] = <<>>
  /\ ToSet(waiters[g]) = Waiting(g)
  /\ Distinct(waiters[g])

SemInv == SemTypes /\ \A g \in Gateways : SemOf(g)

LEMMA FiniteAtProvider ==
  ASSUME NEW g
  PROVE  IsFiniteSet(AtProvider(g)) /\ Cardinality(AtProvider(g)) \in Nat
BY CallersAssumption, FS_Subset, FS_CardinalityType DEF AtProvider, At

\* A step of one gateway's sessions leaves the others alone.
LEMMA OtherGateways ==
  ASSUME NEW g \in Gateways, SemInv,
         \A h \in Gateways \ {g} : slots'[h] = slots[h] /\ waiters'[h] = waiters[h],
         \A c \in Callers : GatewayOf[c] # g => at'[c] = at[c],
         NEW h \in Gateways, h # g
  PROVE  SemOf(h)'
<1>1. AtProvider(h)' = AtProvider(h) /\ Waiting(h)' = Waiting(h)
  BY DEF AtProvider, At, Waiting
<1>2. SemOf(h) /\ slots'[h] = slots[h] /\ waiters'[h] = waiters[h]
  BY DEF SemInv
<1>3. QED
  BY <1>1, <1>2 DEF SemOf

LEMMA EnterKeepsSem ==
  ASSUME NEW c \in Callers, SemInv, at[c] \in Outside, Enter(c)
  PROVE  SemInv'
<1> DEFINE g == GatewayOf[c]
<1> USE GatewayOfAssumption, LimitsAssumption
<1>1. g \in Gateways /\ SemOf(g) /\ SemTypes
  BY DEF SemInv
<1>2. c \notin AtProvider(g) /\ c \notin Waiting(g)
  BY DEF AtProvider, At, Waiting, Outside, Raised
<1>3. CASE Free(g)
  <2>1. /\ slots' = [slots EXCEPT ![g] = slots[g] - 1] /\ slots[g] > 0
        /\ at' = [at EXCEPT ![c] = "provider"]
        /\ waiters' = waiters
    BY <1>3 DEF Enter, Move, Free
  <2>2. SemTypes'
    BY <1>1, <2>1 DEF SemTypes, AtPlaces, Outside, Raised
  <2>3. AtProvider(g)' = AtProvider(g) \cup {c} /\ Waiting(g)' = Waiting(g)
    BY <1>1, <1>2, <2>1 DEF AtProvider, At, Waiting, SemTypes, Outside, Raised
  <2>4. Cardinality(AtProvider(g)') = Cardinality(AtProvider(g)) + 1
    BY <1>2, <2>3, FiniteAtProvider, FS_AddElement
  <2>5. slots'[g] = slots[g] - 1 /\ slots[g] \in Nat
    BY <1>1, <2>1 DEF SemTypes
  <2>6. SemOf(g)'
    BY <1>1, <1>3, <2>1, <2>3, <2>4, <2>5, FiniteAtProvider DEF SemOf, Free
  <2>7. ASSUME NEW h \in Gateways, h # g PROVE SemOf(h)'
    BY <1>1, <2>1, <2>7, OtherGateways DEF SemTypes
  <2>8. QED
    BY <2>2, <2>6, <2>7 DEF SemInv
<1>4. CASE ~Free(g)
  <2>1. /\ waiters' = [waiters EXCEPT ![g] = Append(waiters[g], c)]
        /\ at' = [at EXCEPT ![c] = "waiting"]
        /\ slots' = slots
    BY <1>4 DEF Enter, Move
  <2>2. /\ waiters[g] \in Seq(Callers) /\ Distinct(waiters[g]) /\ c \notin ToSet(waiters[g])
    BY <1>1, <1>2 DEF SemOf, SemTypes
  <2>3. /\ Append(waiters[g], c) \in Seq(Callers) /\ Distinct(Append(waiters[g], c))
        /\ ToSet(Append(waiters[g], c)) = Waiting(g) \cup {c}
    BY <1>1, <2>2, AppendToQueue DEF SemOf
  <2>4. waiters'[g] = Append(waiters[g], c)
    BY <1>1, <2>1 DEF SemTypes
  <2>5. SemTypes'
    BY <1>1, <2>1, <2>3 DEF SemTypes, AtPlaces, Outside, Raised
  <2>6. AtProvider(g)' = AtProvider(g) /\ Waiting(g)' = Waiting(g) \cup {c}
    BY <1>1, <1>2, <2>1 DEF AtProvider, At, Waiting, SemTypes, Outside, Raised
  <2>7. ~(slots[g] > 0)
    BY <1>1, <1>4 DEF SemOf, Free
  <2>8. SemOf(g)'
    BY <1>1, <2>1, <2>3, <2>4, <2>6, <2>7 DEF SemOf
  <2>9. ASSUME NEW h \in Gateways, h # g PROVE SemOf(h)'
    BY <1>1, <2>1, <2>9, OtherGateways DEF SemTypes
  <2>10. QED
    BY <2>5, <2>8, <2>9 DEF SemInv
<1>5. QED
  BY <1>3, <1>4

LEMMA LeaveKeepsSem ==
  ASSUME NEW c \in Callers, SemInv, at[c] = "provider",
         NEW place \in Outside, LeaveProvider(c, place)
  PROVE  SemInv'
<1> DEFINE g == GatewayOf[c]
<1> USE GatewayOfAssumption, LimitsAssumption
<1>1. g \in Gateways /\ SemOf(g) /\ SemTypes
  BY DEF SemInv
<1>2. c \in AtProvider(g) /\ c \notin Waiting(g)
  BY DEF AtProvider, At, Waiting
<1>3. at' = [d \in Callers |-> IF d = c THEN place
                               ELSE IF d \in Woken(g) THEN "provider" ELSE at[d]]
  BY DEF LeaveProvider
<1>4. CASE waiters[g] = <<>>
  <2>1. slots' = [slots EXCEPT ![g] = slots[g] + 1] /\ waiters' = waiters /\ Woken(g) = {}
    BY <1>4 DEF LeaveProvider, GiveBack, Woken
  <2>2. SemTypes'
    BY <1>1, <1>3, <2>1 DEF SemTypes, AtPlaces, Outside, Raised
  <2>3. AtProvider(g)' = AtProvider(g) \ {c} /\ Waiting(g)' = Waiting(g)
    BY <1>2, <1>3, <2>1 DEF AtProvider, At, Waiting, Outside, Raised
  <2>4. Cardinality(AtProvider(g)') = Cardinality(AtProvider(g)) - 1
    <3>1. Cardinality(AtProvider(g) \ {c}) = Cardinality(AtProvider(g)) - 1
      BY <1>2, FiniteAtProvider, FS_RemoveElement
    <3>2. QED
      BY <2>3, <3>1
  <2>5. slots'[g] = slots[g] + 1 /\ slots[g] \in Nat
    BY <1>1, <2>1 DEF SemTypes
  <2>6. SemOf(g)'
    BY <1>1, <1>4, <2>1, <2>3, <2>4, <2>5, FiniteAtProvider DEF SemOf
  <2>7. ASSUME NEW h \in Gateways, h # g PROVE SemOf(h)'
    BY <1>1, <1>3, <2>1, <2>7, OtherGateways DEF SemTypes
  <2>8. QED
    BY <2>2, <2>6, <2>7 DEF SemInv
<1>5. CASE waiters[g] # <<>>
  <2> DEFINE w == Head(waiters[g])
  <2>1. waiters' = [waiters EXCEPT ![g] = Tail(waiters[g])] /\ slots' = slots /\ Woken(g) = {w}
    BY <1>5 DEF LeaveProvider, GiveBack, Woken
  <2>2. waiters[g] \in Seq(Callers) /\ Distinct(waiters[g])
    BY <1>1 DEF SemTypes, SemOf
  <2>3. w \in ToSet(waiters[g])
    BY <1>5, <2>2, NonEmptyQueue
  <2>4. w \in Waiting(g)
    BY <1>1, <2>3 DEF SemOf
  <2>5. /\ Tail(waiters[g]) \in Seq(Callers) /\ Distinct(Tail(waiters[g]))
        /\ ToSet(Tail(waiters[g])) = Waiting(g) \ {w}
    BY <1>1, <1>5, <2>2, TailOfQueue DEF SemOf
  <2>6. waiters'[g] = Tail(waiters[g])
    BY <1>1, <2>1 DEF SemTypes
  <2> HIDE DEF w
  <2>7. w \in Callers /\ GatewayOf[w] = g /\ at[w] = "waiting" /\ w # c
    BY <2>4 DEF Waiting, At
  <2>8. SemTypes'
    BY <1>1, <1>3, <2>1, <2>5 DEF SemTypes, AtPlaces, Outside, Raised
  <2>9. AtProvider(g)' = (AtProvider(g) \ {c}) \cup {w} /\ Waiting(g)' = Waiting(g) \ {w}
    BY <1>2, <1>3, <2>1, <2>7 DEF AtProvider, At, Waiting, Outside, Raised
  <2>10. Cardinality(AtProvider(g)') = Cardinality(AtProvider(g))
    <3>1. /\ IsFiniteSet(AtProvider(g) \ {c})
          /\ Cardinality(AtProvider(g) \ {c}) = Cardinality(AtProvider(g)) - 1
      BY <1>2, FiniteAtProvider, FS_RemoveElement
    <3>2. w \notin AtProvider(g) \ {c}
      BY <2>7 DEF AtProvider, At
    <3>3. Cardinality((AtProvider(g) \ {c}) \cup {w}) = Cardinality(AtProvider(g) \ {c}) + 1
      BY <3>1, <3>2, FS_AddElement
    <3>4. QED
      BY <2>9, <3>1, <3>3, FiniteAtProvider
  <2>11. ~(slots[g] > 0)
    BY <1>1, <1>5 DEF SemOf
  <2>12. SemOf(g)'
    BY <1>1, <2>1, <2>5, <2>6, <2>9, <2>10, <2>11 DEF SemOf
  <2>13. ASSUME NEW h \in Gateways, h # g PROVE SemOf(h)'
    BY <1>1, <1>3, <2>1, <2>7, <2>13, OtherGateways DEF SemTypes
  <2>14. QED
    BY <2>8, <2>12, <2>13 DEF SemInv
<1>6. QED
  BY <1>4, <1>5

\* A cancelled session leaves the queue wherever it stands in it.
LEMMA QueueCancelKeepsSem ==
  ASSUME NEW c \in Callers, SemInv, at[c] = "waiting",
         NEW k \in DOMAIN waiters[GatewayOf[c]], waiters[GatewayOf[c]][k] = c,
         waiters' = [waiters EXCEPT ![GatewayOf[c]] = RemoveAt(waiters[GatewayOf[c]], k)],
         Move(c, "failed"), UNCHANGED slots
  PROVE  SemInv'
<1> DEFINE g == GatewayOf[c]
           q == waiters[g]
<1> USE GatewayOfAssumption, LimitsAssumption
<1>1. g \in Gateways /\ SemOf(g) /\ SemTypes
  BY DEF SemInv
<1>2. q \in Seq(Callers) /\ Distinct(q) /\ k \in 1 .. Len(q)
  BY <1>1 DEF SemTypes, SemOf
<1>3. /\ RemoveAt(q, k) \in Seq(Callers) /\ Distinct(RemoveAt(q, k))
      /\ ToSet(RemoveAt(q, k)) = Waiting(g) \ {c}
  BY <1>1, <1>2, RemoveFromQueue DEF SemOf
<1>4. waiters'[g] = RemoveAt(q, k)
  BY <1>1 DEF SemTypes
<1>5. at' = [at EXCEPT ![c] = "failed"]
  BY DEF Move
<1>6. SemTypes'
  BY <1>1, <1>3, <1>5 DEF SemTypes, AtPlaces, Outside, Raised
<1>7. AtProvider(g)' = AtProvider(g) /\ Waiting(g)' = Waiting(g) \ {c}
  BY <1>1, <1>5 DEF AtProvider, At, Waiting, SemTypes
<1>8. ~(slots[g] > 0)
  BY <1>1, <1>2 DEF SemOf
<1>9. SemOf(g)'
  BY <1>1, <1>3, <1>4, <1>7, <1>8 DEF SemOf
<1>10. ASSUME NEW h \in Gateways, h # g PROVE SemOf(h)'
  BY <1>1, <1>5, <1>10, OtherGateways DEF SemTypes
<1>11. QED
  BY <1>6, <1>9, <1>10 DEF SemInv

\* A session that neither queues nor holds a slot moves among such places.
LEMMA MoveOutsideKeepsSem ==
  ASSUME NEW c \in Callers, SemInv, at[c] \in Outside, UNCHANGED semVars,
         at' = at \/ (\E place \in Outside : Move(c, place))
  PROVE  SemInv'
<1>1. UNCHANGED <<slots, waiters>>
  BY DEF semVars
<1>2. SemTypes'
  BY <1>1 DEF SemInv, SemTypes, Move, AtPlaces, Outside, Raised
<1>3. ASSUME NEW g \in Gateways PROVE SemOf(g)'
  <2>1. AtProvider(g)' = AtProvider(g) /\ Waiting(g)' = Waiting(g)
    BY DEF AtProvider, At, Waiting, Move, Outside, Raised, SemInv, SemTypes
  <2>2. SemOf(g)
    BY DEF SemInv
  <2>3. QED
    BY <1>1, <2>1, <2>2 DEF SemOf
<1>4. QED
  BY <1>2, <1>3 DEF SemInv

\* A new process starts with all slots and nobody in a queue.
Fresh ==
  /\ at = [c \in Callers |-> "idle"]
  /\ slots = [g \in Gateways |-> MaxConcurrency]
  /\ waiters = [g \in Gateways |-> <<>>]

LEMMA FreshSem == Fresh => SemInv
<1> SUFFICES ASSUME Fresh PROVE SemInv
  OBVIOUS
<1> USE LimitsAssumption DEF Fresh
<1>1. SemTypes
  BY EmptyQueue DEF SemTypes, AtPlaces, Outside, Raised
<1>2. ASSUME NEW g \in Gateways PROVE SemOf(g)
  <2>1. AtProvider(g) = {} /\ Waiting(g) = {}
    BY DEF AtProvider, At, Waiting
  <2>2. Cardinality(AtProvider(g)) = 0
    BY <2>1, FS_EmptySet
  <2>3. QED
    BY <2>1, <2>2, EmptyQueue DEF SemOf
<1>3. QED
  BY <1>1, <1>2 DEF SemInv

(***************************************************************************)
(* Every step of chat() is one of these on the semaphore.                  *)
(***************************************************************************)
LEMMA SemNext == SemInv /\ [Next]_vars => SemInv'
<1> SUFFICES ASSUME SemInv, [Next]_vars PROVE SemInv'
  OBVIOUS
<1>1. ASSUME NEW c \in Callers, Chat(c) PROVE SemInv'
  <2>1. at[c] = "idle"
    BY <1>1 DEF Chat, Hit, HitTorn, Miss, Begin
  <2>2. Enter(c) \/ (UNCHANGED semVars /\ (at' = at \/ \E place \in Raised : Move(c, place)))
    BY <1>1 DEF Chat, Hit, HitTorn, Miss, Raised
  <2>3. QED
    BY <2>1, <2>2, EnterKeepsSem, MoveOutsideKeepsSem DEF Outside, Raised
<1>2. ASSUME NEW c \in Callers, SessionStep(c) PROVE SemInv'
  <2>1. \/ at[c] = "provider" /\ \E place \in Outside : LeaveProvider(c, place)
        \/ at[c] = "pause" /\ Enter(c)
    BY <1>2 DEF SessionStep, Succeed, Unlogged, Uncached, Unparsed, TransportError,
                HTTPStatusError, AttemptFails, Retry, Outside, Raised
  <2>2. QED
    BY <2>1, LeaveKeepsSem, EnterKeepsSem DEF Outside, Raised
<1>3. ASSUME NEW c \in Callers, CancelledAt(c) PROVE SemInv'
  <2>1. CASE at[c] = "provider" /\ LeaveProvider(c, "failed")
    BY <2>1, LeaveKeepsSem DEF Outside, Raised
  <2>2. CASE /\ at[c] = "waiting"
             /\ \E k \in DOMAIN waiters[GatewayOf[c]] :
                  /\ waiters[GatewayOf[c]][k] = c
                  /\ waiters' = [waiters EXCEPT ![GatewayOf[c]] =
                                   RemoveAt(waiters[GatewayOf[c]], k)]
             /\ Move(c, "failed") /\ UNCHANGED slots
    BY <2>2, QueueCancelKeepsSem
  <2>3. CASE at[c] = "pause" /\ Move(c, "failed") /\ UNCHANGED semVars
    BY <2>3, MoveOutsideKeepsSem DEF Outside, Raised
  <2>4. QED
    BY <1>3, <2>1, <2>2, <2>3 DEF CancelledAt
<1>4. ASSUME NEW c \in Callers, DiesInPut(c) PROVE SemInv'
  <2>1. Fresh'
    BY <1>4 DEF DiesInPut, Fresh
  <2>2. QED
    BY <2>1, FreshSem, PTL
<1>5. CASE UNCHANGED vars
  BY <1>5 DEF vars, sessionVars, semVars, SemInv, SemTypes, SemOf, AtProvider, At, Waiting
<1>6. QED
  BY <1>1, <1>2, <1>3, <1>4, <1>5 DEF Next

\* Through retries, cancellations in the queue, failures and restarts, a
\* gateway of any size has exactly the sessions with a slot at the provider,
\* nobody waits while a slot is free, and exactly those who wait are queued.
THEOREM SlotsHold == Spec => []SlotsHeldAtProvider
<1>1. Init => SemInv
  BY FreshSem DEF Init, Fresh
<1>2. SemInv => SlotsHeldAtProvider
  BY DEF SemInv, SemOf, Waiting, At, SlotsHeldAtProvider
<1>3. QED
  BY <1>1, <1>2, SemNext, PTL DEF Spec

(***************************************************************************)
(* Attempts: only a session that may try again pauses.                     *)
(***************************************************************************)
AttemptInv ==
  /\ attempt \in [Callers -> 0 .. MaxRetries + 1]
  /\ \A c \in Callers : at[c] = "pause" => attempt[c] <= MaxRetries

LEMMA LeaveKeepsAttempts ==
  ASSUME NEW c \in Callers, AttemptInv, NEW place, LeaveProvider(c, place),
         UNCHANGED attempt \/ Forget(c), place = "pause" => attempt[c] <= MaxRetries
  PROVE  AttemptInv'
BY LimitsAssumption DEF AttemptInv, LeaveProvider, Forget

LEMMA EnterKeepsAttempts ==
  ASSUME NEW c \in Callers, SemTypes, AttemptInv, Enter(c),
         NEW k \in 0 .. MaxRetries + 1, attempt' = [attempt EXCEPT ![c] = k]
  PROVE  AttemptInv'
<1>1. at' = [at EXCEPT ![c] = "provider"] \/ at' = [at EXCEPT ![c] = "waiting"]
  BY DEF Enter, Move
<1>2. QED
  BY <1>1 DEF AttemptInv, SemTypes

\* The steps of a session, with the three ways an attempt fails as one.
LEMMA SessionCases ==
  ASSUME NEW c, SessionStep(c)
  PROVE  \/ \E body : Succeed(c, body) \/ Unlogged(c, body) \/ Uncached(c, body)
         \/ \E again \in BOOLEAN : AttemptFails(c, again) /\ (again => MayRetry(c))
         \/ Retry(c)
<1>1. MayRetry(c) \in BOOLEAN
  BY DEF MayRetry
<1>2. ASSUME NEW status PROVE (Retryable(status) /\ MayRetry(c)) \in BOOLEAN
  OBVIOUS
<1>3. QED
  BY <1>1, <1>2 DEF SessionStep, Unparsed, TransportError, HTTPStatusError

LEMMA AttemptNext == SemInv /\ AttemptInv /\ [Next]_vars => AttemptInv'
<1> SUFFICES ASSUME SemInv, AttemptInv, [Next]_vars PROVE AttemptInv'
  OBVIOUS
<1> USE LimitsAssumption
<1>1. ASSUME NEW c \in Callers, Chat(c) PROVE AttemptInv'
  <2>1. CASE \E p \in Prompts : Hit(c, p) \/ HitTorn(c, p)
    <3>1. UNCHANGED attempt /\ at[c] = "idle" /\ (at' = at \/ \E place \in Raised : Move(c, place))
      BY <2>1 DEF Hit, HitTorn, Begin, Raised
    <3>2. QED
      BY <3>1 DEF Move, Raised, AttemptInv, SemInv, SemTypes
  <2>2. CASE \E p \in Prompts : Miss(c, p)
    <3>1. 1 \in 0 .. MaxRetries + 1
      OBVIOUS
    <3>2. QED
      BY <2>2, <3>1, EnterKeepsAttempts DEF Miss, SemInv
  <2>3. QED
    BY <1>1, <2>1, <2>2 DEF Chat
<1>2. ASSUME NEW c \in Callers, SessionStep(c) PROVE AttemptInv'
  <2>1. ASSUME NEW body, Succeed(c, body) \/ Unlogged(c, body) \/ Uncached(c, body)
        PROVE  AttemptInv'
    BY <2>1, LeaveKeepsAttempts DEF Succeed, Unlogged, Uncached
  <2>2. ASSUME NEW again \in BOOLEAN, AttemptFails(c, again), again => MayRetry(c)
        PROVE  AttemptInv'
    BY <2>2, LeaveKeepsAttempts DEF AttemptFails, MayRetry
  <2>3. CASE Retry(c)
    <3>1. attempt[c] + 1 \in 0 .. MaxRetries + 1
      BY <2>3 DEF Retry, AttemptInv
    <3>2. QED
      BY <2>3, <3>1, EnterKeepsAttempts DEF Retry, SemInv
  <2>4. QED
    BY <1>2, <2>1, <2>2, <2>3, SessionCases
<1>3. ASSUME NEW c \in Callers, CancelledAt(c) PROVE AttemptInv'
  <2>1. Forget(c) /\ (LeaveProvider(c, "failed") \/ Move(c, "failed"))
    BY <1>3 DEF CancelledAt
  <2>2. CASE Move(c, "failed")
    <3>1. at' = [at EXCEPT ![c] = "failed"] /\ attempt' = [attempt EXCEPT ![c] = 0]
      BY <2>1, <2>2 DEF Move, Forget
    <3>2. QED
      BY <3>1 DEF AttemptInv, SemInv, SemTypes
  <2>3. QED
    BY <2>1, <2>2, LeaveKeepsAttempts
<1>4. ASSUME NEW c \in Callers, DiesInPut(c) PROVE AttemptInv'
  <2>1. attempt' = [d \in Callers |-> 0] /\ at' = [d \in Callers |-> "idle"]
    BY <1>4 DEF DiesInPut
  <2>2. QED
    BY <2>1 DEF AttemptInv
<1>5. CASE UNCHANGED vars
  BY <1>5 DEF vars, sessionVars, AttemptInv
<1>6. QED
  BY <1>1, <1>2, <1>3, <1>4, <1>5 DEF Next

(***************************************************************************)
(* The cache and the ledger.                                               *)
(***************************************************************************)
Ledgers == [calls : Nat, cache_hits : Nat]

CacheInv ==
  /\ prompt \in [Callers -> Prompts]
  /\ entry \in [Prompts -> Cacheable \cup {NoEntry, Torn}]
  /\ answers \in [Prompts -> SUBSET Cacheable]
  /\ AnsweredIsCached

AccountTypes ==
  /\ chats \in [Callers -> Nat]
  /\ ledger \in [Gateways -> Ledgers]
  /\ usage \in [Gateways -> Nat]
  /\ returned \in [Gateways -> Nat]

AccountInv == AccountTypes /\ LedgerIsExact

LEMMA ParsedIsCacheable ==
  ASSUME NEW g, NEW body, NEW r \in Parsed(g, body)
  PROVE  r \in Cacheable
BY DEF Parsed, OpenAICompatChat, AnthropicChat, Cacheable

LEMMA CacheableIsEntry == NoEntry \notin Cacheable /\ Torn # NoEntry
BY ResponsesAssumption DEF Cacheable, NoEntry, Empty, Torn

LEMMA PutKeepsCache ==
  ASSUME CacheInv, NEW c \in Callers, NEW r \in Cacheable,
         put(prompt[c], r), Answered(c, prompt[c], r), UNCHANGED prompt
  PROVE  CacheInv'
BY CacheableIsEntry DEF CacheInv, put, Answered, AnsweredIsCached

LEMMA HitKeepsCache ==
  ASSUME CacheInv, NEW c \in Callers, NEW p \in Prompts, Hit(c, p)
  PROVE  CacheInv'
<1>1. /\ prompt' = [prompt EXCEPT ![c] = p] /\ entry[p] \in Cacheable /\ UNCHANGED entry
      /\ UNCHANGED answers \/ answers' = [answers EXCEPT ![p] = answers[p] \cup {entry[p]}]
  BY DEF Hit, Begin, Answered, observed
<1>2. QED
  BY <1>1, CacheableIsEntry DEF CacheInv, AnsweredIsCached

LEMMA UncachedKeepsCache ==
  ASSUME CacheInv, NEW c \in Callers, NEW body, Uncached(c, body)
  PROVE  CacheInv'
BY CacheableIsEntry DEF CacheInv, Uncached, put, observed, AnsweredIsCached

CacheStutter ==
  UNCHANGED <<entry, answers>> /\ prompt' \in [Callers -> Prompts]

LEMMA CacheNext == CacheInv /\ [Next]_vars => CacheInv'
<1> SUFFICES ASSUME CacheInv, [Next]_vars PROVE CacheInv'
  OBVIOUS
<1>1. CacheStutter => CacheInv'
  BY DEF CacheStutter, CacheInv, AnsweredIsCached
<1>2. ASSUME NEW c \in Callers, Chat(c) PROVE CacheInv'
  <2>1. ASSUME NEW p \in Prompts, HitTorn(c, p) \/ Miss(c, p) PROVE CacheStutter
    BY <2>1 DEF HitTorn, Miss, Begin, observed, CacheStutter, CacheInv
  <2>2. QED
    BY <1>1, <1>2, <2>1, HitKeepsCache DEF Chat
<1>3. ASSUME NEW c \in Callers, SessionStep(c) PROVE CacheInv'
  <2>1. ASSUME NEW body, Succeed(c, body) PROVE CacheInv'
    BY <2>1, ParsedIsCacheable, PutKeepsCache DEF Succeed
  <2>2. ASSUME NEW body, Unlogged(c, body) PROVE CacheStutter
    BY <2>2 DEF Unlogged, observed, CacheStutter, CacheInv
  <2>3. ASSUME NEW again, AttemptFails(c, again) \/ Retry(c) PROVE CacheStutter
    BY <2>3 DEF AttemptFails, Retry, observed, CacheStutter, CacheInv
  <2>4. QED
    BY <1>1, <1>3, <2>1, <2>2, <2>3, SessionCases, UncachedKeepsCache
<1>4. ASSUME NEW c \in Callers, CancelledAt(c) PROVE CacheInv'
  BY <1>1, <1>4 DEF CancelledAt, observed, CacheStutter, CacheInv
<1>5. ASSUME NEW c \in Callers, DiesInPut(c) PROVE CacheInv'
  BY <1>5, CacheableIsEntry DEF DiesInPut, CacheInv, AnsweredIsCached
<1>6. CASE UNCHANGED vars
  BY <1>1, <1>6 DEF vars, sessionVars, observed, CacheStutter, CacheInv
<1>7. QED
  BY <1>2, <1>3, <1>4, <1>5, <1>6 DEF Next

\* Sessions that lost a response after the ledger had counted it.
Lost == {"unlogged", "uncached"}

\* Session c goes to a place, and no session but c comes to or leaves the lost.
Comes(c, place) ==
  \A g \in Gateways, l \in Lost :
    At(g, l)' = IF g = GatewayOf[c] /\ l = place THEN At(g, l) \cup {c} ELSE At(g, l)

LEMMA MoveComes ==
  ASSUME SemTypes, NEW c \in Callers, at[c] \notin Lost,
         NEW place, at' = [at EXCEPT ![c] = place]
  PROVE  Comes(c, place)
BY DEF Comes, At, SemTypes, Lost

LEMMA EnterComes ==
  ASSUME SemTypes, NEW c \in Callers, at[c] \notin Lost, Enter(c)
  PROVE  Comes(c, "waiting")
<1>1. PICK place \in {"provider", "waiting"} : at' = [at EXCEPT ![c] = place]
  BY DEF Enter, Move
<1>2. Comes(c, place)
  BY <1>1, MoveComes
<1>3. QED
  BY <1>2 DEF Comes, Lost

LEMMA LeaveComes ==
  ASSUME SemInv, NEW c \in Callers, at[c] = "provider", NEW place, LeaveProvider(c, place)
  PROVE  Comes(c, place)
<1> DEFINE g == GatewayOf[c]
<1>1. \A d \in Woken(g) : at[d] = "waiting"
  <2>1. waiters[g] \in Seq(Callers) /\ ToSet(waiters[g]) = At(g, "waiting")
    BY GatewayOfAssumption DEF SemInv, SemTypes, SemOf, Waiting
  <2>2. CASE waiters[g] # <<>>
    BY <2>1, <2>2, NonEmptyQueue DEF Woken, At
  <2>3. QED
    BY <2>2 DEF Woken
<1>2. at' = [d \in Callers |-> IF d = c THEN place
                               ELSE IF d \in Woken(g) THEN "provider" ELSE at[d]]
  BY DEF LeaveProvider
<1>3. QED
  BY <1>1, <1>2 DEF Comes, At, Lost

LEMMA LostAreFinite ==
  ASSUME NEW g, NEW l
  PROVE  IsFiniteSet(At(g, l)) /\ Cardinality(At(g, l)) \in Nat
BY CallersAssumption, FS_Subset, FS_CardinalityType DEF At

LEMMA ComesCount ==
  ASSUME NEW c \in Callers, at[c] \notin Lost, NEW place, Comes(c, place),
         NEW g \in Gateways, NEW l \in Lost
  PROVE  Cardinality(At(g, l)') =
           IF g = GatewayOf[c] /\ l = place THEN Cardinality(At(g, l)) + 1
           ELSE Cardinality(At(g, l))
<1>1. c \notin At(g, l)
  BY DEF At
<1>2. Cardinality(At(g, l) \cup {c}) = Cardinality(At(g, l)) + 1
  BY <1>1, LostAreFinite, FS_AddElement
<1>3. QED
  BY <1>2 DEF Comes

\* What one step adds to the three counters of the gateway of session c.
Adds(c, counted, logged, back) ==
  \A g \in Gateways :
    /\ ledger'[g].calls = IF g = GatewayOf[c] THEN ledger[g].calls + counted ELSE ledger[g].calls
    /\ usage'[g] = IF g = GatewayOf[c] THEN usage[g] + logged ELSE usage[g]
    /\ returned'[g] = IF g = GatewayOf[c] THEN returned[g] + back ELSE returned[g]

LEMMA AccountMoves ==
  ASSUME AccountInv, AccountTypes', NEW c \in Callers, at[c] \notin Lost,
         NEW place, Comes(c, place),
         NEW counted \in {0, 1}, NEW logged \in {0, 1}, NEW back \in {0, 1},
         Adds(c, counted, logged, back),
         logged = IF place = "uncached" THEN back + 1 ELSE back,
         counted = IF place = "unlogged" THEN logged + 1 ELSE logged
  PROVE  AccountInv'
<1>1. ASSUME NEW g \in Gateways
      PROVE  /\ usage'[g] = returned'[g] + Cardinality(At(g, "uncached")')
             /\ ledger'[g].calls = usage'[g] + Cardinality(At(g, "unlogged")')
  <2> DEFINE cached == Cardinality(At(g, "uncached"))
             rows == Cardinality(At(g, "unlogged"))
  <2>1. /\ usage[g] = returned[g] + cached /\ ledger[g].calls = usage[g] + rows
        /\ returned[g] \in Nat /\ cached \in Nat /\ rows \in Nat
    BY LostAreFinite DEF AccountInv, AccountTypes, LedgerIsExact
  <2>2. /\ Cardinality(At(g, "uncached")') =
             IF g = GatewayOf[c] /\ place = "uncached" THEN cached + 1 ELSE cached
        /\ Cardinality(At(g, "unlogged")') =
             IF g = GatewayOf[c] /\ place = "unlogged" THEN rows + 1 ELSE rows
    BY ComesCount DEF Lost
  <2>3. /\ ledger'[g].calls = IF g = GatewayOf[c] THEN ledger[g].calls + counted ELSE ledger[g].calls
        /\ usage'[g] = IF g = GatewayOf[c] THEN usage[g] + logged ELSE usage[g]
        /\ returned'[g] = IF g = GatewayOf[c] THEN returned[g] + back ELSE returned[g]
    BY DEF Adds
  <2> HIDE DEF cached, rows
  <2>4. CASE g # GatewayOf[c]
    BY <2>1, <2>2, <2>3, <2>4
  <2>5. CASE g = GatewayOf[c]
    <3>1. /\ ledger'[g].calls = usage[g] + rows + counted
          /\ usage'[g] = returned[g] + cached + logged
          /\ returned'[g] = returned[g] + back
      BY <2>1, <2>3, <2>5
    <3>2. CASE place = "uncached"
      BY <2>1, <2>2, <2>5, <3>1, <3>2
    <3>3. CASE place = "unlogged"
      BY <2>1, <2>2, <2>5, <3>1, <3>3
    <3>4. CASE place \notin Lost
      BY <2>1, <2>2, <2>5, <3>1, <3>4 DEF Lost
    <3>5. QED
      BY <3>2, <3>3, <3>4 DEF Lost
  <2>6. QED
    BY <2>4, <2>5
<1>2. QED
  BY <1>1 DEF AccountInv, LedgerIsExact

AddsAnswered(c) == returned' = [returned EXCEPT ![GatewayOf[c]] = returned[GatewayOf[c]] + 1]

LEMMA RecordTypes ==
  ASSUME AccountTypes, chats' \in [Callers -> Nat],
         NEW c \in Callers, NEW hit \in BOOLEAN, Record(GatewayOf[c], hit),
         add_usage(GatewayOf[c]) \/ UNCHANGED usage,
         AddsAnswered(c) \/ UNCHANGED returned
  PROVE  /\ AccountTypes'
         /\ Adds(c, 1, IF usage' = usage THEN 0 ELSE 1, IF returned' = returned THEN 0 ELSE 1)
<1> DEFINE g == GatewayOf[c]
           h == IF hit THEN ledger[g].cache_hits + 1 ELSE ledger[g].cache_hits
<1>1. g \in Gateways
  BY GatewayOfAssumption
<1>2. /\ ledger' = [ledger EXCEPT ![g] = [calls |-> ledger[g].calls + 1, cache_hits |-> h]]
      /\ h \in Nat
  BY <1>1 DEF Record, AccountTypes, Ledgers
<1> HIDE DEF h
<1>3. usage' = [usage EXCEPT ![g] = usage[g] + 1] \/ usage' = usage
  BY DEF add_usage
<1>4. returned' = [returned EXCEPT ![g] = returned[g] + 1] \/ returned' = returned
  BY DEF AddsAnswered
<1>5. AccountTypes'
  <2>1. ledger' \in [Gateways -> Ledgers]
    BY <1>1, <1>2 DEF AccountTypes, Ledgers
  <2>2. usage' \in [Gateways -> Nat]
    BY <1>1, <1>3 DEF AccountTypes
  <2>3. returned' \in [Gateways -> Nat]
    BY <1>1, <1>4 DEF AccountTypes
  <2>4. QED
    BY <2>1, <2>2, <2>3 DEF AccountTypes
<1>6. \A f \in Gateways :
        ledger'[f].calls = IF f = g THEN ledger[f].calls + 1 ELSE ledger[f].calls
  BY <1>1, <1>2 DEF AccountTypes
<1>7. usage' # usage => \A f \in Gateways : usage'[f] = IF f = g THEN usage[f] + 1 ELSE usage[f]
  BY <1>1, <1>3 DEF AccountTypes
<1>8. returned' # returned =>
        \A f \in Gateways : returned'[f] = IF f = g THEN returned[f] + 1 ELSE returned[f]
  BY <1>1, <1>4 DEF AccountTypes
<1>9. \A f \in Gateways : usage[f] + 0 = usage[f] /\ returned[f] + 0 = returned[f]
  BY DEF AccountTypes
<1>10. QED
  BY <1>5, <1>6, <1>7, <1>8, <1>9 DEF Adds

\* A counter that goes up has changed.
LEMMA CountersMove ==
  ASSUME AccountTypes, NEW c \in Callers
  PROVE  /\ add_usage(GatewayOf[c]) => usage' # usage
         /\ AddsAnswered(c) => returned' # returned
<1>1. GatewayOf[c] \in Gateways
  BY GatewayOfAssumption
<1>2. usage[GatewayOf[c]] + 1 # usage[GatewayOf[c]] /\ returned[GatewayOf[c]] + 1 # returned[GatewayOf[c]]
  BY <1>1 DEF AccountTypes
<1>3. QED
  BY <1>1, <1>2 DEF add_usage, AddsAnswered, AccountTypes

\* A response that was counted is returned, or lost in one of two places.
LEMMA RecordKeepsAccount ==
  ASSUME AccountInv, chats' \in [Callers -> Nat],
         NEW c \in Callers, at[c] \notin Lost, NEW place, Comes(c, place),
         NEW hit \in BOOLEAN, Record(GatewayOf[c], hit),
         \/ place \notin Lost /\ add_usage(GatewayOf[c]) /\ AddsAnswered(c)
         \/ place = "unlogged" /\ UNCHANGED <<usage, returned>>
         \/ place = "uncached" /\ add_usage(GatewayOf[c]) /\ UNCHANGED returned
  PROVE  AccountInv'
<1> DEFINE logged == IF usage' = usage THEN 0 ELSE 1
           back == IF returned' = returned THEN 0 ELSE 1
<1>1. AccountTypes' /\ Adds(c, 1, logged, back)
  BY RecordTypes DEF AccountInv
<1>2. CASE place \notin Lost /\ add_usage(GatewayOf[c]) /\ AddsAnswered(c)
  <2>1. logged = 1 /\ back = 1
    BY <1>2, CountersMove DEF AccountInv
  <2>2. QED
    BY <1>1, <1>2, <2>1, AccountMoves DEF Lost
<1>3. CASE place = "unlogged" /\ UNCHANGED <<usage, returned>>
  <2>1. logged = 0 /\ back = 0
    BY <1>3
  <2>2. QED
    BY <1>1, <1>3, <2>1, AccountMoves
<1>4. CASE place = "uncached" /\ add_usage(GatewayOf[c]) /\ UNCHANGED returned
  <2>1. logged = 1 /\ back = 0
    BY <1>4, CountersMove DEF AccountInv
  <2>2. QED
    BY <1>1, <1>4, <2>1, AccountMoves
<1>5. QED
  BY <1>2, <1>3, <1>4

LEMMA NoRecordKeepsAccount ==
  ASSUME AccountInv, chats' \in [Callers -> Nat],
         NEW c \in Callers, at[c] \notin Lost, NEW place, Comes(c, place), place \notin Lost,
         UNCHANGED <<ledger, usage, returned>>
  PROVE  AccountInv'
<1>1. AccountTypes'
  BY DEF AccountInv, AccountTypes
<1>2. Adds(c, 0, 0, 0)
  BY DEF Adds, AccountInv, AccountTypes, Ledgers
<1>3. QED
  BY <1>1, <1>2, AccountMoves DEF Lost

LEMMA AccountNext == SemInv /\ AccountInv /\ [Next]_vars => AccountInv'
<1> SUFFICES ASSUME SemInv, AccountInv, [Next]_vars PROVE AccountInv'
  OBVIOUS
<1>1. SemTypes /\ chats \in [Callers -> Nat]
  BY DEF SemInv, AccountInv, AccountTypes
<1>2. ASSUME NEW c \in Callers, Chat(c) PROVE AccountInv'
  <2>1. PICK p \in Prompts : Hit(c, p) \/ HitTorn(c, p) \/ Miss(c, p)
    BY <1>2 DEF Chat
  <2>2. at[c] = "idle" /\ at[c] \notin Lost /\ chats' \in [Callers -> Nat]
    <3>1. at[c] = "idle" /\ chats' = [chats EXCEPT ![c] = chats[c] + 1]
      BY <2>1 DEF Hit, HitTorn, Miss, Begin
    <3>2. QED
      BY <1>1, <3>1 DEF Lost
  <2>3. CASE Hit(c, p)
    <3>1. Record(GatewayOf[c], TRUE)
      BY <2>3 DEF Hit
    <3>2. CASE add_usage(GatewayOf[c]) /\ Answered(c, p, entry[p]) /\ UNCHANGED at
      <4>1. at' = [at EXCEPT ![c] = "idle"] /\ AddsAnswered(c)
        BY <1>1, <2>2, <3>2 DEF SemTypes, Answered, AddsAnswered
      <4>2. Comes(c, "idle")
        BY <1>1, <2>2, <4>1, MoveComes
      <4>3. QED
        BY <2>2, <3>1, <3>2, <4>1, <4>2, RecordKeepsAccount DEF Lost
    <3>3. CASE Move(c, "unlogged") /\ UNCHANGED <<usage, observed>>
      <4>1. Comes(c, "unlogged") /\ UNCHANGED <<usage, returned>>
        BY <1>1, <2>2, <3>3, MoveComes DEF Move, observed
      <4>2. QED
        BY <2>2, <3>1, <4>1, RecordKeepsAccount
    <3>4. QED
      BY <2>3, <3>2, <3>3 DEF Hit
  <2>4. CASE HitTorn(c, p)
    <3>1. Comes(c, "failed") /\ UNCHANGED <<ledger, usage, returned>>
      BY <1>1, <2>2, <2>4, MoveComes DEF HitTorn, Move, account, observed
    <3>2. QED
      BY <2>2, <3>1, NoRecordKeepsAccount DEF Lost
  <2>5. CASE Miss(c, p)
    <3>1. Comes(c, "waiting") /\ UNCHANGED <<ledger, usage, returned>>
      BY <1>1, <2>2, <2>5, EnterComes DEF Miss, account, observed
    <3>2. QED
      BY <2>2, <3>1, NoRecordKeepsAccount DEF Lost
  <2>6. QED
    BY <2>1, <2>3, <2>4, <2>5
<1>3. ASSUME NEW c \in Callers, SessionStep(c) PROVE AccountInv'
  <2>1. ASSUME NEW body, Succeed(c, body) PROVE AccountInv'
    <3>1. /\ at[c] = "provider" /\ Record(GatewayOf[c], FALSE) /\ chats' \in [Callers -> Nat]
          /\ add_usage(GatewayOf[c]) /\ AddsAnswered(c) /\ LeaveProvider(c, "idle")
      BY <1>1, <2>1 DEF Succeed, Answered, AddsAnswered
    <3>2. Comes(c, "idle")
      BY <3>1, LeaveComes
    <3>3. at[c] \notin Lost /\ "idle" \notin Lost
      BY <3>1 DEF Lost
    <3>4. QED
      BY <3>1, <3>2, <3>3, RecordKeepsAccount
  <2>2. ASSUME NEW body, Unlogged(c, body) PROVE AccountInv'
    <3>1. /\ at[c] = "provider" /\ Record(GatewayOf[c], FALSE) /\ chats' \in [Callers -> Nat]
          /\ UNCHANGED <<usage, returned>> /\ LeaveProvider(c, "unlogged")
      BY <1>1, <2>2 DEF Unlogged, observed
    <3>2. Comes(c, "unlogged")
      BY <3>1, LeaveComes
    <3>3. QED
      BY <3>1, <3>2, RecordKeepsAccount DEF Lost
  <2>3. ASSUME NEW body, Uncached(c, body) PROVE AccountInv'
    <3>1. /\ at[c] = "provider" /\ Record(GatewayOf[c], FALSE) /\ chats' \in [Callers -> Nat]
          /\ add_usage(GatewayOf[c]) /\ UNCHANGED returned /\ LeaveProvider(c, "uncached")
      BY <1>1, <2>3 DEF Uncached, observed
    <3>2. Comes(c, "uncached")
      BY <3>1, LeaveComes
    <3>3. QED
      BY <3>1, <3>2, RecordKeepsAccount DEF Lost
  <2>4. ASSUME NEW again, AttemptFails(c, again) PROVE AccountInv'
    <3>1. PICK place \in {"pause", "failed"} : LeaveProvider(c, place)
      BY <2>4 DEF AttemptFails
    <3>2. at[c] = "provider" /\ UNCHANGED <<chats, ledger, usage, returned>>
      BY <2>4 DEF AttemptFails, account, observed
    <3>3. Comes(c, place)
      BY <3>1, <3>2, LeaveComes
    <3>4. QED
      BY <1>1, <3>2, <3>3, NoRecordKeepsAccount DEF Lost
  <2>5. CASE Retry(c)
    <3>1. at[c] = "pause" /\ Enter(c) /\ UNCHANGED <<chats, ledger, usage, returned>>
      BY <2>5 DEF Retry, account, observed
    <3>2. Comes(c, "waiting")
      BY <1>1, <3>1, EnterComes DEF Lost
    <3>3. QED
      BY <1>1, <3>1, <3>2, NoRecordKeepsAccount DEF Lost
  <2>6. QED
    BY <1>3, <2>1, <2>2, <2>3, <2>4, <2>5, SessionCases
<1>4. ASSUME NEW c \in Callers, CancelledAt(c) PROVE AccountInv'
  <2>1. UNCHANGED <<chats, ledger, usage, returned>>
    BY <1>4 DEF CancelledAt, account, observed
  <2>2. at[c] \in {"provider", "waiting", "pause"} /\ Comes(c, "failed")
    BY <1>1, <1>4, LeaveComes, MoveComes DEF CancelledAt, Move, Lost
  <2>3. QED
    BY <1>1, <2>1, <2>2, NoRecordKeepsAccount DEF Lost
<1>5. ASSUME NEW c \in Callers, DiesInPut(c) PROVE AccountInv'
  <2>1. /\ at' = [d \in Callers |-> "idle"] /\ UNCHANGED chats
        /\ ledger' = [g \in Gateways |-> [calls |-> 0, cache_hits |-> 0]]
        /\ usage' = [g \in Gateways |-> 0] /\ returned' = [g \in Gateways |-> 0]
    BY <1>5 DEF DiesInPut
  <2>2. AccountTypes'
    BY <1>1, <2>1 DEF AccountTypes, Ledgers
  <2>3. ASSUME NEW g \in Gateways, NEW l \in Lost PROVE Cardinality(At(g, l)') = 0
    <3>1. At(g, l)' = {}
      BY <2>1 DEF At, Lost
    <3>2. QED
      BY <3>1, FS_EmptySet
  <2>4. QED
    BY <2>1, <2>2, <2>3 DEF AccountInv, LedgerIsExact, Lost
<1>6. CASE UNCHANGED vars
  BY <1>6 DEF vars, sessionVars, account, observed, AccountInv, AccountTypes, LedgerIsExact, At
<1>7. QED
  BY <1>2, <1>3, <1>4, <1>5, <1>6 DEF Next

-----------------------------------------------------------------------------
GatewayInv == SemInv /\ AttemptInv /\ CacheInv /\ AccountInv

LEMMA GatewayInvHolds == Spec => []GatewayInv
<1>1. Init => GatewayInv
  <2> SUFFICES ASSUME Init PROVE GatewayInv
    OBVIOUS
  <2> USE LimitsAssumption DEF Init
  <2>1. SemInv
    BY FreshSem DEF Fresh
  <2>2. AttemptInv /\ CacheInv
    BY DEF AttemptInv, CacheInv, AnsweredIsCached
  <2>3. AccountInv
    <3>1. ASSUME NEW g \in Gateways, NEW l \in Lost PROVE Cardinality(At(g, l)) = 0
      <4>1. At(g, l) = {}
        BY DEF At, Lost
      <4>2. QED
        BY <4>1, FS_EmptySet
    <3>2. AccountTypes
      BY DEF AccountTypes, Ledgers
    <3>3. QED
      BY <3>1, <3>2 DEF AccountInv, LedgerIsExact, Lost
  <2>4. QED
    BY <2>1, <2>2, <2>3 DEF GatewayInv
<1>2. GatewayInv /\ [Next]_vars => GatewayInv'
  BY SemNext, AttemptNext, CacheNext, AccountNext DEF GatewayInv
<1>3. QED
  BY <1>1, <1>2, PTL DEF Spec

\* The ledger of every gateway counts each response once: the chats that
\* returned it, and those that lost it to the store or to the cache, whatever
\* was retried, cancelled or lost with the process; the usage table has all
\* but those the store refused; and the state of the gateway is well-formed.
THEOREM LedgerHolds == Spec => []LedgerInv
<1>1. ASSUME GatewayInv, NEW g \in Gateways PROVE slots[g] \in 0 .. MaxConcurrency
  BY <1>1, FiniteAtProvider, LimitsAssumption DEF GatewayInv, SemInv, SemTypes, SemOf
<1>2. GatewayInv => LedgerInv
  <2> SUFFICES ASSUME GatewayInv PROVE LedgerInv
    OBVIOUS
  <2>1. slots \in [Gateways -> 0 .. MaxConcurrency]
    BY <1>1 DEF GatewayInv, SemInv, SemTypes
  <2>2. at \in [Callers -> {"idle", "waiting", "provider", "pause"} \cup Raised]
        /\ waiters \in [Gateways -> Seq(Callers)]
    BY DEF GatewayInv, SemInv, SemTypes, AtPlaces, Outside, Raised
  <2>3. QED
    BY <2>1, <2>2 DEF GatewayInv, AttemptInv, CacheInv, AccountInv, AccountTypes,
                      LedgerInv, TypeOK, Ledgers
<1>3. QED
  BY <1>2, GatewayInvHolds, PTL

\* A prompt that was answered has a cache file from then on, whole or torn,
\* for every session of every job that shares the directory.
THEOREM CacheHolds == Spec => []AnsweredIsCached
<1>1. GatewayInv => AnsweredIsCached
  BY DEF GatewayInv, CacheInv
<1>2. QED
  BY <1>1, GatewayInvHolds, PTL
=============================================================================

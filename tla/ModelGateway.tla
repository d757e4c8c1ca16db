---------------------------- MODULE ModelGateway ----------------------------
(***************************************************************************)
(* ModelGateway.chat (models/gateway.py) over the prompt-hash cache        *)
(* (models/cache.py) and the cost ledger (obs/ledger.py).  Every           *)
(* orchestrator has its own gateway, semaphore and ledger; the cache       *)
(* directory belongs to run_dir, which all research jobs of a monitor      *)
(* share.  Callers are the agent sessions.                                 *)
(*                                                                         *)
(* A prompt is the whole cache key.  min_interval_s is 0 wherever a        *)
(* gateway is built, so _respect_interval returns at once.                 *)
(***************************************************************************)
EXTENDS Naturals, FiniteSets, SequencesExt

CONSTANTS
  Gateways,       \* one for each research job
  Callers,        \* agent sessions
  GatewayOf,      \* the gateway of each session
  Adapter,        \* the adapter of each gateway, "openai" or "anthropic"
  Prompts,        \* cache keys
  Responses,      \* well-formed answers of a provider
  Statuses,       \* HTTP statuses of a provider that are errors
  MaxConcurrency, \* max_concurrency
  MaxRetries,     \* max_retries
  MaxChats        \* bound: chats of each session

ASSUME CallersAssumption == IsFiniteSet(Callers)
ASSUME GatewayOfAssumption == GatewayOf \in [Callers -> Gateways]
ASSUME AdapterAssumption == Adapter \in [Gateways -> {"openai", "anthropic"}]
ASSUME StatusesAssumption == Statuses \subseteq {s \in Nat : s >= 400}
ASSUME LimitsAssumption ==
  MaxConcurrency \in Nat \ {0} /\ MaxRetries \in Nat /\ MaxChats \in [Callers -> Nat]

NoEntry == "no entry"
Torn == "torn"  \* a file cut short by a failed write or the death of the process

\* Bodies that are no well-formed answer: an object without the fields the
\* adapter looks for, and text that is not JSON.
Foreign == "foreign"
Garbage == "garbage"
Empty == "empty"  \* the response without text and without calls

Cacheable == Responses \cup {Empty}
ASSUME ResponsesAssumption == Responses \cap {NoEntry, Torn, Foreign, Garbage, Empty} = {}

VARIABLES
  at,       \* where each session is inside chat()
  prompt,   \* the prompt of the chat each session is in
  attempt,  \* attempts begun in that chat, 0 when it is over
  chats,    \* chats each session has begun
  slots,    \* value of each gateway's semaphore
  waiters,  \* sessions waiting for it, in order
  entry,    \* the cache file of each prompt
  ledger,   \* calls and cache_hits of each gateway's ledger
  usage,    \* rows of the usage table for the run of each gateway
  returned, \* observed: chats of each gateway that returned a response
  answers   \* observed: responses sessions got for each prompt

sessionVars == <<at, prompt, attempt, chats>>
semVars == <<slots, waiters>>
account == <<ledger, usage>>
observed == <<returned, answers>>
vars == <<sessionVars, semVars, entry, account, observed>>

Init ==
  /\ at = [c \in Callers |-> "idle"]
  /\ prompt \in [Callers -> Prompts]
  /\ attempt = [c \in Callers |-> 0]
  /\ chats = [c \in Callers |-> 0]
  /\ slots = [g \in Gateways |-> MaxConcurrency]
  /\ waiters = [g \in Gateways |-> <<>>]
  /\ entry = [p \in Prompts |-> NoEntry]
  /\ ledger = [g \in Gateways |-> [calls |-> 0, cache_hits |-> 0]]
  /\ usage = [g \in Gateways |-> 0]
  /\ returned = [g \in Gateways |-> 0]
  /\ answers = [p \in Prompts |-> {}]

\* The locals of _chat_with_retries are gone.
Forget(c) == attempt' = [attempt EXCEPT ![c] = 0]

Move(c, place) == at' = [at EXCEPT ![c] = place]

\* Mutant: only calls that cost something are recorded.
RecordPaid(g, hit) ==
  ledger' = IF hit THEN ledger ELSE [ledger EXCEPT ![g].calls = @ + 1]

\* _record calls on_usage, which has two parts: CostLedger.record, and then
\* add_usage, a transaction that may raise.
Record(g, hit) ==
  ledger' = [ledger EXCEPT ![g] = [calls |-> @.calls + 1,
                                   cache_hits |-> IF hit THEN @.cache_hits + 1 ELSE @.cache_hits]]

add_usage(g) == usage' = [usage EXCEPT ![g] = @ + 1]

Answered(c, p, r) ==
  /\ returned' = [returned EXCEPT ![GatewayOf[c]] = @ + 1]
  /\ answers' = [answers EXCEPT ![p] = @ \cup {r}]

(***************************************************************************)
(* The semaphore of asyncio: first come, first served.                     *)
(***************************************************************************)
Free(g) == slots[g] > 0 /\ waiters[g] = <<>>

\* Mutant: the slot is put back and nobody is woken.
LosesWakeUp(g) == slots' = [slots EXCEPT ![g] = @ + 1] /\ UNCHANGED waiters

\* The state of the semaphore after one slot is given back: it goes to the
\* session that has waited longest.
GiveBack(g) ==
  IF waiters[g] = <<>>
  THEN slots' = [slots EXCEPT ![g] = @ + 1] /\ UNCHANGED waiters
  ELSE waiters' = [waiters EXCEPT ![g] = Tail(@)] /\ UNCHANGED slots

Woken(g) == IF waiters[g] = <<>> THEN {} ELSE {Head(waiters[g])}

\* Mutant: the slot is kept during the pause.
KeepsSlot(c, place) ==
  /\ at' = [at EXCEPT ![c] = place]
  /\ UNCHANGED semVars

\* Session c leaves the provider for another place, and whoever waited
\* longest is in.
LeaveProvider(c, place) ==
  /\ GiveBack(GatewayOf[c])
  /\ at' = [d \in Callers |->
              IF d = c THEN place
              ELSE IF d \in Woken(GatewayOf[c]) THEN "provider" ELSE at[d]]

Enter(c) ==
  IF Free(GatewayOf[c])
  THEN /\ slots' = [slots EXCEPT ![GatewayOf[c]] = @ - 1]
       /\ Move(c, "provider")
       /\ UNCHANGED waiters
  ELSE /\ waiters' = [waiters EXCEPT ![GatewayOf[c]] = Append(@, c)]
       /\ Move(c, "waiting")
       /\ UNCHANGED slots

(***************************************************************************)
(* chat().                                                                 *)
(***************************************************************************)
Begin(c, p) ==
  /\ at[c] = "idle"
  /\ chats[c] < MaxChats[c]
  /\ prompt' = [prompt EXCEPT ![c] = p]
  /\ chats' = [chats EXCEPT ![c] = @ + 1]

Hit(c, p) ==
  /\ Begin(c, p)
  /\ entry[p] \in Cacheable
  /\ Record(GatewayOf[c], TRUE)
  /\ \/ /\ add_usage(GatewayOf[c])
        /\ Answered(c, p, entry[p])
        /\ UNCHANGED at
     \/ /\ Move(c, "unlogged")
        /\ UNCHANGED <<usage, observed>>
  /\ UNCHANGED <<attempt, semVars, entry>>

\* json.loads raises: the chat, and with it the session, fails.
HitTorn(c, p) ==
  /\ Begin(c, p)
  /\ entry[p] = Torn
  /\ Move(c, "failed")
  /\ UNCHANGED <<attempt, semVars, entry, account, observed>>

Miss(c, p) ==
  /\ Begin(c, p)
  /\ entry[p] = NoEntry
  /\ attempt' = [attempt EXCEPT ![c] = 1]
  /\ Enter(c)
  /\ UNCHANGED <<entry, account, observed>>

\* Mutant: a cache that keeps only its newest entry.
EvictsOthers(p, r) == entry' = [q \in Prompts |-> IF q = p THEN r ELSE NoEntry]

put(p, r) == entry' = [entry EXCEPT ![p] = r]

(***************************************************************************)
(* chat() of the adapters: the responses it may return for the body of a   *)
(* reply without an error status.  None: it raises, a KeyError or a        *)
(* JSONDecodeError, which no caller handles.                               *)
(***************************************************************************)
OpenAICompatChat(body) == {body} \cap Responses

\* An object without "content" is an empty message.
AnthropicChat(body) == IF body = Foreign THEN {Empty} ELSE {body} \cap Responses

Parsed(g, body) ==
  IF Adapter[g] = "anthropic" THEN AnthropicChat(body) ELSE OpenAICompatChat(body)

\* The response, the ledger, the usage row and the cache file, without an
\* await between.
Succeed(c, body) ==
  /\ at[c] = "provider"
  /\ LeaveProvider(c, "idle")
  /\ Forget(c)
  /\ Record(GatewayOf[c], FALSE)
  /\ add_usage(GatewayOf[c])
  /\ \E r \in Parsed(GatewayOf[c], body) : put(prompt[c], r) /\ Answered(c, prompt[c], r)
  /\ UNCHANGED <<prompt, chats>>

\* The store refuses the usage row: the exception leaves chat() with the
\* response, which the ledger has counted, before the cache is written.
Unlogged(c, body) ==
  /\ at[c] = "provider"
  /\ Parsed(GatewayOf[c], body) # {}
  /\ LeaveProvider(c, "unlogged")
  /\ Forget(c)
  /\ Record(GatewayOf[c], FALSE)
  /\ UNCHANGED <<prompt, chats, usage, entry, observed>>

\* put raises, before or after it has emptied the file.
Uncached(c, body) ==
  /\ at[c] = "provider"
  /\ Parsed(GatewayOf[c], body) # {}
  /\ LeaveProvider(c, "uncached")
  /\ Forget(c)
  /\ Record(GatewayOf[c], FALSE)
  /\ add_usage(GatewayOf[c])
  /\ UNCHANGED entry \/ put(prompt[c], Torn)
  /\ UNCHANGED <<prompt, chats, observed>>

MayRetry(c) == attempt[c] <= MaxRetries

Retryable(status) == status \in {408, 409, 429} \/ status >= 500

\* An attempt failed: it is made again after a pause, or the chat raises.
AttemptFails(c, again) ==
  /\ at[c] = "provider"
  /\ \/ again /\ LeaveProvider(c, "pause") /\ UNCHANGED attempt
     \/ ~again /\ LeaveProvider(c, "failed") /\ Forget(c)
  /\ UNCHANGED <<prompt, chats, entry, account, observed>>

\* No reply: no connection, or none in time.
TransportError(c) == AttemptFails(c, MayRetry(c))

\* _raise_for_status, and what the gateway makes of the exception.
HTTPStatusError(c, status) == AttemptFails(c, Retryable(status) /\ MayRetry(c))

Unparsed(c, body) == Parsed(GatewayOf[c], body) = {} /\ AttemptFails(c, FALSE)

Retry(c) ==
  /\ at[c] = "pause"
  /\ attempt' = [attempt EXCEPT ![c] = @ + 1]
  /\ Enter(c)
  /\ UNCHANGED <<prompt, chats, entry, account, observed>>

\* The job of the session is cancelled: CancelledError at whatever await.
CancelledAt(c) ==
  /\ \/ at[c] = "provider" /\ LeaveProvider(c, "failed")
     \/ /\ at[c] = "waiting"
        /\ \E i \in DOMAIN waiters[GatewayOf[c]] :
             /\ waiters[GatewayOf[c]][i] = c
             /\ waiters' = [waiters EXCEPT ![GatewayOf[c]] = RemoveAt(@, i)]
        /\ Move(c, "failed") /\ UNCHANGED slots
     \/ at[c] = "pause" /\ Move(c, "failed") /\ UNCHANGED semVars
  /\ Forget(c)
  /\ UNCHANGED <<prompt, chats, entry, account, observed>>

\* The process dies while put() writes the file.  The next one begins new
\* runs, with usage rows of their own.
DiesInPut(c) ==
  /\ at[c] = "provider"
  /\ entry' = [entry EXCEPT ![prompt[c]] = Torn]
  /\ at' = [d \in Callers |-> "idle"]
  /\ attempt' = [d \in Callers |-> 0]
  /\ slots' = [g \in Gateways |-> MaxConcurrency]
  /\ waiters' = [g \in Gateways |-> <<>>]
  /\ ledger' = [g \in Gateways |-> [calls |-> 0, cache_hits |-> 0]]
  /\ usage' = [g \in Gateways |-> 0]
  /\ returned' = [g \in Gateways |-> 0]
  /\ UNCHANGED <<prompt, chats, answers>>

SessionStep(c) ==
  \/ \E body \in Responses \cup {Foreign, Garbage} :
       Succeed(c, body) \/ Unlogged(c, body) \/ Uncached(c, body) \/ Unparsed(c, body)
  \/ TransportError(c)
  \/ \E status \in Statuses : HTTPStatusError(c, status)
  \/ Retry(c)

Chat(c) == \E p \in Prompts : Hit(c, p) \/ HitTorn(c, p) \/ Miss(c, p)

Next == \E c \in Callers : Chat(c) \/ SessionStep(c) \/ CancelledAt(c) \/ DiesInPut(c)

Spec == Init /\ [][Next]_vars

\* A request ends by its timeout, a pause ends.
FairSpec == Spec /\ \A c \in Callers : WF_vars(SessionStep(c))

-----------------------------------------------------------------------------
\* Ends of a chat that raised, and of its session with it.  "unlogged" and
\* "uncached" tell where a response was lost that the ledger has counted.
Raised == {"failed", "unlogged", "uncached"}

\* Type invariant.
TypeOK ==
  /\ at \in [Callers -> {"idle", "waiting", "provider", "pause"} \cup Raised]
  /\ prompt \in [Callers -> Prompts]
  /\ attempt \in [Callers -> 0 .. MaxRetries + 1]
  /\ chats \in [Callers -> Nat]
  /\ slots \in [Gateways -> 0 .. MaxConcurrency]
  /\ waiters \in [Gateways -> Seq(Callers)]
  /\ entry \in [Prompts -> Cacheable \cup {NoEntry, Torn}]
  /\ ledger \in [Gateways -> [calls : Nat, cache_hits : Nat]]
  /\ usage \in [Gateways -> Nat]
  /\ returned \in [Gateways -> Nat]
  /\ answers \in [Prompts -> SUBSET Cacheable]

At(g, place) == {c \in Callers : GatewayOf[c] = g /\ at[c] = place}

AtProvider(g) == At(g, "provider")

\* Through retries, cancellations in the queue and failures, a gateway has
\* exactly the sessions with a slot at the provider, and nobody waits while
\* a slot is free.
SlotsHeldAtProvider ==
  \A g \in Gateways :
    /\ slots[g] + Cardinality(AtProvider(g)) = MaxConcurrency
    /\ slots[g] > 0 => waiters[g] = <<>>
    /\ ToSet(waiters[g]) = At(g, "waiting")

\* A response is counted once, however often it was retried, and whatever
\* becomes of it afterwards: ledger.calls is above the chats that returned
\* by exactly those whose session the store or the cache then failed, and
\* the usage table lacks exactly those the store refused.
LedgerIsExact ==
  \A g \in Gateways :
    /\ usage[g] = returned[g] + Cardinality(At(g, "uncached"))
    /\ ledger[g].calls = usage[g] + Cardinality(At(g, "unlogged"))

\* The account of a gateway: its fields are well-formed and exact.
LedgerInv == TypeOK /\ LedgerIsExact

\* Re-runs are free: a prompt that was answered is never sent again by a
\* chat that begins later; at worst its file is torn.
AnsweredIsCached == \A p \in Prompts : answers[p] # {} => entry[p] # NoEntry

\* A chat comes to an end, by a response or an error, although it may queue
\* for the semaphore again after every failed attempt.
ChatsEnd ==
  \A c \in Callers : at[c] \in {"waiting", "provider", "pause"} ~> at[c] \in {"idle"} \cup Raised

=============================================================================

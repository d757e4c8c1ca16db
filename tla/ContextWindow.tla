--------------------------- MODULE ContextWindow ---------------------------
(***************************************************************************)
(* The transcript of one experiment (agent/loop.py) and trim_to_budget     *)
(* (agent/context.py), which cuts it down before every model call.         *)
(*                                                                         *)
(* A message is a record: its role, its size in tokens, the ids of the     *)
(* tool calls it makes (assistant) and the id it answers (tool, else the   *)
(* empty set).  A provider names the calls of every reply anew; a reply    *)
(* without names gets call_0, call_1, ... by position                      *)
(* (models/openai_compat.py), and the echo model makes one call in a reply *)
(* and names it for its tool, so that in these two names come back.        *)
(***************************************************************************)
EXTENDS Integers, Sequences

CONSTANTS
  Budget,      \* context_token_budget
  KeepRecent,  \* keep_recent
  Sizes,       \* bound: sizes of a message
  MaxCalls,    \* bound: tool calls of one reply
  MaxTurns     \* max_steps

ASSUME BudgetAssumption == Budget \in Nat /\ KeepRecent \in Nat
ASSUME SizesAssumption == Sizes \subseteq Nat
ASSUME TurnsAssumption == MaxCalls \in Nat /\ MaxTurns \in Nat

VARIABLES
  messages,  \* the transcript, as the loop keeps it between two steps
  turn,      \* steps
  naming     \* where the identifiers of its tool calls come from

contextVars == <<messages, turn, naming>>

Namings == {"provider", "position", "tool"}

System(size) == [role |-> "system", size |-> size, calls |-> {}, answers |-> {}]
User(size) == [role |-> "user", size |-> size, calls |-> {}, answers |-> {}]
Assistant(size, ids) ==
  [role |-> "assistant", size |-> size, calls |-> ids, answers |-> {}]
Tool(size, id) == [role |-> "tool", size |-> size, calls |-> {}, answers |-> {id}]

(***************************************************************************)
(* trim_to_budget.                                                         *)
(***************************************************************************)
estimate_messages_tokens(ms) ==
  LET total[i \in 0 .. Len(ms)] == IF i = 0 THEN 0 ELSE total[i - 1] + ms[i].size
  IN total[Len(ms)]

\* The messages at the given indices, in order.
selected(ms, kept) ==
  LET upto[i \in 0 .. Len(ms)] ==
        IF i = 0 THEN <<>>
        ELSE IF i \in kept THEN Append(upto[i - 1], ms[i]) ELSE upto[i - 1]
  IN upto[Len(ms)]

IsSystem(m) == m.role = "system"
system(ms) == selected(ms, {i \in DOMAIN ms : IsSystem(ms[i])})
rest(ms) == selected(ms, {i \in DOMAIN ms : ~IsSystem(ms[i])})

\* How many messages the loop pops from the front of rest: the least number
\* that leaves keep_recent messages or a transcript within the budget.
Popped(kept, others) ==
  LET Enough(k) ==
        \/ Len(others) - k <= KeepRecent
        \/ estimate_messages_tokens(kept \o SubSeq(others, k + 1, Len(others))) <= Budget
  IN CHOOSE k \in 0 .. Len(others) : Enough(k) /\ \A i \in 0 .. k - 1 : ~Enough(i)

valid_ids(ms) == UNION {ms[i].calls : i \in DOMAIN ms}

\* Mutant: no repair.
Unrepaired(ms) == ms

repaired(ms) == selected(ms, {i \in DOMAIN ms : ms[i].answers \subseteq valid_ids(ms)})

\* Mutant: the system message is dropped like any other.
DropsSystem(ms) ==
  IF estimate_messages_tokens(ms) <= Budget THEN ms
  ELSE repaired(SubSeq(ms, Popped(<<>>, ms) + 1, Len(ms)))

\* Mutant: the loop pops from the back.
DropsNewest(ms) ==
  IF estimate_messages_tokens(ms) <= Budget THEN ms
  ELSE LET last == Len(rest(ms)) - Popped(system(ms), rest(ms))
       IN repaired(system(ms) \o SubSeq(rest(ms), 1, last))

trim_to_budget(ms) ==
  IF estimate_messages_tokens(ms) <= Budget THEN ms
  ELSE LET first == Popped(system(ms), rest(ms)) + 1
       IN repaired(system(ms) \o SubSeq(rest(ms), first, Len(rest(ms))))

(***************************************************************************)
(* The loop: trim, chat, append the reply and what it leads to.            *)
(***************************************************************************)

\* The context the next model call gets.
Window == trim_to_budget(messages)

\* The identifiers the n calls of a reply may have; the echo model writes,
\* backtests or submits.
CallIds(n) ==
  CASE naming = "provider" -> {[i \in 1 .. n |-> <<turn, i>>]}
    [] naming = "position" -> {[i \in 1 .. n |-> <<0, i>>]}
    [] naming = "tool" -> {ids \in [1 .. n -> {0} \X (1 .. 3)] : n = 1}

\* Messages of the rest of the step: one result for each call in order, and
\* the pressure message when a backtest was run and few steps are left.
ToolResults(sizes, ids) == [i \in DOMAIN sizes |-> Tool(sizes[i], ids[i])]

ContextInit ==
  /\ turn = 0
  /\ naming \in Namings
  /\ \E size \in Sizes : messages = <<System(1), User(size)>>

ToolTurn(n) ==
  /\ turn < MaxTurns
  /\ turn' = turn + 1
  /\ UNCHANGED naming
  /\ \E size \in Sizes, sizes \in [1 .. n -> Sizes], ids \in CallIds(n),
        pressed \in BOOLEAN :
       messages' = Window \o <<Assistant(size, {ids[i] : i \in 1 .. n})>>
                     \o ToolResults(sizes, ids)
                     \o (IF pressed THEN <<User(1)>> ELSE <<>>)

SilentTurn ==
  /\ turn < MaxTurns
  /\ turn' = turn + 1
  /\ UNCHANGED naming
  /\ \E size \in Sizes : messages' = Window \o <<Assistant(size, {}), User(1)>>

ContextNext == SilentTurn \/ \E n \in 1 .. MaxCalls : ToolTurn(n)

ContextSpec == ContextInit /\ [][ContextNext]_contextVars

-----------------------------------------------------------------------------
\* Type invariant; only assistants call, and exactly the tool messages answer.
ContextTypeOK ==
  /\ turn \in 0 .. MaxTurns
  /\ naming \in Namings
  /\ \A i \in DOMAIN messages :
       /\ messages[i].role \in {"system", "user", "assistant", "tool"}
       /\ messages[i].size \in Nat
       /\ messages[i].calls # {} => messages[i].role = "assistant"
       /\ messages[i].answers # {} <=> messages[i].role = "tool"

\* "the model never sees a dangling tool result without its call": every
\* result in the window comes after the message that made the call, with
\* nothing but results of the same message between them.  The sentence
\* makes no exception, but the code needs identifiers that do not come back:
\* with positional ones or the echo model's, a result whose call was popped
\* is kept for the sake of a later call with the same identifier.
NoDanglingResult ==
  naming = "provider" => \A i \in DOMAIN Window :
    Window[i].role = "tool" =>
      \E c \in 1 .. i - 1 :
        /\ Window[i].answers \subseteq Window[c].calls
        /\ \A k \in c + 1 .. i - 1 : Window[k].role = "tool"

\* The other half of keeping pairs consistent: a call in the window has its
\* result in the window, however often the transcript was cut before and
\* whoever gave the identifiers.
NoUnansweredCall ==
  \A c \in DOMAIN Window : \A id \in Window[c].calls :
    \E i \in c + 1 .. Len(Window) : Window[i].answers = {id}

\* Calls and results stay paired through any number of cuts.
PairsInv == ContextTypeOK /\ NoDanglingResult /\ NoUnansweredCall

\* The window fits the budget, unless what is kept anyway does not; and it
\* still begins with the system prompt, alone.
WindowFits ==
  /\ \/ estimate_messages_tokens(Window) <= Budget
     \/ Len(rest(Window)) <= KeepRecent
  /\ \A i \in DOMAIN Window : IsSystem(Window[i]) <=> i = 1
=============================================================================

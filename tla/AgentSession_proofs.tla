------------------------ MODULE AgentSession_proofs ------------------------
(***************************************************************************)
(* Theorems about AgentSession, for any file names, numbers of steps and   *)
(* of tool calls, with or without a sandbox; and about ContextWindow, the  *)
(* transcript of such a session, for any budget and sizes of messages.     *)
(***************************************************************************)
EXTENDS AgentSession, ContextWindow, SequenceTheorems, WellFoundedInduction, TLAPS

(***************************************************************************)
(* The inductive invariant: where a session may be when it is submitted,   *)
(* and how the files, the result left behind by the sandbox and the        *)
(* figures of the context hang together.                                   *)
(***************************************************************************)
LoopInv ==
  /\ phase = "chat" => step < MaxSteps
  /\ phase \in {"chat", "blank"} => ~submitted
  /\ phase = "ended" /\ tested # {} => submitted
  /\ forced => phase = "ended" /\ files[submittedPath] = written

WorkspaceInv ==
  /\ strategyPath # NoFile => files[strategyPath] > 0 /\ files[strategyPath] = written
  /\ resultFile \in Results => resultFile.version \in tested
  /\ lastBacktest # NoResult <=> tested # {}
  /\ tested # {} => strategyPath # NoFile
  /\ lastBacktest # NoResult => lastBacktest.version \in tested
  /\ submitted => /\ submittedPath # NoFile
                  /\ files[submittedPath] > 0
                  /\ tested # {}

SessionInv == TypeOK /\ LoopInv /\ WorkspaceInv

LEMMA SessionInvInit == Init => SessionInv
<1> SUFFICES ASSUME Init PROVE SessionInv
  OBVIOUS
<1> USE MaxStepsAssumption, BoundsAssumption DEF Init
<1>1. NoResult \notin Results
  BY DEF NoResult, Results
<1>2. TypeOK
  <2>1. nudged \in BOOLEAN /\ submitted \in BOOLEAN /\ forced \in BOOLEAN
    OBVIOUS
  <2>2. /\ step \in 0 .. MaxSteps /\ pending \in 0 .. MaxToolCalls
        /\ written \in 0 .. MaxWrites
        /\ files \in [Files -> 0 .. MaxWrites]
    OBVIOUS
  <2>3. QED
    BY <2>1, <2>2, Zenon DEF TypeOK
<1>3. LoopInv
  BY DEF LoopInv
<1>4. WorkspaceInv
  BY <1>1 DEF WorkspaceInv, Results
<1>5. QED
  BY <1>2, <1>3, <1>4 DEF SessionInv

LEMMA SessionInvNext == SessionInv /\ [Next]_vars => SessionInv'
<1> SUFFICES ASSUME SessionInv, [Next]_vars PROVE SessionInv'
  OBVIOUS
<1> USE MaxStepsAssumption, BoundsAssumption, FilesAssumption
<1> USE DEF SessionInv, TypeOK, LoopInv, WorkspaceInv, loopVars, workspaceVars,
            backtestVars, submitVars
<1>1. ASSUME NEW n \in 1 .. MaxToolCalls, Reply(n) PROVE SessionInv'
  BY <1>1 DEF Reply
<1>2. CASE SilentReply
  BY <1>2 DEF SilentReply, NextIteration
<1>3. CASE BlankReply
  <2>1. step' \in 0 .. MaxSteps /\ phase' = "blank" /\ ~submitted
    BY <1>3 DEF BlankReply
  <2>2. UNCHANGED <<pending, workspaceVars, backtestVars, submitVars>> /\ UNCHANGED nudged
    BY <1>3 DEF BlankReply
  <2>3. ~forced
    BY <1>3 DEF BlankReply
  <2>4. TypeOK'
    BY <2>1, <2>2
  <2>5. QED
    BY <2>1, <2>2, <2>3, <2>4
<1>14. CASE Raises
  BY <1>14 DEF Raises
<1>4. CASE EndOfMessage
  BY <1>4 DEF EndOfMessage, NextIteration
<1>5. CASE Return
  <2>1. /\ submitted' = (submitted \/ Fallback) /\ forced' = Fallback /\ phase' = "ended"
        /\ submittedPath' = IF Fallback THEN strategyPath ELSE submittedPath
        /\ UNCHANGED <<step, pending, nudged, files, written, strategyPath, resultFile,
                       lastBacktest, asked, tested>>
    BY <1>5 DEF Return
  <2>2. Fallback \in BOOLEAN /\ submitted' \in BOOLEAN /\ forced' \in BOOLEAN
    <3>1. Fallback \in BOOLEAN
      BY DEF Fallback
    <3>2. QED
      BY <2>1, <3>1, Zenon
  <2>3. TypeOK'
    BY <2>1, <2>2
  <2>4. CASE Fallback
    <3>1. strategyPath # NoFile /\ tested # {} /\ submittedPath' = strategyPath /\ submitted'
      BY <2>1, <2>4 DEF Fallback
    <3>2. QED
      BY <2>1, <2>3, <3>1
  <2>5. CASE ~Fallback
    <3>1. submittedPath' = submittedPath /\ submitted' = submitted /\ ~forced'
      BY <2>1, <2>2, <2>5
    <3>2. tested # {} => submitted
      BY <2>5 DEF Fallback
    <3>3. QED
      BY <2>1, <2>3, <3>1, <3>2
  <2>6. QED
    BY <2>4, <2>5
<1>6. CASE NoEffect
  BY <1>6 DEF NoEffect, Dispatch
<1>7. ASSUME NEW f \in Files, write_strategy(f) PROVE SessionInv'
  <2>1. /\ files' \in [Files -> 0 .. MaxWrites]
        /\ \A g \in Files : files[g] > 0 => files'[g] > 0
        /\ files'[f] > 0
    BY <1>7 DEF write_strategy
  <2>2. QED
    BY <1>7, <2>1 DEF write_strategy, Dispatch
<1>8. ASSUME NEW p \in Partitions, BacktestCompletes(p) PROVE SessionInv'
  <2>1. Current \in 1 .. MaxWrites
    BY <1>8 DEF BacktestCompletes, Current
  <2>2. /\ lastBacktest' \in Results
        /\ lastBacktest'.version = Current
        /\ lastBacktest' # NoResult
    <3>1. lastBacktest' = [version |-> Current, partition |-> p]
      BY <1>8 DEF BacktestCompletes
    <3>2. [version |-> Current, partition |-> p] \in Results
      BY <2>1, Zenon DEF Results
    <3>3. NoResult.version = 0
      BY DEF NoResult
    <3>4. QED
      BY <2>1, <3>1, <3>2, <3>3
  <2>3. resultFile' \in {resultFile, lastBacktest'}
    BY <1>8 DEF BacktestCompletes
  <2>4. resultFile' \in Results => resultFile'.version \in tested'
    BY <1>8, <2>2, <2>3 DEF BacktestCompletes
  <2>5. TypeOK'
    <3>1. asked' \in Results /\ tested' \subseteq 1 .. MaxWrites
      BY <1>8, <2>1, <2>2 DEF BacktestCompletes
    <3>2. resultFile' \in Results \cup {NoResult, HalfWritten}
      BY <2>2, <2>3
    <3>3. UNCHANGED <<phase, step, nudged, files, written, strategyPath,
                      submitted, submittedPath, forced>>
      BY <1>8 DEF BacktestCompletes, Dispatch
    <3>4. pending' \in 0 .. MaxToolCalls
      BY <1>8 DEF BacktestCompletes, Dispatch
    <3>5. QED
      BY <2>2, <3>1, <3>2, <3>3, <3>4
  <2>6. LoopInv'
    BY <1>8 DEF BacktestCompletes, Dispatch
  <2>7. WorkspaceInv'
    BY <1>8, <2>1, <2>2, <2>4 DEF BacktestCompletes
  <2>8. QED
    BY <2>5, <2>6, <2>7
<1>9. ASSUME NEW p \in Partitions, SandboxFails(p) PROVE SessionInv'
  <2>1. Current \in 1 .. MaxWrites
    BY <1>9 DEF SandboxFails, Current
  <2>2. asked' \in Results
    BY <1>9, <2>1 DEF SandboxFails, Results
  <2>3. lastBacktest' \in Results /\ lastBacktest' # NoResult
    BY <1>9 DEF SandboxFails, Results, NoResult
  <2>4. QED
    BY <1>9, <2>2, <2>3 DEF SandboxFails, Dispatch
<1>10. CASE SandboxKilledWriting
  <2>1. HalfWritten \notin Results
    BY DEF HalfWritten, Results
  <2>2. QED
    BY <1>10, <2>1 DEF SandboxKilledWriting, Dispatch
<1>11. CASE submit_strategy
  BY <1>11 DEF submit_strategy, Dispatch, Current
<1>12. CASE UNCHANGED vars
  BY <1>12 DEF vars
<1>13. QED
  BY <1>1, <1>2, <1>3, <1>4, <1>5, <1>6, <1>7, <1>8, <1>9, <1>10, <1>11, <1>12, <1>14
  DEF Next, Loop, ToolCall

\* Every reachable state of a session satisfies the inductive invariant.
LEMMA SessionInvariant == Spec => []SessionInv
BY SessionInvInit, SessionInvNext, PTL DEF Spec

\* A session keeps its types: figures belong to a version that was written, a
\* reply has as many calls left as it may, and steps stay within their limit.
THEOREM SessionTypeCorrect == Spec => []TypeOK
<1>1. SessionInv => TypeOK
  BY DEF SessionInv
<1>2. QED
  BY <1>1, SessionInvariant, PTL

\* A submitted session names an existing file and a completed backtest, for
\* any order of writes, failures, submissions and the fallback.
THEOREM CandidatesAreReal == Spec => []CandidateIsReal
<1>1. SessionInv => CandidateIsReal
  BY DEF SessionInv, WorkspaceInv, CandidateIsReal
<1>2. QED
  BY <1>1, SessionInvariant, PTL

\* A session that ends after a completed backtest ends submitted, and what
\* the fallback submits is the last version written.
THEOREM TestedWorkIsSubmitted == Spec => []WorkIsNotLost
<1>1. SessionInv => WorkIsNotLost
  BY DEF SessionInv, LoopInv, WorkIsNotLost
<1>2. QED
  BY <1>1, SessionInvariant, PTL

\* No model call follows a submission.
THEOREM SubmissionEndsSession == Spec => NoChatAfterSubmission
<1>1. SessionInv /\ [Next]_vars => [submitted => step' = step]_vars
  BY DEF SessionInv, LoopInv, TypeOK, Next, Loop, ToolCall, Reply, SilentReply,
     BlankReply, Raises, EndOfMessage, Return, NoEffect, write_strategy,
     BacktestCompletes, SandboxFails, SandboxKilledWriting, submit_strategy,
     Dispatch, vars, loopVars
<1>2. QED
  BY <1>1, SessionInvariant, PTL DEF Spec, NoChatAfterSubmission

\* A session implements the safety part of the task the orchestrator runs:
\* at most max_steps model calls and one end, submitted or not.
THEOREM SessionIsATask == Spec => TaskSafety
<1>1. Init => Task!TaskInit
  BY DEF Init, Task!TaskInit
<1>2. SessionInv /\ [Next]_vars => [Task!TaskNext]_(Task!taskVars)
  <2> SUFFICES ASSUME SessionInv, [Next]_vars
               PROVE  [Task!TaskNext]_(Task!taskVars)
    OBVIOUS
  <2> USE DEF SessionInv, LoopInv, TypeOK, Task!TaskNext, Task!taskVars,
              Task!Call, Task!Ends, Task!End
  <2>1. ASSUME NEW n \in 1 .. MaxToolCalls, Reply(n)
        PROVE  [Task!TaskNext]_(Task!taskVars)
    BY <2>1, MaxStepsAssumption DEF Reply
  <2>2. CASE SilentReply
    BY <2>2, MaxStepsAssumption DEF SilentReply, NextIteration
  <2>3. CASE BlankReply \/ Raises
    BY <2>3, MaxStepsAssumption DEF BlankReply, Raises
  <2>4. CASE EndOfMessage
    BY <2>4 DEF EndOfMessage, NextIteration
  <2>5. CASE Return
    BY <2>5 DEF Return
  <2>6. CASE ToolCall
    BY <2>6 DEF ToolCall, NoEffect, write_strategy, BacktestCompletes,
       SandboxFails, SandboxKilledWriting, submit_strategy, Dispatch
  <2>7. CASE UNCHANGED vars
    BY <2>7 DEF vars, loopVars, submitVars
  <2>8. QED
    BY <2>1, <2>2, <2>3, <2>4, <2>5, <2>6, <2>7 DEF Next, Loop
<1>3. QED
  BY <1>1, <1>2, SessionInvariant, PTL DEF Spec, TaskSafety, Task!TaskSafety

(***************************************************************************)
(* The transcript of an experiment: what trim_to_budget selects, and why   *)
(* pairs of a call and its result survive any number of cuts.              *)
(***************************************************************************)

\* A set of numbers that is closed under the successor stands for induction.
LEMMA EveryNumber ==
  ASSUME NEW T, 0 \in T, \A k \in Nat : k \in T => k + 1 \in T
  PROVE  Nat \subseteq T
<1>1. SUFFICES ASSUME NEW x \in Nat, x \notin T PROVE FALSE
  OBVIOUS
<1> DEFINE B == {k \in Nat : k \notin T}
<1>2. B \subseteq Nat /\ B # {}
  BY <1>1
<1>3. PICK k \in B : \A y \in B : ~ (<<y, k>> \in OpToRel(<, Nat))
  <2> HIDE DEF B
  <2>1. QED
    BY <1>2, NatLessThanWellFounded, WFMin
<1>4. k # 0 /\ k - 1 \in Nat /\ k = (k - 1) + 1
  OBVIOUS
<1>5. k - 1 \in B
  BY <1>4
<1>6. <<k - 1, k>> \in OpToRel(<, Nat)
  BY <1>4 DEF OpToRel
<1>7. QED
  BY <1>3, <1>5, <1>6

\* w consists of the messages of ms at the indices in K, in their order: g says
\* where each of them was.
Embeds(w, ms, g, K) ==
  /\ g \in [DOMAIN w -> K]
  /\ \A j \in DOMAIN w : w[j] = ms[g[j]]
  /\ \A a, b \in DOMAIN w : a < b => g[a] < g[b]
  /\ \A i \in K : \E j \in DOMAIN w : g[j] = i

\* The body of selected and of the sum of estimate_messages_tokens.
SelectBody(ms, kept, f, i) ==
  IF i = 0 THEN <<>> ELSE IF i \in kept THEN Append(f[i - 1], ms[i]) ELSE f[i - 1]

EstimateBody(ms, f, i) == IF i = 0 THEN 0 ELSE f[i - 1] + ms[i].size

\* One more message is kept.
LEMMA EmbedsOneMore ==
  ASSUME NEW S, NEW w \in Seq(S), NEW ms, NEW g, NEW i \in Nat, NEW K \in SUBSET (1 .. i - 1),
         ms[i] \in S, Embeds(w, ms, g, K)
  PROVE  /\ Append(w, ms[i]) \in Seq(S)
         /\ \E h : Embeds(Append(w, ms[i]), ms, h, K \cup {i})
<1> DEFINE m == Len(w)
           v == Append(w, ms[i])
           h == [j \in 1 .. m + 1 |-> IF j = m + 1 THEN i ELSE g[j]]
<1>1. /\ m \in Nat /\ DOMAIN w = 1 .. m /\ DOMAIN v = 1 .. m + 1 /\ v \in Seq(S)
      /\ v[m + 1] = ms[i] /\ \A j \in 1 .. m : v[j] = w[j]
  OBVIOUS
<1>2. /\ h[m + 1] = i /\ \A j \in 1 .. m : h[j] = g[j]
  BY <1>1
<1>3. \A j \in 1 .. m : g[j] \in K /\ g[j] \in 1 .. i - 1 /\ w[j] = ms[g[j]]
  BY <1>1 DEF Embeds
<1>4. \A j \in 1 .. m + 1 : j \in 1 .. m \/ j = m + 1
  BY <1>1
<1>5. h = [j \in 1 .. m + 1 |-> h[j]]
  OBVIOUS
<1> HIDE DEF m, v, h
<1>6. \A j \in 1 .. m + 1 : h[j] \in K \cup {i} /\ v[j] = ms[h[j]]
  BY <1>1, <1>2, <1>3, <1>4
<1>7. ASSUME NEW a \in 1 .. m + 1, NEW b \in 1 .. m + 1, a < b PROVE h[a] < h[b]
  <2>1. a \in 1 .. m
    BY <1>1, <1>7
  <2>2. CASE b = m + 1
    BY <1>2, <1>3, <2>1, <2>2
  <2>3. CASE b \in 1 .. m
    <3>1. g[a] < g[b]
      BY <1>1, <1>7, <2>1, <2>3 DEF Embeds
    <3>2. QED
      BY <1>2, <2>1, <2>3, <3>1
  <2>4. QED
    BY <1>4, <2>2, <2>3
<1>8. \A k \in K \cup {i} : \E j \in 1 .. m + 1 : h[j] = k
  <2>1. TAKE k \in K \cup {i}
  <2>2. CASE k \in K
    <3>1. PICK j \in 1 .. m : g[j] = k
      BY <1>1, <2>2 DEF Embeds
    <3>2. QED
      BY <1>1, <1>2, <3>1
  <2>3. CASE k = i
    BY <1>1, <1>2, <2>3
  <2>4. QED
    BY <2>2, <2>3
<1>9. h \in [1 .. m + 1 -> K \cup {i}]
  BY <1>5, <1>6
<1>10. Embeds(v, ms, h, K \cup {i})
  BY <1>1, <1>6, <1>7, <1>8, <1>9 DEF Embeds
<1>11. QED
  BY <1>1, <1>10 DEF v

\* How a selection is built.
SelectSteps(ms, kept, F) ==
  /\ F[0] = <<>>
  /\ \A i \in 1 .. Len(ms) :
       F[i] = IF i \in kept THEN Append(F[i - 1], ms[i]) ELSE F[i - 1]
  /\ selected(ms, kept) = F[Len(ms)]

\* Selections are built so.
LEMMA SelectedBySteps ==
  ASSUME NEW S, NEW ms \in Seq(S), NEW kept \in SUBSET DOMAIN ms
  PROVE  \E F : SelectSteps(ms, kept, F)
<1>1. PICK n \in Nat : n = Len(ms) /\ DOMAIN ms = 1 .. n /\ \A i \in 1 .. n : ms[i] \in S
  OBVIOUS
<1> DEFINE Body(f, i) == SelectBody(ms, kept, f, i)
           After(k, f) == f = [i \in 0 .. k |-> Body(f, i)]
           T == {k \in Nat : \E f : After(k, f)}
<1>2. 0 \in T
  <2> DEFINE none == <<>>
             f == [i \in 0 .. 0 |-> none]
  <2>1. \A i \in 0 .. 0 : Body(f, i) = none
    BY DEF SelectBody
  <2> HIDE DEF Body, none
  <2>2. f = [i \in 0 .. 0 |-> Body(f, i)]
    BY <2>1
  <2> HIDE DEF f
  <2>3. QED
    BY <2>2
<1>3. ASSUME NEW k \in Nat, NEW f, After(k, f) PROVE \E g : After(k + 1, g)
  <2> DEFINE g == [i \in 0 .. k + 1 |-> IF i = k + 1 THEN Body(f, k + 1) ELSE f[i]]
  <2>1. \A i \in 0 .. k + 1 : g[i] = Body(g, i)
    <3>1. TAKE i \in 0 .. k + 1
    <3>2. CASE i = k + 1
      <4>1. g[i] = Body(f, k + 1) /\ g[i - 1] = f[k] /\ i # 0 /\ i - 1 = k
        BY <3>2
      <4> HIDE DEF g
      <4>2. QED
        BY <3>2, <4>1 DEF SelectBody
    <3>3. CASE i \in 0 .. k
      <4>1. g[i] = f[i] /\ (i # 0 => g[i - 1] = f[i - 1])
        BY <3>3
      <4>2. f[i] = Body(f, i)
        <5> HIDE DEF g, Body
        <5>1. QED
          BY <1>3, <3>3
      <4> HIDE DEF g
      <4>3. QED
        BY <4>1, <4>2 DEF SelectBody
    <3>4. QED
      BY <3>2, <3>3
  <2>2. g = [i \in 0 .. k + 1 |-> g[i]]
    OBVIOUS
  <2> HIDE DEF g, Body
  <2>3. QED
    BY <2>1, <2>2
<1>4. \E f : After(n, f)
  <2>1. \A k \in Nat : k \in T => k + 1 \in T
    <3> HIDE DEF After
    <3>1. QED
      BY <1>3
  <2>2. n \in T
    <3> HIDE DEF T
    <3>1. QED
      BY <1>2, <2>1, EveryNumber
  <2> HIDE DEF After
  <2>3. QED
    BY <2>2
<1> DEFINE F == CHOOSE f : After(n, f)
<1>5. After(n, F)
  <2> HIDE DEF After
  <2>1. QED
    BY <1>4, Zenon
<1>6. selected(ms, kept) = F[n]
  BY <1>1 DEF selected, SelectBody
<1> HIDE DEF F
<1>7. \A i \in 0 .. n : F[i] = Body(F, i)
  <2> HIDE DEF Body
  <2>1. QED
    BY <1>5
<1>8. F[0] = <<>>
  BY <1>7 DEF SelectBody
<1>9. \A i \in 1 .. n : F[i] = IF i \in kept THEN Append(F[i - 1], ms[i]) ELSE F[i - 1]
  <2>1. \A i \in 1 .. n : i \in 0 .. n /\ i # 0
    OBVIOUS
  <2>2. QED
    BY <1>7, <2>1 DEF SelectBody
<1>10. SelectSteps(ms, kept, F)
  BY <1>1, <1>6, <1>8, <1>9 DEF SelectSteps
<1>11. QED
  BY <1>10

\* A selection of messages is what it says.
LEMMA SelectedIs ==
  ASSUME NEW S, NEW ms \in Seq(S), NEW kept \in SUBSET DOMAIN ms
  PROVE  selected(ms, kept) \in Seq(S) /\ \E g : Embeds(selected(ms, kept), ms, g, kept)
<1>1. PICK n \in Nat : n = Len(ms) /\ DOMAIN ms = 1 .. n /\ \A i \in 1 .. n : ms[i] \in S
  OBVIOUS
<1>2. PICK F : SelectSteps(ms, kept, F)
  BY SelectedBySteps
<1>3. selected(ms, kept) = F[n]
  BY <1>1, <1>2 DEF SelectSteps
<1>4. /\ F[0] = <<>>
      /\ \A i \in 1 .. n : F[i] = IF i \in kept THEN Append(F[i - 1], ms[i]) ELSE F[i - 1]
  BY <1>1, <1>2 DEF SelectSteps
<1> DEFINE Good(i) == F[i] \in Seq(S) /\ \E g : Embeds(F[i], ms, g, kept \cap (1 .. i))
           K == {i \in Nat : i <= n => Good(i)}
<1>5. 0 \in K
  <2>1. F[0] = <<>>
    BY <1>4
  <2>2. kept \cap (1 .. 0) = {}
    OBVIOUS
  <2>3. Embeds(<<>>, ms, <<>>, {})
    BY DEF Embeds
  <2>4. <<>> \in Seq(S)
    OBVIOUS
  <2>5. Good(0)
    BY <2>1, <2>2, <2>3, <2>4
  <2>6. QED
    BY <2>5
<1>6. \A i \in Nat : i \in K => i + 1 \in K
  <2>1. TAKE i \in Nat
  <2>2. HAVE i \in K
  <2>3. CASE i + 1 <= n
    <3> DEFINE l == i + 1
               w == F[i]
               L == kept \cap (1 .. i)
    <3>1. l \in 0 .. n /\ l \in 1 .. n /\ i <= n /\ l - 1 = i /\ l # 0 /\ l \in Nat
      BY <2>3
    <3>2. w \in Seq(S) /\ \E g : Embeds(w, ms, g, L)
      BY <2>2, <3>1
    <3>4. F[l] = IF l \in kept THEN Append(w, ms[l]) ELSE w
      <4> HIDE DEF l
      <4>1. QED
        BY <1>4, <3>1
    <3>5. L \in SUBSET (1 .. l - 1) /\ (l \in kept => L \cup {l} = kept \cap (1 .. l))
          /\ (l \notin kept => L = kept \cap (1 .. l)) /\ ms[l] \in S
      BY <1>1, <3>1
    <3> HIDE DEF L, w, l
    <3>6. l \in kept => Good(l)
      <4> SUFFICES ASSUME l \in kept PROVE F[l] \in Seq(S) /\ \E g : Embeds(F[l], ms, g, kept \cap (1 .. l))
        BY Zenon
      <4>1. PICK g : Embeds(w, ms, g, L)
        BY <3>2
      <4>2. /\ Append(w, ms[l]) \in Seq(S)
            /\ \E h : Embeds(Append(w, ms[l]), ms, h, L \cup {l})
        BY <3>1, <3>2, <3>5, <4>1, EmbedsOneMore
      <4>3. QED
        BY <3>4, <3>5, <4>2
    <3>7. l \notin kept => Good(l)
      <4> SUFFICES ASSUME l \notin kept PROVE F[l] \in Seq(S) /\ \E g : Embeds(F[l], ms, g, kept \cap (1 .. l))
        BY Zenon
      <4>1. QED
        BY <3>2, <3>4, <3>5
    <3> HIDE DEF Good
    <3>8. Good(l)
      BY <3>6, <3>7
    <3>9. l \in Nat /\ (l <= n => Good(l)) => l \in K
      BY Zenon
    <3>10. l \in K
      BY <3>1, <3>8, <3>9
    <3>11. QED
      BY <3>10 DEF l
  <2>4. CASE ~(i + 1 <= n)
    <3> HIDE DEF Good
    <3>1. i + 1 \in Nat
      OBVIOUS
    <3>2. QED
      BY <2>4, <3>1, Zenon
  <2>5. QED
    BY <2>3, <2>4
<1>7. Good(n)
  <2>1. n \in K
    <3> HIDE DEF K
    <3>1. QED
      BY <1>5, <1>6, EveryNumber
  <2> HIDE DEF Good
  <2>2. QED
    BY <2>1
<1>8. kept \cap (1 .. n) = kept
  BY <1>1
<1>9. QED
  BY <1>3, <1>7, <1>8

\* The loop stops at the first number of messages that is enough.
LEMMA PoppedIs ==
  ASSUME NEW kept, NEW S, NEW others \in Seq(S)
  PROVE  LET k == Popped(kept, others)
         IN  /\ k \in 0 .. Len(others)
             /\ \/ Len(others) - k <= KeepRecent
                \/ estimate_messages_tokens(kept \o SubSeq(others, k + 1, Len(others))) <= Budget
<1> DEFINE Enough(k) ==
             \/ Len(others) - k <= KeepRecent
             \/ estimate_messages_tokens(kept \o SubSeq(others, k + 1, Len(others))) <= Budget
           n == Len(others)
           B == {k \in 0 .. n : Enough(k)}
           P(k) == Enough(k) /\ \A i \in 0 .. k - 1 : ~Enough(i)
<1>1. n \in Nat
  OBVIOUS
<1>2. Popped(kept, others) = CHOOSE k \in 0 .. n : P(k)
  BY DEF Popped
<1>3. Enough(n)
  BY <1>1, BudgetAssumption
<1> HIDE DEF n, Enough
<1>4. B \subseteq Nat /\ B # {}
  BY <1>1, <1>3
<1>5. PICK k \in B : \A y \in B : ~ (<<y, k>> \in OpToRel(<, Nat))
  <2> HIDE DEF B
  <2>1. QED
    BY <1>4, NatLessThanWellFounded, WFMin
<1>6. \A i \in 0 .. k - 1 : ~Enough(i)
  <2>1. TAKE i \in 0 .. k - 1
  <2>2. k \in 0 .. n /\ i \in 0 .. n /\ <<i, k>> \in OpToRel(<, Nat)
    BY <1>1 DEF OpToRel
  <2>3. QED
    BY <1>5, <2>2
<1>7. \E j \in 0 .. n : P(j)
  BY <1>6
<1> HIDE DEF P
<1>8. Popped(kept, others) \in 0 .. n /\ P(Popped(kept, others))
  BY <1>2, <1>7
<1>9. QED
  BY <1>8 DEF P, Enough, n

\* What messages are.
Identifiers == Nat \X Nat
Roles == {"system", "user", "assistant", "tool"}
Message == [role : Roles, size : Nat, calls : SUBSET Identifiers, answers : SUBSET Identifiers]

\* An increasing map takes larger to larger only.
LEMMA EmbedsOrder ==
  ASSUME NEW w, NEW ms, NEW g, NEW K \in SUBSET Nat, DOMAIN w \subseteq Nat,
         Embeds(w, ms, g, K), NEW a \in DOMAIN w, NEW b \in DOMAIN w, g[a] < g[b]
  PROVE  a < b
<1>1. a \in Nat /\ b \in Nat /\ g[a] \in Nat /\ g[b] \in Nat
  BY DEF Embeds
<1>2. b < a => g[b] < g[a]
  BY DEF Embeds
<1>3. a = b => g[a] = g[b]
  OBVIOUS
<1>4. QED
  BY <1>1, <1>2, <1>3

\* A selection from a selection is one from the first transcript.
LEMMA EmbedsCompose ==
  ASSUME NEW v, NEW w, NEW ms, NEW h, NEW g, NEW L \in SUBSET DOMAIN w, NEW K \in SUBSET Nat,
         Embeds(v, w, h, L), Embeds(w, ms, g, K),
         NEW I, \A l \in L : g[l] \in I, \A i \in I : \E l \in L : i = g[l]
  PROVE  \E f : Embeds(v, ms, f, I)
<1> DEFINE f == [j \in DOMAIN v |-> g[h[j]]]
<1>1. \A j \in DOMAIN v : h[j] \in L /\ h[j] \in DOMAIN w /\ v[j] = w[h[j]]
  BY DEF Embeds
<1>2. \A l \in DOMAIN w : w[l] = ms[g[l]]
  BY DEF Embeds
<1>3. \A j \in DOMAIN v : f[j] = g[h[j]] /\ f[j] \in I
  BY <1>1
<1>4. \A l \in L : \E j \in DOMAIN v : h[j] = l
  BY DEF Embeds
<1>5. f \in [DOMAIN v -> I]
  BY <1>1
<1> HIDE DEF f
<1>7. \A j \in DOMAIN v : v[j] = ms[f[j]]
  BY <1>1, <1>2, <1>3
<1>8. \A a, b \in DOMAIN v : a < b => f[a] < f[b]
  <2>1. TAKE a, b \in DOMAIN v
  <2>2. HAVE a < b
  <2>3. h[a] < h[b]
    BY <2>2 DEF Embeds
  <2>4. g[h[a]] < g[h[b]]
    BY <1>1, <2>3 DEF Embeds
  <2>5. QED
    BY <1>3, <2>4
<1>9. \A i \in I : \E j \in DOMAIN v : f[j] = i
  BY <1>3, <1>4
<1>10. Embeds(v, ms, f, I)
  BY <1>5, <1>7, <1>8, <1>9 DEF Embeds
<1>11. QED
  BY <1>10

\* Of the messages at V, those that stand: they answer no call or one made in V.
CallsAt(ms, V) == UNION {ms[j].calls : j \in V}
Standing(ms, V) == {i \in V : ms[i].answers \subseteq CallsAt(ms, V)}

\* The repair keeps what stands.
LEMMA RepairedIs ==
  ASSUME NEW S, NEW w \in Seq(S), NEW ms, NEW g, NEW V \in SUBSET Nat, Embeds(w, ms, g, V)
  PROVE  /\ repaired(w) \in Seq(S)
         /\ \E h : Embeds(repaired(w), ms, h, Standing(ms, V))
<1> DEFINE L == {i \in DOMAIN w : w[i].answers \subseteq valid_ids(w)}
<1>1. \A j \in DOMAIN w : g[j] \in V /\ w[j] = ms[g[j]]
  BY DEF Embeds
<1>2. \A i \in V : \E j \in DOMAIN w : g[j] = i
  BY DEF Embeds
<1>3. valid_ids(w) = CallsAt(ms, V)
  <2>1. \A id : id \in valid_ids(w) <=> \E j \in DOMAIN w : id \in w[j].calls
    BY DEF valid_ids
  <2>2. \A id : id \in CallsAt(ms, V) <=> \E i \in V : id \in ms[i].calls
    BY DEF CallsAt
  <2>3. ASSUME NEW id PROVE id \in valid_ids(w) <=> id \in CallsAt(ms, V)
    <3>1. ASSUME NEW j \in DOMAIN w, id \in w[j].calls PROVE \E i \in V : id \in ms[i].calls
      BY <1>1, <3>1
    <3>2. ASSUME NEW i \in V, id \in ms[i].calls PROVE \E j \in DOMAIN w : id \in w[j].calls
      BY <1>1, <1>2, <3>2
    <3>3. QED
      BY <2>1, <2>2, <3>1, <3>2
  <2>4. QED
    BY <2>3
<1>4. /\ \A l \in L : g[l] \in Standing(ms, V)
      /\ \A i \in Standing(ms, V) : \E l \in L : i = g[l]
  <2>1. ASSUME NEW l \in L PROVE g[l] \in Standing(ms, V)
    BY <1>1, <1>3 DEF Standing
  <2>2. ASSUME NEW i \in Standing(ms, V) PROVE \E l \in L : i = g[l]
    <3>1. i \in V /\ ms[i].answers \subseteq CallsAt(ms, V)
      BY DEF Standing
    <3>2. PICK l \in DOMAIN w : g[l] = i
      BY <1>2, <3>1
    <3>3. l \in L
      BY <1>1, <1>3, <3>1, <3>2
    <3>4. QED
      BY <3>2, <3>3
  <2>3. QED
    BY <2>1, <2>2
<1>5. repaired(w) = selected(w, L)
  BY DEF repaired
<1>6. L \in SUBSET DOMAIN w
  OBVIOUS
<1> HIDE DEF L
<1>7. repaired(w) \in Seq(S) /\ \E h : Embeds(repaired(w), w, h, L)
  BY <1>5, <1>6, SelectedIs
<1>8. PICK h : Embeds(repaired(w), w, h, L)
  BY <1>7
<1>9. \E f : Embeds(repaired(w), ms, f, Standing(ms, V))
  BY <1>4, <1>6, <1>8, EmbedsCompose
<1>10. QED
  BY <1>7, <1>9

\* A transcript begins with the system prompt, and has no other.
Headed(ms) ==
  /\ ms \in Seq(Message)
  /\ Len(ms) # 0
  /\ \A i \in DOMAIN ms : IsSystem(ms[i]) <=> i = 1

\* What the loop never pops is that prompt.
LEMMA SystemIs ==
  ASSUME NEW ms, Headed(ms)
  PROVE  system(ms) = <<ms[1]>>
<1> DEFINE s == system(ms)
           L == {i \in DOMAIN ms : IsSystem(ms[i])}
<1>1. L = {1}
  BY DEF Headed
<1>2. L \in SUBSET DOMAIN ms /\ s = selected(ms, L) /\ ms \in Seq(Message)
  BY DEF system, Headed
<1> HIDE DEF L, s
<1>3. s \in Seq(Message) /\ \E g : Embeds(s, ms, g, L)
  BY <1>2, SelectedIs
<1>4. PICK g : Embeds(s, ms, g, L)
  BY <1>3
<1>5. \A j \in DOMAIN s : g[j] = 1 /\ s[j] = ms[1]
  BY <1>1, <1>4 DEF Embeds
<1>6. PICK n \in Nat : n = Len(s) /\ DOMAIN s = 1 .. n
  BY <1>3
<1>7. \A a, b \in 1 .. n : ~(a < b)
  <2>1. TAKE a, b \in 1 .. n
  <2>2. a < b => g[a] < g[b]
    BY <1>4, <1>6 DEF Embeds
  <2>3. g[a] = 1 /\ g[b] = 1
    BY <1>5, <1>6
  <2>4. QED
    BY <2>2, <2>3
<1>8. \E j \in 1 .. n : g[j] = 1
  BY <1>1, <1>4, <1>6 DEF Embeds
<1>9. n = 1
  BY <1>7, <1>8
<1>10. Len(s) = 1 /\ s[1] = ms[1]
  BY <1>5, <1>6, <1>9
<1>11. s = <<ms[1]>>
  BY <1>3, <1>10
<1>12. QED
  BY <1>11 DEF s

\* What the loop leaves of a transcript is its first message and the last ones.
LEMMA PoppedLeaves ==
  ASSUME NEW ms, Headed(ms), NEW k \in 0 .. Len(rest(ms))
  PROVE  LET w == system(ms) \o SubSeq(rest(ms), k + 1, Len(rest(ms)))
         IN  /\ w \in Seq(Message)
             /\ Len(w) = Len(rest(ms)) - k + 1
             /\ \E g, V : /\ Embeds(w, ms, g, V)
                          /\ V \subseteq DOMAIN ms
                          /\ 1 \in V
                          /\ \A i \in V \ {1}, j \in DOMAIN ms : i < j => j \in V
<1> DEFINE r == rest(ms)
           L == {i \in DOMAIN ms : ~IsSystem(ms[i])}
           tail == SubSeq(r, k + 1, Len(r))
           w == <<ms[1]>> \o tail
<1>1. PICK n \in Nat : n = Len(ms) /\ DOMAIN ms = 1 .. n /\ n # 0 /\ ms[1] \in Message
  BY DEF Headed
<1>2. L = 2 .. n
  BY <1>1 DEF Headed
<1>3. L \in SUBSET DOMAIN ms /\ r = selected(ms, L) /\ ms \in Seq(Message)
  BY DEF rest, Headed
<1>4. system(ms) = <<ms[1]>>
  BY SystemIs
<1> HIDE DEF L, r
<1>5. r \in Seq(Message) /\ \E e : Embeds(r, ms, e, L)
  BY <1>3, SelectedIs
<1>6. PICK e : Embeds(r, ms, e, L)
  BY <1>5
<1>7. PICK m \in Nat : m = Len(r) /\ DOMAIN r = 1 .. m /\ k \in 0 .. m
  BY <1>5 DEF r
<1>8. /\ tail \in Seq(Message) /\ Len(tail) = m - k
      /\ \A j \in 1 .. m - k : tail[j] = r[j + k]
  BY <1>5, <1>7
<1> HIDE DEF tail
<1>9. /\ w \in Seq(Message) /\ Len(w) = m - k + 1 /\ DOMAIN w = 1 .. m - k + 1 /\ w[1] = ms[1]
      /\ \A j \in 2 .. m - k + 1 : w[j] = tail[j - 1]
  BY <1>1, <1>7, <1>8
<1>10. \A j \in 1 .. m : e[j] \in 2 .. n /\ r[j] = ms[e[j]]
  BY <1>2, <1>6, <1>7 DEF Embeds
<1>11. \A j \in 2 .. m - k + 1 : j - 1 \in 1 .. m - k /\ (j - 1) + k \in 1 .. m
  BY <1>7
<1> DEFINE g == [j \in 1 .. m - k + 1 |-> IF j = 1 THEN 1 ELSE e[(j - 1) + k]]
           V == {g[j] : j \in 1 .. m - k + 1}
<1>12. 1 \in 1 .. m - k + 1
  BY <1>7
<1>13. g[1] = 1 /\ \A j \in 2 .. m - k + 1 : g[j] = e[(j - 1) + k]
  BY <1>12
<1>14. \A j \in 1 .. m - k + 1 : j = 1 \/ j \in 2 .. m - k + 1
  BY <1>7
<1>15. g \in [1 .. m - k + 1 -> V] /\ \A i \in V : \E j \in 1 .. m - k + 1 : g[j] = i
  OBVIOUS
<1> HIDE DEF w, g, V
<1>16. \A j \in 1 .. m - k + 1 : g[j] \in V /\ w[j] = ms[g[j]] /\ g[j] \in 1 .. n
  <2>1. TAKE j \in 1 .. m - k + 1
  <2>2. g[j] \in V
    BY <1>15
  <2>3. CASE j = 1
    BY <1>1, <1>9, <1>13, <2>2, <2>3
  <2>4. CASE j \in 2 .. m - k + 1
    <3>1. w[j] = r[(j - 1) + k]
      BY <1>8, <1>9, <1>11, <2>4
    <3>2. g[j] = e[(j - 1) + k] /\ (j - 1) + k \in 1 .. m
      BY <1>11, <1>13, <2>4
    <3>3. g[j] \in 2 .. n /\ w[j] = ms[g[j]]
      BY <1>10, <3>1, <3>2
    <3>4. QED
      BY <2>2, <3>3
  <2>5. QED
    BY <1>14, <2>3, <2>4
<1>17. \A a, b \in 1 .. m - k + 1 : a < b => g[a] < g[b]
  <2>1. TAKE a, b \in 1 .. m - k + 1
  <2>2. HAVE a < b
  <2>3. b \in 2 .. m - k + 1 /\ (b - 1) + k \in 1 .. m /\ g[b] = e[(b - 1) + k]
    BY <1>11, <1>13, <1>14, <2>2
  <2>4. CASE a = 1
    BY <1>10, <1>13, <2>3, <2>4
  <2>5. CASE a \in 2 .. m - k + 1
    <3>1. (a - 1) + k \in 1 .. m /\ g[a] = e[(a - 1) + k] /\ (a - 1) + k < (b - 1) + k
      BY <1>7, <1>11, <1>13, <2>2, <2>5
    <3>2. e[(a - 1) + k] < e[(b - 1) + k]
      BY <1>6, <1>7, <2>3, <3>1 DEF Embeds
    <3>3. QED
      BY <2>3, <3>1, <3>2
  <2>6. QED
    BY <1>14, <2>4, <2>5
<1>18. V \subseteq DOMAIN ms /\ 1 \in V
  BY <1>1, <1>12, <1>13, <1>15, <1>16
<1>19. \A i \in V \ {1}, j \in DOMAIN ms : i < j => j \in V
  <2>1. TAKE i \in V \ {1}, j \in DOMAIN ms
  <2>2. HAVE i < j
  <2>3. PICK a \in 1 .. m - k + 1 : g[a] = i
    BY <1>15
  <2>4. a \in 2 .. m - k + 1 /\ (a - 1) + k \in 1 .. m /\ i = e[(a - 1) + k]
    BY <1>11, <1>13, <1>14, <2>3
  <2>5. i \in 2 .. n /\ j \in 2 .. n
    BY <1>1, <1>10, <2>2, <2>4
  <2>6. PICK b \in 1 .. m : e[b] = j
    BY <1>2, <1>6, <1>7, <2>5 DEF Embeds
  <2>7. ~(b < (a - 1) + k) /\ b # (a - 1) + k
    <3>1. b < (a - 1) + k => e[b] < e[(a - 1) + k]
      BY <1>6, <1>7, <2>4, <2>6 DEF Embeds
    <3>2. QED
      BY <2>2, <2>4, <2>5, <2>6, <3>1
  <2>8. PICK c \in Int : c = b - k + 1
    BY <1>7
  <2>9. c \in 2 .. m - k + 1 /\ c \in 1 .. m - k + 1 /\ (c - 1) + k = b
    BY <1>7, <2>4, <2>6, <2>7, <2>8
  <2>10. g[c] = j
    BY <1>13, <2>6, <2>9
  <2>11. QED
    BY <1>16, <2>9, <2>10
<1>20. Embeds(w, ms, g, V)
  BY <1>9, <1>15, <1>16, <1>17 DEF Embeds
<1>21. system(ms) \o SubSeq(rest(ms), k + 1, Len(rest(ms))) = w
  BY <1>4 DEF w, tail, r
<1>22. Len(w) = Len(rest(ms)) - k + 1
  BY <1>7, <1>9 DEF r
<1>23. QED
  BY <1>9, <1>18, <1>19, <1>20, <1>21, <1>22

\* The messages of ms at V are the first one and the last ones.
Suffix(ms, V) ==
  /\ V \subseteq DOMAIN ms
  /\ 1 \in V
  /\ \A i \in V \ {1}, j \in DOMAIN ms : i < j => j \in V

\* What trim_to_budget returns, whether it cuts or not: of the first message and
\* the last ones, those that stand.
LEMMA WindowIs ==
  ASSUME NEW ms, Headed(ms), \A i \in DOMAIN ms : ms[i].answers \subseteq valid_ids(ms)
  PROVE  LET w == trim_to_budget(ms)
         IN  /\ w \in Seq(Message)
             /\ \E h, V : Suffix(ms, V) /\ Embeds(w, ms, h, Standing(ms, V))
<1>1. ms \in Seq(Message) /\ DOMAIN ms \subseteq Nat /\ 1 \in DOMAIN ms
  BY DEF Headed
<1>2. CASE estimate_messages_tokens(ms) <= Budget
  <2> DEFINE V == DOMAIN ms
             h == [i \in V |-> i]
  <2>1. Suffix(ms, V)
    BY <1>1 DEF Suffix
  <2>2. Standing(ms, V) = V
    BY DEF Standing, CallsAt, valid_ids
  <2>3. Embeds(ms, ms, h, V)
    BY DEF Embeds
  <2>4. trim_to_budget(ms) = ms
    BY <1>2 DEF trim_to_budget
  <2> HIDE DEF V, h
  <2>5. QED
    BY <1>1, <2>1, <2>2, <2>3, <2>4
<1>3. CASE ~(estimate_messages_tokens(ms) <= Budget)
  <2> DEFINE r == rest(ms)
             k == Popped(system(ms), r)
             w == system(ms) \o SubSeq(r, k + 1, Len(r))
  <2>1. r \in Seq(Message)
    <3> DEFINE L == {i \in DOMAIN ms : ~IsSystem(ms[i])}
    <3>1. L \in SUBSET DOMAIN ms /\ r = selected(ms, L)
      BY DEF rest
    <3> HIDE DEF L, r
    <3>2. QED
      BY <1>1, <3>1, SelectedIs
  <2>2. k \in 0 .. Len(r)
    <3> HIDE DEF r
    <3>1. QED
      BY <2>1, PoppedIs
  <2>3. trim_to_budget(ms) = repaired(w)
    BY <1>3 DEF trim_to_budget
  <2>4. w \in Seq(Message) /\ \E g, V : Embeds(w, ms, g, V) /\ Suffix(ms, V)
    <3> HIDE DEF k
    <3>1. QED
      BY <2>2, PoppedLeaves DEF Suffix
  <2> HIDE DEF r, k, w
  <2>5. PICK g, V : Embeds(w, ms, g, V) /\ Suffix(ms, V)
    BY <2>4
  <2>6. V \in SUBSET Nat
    BY <1>1, <2>5 DEF Suffix
  <2>7. repaired(w) \in Seq(Message) /\ \E h : Embeds(repaired(w), ms, h, Standing(ms, V))
    BY <2>4, <2>5, <2>6, RepairedIs
  <2>8. QED
    BY <2>3, <2>5, <2>7
<1>4. QED
  BY <1>2, <1>3

\* What holds of the transcript at every turn, whoever names the calls.
Paired(ms) ==
  /\ Headed(ms)
  /\ \A i \in DOMAIN ms :
       /\ ms[i].calls # {} => ms[i].role = "assistant"
       /\ ms[i].answers # {} <=> ms[i].role = "tool"
       /\ \E id \in Identifiers : ms[i].answers \subseteq {id}
       /\ ms[i].answers \subseteq valid_ids(ms)
  /\ \A c \in DOMAIN ms : \A id \in ms[c].calls :
       \E i \in DOMAIN ms : c < i /\ ms[i].answers = {id}

\* What holds besides when the provider names them: a result follows the message
\* that made its call, and no other message made it.
Led(ms, t) ==
  /\ \A i \in DOMAIN ms : ms[i].role = "tool" =>
       \E c \in DOMAIN ms :
         /\ c < i
         /\ ms[i].answers \subseteq ms[c].calls
         /\ \A k \in DOMAIN ms : c < k /\ k < i => ms[k].role = "tool"
  /\ \A c, d \in DOMAIN ms : \A id \in ms[c].calls : id \in ms[d].calls => c = d
  /\ \A c \in DOMAIN ms : \A id \in ms[c].calls : id[1] < t

\* The window begins with the system prompt, and has no other.
LEMMA WindowHeaded ==
  ASSUME NEW ms, Headed(ms), NEW w \in Seq(Message), NEW V, Suffix(ms, V),
         NEW h, Embeds(w, ms, h, Standing(ms, V)), ms[1].answers = {}
  PROVE  Headed(w)
<1>1. PICK n \in Nat : n = Len(w) /\ DOMAIN w = 1 .. n
  OBVIOUS
<1>2. 1 \in Standing(ms, V)
  BY DEF Suffix, Standing
<1>3. PICK a \in 1 .. n : h[a] = 1
  BY <1>1, <1>2 DEF Embeds
<1>4. \A j \in 1 .. n : h[j] \in DOMAIN ms /\ h[j] \in Nat /\ 1 <= h[j] /\ w[j] = ms[h[j]]
  <2>1. \A i \in DOMAIN ms : i \in Nat /\ 1 <= i
    BY DEF Headed
  <2>2. \A j \in 1 .. n : h[j] \in DOMAIN ms /\ w[j] = ms[h[j]]
    BY <1>1 DEF Embeds, Standing, Suffix
  <2>3. QED
    BY <2>1, <2>2
<1>5. n # 0 /\ 1 \in 1 .. n
  BY <1>3
<1>6. ~(1 < a)
  <2>1. 1 < a => h[1] < h[a]
    BY <1>1, <1>5 DEF Embeds
  <2>2. QED
    BY <1>3, <1>4, <1>5, <2>1
<1>7. a = 1
  BY <1>3, <1>6
<1>8. ASSUME NEW j \in 1 .. n PROVE h[j] = 1 <=> j = 1
  <2>1. j # 1 => 1 < j
    OBVIOUS
  <2>2. 1 < j => h[1] < h[j]
    BY <1>1, <1>5 DEF Embeds
  <2>3. QED
    BY <1>3, <1>7, <2>1, <2>2
<1>9. \A j \in 1 .. n : IsSystem(w[j]) <=> j = 1
  BY <1>4, <1>8 DEF Headed
<1>10. QED
  BY <1>1, <1>5, <1>9 DEF Headed

\* Of the messages at W, a later one is the result of the call id made at c.
HasResult(ms, W, c, id) == \E i \in W : c < i /\ ms[i].answers = {id}

\* What a paired transcript says of the messages that stand in a suffix of it.
LEMMA WhatStands ==
  ASSUME NEW ms, Paired(ms), NEW V, Suffix(ms, V)
  PROVE  /\ \A c \in V : ms[c].calls # {} => c \in Standing(ms, V)
         /\ \A c \in V : \A id \in ms[c].calls : HasResult(ms, Standing(ms, V), c, id)
<1>1. \A c \in V : c \in DOMAIN ms /\ c \in Nat /\ 1 \in DOMAIN ms
  BY DEF Suffix, Paired, Headed
<1>2. \A c \in V : ms[c].calls # {} => c # 1 /\ ms[c].answers = {}
  <2>1. TAKE c \in V
  <2>2. HAVE ms[c].calls # {}
  <2>3. ms[c].role = "assistant"
    BY <1>1, <2>2 DEF Paired
  <2>4. ms[c].answers = {}
    BY <1>1, <2>3 DEF Paired
  <2>5. ms[1].role = "system"
    BY <1>1 DEF Paired, Headed, IsSystem
  <2>6. QED
    BY <2>3, <2>4, <2>5
<1>3. \A c \in V : ms[c].calls # {} => c \in Standing(ms, V)
  BY <1>2 DEF Standing
<1>4. ASSUME NEW c \in V, NEW id \in ms[c].calls
      PROVE  HasResult(ms, Standing(ms, V), c, id)
  <2>1. PICK i \in DOMAIN ms : c < i /\ ms[i].answers = {id}
    BY <1>1 DEF Paired
  <2>2. c # 1
    BY <1>2
  <2>3. i \in V
    BY <2>1, <2>2 DEF Suffix
  <2>4. id \in CallsAt(ms, V)
    BY DEF CallsAt
  <2>5. i \in Standing(ms, V)
    BY <2>1, <2>3, <2>4 DEF Standing
  <2>6. QED
    BY <2>1, <2>5 DEF HasResult
<1>5. QED
  BY <1>3, <1>4

\* Pairs survive a cut.
LEMMA WindowPaired ==
  ASSUME NEW ms, Paired(ms), NEW w \in Seq(Message), NEW V, Suffix(ms, V),
         NEW h, Embeds(w, ms, h, Standing(ms, V))
  PROVE  Paired(w)
<1>1. Headed(w)
  <2>1. Headed(ms) /\ ms[1].answers = {}
    <3>1. 1 \in DOMAIN ms /\ IsSystem(ms[1])
      BY DEF Paired, Headed
    <3>2. ms[1].role # "tool"
      BY <3>1 DEF IsSystem
    <3>3. QED
      BY <3>1, <3>2 DEF Paired
  <2>2. QED
    BY <2>1, WindowHeaded
<1>2. \A j \in DOMAIN w : h[j] \in DOMAIN ms /\ h[j] \in Standing(ms, V) /\ h[j] \in V /\ w[j] = ms[h[j]]
  BY DEF Embeds, Standing, Suffix
<1>3. \A i \in Standing(ms, V) : \E j \in DOMAIN w : h[j] = i
  BY DEF Embeds
<1>4. \A c \in V : ms[c].calls # {} => c \in Standing(ms, V)
  BY WhatStands
<1>5. \A c \in V : \A id \in ms[c].calls : HasResult(ms, Standing(ms, V), c, id)
  BY WhatStands
<1>6. \A a, b \in DOMAIN w : h[a] < h[b] => a < b
  <2>1. Standing(ms, V) \in SUBSET Nat /\ DOMAIN w \subseteq Nat
    BY DEF Standing, Suffix, Paired, Headed
  <2>2. QED
    BY <2>1, EmbedsOrder
<1>7. ASSUME NEW j \in DOMAIN w
      PROVE  /\ w[j].calls # {} => w[j].role = "assistant"
             /\ w[j].answers # {} <=> w[j].role = "tool"
             /\ \E id \in Identifiers : w[j].answers \subseteq {id}
             /\ w[j].answers \subseteq valid_ids(w)
  <2>1. h[j] \in DOMAIN ms /\ w[j] = ms[h[j]] /\ ms[h[j]].answers \subseteq CallsAt(ms, V)
    BY <1>2 DEF Standing
  <2>2. ASSUME NEW id \in w[j].answers PROVE id \in valid_ids(w)
    <3>1. PICK c \in V : id \in ms[c].calls
      BY <2>1, <2>2 DEF CallsAt
    <3>2. PICK b \in DOMAIN w : h[b] = c
      BY <1>3, <1>4, <3>1
    <3>3. id \in w[b].calls
      BY <1>2, <3>1, <3>2
    <3>4. QED
      BY <3>3 DEF valid_ids
  <2>3. /\ ms[h[j]].calls # {} => ms[h[j]].role = "assistant"
        /\ ms[h[j]].answers # {} <=> ms[h[j]].role = "tool"
        /\ \E id \in Identifiers : ms[h[j]].answers \subseteq {id}
    BY <2>1 DEF Paired
  <2>4. QED
    BY <2>1, <2>2, <2>3
<1>8. ASSUME NEW c \in DOMAIN w, NEW id \in w[c].calls
      PROVE  \E i \in DOMAIN w : c < i /\ w[i].answers = {id}
  <2>1. PICK i \in Standing(ms, V) : h[c] < i /\ ms[i].answers = {id}
    BY <1>2, <1>5 DEF HasResult
  <2>2. PICK b \in DOMAIN w : h[b] = i
    BY <1>3
  <2>3. QED
    BY <1>2, <1>6, <2>1, <2>2
<1>9. QED
  BY <1>1, <1>7, <1>8 DEF Paired

\* So does the lead of a call over its results.
LEMMA WindowLed ==
  ASSUME NEW ms, Paired(ms), NEW t, Led(ms, t), NEW w \in Seq(Message), NEW V, Suffix(ms, V),
         NEW h, Embeds(w, ms, h, Standing(ms, V))
  PROVE  Led(w, t)
<1>1. \A j \in DOMAIN w : h[j] \in DOMAIN ms /\ h[j] \in Standing(ms, V) /\ h[j] \in V /\ w[j] = ms[h[j]]
  BY DEF Embeds, Standing, Suffix
<1>2. \A i \in Standing(ms, V) : \E j \in DOMAIN w : h[j] = i
  BY DEF Embeds
<1>3. \A c \in V : ms[c].calls # {} => c \in Standing(ms, V)
  BY WhatStands
<1>4. \A a, b \in DOMAIN w : a < b => h[a] < h[b]
  BY DEF Embeds
<1>5. \A a, b \in DOMAIN w : h[a] < h[b] => a < b
  <2>1. Standing(ms, V) \in SUBSET Nat /\ DOMAIN w \subseteq Nat
    BY DEF Standing, Suffix, Paired, Headed
  <2>2. QED
    BY <2>1, EmbedsOrder
<1>6. ASSUME NEW i \in DOMAIN w, w[i].role = "tool"
      PROVE  \E c \in DOMAIN w :
               /\ c < i
               /\ w[i].answers \subseteq w[c].calls
               /\ \A k \in DOMAIN w : c < k /\ k < i => w[k].role = "tool"
  <2>1. h[i] \in DOMAIN ms /\ w[i] = ms[h[i]] /\ ms[h[i]].role = "tool"
    BY <1>1, <1>6
  <2>2. PICK c \in DOMAIN ms :
          /\ c < h[i]
          /\ ms[h[i]].answers \subseteq ms[c].calls
          /\ \A k \in DOMAIN ms : c < k /\ k < h[i] => ms[k].role = "tool"
    BY <2>1 DEF Led
  <2>3. ms[h[i]].answers # {} /\ ms[h[i]].answers \subseteq CallsAt(ms, V)
    BY <1>1, <2>1 DEF Paired, Standing
  <2>4. PICK id : id \in ms[h[i]].answers
    BY <2>3
  <2>5. PICK d \in V : id \in ms[d].calls
    BY <2>3, <2>4 DEF CallsAt
  <2>6. d \in DOMAIN ms
    BY DEF Suffix
  <2>7. c = d
    BY <2>2, <2>4, <2>5, <2>6 DEF Led
  <2>8. c \in Standing(ms, V)
    BY <1>3, <2>5, <2>7
  <2>9. PICK b \in DOMAIN w : h[b] = c
    BY <1>2, <2>8
  <2>10. b < i /\ w[i].answers \subseteq w[b].calls
    BY <1>1, <1>5, <2>1, <2>2, <2>9
  <2>11. \A k \in DOMAIN w : b < k /\ k < i => w[k].role = "tool"
    BY <1>1, <1>4, <2>2, <2>9
  <2>12. QED
    BY <2>10, <2>11
<1>7. ASSUME NEW c \in DOMAIN w, NEW d \in DOMAIN w, NEW id \in w[c].calls, id \in w[d].calls
      PROVE  c = d
  <2>1. h[c] = h[d]
    BY <1>1, <1>7 DEF Led
  <2>2. c \in Nat /\ d \in Nat /\ h[c] \in Nat
    BY <1>1 DEF Paired, Headed
  <2>3. ~(c < d) /\ ~(d < c)
    BY <1>4, <2>1, <2>2
  <2>4. QED
    BY <2>2, <2>3
<1>8. \A c \in DOMAIN w : \A id \in w[c].calls : id[1] < t
  BY <1>1 DEF Led
<1>9. QED
  BY <1>6, <1>7, <1>8 DEF Led

\* v is w, a reply with the n calls id, their results in order, and perhaps a
\* message of the user.
Extends(v, w, n, id) ==
  /\ v \in Seq(Message)
  /\ Len(v) \in {Len(w) + 1 + n, Len(w) + 2 + n}
  /\ \A i \in 1 .. Len(w) : v[i] = w[i]
  /\ v[Len(w) + 1].role = "assistant"
  /\ v[Len(w) + 1].answers = {}
  /\ v[Len(w) + 1].calls = {id[j] : j \in 1 .. n}
  /\ \A i \in Len(w) + 2 .. Len(w) + 1 + n :
       v[i].role = "tool" /\ v[i].calls = {} /\ v[i].answers = {id[i - Len(w) - 1]}
  /\ \A i \in Len(w) + 2 + n .. Len(v) :
       v[i].role = "user" /\ v[i].calls = {} /\ v[i].answers = {}

\* The messages of v and where they come from.
LEMMA WhereItIs ==
  ASSUME NEW w \in Seq(Message), NEW v, NEW n \in Nat, NEW id, Extends(v, w, n, id),
         NEW i \in DOMAIN v
  PROVE  /\ i \in DOMAIN w \/ i = Len(w) + 1 \/ i \in Len(w) + 2 .. Len(w) + 1 + n
            \/ i \in Len(w) + 2 + n .. Len(v)
         /\ i \in Nat /\ Len(w) \in Nat
<1>1. Len(w) \in Nat /\ DOMAIN w = 1 .. Len(w)
  OBVIOUS
<1>2. v \in Seq(Message) /\ Len(v) \in {Len(w) + 1 + n, Len(w) + 2 + n}
  BY DEF Extends
<1>3. PICK m \in Nat : m = Len(w) /\ DOMAIN w = 1 .. m
  BY <1>1
<1>4. PICK l \in Nat : l = Len(v) /\ DOMAIN v = 1 .. l
  BY <1>2
<1>5. l = m + 1 + n \/ l = m + 2 + n
  BY <1>2, <1>3, <1>4
<1>6. i \in 1 .. m \/ i = m + 1 \/ i \in m + 2 .. m + 1 + n \/ i \in m + 2 + n .. l
  BY <1>3, <1>4, <1>5
<1>7. QED
  BY <1>3, <1>4, <1>6

\* The messages of w are in v where they were.
LEMMA ExtendedInside ==
  ASSUME NEW w \in Seq(Message), NEW v, NEW n \in Nat, NEW id, Extends(v, w, n, id)
  PROVE  /\ \A i \in DOMAIN w : i \in DOMAIN v /\ v[i] = w[i] /\ i \in 1 .. Len(w)
         /\ \A i \in Len(w) + 1 .. Len(w) + 1 + n : i \in DOMAIN v
         /\ Len(w) + 1 \in DOMAIN v
         /\ Len(w) \in Nat
<1>1. Len(w) \in Nat /\ DOMAIN w = 1 .. Len(w)
  OBVIOUS
<1>2. v \in Seq(Message) /\ Len(v) \in {Len(w) + 1 + n, Len(w) + 2 + n}
  BY DEF Extends
<1>3. PICK m \in Nat : m = Len(w) /\ DOMAIN w = 1 .. m
  BY <1>1
<1>4. PICK l \in Nat : l = Len(v) /\ DOMAIN v = 1 .. l
  BY <1>2
<1>5. l = m + 1 + n \/ l = m + 2 + n
  BY <1>2, <1>3, <1>4
<1>6. \A i \in 1 .. m : v[i] = w[i]
  BY <1>3 DEF Extends
<1>7. /\ \A i \in 1 .. m : i \in 1 .. l
      /\ \A i \in m + 1 .. m + 1 + n : i \in 1 .. l
      /\ m + 1 \in 1 .. l
  BY <1>3, <1>4, <1>5
<1>8. QED
  BY <1>3, <1>4, <1>6, <1>7

\* A step of the loop keeps pairs.
LEMMA ExtensionPaired ==
  ASSUME NEW w, Paired(w), NEW v, NEW n \in Nat, NEW id \in [1 .. n -> Identifiers],
         Extends(v, w, n, id)
  PROVE  Paired(v)
<1> DEFINE m == Len(w)
<1>1. w \in Seq(Message)
  BY DEF Paired, Headed
<1>2. /\ \A i \in DOMAIN w : i \in DOMAIN v /\ v[i] = w[i] /\ i \in 1 .. m
      /\ \A i \in m + 1 .. m + 1 + n : i \in DOMAIN v
      /\ m + 1 \in DOMAIN v
      /\ m \in Nat
  BY <1>1, ExtendedInside
<1>3. \A i \in DOMAIN v : \/ i \in DOMAIN w \/ i = m + 1 \/ i \in m + 2 .. m + 1 + n
                          \/ i \in m + 2 + n .. Len(v)
  BY <1>1, WhereItIs
<1>4. /\ v[m + 1].role = "assistant" /\ v[m + 1].answers = {}
      /\ v[m + 1].calls = {id[j] : j \in 1 .. n}
  BY DEF Extends
<1>5. \A i \in m + 2 .. m + 1 + n :
        v[i].role = "tool" /\ v[i].calls = {} /\ v[i].answers = {id[i - m - 1]} /\ i - m - 1 \in 1 .. n
  BY <1>2 DEF Extends
<1>6. \A i \in m + 2 + n .. Len(v) : v[i].role = "user" /\ v[i].calls = {} /\ v[i].answers = {}
  BY DEF Extends
<1>7. 1 \in DOMAIN w /\ m # 0
  BY DEF Paired, Headed
<1> HIDE DEF m
<1>8. ASSUME NEW i \in DOMAIN v PROVE IsSystem(v[i]) <=> i = 1
  <2>1. CASE i \in DOMAIN w
    BY <1>2, <2>1 DEF Paired, Headed
  <2>2. CASE i = m + 1 \/ i \in m + 2 .. m + 1 + n \/ i \in m + 2 + n .. Len(v)
    <3>1. v[i].role # "system"
      BY <1>4, <1>5, <1>6, <2>2
    <3>2. i # 1
      BY <1>2, <1>7, <2>2
    <3>3. QED
      BY <3>1, <3>2 DEF IsSystem
  <2>3. QED
    BY <1>3, <2>1, <2>2
<1>9. Headed(v)
  <2>1. v \in Seq(Message) /\ Len(v) # 0
    BY <1>2 DEF Extends
  <2>2. QED
    BY <1>8, <2>1 DEF Headed
<1>10. ASSUME NEW i \in DOMAIN v
       PROVE  /\ v[i].calls # {} => v[i].role = "assistant"
              /\ v[i].answers # {} <=> v[i].role = "tool"
              /\ \E x \in Identifiers : v[i].answers \subseteq {x}
              /\ v[i].answers \subseteq valid_ids(v)
  <2>1. CASE i \in DOMAIN w
    <3>1. valid_ids(w) \subseteq valid_ids(v)
      <4>1. ASSUME NEW x \in valid_ids(w) PROVE x \in valid_ids(v)
        <5>1. PICK c \in DOMAIN w : x \in w[c].calls
          BY DEF valid_ids
        <5>2. c \in DOMAIN v /\ x \in v[c].calls
          BY <1>2, <5>1
        <5>3. QED
          BY <5>2 DEF valid_ids
      <4>2. QED
        BY <4>1
    <3>2. /\ w[i].calls # {} => w[i].role = "assistant"
          /\ w[i].answers # {} <=> w[i].role = "tool"
          /\ \E x \in Identifiers : w[i].answers \subseteq {x}
          /\ w[i].answers \subseteq valid_ids(w)
      BY <2>1 DEF Paired
    <3>3. v[i] = w[i]
      BY <1>2, <2>1
    <3>4. QED
      BY <3>1, <3>2, <3>3
  <2>2. CASE i = m + 1
    <3>1. <<0, 0>> \in Identifiers
      BY DEF Identifiers
    <3>2. QED
      BY <1>4, <2>2, <3>1
  <2>3. CASE i \in m + 2 .. m + 1 + n
    <3>1. /\ v[i].role = "tool" /\ v[i].calls = {} /\ v[i].answers = {id[i - m - 1]}
          /\ i - m - 1 \in 1 .. n
      BY <1>5, <2>3
    <3>2. id[i - m - 1] \in Identifiers /\ id[i - m - 1] \in v[m + 1].calls
      BY <1>4, <3>1
    <3>3. id[i - m - 1] \in valid_ids(v)
      BY <1>2, <3>2 DEF valid_ids
    <3>4. QED
      BY <3>1, <3>2, <3>3
  <2>4. CASE i \in m + 2 + n .. Len(v)
    <3>1. <<0, 0>> \in Identifiers
      BY DEF Identifiers
    <3>2. QED
      BY <1>6, <2>4, <3>1
  <2>5. QED
    BY <1>3, <2>1, <2>2, <2>3, <2>4
<1>11. ASSUME NEW c \in DOMAIN v, NEW x \in v[c].calls
       PROVE  \E i \in DOMAIN v : c < i /\ v[i].answers = {x}
  <2>1. CASE c \in DOMAIN w
    <3>1. x \in w[c].calls
      BY <1>2, <2>1
    <3>2. PICK i \in DOMAIN w : c < i /\ w[i].answers = {x}
      BY <2>1, <3>1 DEF Paired
    <3>3. QED
      BY <1>2, <3>2
  <2>2. CASE c = m + 1
    <3>1. PICK j \in 1 .. n : x = id[j]
      BY <1>4, <2>2
    <3>2. PICK i \in Nat : i = m + 1 + j
      BY <1>2
    <3>3. i \in m + 2 .. m + 1 + n /\ i - m - 1 = j /\ c < i /\ i \in m + 1 .. m + 1 + n
      BY <1>2, <2>2, <3>2
    <3>4. QED
      BY <1>2, <1>5, <3>1, <3>3
  <2>3. CASE c \in m + 2 .. m + 1 + n \/ c \in m + 2 + n .. Len(v)
    BY <1>5, <1>6, <2>3
  <2>4. QED
    BY <1>3, <2>1, <2>2, <2>3
<1>12. QED
  BY <1>9, <1>10, <1>11 DEF Paired

\* Identifiers that carry the turn lead only the results of this step.
LEMMA ExtensionLed ==
  ASSUME NEW w, Paired(w), NEW t \in Nat, Led(w, t), NEW v, NEW n \in Nat, NEW id,
         Extends(v, w, n, id), \A j \in 1 .. n : id[j] = <<t, j>>
  PROVE  Led(v, t + 1)
<1> DEFINE m == Len(w)
<1>1. w \in Seq(Message)
  BY DEF Paired, Headed
<1>2. /\ \A i \in DOMAIN w : i \in DOMAIN v /\ v[i] = w[i] /\ i \in 1 .. m
      /\ \A i \in m + 1 .. m + 1 + n : i \in DOMAIN v
      /\ m + 1 \in DOMAIN v
      /\ m \in Nat /\ DOMAIN w = 1 .. m
  BY <1>1, ExtendedInside
<1>3. \A i \in DOMAIN v : \/ i \in DOMAIN w \/ i = m + 1 \/ i \in m + 2 .. m + 1 + n
                          \/ i \in m + 2 + n .. Len(v)
  BY <1>1, WhereItIs
<1>4. /\ v[m + 1].role = "assistant"
      /\ v[m + 1].calls = {id[j] : j \in 1 .. n}
  BY DEF Extends
<1>5. \A i \in m + 2 .. m + 1 + n :
        v[i].role = "tool" /\ v[i].calls = {} /\ v[i].answers = {id[i - m - 1]} /\ i - m - 1 \in 1 .. n
  BY <1>2 DEF Extends
<1>6. \A i \in m + 2 + n .. Len(v) : v[i].role = "user" /\ v[i].calls = {}
  BY DEF Extends
<1> HIDE DEF m
<1>7. ASSUME NEW c \in DOMAIN v, NEW x \in v[c].calls
      PROVE  \/ c \in DOMAIN w /\ x \in w[c].calls /\ x[1] < t
             \/ c = m + 1 /\ x[1] = t
  <2>1. CASE c \in DOMAIN w
    BY <1>2, <2>1 DEF Led
  <2>2. CASE c = m + 1
    <3>1. PICK j \in 1 .. n : x = id[j]
      BY <1>4, <2>2
    <3>2. QED
      BY <2>2, <3>1
  <2>3. CASE c \in m + 2 .. m + 1 + n \/ c \in m + 2 + n .. Len(v)
    BY <1>5, <1>6, <2>3
  <2>4. QED
    BY <1>3, <2>1, <2>2, <2>3
<1>8. ASSUME NEW i \in DOMAIN v, v[i].role = "tool"
      PROVE  \E c \in DOMAIN v :
               /\ c < i
               /\ v[i].answers \subseteq v[c].calls
               /\ \A k \in DOMAIN v : c < k /\ k < i => v[k].role = "tool"
  <2>1. CASE i \in DOMAIN w
    <3>1. w[i].role = "tool"
      BY <1>2, <1>8, <2>1
    <3>2. PICK c \in DOMAIN w :
            /\ c < i
            /\ w[i].answers \subseteq w[c].calls
            /\ \A k \in DOMAIN w : c < k /\ k < i => w[k].role = "tool"
      BY <2>1, <3>1 DEF Led
    <3>3. ASSUME NEW k \in DOMAIN v, c < k, k < i PROVE v[k].role = "tool"
      <4>1. k \in DOMAIN w
        <5>1. k \in Nat
          BY <1>1, WhereItIs
        <5>2. QED
          BY <1>2, <2>1, <3>2, <3>3, <5>1
      <4>2. QED
        BY <1>2, <3>2, <3>3, <4>1
    <3>4. QED
      BY <1>2, <2>1, <3>2, <3>3
  <2>2. CASE i = m + 1 \/ i \in m + 2 + n .. Len(v)
    BY <1>4, <1>6, <1>8, <2>2
  <2>3. CASE i \in m + 2 .. m + 1 + n
    <3>1. m + 1 < i
      BY <1>2, <2>3
    <3>2. v[i].answers \subseteq v[m + 1].calls
      BY <1>4, <1>5, <2>3
    <3>3. ASSUME NEW k \in DOMAIN v, m + 1 < k, k < i PROVE v[k].role = "tool"
      <4>1. k \in Nat
        BY <1>1, WhereItIs
      <4>2. k \in m + 2 .. m + 1 + n
        BY <1>2, <2>3, <3>3, <4>1
      <4>3. QED
        BY <1>5, <4>2
    <3>4. QED
      BY <1>2, <3>1, <3>2, <3>3
  <2>4. QED
    BY <1>3, <2>1, <2>2, <2>3
<1>9. ASSUME NEW c \in DOMAIN v, NEW x \in v[c].calls PROVE x[1] < t + 1
  <2>1. CASE c = m + 1 /\ x[1] = t
    BY <2>1
  <2>2. CASE c \in DOMAIN w /\ x \in w[c].calls /\ x[1] < t
    <3>1. w[c] \in Message
      BY <1>1, <2>2
    <3>2. x \in Identifiers
      BY <2>2, <3>1 DEF Message
    <3>3. x[1] \in Nat
      BY <3>2 DEF Identifiers
    <3>4. QED
      BY <2>2, <3>3
  <2>3. QED
    BY <1>7, <2>1, <2>2
<1>10. ASSUME NEW c \in DOMAIN v, NEW d \in DOMAIN v, NEW x \in v[c].calls, x \in v[d].calls
       PROVE  c = d
  <2>1. \/ c \in DOMAIN w /\ x \in w[c].calls /\ x[1] < t
        \/ c = m + 1 /\ x[1] = t
    BY <1>7
  <2>2. \/ d \in DOMAIN w /\ x \in w[d].calls /\ x[1] < t
        \/ d = m + 1 /\ x[1] = t
    BY <1>7, <1>10
  <2>3. ~(t < t)
    OBVIOUS
  <2>4. CASE c \in DOMAIN w /\ x \in w[c].calls /\ d \in DOMAIN w /\ x \in w[d].calls
    BY <2>4 DEF Led
  <2>5. QED
    BY <2>1, <2>2, <2>3, <2>4
<1>11. QED
  BY <1>8, <1>9, <1>10 DEF Led

\* v is w, a, q and e, one after the other.
IsConcat(v, w, a, q, e) ==
  /\ v \in Seq(Message)
  /\ Len(v) = Len(w) + 1 + Len(q) + Len(e)
  /\ \A i \in 1 .. Len(w) : v[i] = w[i]
  /\ v[Len(w) + 1] = a
  /\ \A i \in Len(w) + 2 .. Len(w) + 1 + Len(q) : v[i] = q[i - Len(w) - 1]
  /\ \A i \in Len(w) + 2 + Len(q) .. Len(v) : v[i] = e[i - Len(w) - 1 - Len(q)]

\* Where the parts of a concatenation are.
LEMMA ConcatIs ==
  ASSUME NEW w \in Seq(Message), NEW a \in Message, NEW q \in Seq(Message),
         NEW e \in Seq(Message)
  PROVE  IsConcat(w \o <<a>> \o q \o e, w, a, q, e)
<1> HIDE DEF Message
<1> DEFINE S == Message
<1>1. PICK m \in Nat : m = Len(w)
  OBVIOUS
<1>2. PICK k \in Nat : k = Len(q)
  OBVIOUS
<1>3. PICK l \in Nat : l = Len(e)
  OBVIOUS
<1> DEFINE x == w \o <<a>>
           y == x \o q
           v == y \o e
<1>4. x \in Seq(S) /\ Len(x) = m + 1 /\ x[m + 1] = a /\ \A i \in 1 .. m : x[i] = w[i]
  BY <1>1
<1> HIDE DEF x
<1>5. /\ y \in Seq(S) /\ Len(y) = m + 1 + k /\ \A i \in 1 .. m + 1 : y[i] = x[i]
      /\ \A i \in m + 2 .. m + 1 + k : y[i] = q[i - (m + 1)]
  <2>1. /\ y \in Seq(S) /\ Len(y) = Len(x) + Len(q)
        /\ \A i \in 1 .. Len(x) + Len(q) :
             y[i] = IF i <= Len(x) THEN x[i] ELSE q[i - Len(x)]
    BY <1>4, ConcatProperties
  <2> HIDE DEF y
  <2>2. QED
    BY <1>2, <1>4, <2>1
<1> HIDE DEF y
<1>6. /\ v \in Seq(S) /\ Len(v) = m + 1 + k + l /\ \A i \in 1 .. m + 1 + k : v[i] = y[i]
      /\ \A i \in m + 2 + k .. m + 1 + k + l : v[i] = e[i - (m + 1 + k)]
  <2>1. /\ v \in Seq(S) /\ Len(v) = Len(y) + Len(e)
        /\ \A i \in 1 .. Len(y) + Len(e) :
             v[i] = IF i <= Len(y) THEN y[i] ELSE e[i - Len(y)]
    BY <1>5, ConcatProperties
  <2> HIDE DEF v
  <2>2. QED
    BY <1>3, <1>5, <2>1
<1> HIDE DEF v
<1>7. /\ \A i \in 1 .. m : i \in 1 .. m + 1 /\ i \in 1 .. m + 1 + k
      /\ m + 1 \in 1 .. m + 1 /\ m + 1 \in 1 .. m + 1 + k
      /\ \A i \in m + 2 .. m + 1 + k : i \in 1 .. m + 1 + k /\ i - (m + 1) = i - m - 1
      /\ \A i \in m + 2 + k .. m + 1 + k + l : i - (m + 1 + k) = i - m - 1 - k
  OBVIOUS
<1>8. /\ \A i \in 1 .. m : v[i] = w[i]
      /\ v[m + 1] = a
      /\ \A i \in m + 2 .. m + 1 + k : v[i] = q[i - m - 1]
      /\ \A i \in m + 2 + k .. Len(v) : v[i] = e[i - m - 1 - k]
  BY <1>4, <1>5, <1>6, <1>7
<1>9. v \in Seq(S) /\ Len(v) = m + 1 + k + l
  BY <1>6
<1>10. v = w \o <<a>> \o q \o e
  BY DEF v, y, x
<1>11. QED
  BY <1>1, <1>2, <1>3, <1>8, <1>9, <1>10 DEF IsConcat

\* The inductive invariant: it is about the transcript, and the lemmas above carry
\* it to the window.
ContextInv ==
  /\ turn \in 0 .. MaxTurns
  /\ naming \in Namings
  /\ Paired(messages)
  /\ naming = "provider" => Led(messages, turn)

\* The invariant goes from the transcript to the window.
LEMMA WindowInv ==
  ASSUME ContextInv
  PROVE  Paired(Window) /\ (naming = "provider" => Led(Window, turn))
<1>1. Paired(messages) /\ Headed(messages)
  BY DEF ContextInv, Paired
<1>2. \A i \in DOMAIN messages : messages[i].answers \subseteq valid_ids(messages)
  BY <1>1 DEF Paired
<1>3. /\ Window \in Seq(Message)
      /\ \E h, V : Suffix(messages, V) /\ Embeds(Window, messages, h, Standing(messages, V))
  BY <1>1, <1>2, WindowIs DEF Window
<1>4. PICK h, V : Suffix(messages, V) /\ Embeds(Window, messages, h, Standing(messages, V))
  BY <1>3
<1>5. Paired(Window)
  BY <1>1, <1>3, <1>4, WindowPaired
<1>6. ASSUME naming = "provider" PROVE Led(Window, turn)
  <2>1. Led(messages, turn)
    BY <1>6 DEF ContextInv
  <2>2. QED
    BY <1>1, <1>3, <1>4, <2>1, WindowLed
<1>7. QED
  BY <1>5, <1>6

\* The system prompt and the task are a paired transcript.
LEMMA ContextStarts == ContextInit => ContextInv
<1> SUFFICES ASSUME ContextInit PROVE ContextInv
  OBVIOUS
<1>2. PICK size \in Sizes : messages = <<System(1), User(size)>>
  BY Zenon DEF ContextInit
<1>3. size \in Nat
  BY SizesAssumption
<1>4. System(1) \in Message /\ User(size) \in Message
  BY <1>3 DEF System, User, Message, Roles
<1>5. /\ messages \in Seq(Message) /\ Len(messages) = 2 /\ DOMAIN messages = 1 .. 2
      /\ messages[1] = System(1) /\ messages[2] = User(size)
  BY <1>2, <1>4
<1>6. \A i \in DOMAIN messages : i = 1 \/ i = 2
  BY <1>5
<1>7. \A i \in DOMAIN messages : /\ IsSystem(messages[i]) <=> i = 1
                                 /\ messages[i].calls = {} /\ messages[i].answers = {}
                                 /\ messages[i].role # "tool"
  BY <1>5, <1>6 DEF System, User, IsSystem
<1>8. Headed(messages)
  BY <1>5, <1>7 DEF Headed
<1>9. <<0, 0>> \in Identifiers
  BY DEF Identifiers
<1>10. Paired(messages)
  BY <1>7, <1>8, <1>9 DEF Paired
<1>11. Led(messages, turn)
  BY <1>7 DEF Led
<1>12. turn \in 0 .. MaxTurns /\ naming \in Namings
  BY TurnsAssumption DEF ContextInit
<1>13. QED
  BY <1>10, <1>11, <1>12 DEF ContextInv

\* What both kinds of turn share.
LEMMA TurnKeeps ==
  ASSUME ContextInv, turn < MaxTurns, turn' = turn + 1, UNCHANGED naming,
         NEW n \in Nat, NEW id \in [1 .. n -> Identifiers], Extends(messages', Window, n, id),
         naming = "provider" => \A j \in 1 .. n : id[j] = <<turn, j>>
  PROVE  ContextInv'
<1>1. Paired(Window) /\ (naming = "provider" => Led(Window, turn))
  BY WindowInv
<1>2. turn \in Nat /\ turn' \in 0 .. MaxTurns /\ naming' \in Namings
  BY TurnsAssumption DEF ContextInv
<1>3. Paired(messages')
  BY <1>1, ExtensionPaired
<1>4. naming = "provider" => Led(messages', turn + 1)
  BY <1>1, <1>2, ExtensionLed
<1>5. QED
  BY <1>2, <1>3, <1>4 DEF ContextInv, Paired, Led, Headed, valid_ids, IsSystem

\* A reply with calls, their results and perhaps the pressure message.
LEMMA ToolTurnKeeps ==
  ASSUME ContextInv, NEW n \in 1 .. MaxCalls, ToolTurn(n)
  PROVE  ContextInv'
<1>1. PICK size \in Sizes, sizes \in [1 .. n -> Sizes], id \in CallIds(n), pressed \in BOOLEAN :
        messages' = Window \o <<Assistant(size, {id[j] : j \in 1 .. n})>>
                      \o ToolResults(sizes, id)
                      \o (IF pressed THEN <<User(1)>> ELSE <<>>)
  BY DEF ToolTurn
<1> DEFINE a == Assistant(size, {id[j] : j \in 1 .. n})
           q == ToolResults(sizes, id)
           e == IF pressed THEN <<User(1)>> ELSE <<>>
<1>2. n \in Nat /\ turn \in Nat /\ naming \in Namings
  BY TurnsAssumption DEF ContextInv
<1>3. id \in [1 .. n -> Identifiers]
  <2>1. CASE naming = "provider"
    <3>1. id = [j \in 1 .. n |-> <<turn, j>>]
      BY <2>1 DEF CallIds
    <3>2. QED
      BY <1>2, <3>1 DEF Identifiers
  <2>2. CASE naming = "position"
    <3>1. id = [j \in 1 .. n |-> <<0, j>>]
      BY <2>2 DEF CallIds
    <3>2. QED
      BY <3>1 DEF Identifiers
  <2>3. CASE naming = "tool"
    <3>1. id \in [1 .. n -> {0} \X (1 .. 3)]
      BY <2>3 DEF CallIds
    <3>2. {0} \X (1 .. 3) \subseteq Identifiers
      BY DEF Identifiers
    <3>3. QED
      BY <3>1, <3>2
  <2>4. QED
    BY <1>2, <2>1, <2>2, <2>3 DEF Namings
<1>4. {id[j] : j \in 1 .. n} \subseteq Identifiers
  BY <1>3
<1>5. a \in Message /\ a.role = "assistant" /\ a.answers = {} /\ a.calls = {id[j] : j \in 1 .. n}
  BY <1>4, SizesAssumption DEF Assistant, Message, Roles
<1>6. /\ q \in Seq(Message) /\ Len(q) = n
      /\ \A j \in 1 .. n : q[j].role = "tool" /\ q[j].calls = {} /\ q[j].answers = {id[j]}
  <2>1. \A j \in 1 .. n : q[j] = Tool(sizes[j], id[j])
    BY DEF ToolResults
  <2>2. \A j \in 1 .. n : sizes[j] \in Nat /\ id[j] \in Identifiers
    BY <1>3, SizesAssumption
  <2>3. \A j \in 1 .. n : q[j] \in Message
    <3>1. TAKE j \in 1 .. n
    <3>2. \A i \in Identifiers : \A z \in Nat : Tool(z, i) \in Message
      BY DEF Tool, Message, Roles
    <3>3. QED
      BY <2>1, <2>2, <3>2
  <2>4. q = [j \in 1 .. n |-> q[j]]
    BY DEF ToolResults
  <2> HIDE DEF q
  <2>5. q \in Seq(Message) /\ Len(q) = n
    BY <1>2, <2>3, <2>4
  <2>6. QED
    BY <2>1, <2>5 DEF Tool
<1>7. /\ e \in Seq(Message) /\ Len(e) \in {0, 1}
      /\ \A j \in 1 .. Len(e) : e[j].role = "user" /\ e[j].calls = {} /\ e[j].answers = {}
  <2>1. User(1) \in Message
    BY DEF User, Message, Roles
  <2>2. CASE pressed
    <3>1. e = <<User(1)>>
      BY <2>2
    <3> HIDE DEF e
    <3>2. e \in Seq(Message) /\ Len(e) = 1 /\ e[1] = User(1)
      BY <2>1, <3>1
    <3>3. QED
      BY <3>2 DEF User
  <2>3. CASE ~pressed
    <3>1. e = <<>>
      BY <2>3
    <3> HIDE DEF e
    <3>2. QED
      BY <3>1
  <2>4. QED
    BY <2>2, <2>3
<1>8. Window \in Seq(Message) /\ messages' = Window \o <<a>> \o q \o e
  BY <1>1, WindowInv DEF Paired, Headed
<1> HIDE DEF a, q, e
<1> DEFINE w == Window
<1>9. Extends(messages', w, n, id)
  <2> DEFINE v == w \o <<a>> \o q \o e
             m == Len(w)
             l == Len(e)
  <2> HIDE DEF w
  <2>1. /\ v \in Seq(Message)
        /\ Len(v) = m + 1 + Len(q) + l
        /\ \A i \in 1 .. m : v[i] = w[i]
        /\ v[m + 1] = a
        /\ \A i \in m + 2 .. m + 1 + Len(q) : v[i] = q[i - m - 1]
        /\ \A i \in m + 2 + Len(q) .. Len(v) : v[i] = e[i - m - 1 - Len(q)]
    <3>1. IsConcat(w \o <<a>> \o q \o e, w, a, q, e)
      BY <1>5, <1>6, <1>7, <1>8, ConcatIs DEF w
    <3>2. IsConcat(v, w, a, q, e)
      BY <3>1
    <3> HIDE DEF v
    <3>3. QED
      BY <3>2 DEF IsConcat
  <2>2. m \in Nat /\ l \in {0, 1} /\ Len(q) = n
    BY <1>6, <1>7, <1>8 DEF w
  <2>3. messages' = v
    BY <1>8 DEF w
  <2> HIDE DEF v, m, l
  <2>4. Len(v) \in {m + 1 + n, m + 2 + n}
    BY <1>2, <2>1, <2>2
  <2>5. \A i \in m + 2 .. m + 1 + n :
          v[i].role = "tool" /\ v[i].calls = {} /\ v[i].answers = {id[i - m - 1]}
    <3>1. \A i \in m + 2 .. m + 1 + n : i - m - 1 \in 1 .. n
      BY <1>2, <2>2
    <3>2. QED
      BY <1>6, <2>1, <2>2, <3>1
  <2>6. \A i \in m + 2 + n .. Len(v) : v[i].role = "user" /\ v[i].calls = {} /\ v[i].answers = {}
    <3>1. \A i \in m + 2 + n .. Len(v) : i - m - 1 - n \in 1 .. l
      BY <1>2, <2>1, <2>2
    <3>2. \A i \in m + 2 + n .. Len(v) : v[i] = e[i - m - 1 - n]
      BY <2>1, <2>2
    <3>3. QED
      BY <1>7, <3>1, <3>2 DEF l
  <2>7. Extends(v, w, n, id)
    BY <1>5, <2>1, <2>4, <2>5, <2>6 DEF Extends, m
  <2>8. QED
    BY <2>3, <2>7
<1>10. naming = "provider" => \A j \in 1 .. n : id[j] = <<turn, j>>
  BY DEF CallIds
<1>11. turn < MaxTurns /\ turn' = turn + 1 /\ UNCHANGED naming
  BY DEF ToolTurn
<1>12. QED
  BY <1>2, <1>3, <1>9, <1>10, <1>11, TurnKeeps DEF w

\* A reply without calls, and the nudge.
LEMMA SilentTurnKeeps ==
  ASSUME ContextInv, SilentTurn
  PROVE  ContextInv'
<1>1. PICK size \in Sizes : messages' = Window \o <<Assistant(size, {}), User(1)>>
  BY DEF SilentTurn
<1> DEFINE w == Window
           a == Assistant(size, {})
           u == User(1)
           s == <<a, u>>
           v == w \o s
           id == [j \in 1 .. 0 |-> <<0, 0>>]
<1>2. a \in Message /\ a.role = "assistant" /\ a.answers = {} /\ a.calls = {}
  BY SizesAssumption DEF Assistant, Message, Roles
<1>3. u \in Message /\ u.role = "user" /\ u.answers = {} /\ u.calls = {}
  BY DEF User, Message, Roles
<1>4. w \in Seq(Message) /\ messages' = v
  BY <1>1, WindowInv DEF Paired, Headed
<1>5. id \in [1 .. 0 -> Identifiers]
  BY DEF Identifiers
<1> HIDE DEF w, a, u, id
<1>6. s \in Seq(Message) /\ Len(s) = 2 /\ s[1] = a /\ s[2] = u
  BY <1>2, <1>3
<1> HIDE DEF s
<1>7. PICK m \in Nat : m = Len(w)
  BY <1>4
<1>8. /\ v \in Seq(Message) /\ Len(v) = m + 2
      /\ \A i \in 1 .. m + 2 : v[i] = IF i <= m THEN w[i] ELSE s[i - m]
  <2>1. /\ v \in Seq(Message) /\ Len(v) = Len(w) + Len(s)
        /\ \A i \in 1 .. Len(w) + Len(s) : v[i] = IF i <= Len(w) THEN w[i] ELSE s[i - Len(w)]
    BY <1>4, <1>6, ConcatProperties
  <2> HIDE DEF v
  <2>2. QED
    BY <1>6, <1>7, <2>1
<1> HIDE DEF v
<1>9. /\ \A i \in 1 .. m : v[i] = w[i]
      /\ v[m + 1] = a /\ v[m + 2] = u
  <2>1. \A i \in 1 .. m : i \in 1 .. m + 2 /\ i <= m
    BY <1>7
  <2>2. /\ m + 1 \in 1 .. m + 2 /\ ~(m + 1 <= m) /\ (m + 1) - m = 1
        /\ m + 2 \in 1 .. m + 2 /\ ~(m + 2 <= m) /\ (m + 2) - m = 2
    BY <1>7
  <2>3. QED
    BY <1>6, <1>8, <2>1, <2>2
<1>10. Extends(v, w, 0, id)
  <2>1. \A i \in m + 2 + 0 .. Len(v) : i = m + 2
    BY <1>7, <1>8
  <2>2. \A i \in m + 2 .. m + 1 + 0 : FALSE
    BY <1>7
  <2>3. a.calls = {id[j] : j \in 1 .. 0}
    BY <1>2
  <2>4. Len(v) \in {m + 1 + 0, m + 2 + 0}
    BY <1>7, <1>8
  <2>5. QED
    BY <1>2, <1>3, <1>7, <1>8, <1>9, <2>1, <2>2, <2>3, <2>4 DEF Extends
<1>11. turn < MaxTurns /\ turn' = turn + 1 /\ UNCHANGED naming
  BY DEF SilentTurn
<1>12. \A j \in 1 .. 0 : id[j] = <<turn, j>>
  OBVIOUS
<1>13. Extends(messages', Window, 0, id)
  BY <1>4, <1>10 DEF w
<1>14. QED
  BY <1>5, <1>11, <1>12, <1>13, TurnKeeps

\* The transcript is paired at every turn.
LEMMA ContextInvHolds == ContextSpec => []ContextInv
<1>1. ContextInit => ContextInv
  BY ContextStarts
<1>2. ContextInv /\ [ContextNext]_contextVars => ContextInv'
  <2>1. SUFFICES ASSUME ContextInv, [ContextNext]_contextVars PROVE ContextInv'
    OBVIOUS
  <2>2. CASE SilentTurn
    BY <2>1, <2>2, SilentTurnKeeps
  <2>3. CASE \E n \in 1 .. MaxCalls : ToolTurn(n)
    BY <2>1, <2>3, ToolTurnKeeps
  <2>4. CASE UNCHANGED contextVars
    <3>1. messages' = messages /\ turn' = turn /\ naming' = naming
      BY <2>4 DEF contextVars
    <3>2. Paired(messages') /\ (naming' = "provider" => Led(messages', turn'))
      BY <2>1, <3>1 DEF ContextInv
    <3>3. turn' \in 0 .. MaxTurns /\ naming' \in Namings
      BY <2>1, <3>1 DEF ContextInv
    <3>4. QED
      BY <3>2, <3>3 DEF ContextInv, Paired, Led, Headed, valid_ids, IsSystem
  <2>5. QED
    BY <2>1, <2>2, <2>3, <2>4 DEF ContextNext
<1>3. QED
  BY <1>1, <1>2, PTL DEF ContextSpec

\* A paired window is what NoDanglingResult and NoUnansweredCall say it is.
LEMMA PairsFollow == ContextInv => PairsInv
<1> SUFFICES ASSUME ContextInv PROVE PairsInv
  OBVIOUS
<1>1. Paired(Window) /\ (naming = "provider" => Led(Window, turn))
  BY WindowInv
<1>2. Window \in Seq(Message) /\ messages \in Seq(Message)
  BY <1>1 DEF ContextInv, Paired, Headed
<1>3. PICK l \in Nat : l = Len(Window) /\ DOMAIN Window = 1 .. l
  BY <1>2
<1>4. ContextTypeOK
  <2>1. \A i \in DOMAIN messages : messages[i] \in Message
    BY <1>2
  <2>2. \A i \in DOMAIN messages : messages[i].role \in Roles /\ messages[i].size \in Nat
    BY <2>1 DEF Message
  <2>3. \A i \in DOMAIN messages : /\ messages[i].calls # {} => messages[i].role = "assistant"
                                   /\ messages[i].answers # {} <=> messages[i].role = "tool"
    BY DEF ContextInv, Paired
  <2>4. QED
    BY <2>2, <2>3 DEF ContextTypeOK, ContextInv, Roles
<1>5. NoDanglingResult
  <2>1. ASSUME naming = "provider", NEW i \in DOMAIN Window, Window[i].role = "tool"
        PROVE  \E c \in 1 .. i - 1 :
                 /\ Window[i].answers \subseteq Window[c].calls
                 /\ \A k \in c + 1 .. i - 1 : Window[k].role = "tool"
    <3>1. PICK c \in DOMAIN Window :
            /\ c < i
            /\ Window[i].answers \subseteq Window[c].calls
            /\ \A k \in DOMAIN Window : c < k /\ k < i => Window[k].role = "tool"
      BY <1>1, <2>1 DEF Led
    <3>2. c \in 1 .. i - 1 /\ \A k \in c + 1 .. i - 1 : k \in 1 .. l /\ c < k /\ k < i
      BY <1>3, <3>1
    <3>3. QED
      BY <1>3, <3>1, <3>2
  <2>2. QED
    BY <2>1 DEF NoDanglingResult
<1>6. NoUnansweredCall
  <2>1. ASSUME NEW c \in DOMAIN Window, NEW id \in Window[c].calls
        PROVE  \E i \in c + 1 .. Len(Window) : Window[i].answers = {id}
    <3>1. PICK i \in DOMAIN Window : c < i /\ Window[i].answers = {id}
      BY <1>1 DEF Paired
    <3>2. i \in c + 1 .. Len(Window)
      BY <1>3, <3>1
    <3>3. QED
      BY <3>1, <3>2
  <2>2. QED
    BY <2>1 DEF NoUnansweredCall
<1>7. QED
  BY <1>4, <1>5, <1>6 DEF PairsInv

\* Whatever the model replies, however large the messages and however often the
\* transcript is cut: no call in the window is without its result and, when the
\* provider names the calls, no result without its call.
THEOREM PairsHold == ContextSpec => []PairsInv
<1>1. QED
  BY ContextInvHolds, PairsFollow, PTL

\* How the tokens of a transcript are added up.
EstimateSteps(ms, E) ==
  /\ E[0] = 0
  /\ \A i \in 1 .. Len(ms) : E[i] = E[i - 1] + ms[i].size
  /\ estimate_messages_tokens(ms) = E[Len(ms)]

\* Sums are built so.
LEMMA EstimatedBySteps ==
  ASSUME NEW ms \in Seq(Message)
  PROVE  \E E : EstimateSteps(ms, E)
<1>1. PICK n \in Nat : n = Len(ms)
  OBVIOUS
<1> DEFINE Body(f, i) == EstimateBody(ms, f, i)
           After(k, f) == f = [i \in 0 .. k |-> Body(f, i)]
           T == {k \in Nat : \E f : After(k, f)}
<1>2. 0 \in T
  <2> DEFINE f == [i \in 0 .. 0 |-> 0]
  <2>1. \A i \in 0 .. 0 : Body(f, i) = 0
    BY DEF EstimateBody
  <2> HIDE DEF Body
  <2>2. f = [i \in 0 .. 0 |-> Body(f, i)]
    BY <2>1
  <2> HIDE DEF f
  <2>3. QED
    BY <2>2
<1>3. ASSUME NEW k \in Nat, NEW f, After(k, f) PROVE \E g : After(k + 1, g)
  <2> DEFINE g == [i \in 0 .. k + 1 |-> IF i = k + 1 THEN Body(f, k + 1) ELSE f[i]]
  <2>1. \A i \in 0 .. k + 1 : g[i] = Body(g, i)
    <3>1. TAKE i \in 0 .. k + 1
    <3>2. CASE i = k + 1
      <4>1. g[i] = Body(f, k + 1) /\ g[i - 1] = f[k] /\ i # 0 /\ i - 1 = k
        BY <3>2
      <4> HIDE DEF g
      <4>2. QED
        BY <3>2, <4>1 DEF EstimateBody
    <3>3. CASE i \in 0 .. k
      <4>1. g[i] = f[i] /\ (i # 0 => g[i - 1] = f[i - 1])
        BY <3>3
      <4>2. f[i] = Body(f, i)
        <5> HIDE DEF g, Body
        <5>1. QED
          BY <1>3, <3>3
      <4> HIDE DEF g
      <4>3. QED
        BY <4>1, <4>2 DEF EstimateBody
    <3>4. QED
      BY <3>2, <3>3
  <2>2. g = [i \in 0 .. k + 1 |-> g[i]]
    OBVIOUS
  <2> HIDE DEF g, Body
  <2>3. QED
    BY <2>1, <2>2
<1>4. \E f : After(n, f)
  <2>1. \A k \in Nat : k \in T => k + 1 \in T
    <3> HIDE DEF After
    <3>1. QED
      BY <1>3
  <2>2. n \in T
    <3> HIDE DEF T
    <3>1. QED
      BY <1>2, <2>1, EveryNumber
  <2> HIDE DEF After
  <2>3. QED
    BY <2>2
<1> DEFINE E == CHOOSE f : After(n, f)
<1>5. After(n, E)
  <2> HIDE DEF After
  <2>1. QED
    BY <1>4, Zenon
<1>6. estimate_messages_tokens(ms) = E[n]
  BY <1>1 DEF estimate_messages_tokens, EstimateBody
<1> HIDE DEF E
<1>7. \A i \in 0 .. n : E[i] = Body(E, i)
  <2> HIDE DEF Body
  <2>1. QED
    BY <1>5
<1>8. E[0] = 0
  BY <1>7 DEF EstimateBody
<1>9. \A i \in 1 .. n : E[i] = E[i - 1] + ms[i].size
  <2>1. \A i \in 1 .. n : i \in 0 .. n /\ i # 0
    OBVIOUS
  <2>2. QED
    BY <1>7, <2>1 DEF EstimateBody
<1>10. EstimateSteps(ms, E)
  BY <1>1, <1>6, <1>8, <1>9 DEF EstimateSteps
<1>11. QED
  BY <1>10

\* The sums are numbers.
LEMMA SumsAreNumbers ==
  ASSUME NEW ms \in Seq(Message), NEW E, EstimateSteps(ms, E)
  PROVE  \A i \in 0 .. Len(ms) : E[i] \in Nat
<1>1. PICK n \in Nat : n = Len(ms) /\ \A i \in 1 .. n : ms[i] \in Message
  OBVIOUS
<1> DEFINE K == {i \in Nat : i <= n => E[i] \in Nat}
<1>2. 0 \in K
  BY DEF EstimateSteps
<1>3. \A i \in Nat : i \in K => i + 1 \in K
  <2>1. TAKE i \in Nat
  <2>2. HAVE i \in K
  <2>3. CASE i + 1 <= n
    <3>1. i + 1 \in 1 .. n /\ i <= n /\ (i + 1) - 1 = i
      BY <2>3
    <3>2. E[i + 1] = E[(i + 1) - 1] + ms[i + 1].size
      BY <1>1, <3>1 DEF EstimateSteps
    <3>3. ms[i + 1].size \in Nat /\ E[i] \in Nat
      BY <1>1, <2>2, <3>1 DEF Message
    <3>4. QED
      BY <3>1, <3>2, <3>3
  <2>4. QED
    BY <2>3
<1>4. Nat \subseteq K
  <2> HIDE DEF K
  <2>1. QED
    BY <1>2, <1>3, EveryNumber
<1>5. QED
  BY <1>1, <1>4

\* Two sums of sequences that begin alike are alike.
LEMMA EstimateOneMore ==
  ASSUME NEW w \in Seq(Message), NEW x \in Message
  PROVE  /\ estimate_messages_tokens(w) \in Nat
         /\ estimate_messages_tokens(Append(w, x)) = estimate_messages_tokens(w) + x.size
<1> DEFINE v == Append(w, x)
<1>1. PICK n \in Nat : n = Len(w)
  OBVIOUS
<1>2. /\ v \in Seq(Message) /\ Len(v) = n + 1 /\ v[n + 1] = x /\ \A i \in 1 .. n : v[i] = w[i]
  BY <1>1
<1> HIDE DEF v
<1>3. PICK E : EstimateSteps(w, E)
  BY EstimatedBySteps
<1>4. PICK D : EstimateSteps(v, D)
  BY <1>2, EstimatedBySteps
<1>5. E[0] = 0 /\ estimate_messages_tokens(w) = E[n] /\ \A i \in 1 .. n : E[i] = E[i - 1] + w[i].size
  BY <1>1, <1>3 DEF EstimateSteps
<1>6. /\ D[0] = 0 /\ estimate_messages_tokens(v) = D[n + 1]
      /\ \A i \in 1 .. n + 1 : D[i] = D[i - 1] + v[i].size
  BY <1>2, <1>4 DEF EstimateSteps
<1> DEFINE K == {i \in Nat : i <= n => D[i] = E[i]}
<1>7. 0 \in K
  BY <1>5, <1>6
<1>8. \A i \in Nat : i \in K => i + 1 \in K
  <2>1. TAKE i \in Nat
  <2>2. HAVE i \in K
  <2>3. CASE i + 1 <= n
    <3>1. i + 1 \in 1 .. n /\ i + 1 \in 1 .. n + 1 /\ i <= n /\ (i + 1) - 1 = i
      BY <2>3
    <3>2. D[i] = E[i]
      BY <2>2, <3>1
    <3>3. E[i + 1] = E[i] + w[i + 1].size /\ D[i + 1] = D[i] + w[i + 1].size
      BY <1>2, <1>5, <1>6, <3>1
    <3>4. QED
      BY <3>2, <3>3
  <2>4. QED
    BY <2>3
<1>9. Nat \subseteq K
  <2> HIDE DEF K
  <2>1. QED
    BY <1>7, <1>8, EveryNumber
<1>10. D[n] = E[n]
  BY <1>9
<1>11. n + 1 \in 1 .. n + 1 /\ (n + 1) - 1 = n
  BY <1>1
<1>12. D[n + 1] = E[n] + x.size
  BY <1>2, <1>6, <1>10, <1>11
<1>13. E[n] \in Nat
  BY <1>1, <1>3, SumsAreNumbers
<1>14. QED
  BY <1>5, <1>6, <1>12, <1>13 DEF v

\* A selection is no larger than what it is made from.
LEMMA SelectionFits ==
  ASSUME NEW ms \in Seq(Message), NEW kept \in SUBSET DOMAIN ms
  PROVE  /\ estimate_messages_tokens(selected(ms, kept)) \in Nat
         /\ estimate_messages_tokens(selected(ms, kept)) <= estimate_messages_tokens(ms)
<1>1. PICK n \in Nat : n = Len(ms) /\ \A i \in 1 .. n : ms[i] \in Message
  OBVIOUS
<1>2. PICK F : SelectSteps(ms, kept, F)
  BY SelectedBySteps
<1>3. PICK E : EstimateSteps(ms, E)
  BY EstimatedBySteps
<1>4. E[0] = 0 /\ estimate_messages_tokens(ms) = E[n] /\ \A i \in 1 .. n : E[i] = E[i - 1] + ms[i].size
  BY <1>1, <1>3 DEF EstimateSteps
<1>5. /\ F[0] = <<>> /\ selected(ms, kept) = F[n]
      /\ \A i \in 1 .. n : F[i] = IF i \in kept THEN Append(F[i - 1], ms[i]) ELSE F[i - 1]
  BY <1>1, <1>2 DEF SelectSteps
<1>6. \A i \in 0 .. n : E[i] \in Nat
  BY <1>1, <1>3, SumsAreNumbers
<1> DEFINE e(w) == estimate_messages_tokens(w)
           Good(i) == F[i] \in Seq(Message) /\ e(F[i]) \in Nat /\ e(F[i]) <= E[i]
           K == {i \in Nat : i <= n => Good(i)}
<1>7. 0 \in K
  <2>1. <<>> \in Seq(Message) /\ Len(<<>>) = 0
    OBVIOUS
  <2>2. PICK D : EstimateSteps(<<>>, D)
    BY <2>1, EstimatedBySteps
  <2>3. e(<<>>) = 0
    BY <2>1, <2>2 DEF EstimateSteps
  <2>4. F[0] \in Seq(Message) /\ e(F[0]) = 0
    BY <1>5, <2>1, <2>3
  <2> HIDE DEF e
  <2>5. QED
    BY <1>4, <2>4
<1>8. \A i \in Nat : i \in K => i + 1 \in K
  <2>1. TAKE i \in Nat
  <2>2. HAVE i \in K
  <2>3. CASE i + 1 <= n
    <3>1. i + 1 \in 1 .. n /\ i <= n /\ (i + 1) - 1 = i /\ i \in 0 .. n
      BY <2>3
    <3>2. F[i] \in Seq(Message) /\ e(F[i]) \in Nat /\ e(F[i]) <= E[i]
      BY <2>2, <3>1
    <3>3. E[i + 1] = E[i] + ms[i + 1].size /\ E[i] \in Nat /\ ms[i + 1] \in Message
          /\ ms[i + 1].size \in Nat
      BY <1>1, <1>4, <1>6, <3>1 DEF Message
    <3>4. F[i + 1] = IF i + 1 \in kept THEN Append(F[i], ms[i + 1]) ELSE F[i]
      BY <1>5, <3>1
    <3>5. /\ Append(F[i], ms[i + 1]) \in Seq(Message)
          /\ e(Append(F[i], ms[i + 1])) = e(F[i]) + ms[i + 1].size
      BY <3>2, <3>3, EstimateOneMore
    <3>6. Good(i + 1)
      <4>1. CASE i + 1 \in kept
        <5>1. F[i + 1] \in Seq(Message) /\ e(F[i + 1]) = e(F[i]) + ms[i + 1].size
          BY <3>4, <3>5, <4>1
        <5> HIDE DEF e
        <5>2. QED
          BY <3>2, <3>3, <5>1
      <4>2. CASE i + 1 \notin kept
        <5>1. F[i + 1] = F[i]
          BY <3>4, <4>2
        <5> HIDE DEF e
        <5>2. QED
          BY <3>2, <3>3, <5>1
      <4>3. QED
        BY <4>1, <4>2
    <3> HIDE DEF Good
    <3>7. QED
      BY <3>6
  <2>4. QED
    BY <2>3
<1>9. Nat \subseteq K
  <2> HIDE DEF K
  <2>1. QED
    BY <1>7, <1>8, EveryNumber
<1>10. QED
  BY <1>1, <1>4, <1>5, <1>9

\* Increasing numbers grow at least as fast as their places.
LEMMA IncreasingGrow ==
  ASSUME NEW n \in Nat, NEW h \in [1 .. n -> Nat],
         \A a, b \in 1 .. n : a < b => h[a] < h[b], NEW d \in Nat,
         n # 0 => 1 + d <= h[1]
  PROVE  \A j \in 1 .. n : j + d <= h[j]
<1> DEFINE K == {i \in Nat : i + 1 <= n => (i + 1) + d <= h[i + 1]}
<1>1. 0 \in K
  OBVIOUS
<1>2. \A i \in Nat : i \in K => i + 1 \in K
  <2>1. TAKE i \in Nat
  <2>2. HAVE i \in K
  <2>3. CASE (i + 1) + 1 <= n
    <3>1. i + 1 \in 1 .. n /\ (i + 1) + 1 \in 1 .. n /\ i + 1 < (i + 1) + 1 /\ i + 1 <= n
      BY <2>3
    <3>2. h[i + 1] < h[(i + 1) + 1]
      BY <3>1
    <3>3. (i + 1) + d <= h[i + 1]
      BY <2>2, <3>1
    <3>4. h[i + 1] \in Nat /\ h[(i + 1) + 1] \in Nat
      BY <3>1
    <3>5. ((i + 1) + 1) + d <= h[(i + 1) + 1]
      BY <3>2, <3>3, <3>4
    <3>6. QED
      BY <3>5
  <2>4. QED
    BY <2>3
<1>3. Nat \subseteq K
  <2> HIDE DEF K
  <2>1. QED
    BY <1>1, <1>2, EveryNumber
<1>4. \A j \in 1 .. n : j - 1 \in Nat /\ (j - 1) + 1 = j
  OBVIOUS
<1>5. QED
  BY <1>3, <1>4

\* What is cut is no longer than what was left, less the system prompt.
LEMMA RestIsShorter ==
  ASSUME NEW u, Headed(u), NEW w \in Seq(Message), NEW h, NEW L \in SUBSET DOMAIN w,
         Embeds(u, w, h, L), IsSystem(w[1])
  PROVE  /\ Len(rest(u)) \in Nat
         /\ Len(rest(u)) + 1 <= Len(w)
<1> DEFINE r == rest(u)
           A == {i \in DOMAIN u : ~IsSystem(u[i])}
<1>1. r = selected(u, A) /\ A \in SUBSET DOMAIN u /\ u \in Seq(Message)
  BY DEF rest, Headed
<1> HIDE DEF r
<1>2. r \in Seq(Message) /\ \E e : Embeds(r, u, e, A)
  <2> HIDE DEF A
  <2>1. QED
    BY <1>1, SelectedIs
<1>3. PICK e : Embeds(r, u, e, A)
  BY <1>2
<1>4. PICK n \in Nat : n = Len(r) /\ DOMAIN r = 1 .. n
  BY <1>2
<1>5. PICK m \in Nat : m = Len(w) /\ DOMAIN w = 1 .. m
  OBVIOUS
<1> DEFINE f == [j \in 1 .. n |-> h[e[j]]]
<1>6. \A j \in 1 .. n : e[j] \in DOMAIN u /\ ~IsSystem(u[e[j]])
  BY <1>3, <1>4 DEF Embeds
<1>7. \A i \in DOMAIN u : h[i] \in 1 .. m /\ u[i] = w[h[i]]
  BY <1>5 DEF Embeds
<1>8. \A j \in 1 .. n : f[j] \in 1 .. m /\ f[j] # 1
  BY <1>6, <1>7
<1>9. \A j \in 1 .. n : f[j] = h[e[j]]
  OBVIOUS
<1>10. f \in [1 .. n -> Nat]
  BY <1>8
<1> HIDE DEF f
<1>11. \A a, b \in 1 .. n : a < b => f[a] < f[b]
  <2>1. TAKE a, b \in 1 .. n
  <2>2. HAVE a < b
  <2>3. e[a] < e[b]
    BY <1>3, <1>4, <2>2 DEF Embeds
  <2>4. h[e[a]] < h[e[b]]
    BY <1>6, <2>3 DEF Embeds
  <2>5. QED
    BY <1>9, <2>4
<1>12. n # 0 => 1 + 1 <= f[1]
  <2>1. n # 0 => 1 \in 1 .. n
    BY <1>4
  <2>2. QED
    BY <1>8, <2>1
<1>13. \A j \in 1 .. n : j + 1 <= f[j]
  BY <1>10, <1>11, <1>12, IncreasingGrow
<1>14. n # 0 => n + 1 <= m
  <2>1. SUFFICES ASSUME n # 0 PROVE n + 1 <= m
    OBVIOUS
  <2>2. n \in 1 .. n
    BY <1>4, <2>1
  <2>3. f[n] \in 1 .. m /\ n + 1 <= f[n]
    BY <1>8, <1>13, <2>2
  <2>4. QED
    BY <1>4, <1>5, <2>3
<1>15. m # 0
  BY <1>5, <1>7 DEF Headed
<1>16. QED
  BY <1>4, <1>5, <1>14, <1>15 DEF r

\* Popping ends when the rest fits or is short; the repair only takes away.
LEMMA FitFollows == ContextInv => WindowFits
<1> SUFFICES ASSUME ContextInv PROVE WindowFits
  OBVIOUS
<1> DEFINE ms == messages
<1>1. Headed(Window)
  BY WindowInv DEF Paired
<1>2. Paired(ms) /\ Headed(ms) /\ ms \in Seq(Message)
  BY DEF ContextInv, Paired, Headed
<1>3. Window = trim_to_budget(ms)
  BY DEF Window
<1> HIDE DEF ms
<1>4. CASE estimate_messages_tokens(ms) <= Budget
  <2>1. Window = ms
    BY <1>3, <1>4 DEF trim_to_budget
  <2>2. QED
    BY <1>1, <1>4, <2>1 DEF WindowFits, Headed
<1>5. CASE ~(estimate_messages_tokens(ms) <= Budget)
  <2> DEFINE r == rest(ms)
             k == Popped(system(ms), r)
             w == system(ms) \o SubSeq(r, k + 1, Len(r))
             L == {i \in DOMAIN w : w[i].answers \subseteq valid_ids(w)}
  <2>1. r \in Seq(Message)
    <3> DEFINE A == {i \in DOMAIN ms : ~IsSystem(ms[i])}
    <3>1. A \in SUBSET DOMAIN ms /\ r = selected(ms, A)
      BY DEF rest
    <3> HIDE DEF A, r
    <3>2. QED
      BY <1>2, <3>1, SelectedIs
  <2>2. /\ k \in 0 .. Len(r)
        /\ \/ Len(r) - k <= KeepRecent
           \/ estimate_messages_tokens(w) <= Budget
    <3> HIDE DEF r
    <3>1. QED
      BY <2>1, PoppedIs
  <2>3. w \in Seq(Message) /\ Len(w) = Len(r) - k + 1
    <3> HIDE DEF k
    <3>1. QED
      BY <1>2, <2>2, PoppedLeaves
  <2>4. w[1] = ms[1] /\ IsSystem(w[1])
    <3>1. system(ms) = <<ms[1]>>
      BY <1>2, SystemIs
    <3>2. SubSeq(r, k + 1, Len(r)) \in Seq(Message)
      <4> HIDE DEF r, k
      <4>1. QED
        BY <2>1, <2>2
    <3>3. ms[1] \in Message /\ IsSystem(ms[1])
      BY <1>2 DEF Headed
    <3> DEFINE s == SubSeq(r, k + 1, Len(r))
    <3> HIDE DEF s
    <3>4. w = <<ms[1]>> \o s /\ s \in Seq(Message)
      BY <3>1, <3>2 DEF s
    <3> HIDE DEF w
    <3>5. w[1] = ms[1]
      BY <3>3, <3>4
    <3>6. QED
      BY <3>3, <3>5
  <2>5. Window = selected(w, L)
    BY <1>3, <1>5 DEF trim_to_budget, repaired
  <2>6. L \in SUBSET DOMAIN w
    OBVIOUS
  <2> HIDE DEF L, w, k, r
  <2>7. /\ estimate_messages_tokens(Window) \in Nat
        /\ estimate_messages_tokens(Window) <= estimate_messages_tokens(w)
    BY <2>3, <2>5, <2>6, SelectionFits
  <2>8. PICK h : Embeds(Window, w, h, L)
    BY <2>3, <2>5, <2>6, SelectedIs
  <2>9. Len(rest(Window)) \in Nat /\ Len(rest(Window)) + 1 <= Len(w)
    BY <1>1, <2>3, <2>4, <2>6, <2>8, RestIsShorter
  <2>10. estimate_messages_tokens(w) \in Nat
    <3>1. PICK E : EstimateSteps(w, E)
      BY <2>3, EstimatedBySteps
    <3>2. Len(w) \in 0 .. Len(w)
      BY <2>3
    <3>3. QED
      BY <2>3, <3>1, <3>2, SumsAreNumbers DEF EstimateSteps
  <2>11. Len(rest(Window)) <= KeepRecent \/ estimate_messages_tokens(Window) <= Budget
    <3>1. Len(r) \in Nat /\ k \in Nat
      BY <2>1, <2>2
    <3>2. QED
      BY <2>2, <2>3, <2>7, <2>9, <2>10, <3>1, BudgetAssumption
  <2>12. QED
    BY <1>1, <2>11 DEF WindowFits, Headed
<1>6. QED
  BY <1>4, <1>5

\* The window fits the budget or is cut down to keep_recent messages, and begins
\* with the system prompt alone.
THEOREM WindowsFit == ContextSpec => []WindowFits
<1>1. QED
  BY ContextInvHolds, FitFollows, PTL
=============================================================================

---------------------------- MODULE AgentSession ----------------------------
(***************************************************************************)
(* One experiment: ResearchAgent.run (agent/loop.py) with the tools it     *)
(* dispatches to (tools/) and the sandbox they run in, on one ToolContext  *)
(* and one workspace directory.                                            *)
(*                                                                         *)
(* The model is an adversary: each reply carries any number of tool calls, *)
(* and each call is any tool with any arguments.  Contents of a strategy   *)
(* file are versions, numbered by the writes of the session; what a        *)
(* backtest returns is the version and the partition it ran on.            *)
(***************************************************************************)
EXTENDS Naturals

CONSTANTS
  Files,        \* file names ending in .py
  NoFile,       \* None
  MaxSteps,     \* max_steps
  MaxToolCalls, \* bound: tool calls of one reply
  MaxWrites,    \* bound: successful writes of one session
  Sandboxed     \* whether the context has a sandbox

ASSUME FilesAssumption == NoFile \notin Files
ASSUME MaxStepsAssumption == MaxSteps \in Nat \ {0}
ASSUME BoundsAssumption == MaxToolCalls \in Nat /\ MaxWrites \in Nat
ASSUME SandboxedAssumption == Sandboxed \in BOOLEAN

VARIABLES
  phase,         \* "chat", "blank", "tools", "exit" (after the loop), "ended",
                 \* "failed"
  step,          \* steps: iterations of the loop begun
  pending,       \* tool calls of the current reply not dispatched yet
  nudged,
  files,         \* version held by each file of the workspace, 0 if missing
  written,       \* versions handed out
  strategyPath,  \* ctx.strategy_path
  resultFile,    \* what bt_result.json holds
  lastBacktest,  \* ctx.last_backtest
  submitted,     \* ctx.submitted
  submittedPath, \* ctx.submitted_strategy_path
  forced,        \* forced_submit
  asked,         \* observed: what the last answered run_backtest was about
  tested         \* observed: versions a backtest ran to its end

loopVars == <<phase, step, pending, nudged>>
workspaceVars == <<files, written, strategyPath, resultFile>>
backtestVars == <<lastBacktest, asked, tested>>
submitVars == <<submitted, submittedPath, forced>>
vars == <<loopVars, workspaceVars, backtestVars, submitVars>>

Partitions == {"train", "validation"}

\* A result of the runner, or none; a killed runner may leave half a file.
Results == [version : 1 .. MaxWrites, partition : Partitions]
NoResult == [version |-> 0, partition |-> "none"]
HalfWritten == [version |-> 0, partition |-> "half"]

Init ==
  /\ phase = "chat"
  /\ step = 0
  /\ pending = 0
  /\ nudged = FALSE
  /\ files = [f \in Files |-> 0]
  /\ written = 0
  /\ strategyPath = NoFile
  /\ resultFile = NoResult
  /\ lastBacktest = NoResult
  /\ asked = NoResult
  /\ submitted = FALSE
  /\ submittedPath = NoFile
  /\ forced = FALSE
  /\ tested = {}

(***************************************************************************)
(* The loop.                                                               *)
(***************************************************************************)
\* Mutant: the loop has no limit.
AlwaysAgain(s) == "chat"

NextIteration(s) == IF s = MaxSteps THEN "exit" ELSE "chat"

Reply(n) ==
  /\ phase = "chat"
  /\ n > 0
  /\ step' = step + 1
  /\ pending' = n
  /\ phase' = "tools"
  /\ UNCHANGED <<nudged, workspaceVars, backtestVars, submitVars>>

\* Mutant: a silent reply only flips the flag and does not count as a step.
NudgeIsFree ==
  /\ phase = "chat"
  /\ phase' = IF submitted THEN "exit" ELSE "chat"
  /\ nudged' = ~nudged
  /\ UNCHANGED <<step, pending, workspaceVars, backtestVars, submitVars>>

\* A reply without tool calls: the first one is answered with a nudge.
SilentReply ==
  /\ phase = "chat"
  /\ step' = step + 1
  /\ phase' = IF submitted \/ nudged THEN "exit" ELSE NextIteration(step + 1)
  /\ nudged' = TRUE
  /\ UNCHANGED <<pending, workspaceVars, backtestVars, submitVars>>

\* A reply whose content is white space alone: it has no first line.
BlankReply ==
  /\ phase = "chat"
  /\ step' = step + 1
  /\ phase' = "blank"
  /\ UNCHANGED <<pending, nudged, workspaceVars, backtestVars, submitVars>>

\* An exception leaves run(), and what was submitted goes with it: the gateway
\* ran out of attempts, the reply is blank, or the arguments of a call are JSON
\* but no object, which dispatch does not take for invalid ones.
Raises ==
  /\ \/ phase \in {"chat", "blank"}
     \/ phase = "tools" /\ pending > 0
  /\ phase' = "failed"
  /\ UNCHANGED <<step, pending, nudged, workspaceVars, backtestVars, submitVars>>

Dispatch ==
  /\ phase = "tools"
  /\ pending > 0
  /\ pending' = pending - 1
  /\ UNCHANGED <<phase, step, nudged>>

\* Mutant: the loop goes on refining after a submission.
IgnoresSubmission ==
  /\ phase = "tools"
  /\ pending = 0
  /\ phase' = NextIteration(step)
  /\ UNCHANGED <<step, pending, nudged, workspaceVars, backtestVars, submitVars>>

\* Submit pressure only appends a message, so it is not seen here.
EndOfMessage ==
  /\ phase = "tools"
  /\ pending = 0
  /\ phase' = IF submitted THEN "exit" ELSE NextIteration(step)
  /\ UNCHANGED <<step, pending, nudged, workspaceVars, backtestVars, submitVars>>

(***************************************************************************)
(* The tools.  A call that is refused (unknown tool, an invalid argument,   *)
(* no strategy yet, holdout asked for, an exception of the tool) and a     *)
(* call of a tool that only reads change nothing but the transcript.       *)
(***************************************************************************)
NoEffect ==
  /\ Dispatch
  /\ UNCHANGED <<workspaceVars, backtestVars, submitVars>>

write_strategy(f) ==
  /\ Dispatch
  /\ written < MaxWrites
  /\ written' = written + 1
  /\ files' = [files EXCEPT ![f] = written + 1]
  /\ strategyPath' = f
  /\ UNCHANGED <<resultFile, backtestVars, submitVars>>

Current == files[strategyPath]

\* The strategy ran to the end of the partition's events.
BacktestCompletes(p) ==
  /\ Dispatch
  /\ strategyPath # NoFile
  /\ lastBacktest' = [version |-> Current, partition |-> p]
  /\ asked' = lastBacktest'
  /\ resultFile' = IF Sandboxed THEN lastBacktest' ELSE resultFile
  /\ tested' = tested \cup {Current}
  /\ UNCHANGED <<files, written, strategyPath, submitVars>>

\* Mutant: a failed run is reported as a result of the current strategy.
FailureCounts(p) ==
  /\ Dispatch
  /\ Sandboxed
  /\ strategyPath # NoFile
  /\ lastBacktest' = [version |-> Current, partition |-> p]
  /\ asked' = lastBacktest'
  /\ UNCHANGED <<workspaceVars, submitVars, tested>>

\* The sandboxed run failed (crash, limits, timeout) before it wrote its
\* result.  Its SandboxResult is dropped, so the tool reads what an earlier
\* run left and answers with that; without a readable file the tool raises,
\* which is NoEffect.
SandboxFails(p) ==
  /\ Dispatch
  /\ Sandboxed
  /\ strategyPath # NoFile
  /\ resultFile \in Results
  /\ lastBacktest' = resultFile
  /\ asked' = [version |-> Current, partition |-> p]
  /\ UNCHANGED <<workspaceVars, submitVars, tested>>

\* The runner was killed while writing bt_result.json: json.loads raises.
SandboxKilledWriting ==
  /\ Dispatch
  /\ Sandboxed
  /\ strategyPath # NoFile
  /\ resultFile' = HalfWritten
  /\ UNCHANGED <<files, written, strategyPath, backtestVars, submitVars>>

submit_strategy ==
  /\ Dispatch
  /\ strategyPath # NoFile
  /\ lastBacktest # NoResult
  /\ submitted' = TRUE
  /\ submittedPath' = strategyPath
  /\ UNCHANGED <<workspaceVars, backtestVars, forced>>

(***************************************************************************)
(* After the loop: the fallback submission, then the result is returned.   *)
(***************************************************************************)
\* Mutant: the fallback is meant for sessions that were nudged.
FallbackIfNudged ==
  ~submitted /\ nudged /\ strategyPath # NoFile /\ lastBacktest # NoResult

Fallback == ~submitted /\ strategyPath # NoFile /\ lastBacktest # NoResult

Return ==
  /\ phase = "exit"
  /\ phase' = "ended"
  /\ submitted' = (submitted \/ Fallback)
  /\ submittedPath' = IF Fallback THEN strategyPath ELSE submittedPath
  /\ forced' = Fallback
  /\ UNCHANGED <<step, pending, nudged, workspaceVars, backtestVars>>

ToolCall ==
  \/ NoEffect
  \/ \E f \in Files : write_strategy(f)
  \/ \E p \in Partitions : BacktestCompletes(p) \/ SandboxFails(p)
  \/ SandboxKilledWriting
  \/ submit_strategy

Loop ==
  \/ \E n \in 1 .. MaxToolCalls : Reply(n)
  \/ SilentReply
  \/ BlankReply
  \/ Raises
  \/ EndOfMessage
  \/ Return

Next == Loop \/ ToolCall

Spec == Init /\ [][Next]_vars

\* The event loop goes on with the coroutine, a model call returns or raises
\* by its timeouts, and a backtest ends by the wall-clock limit (in process:
\* when the strategy returns for each event).
FairSpec == Spec /\ WF_vars(Next)

-----------------------------------------------------------------------------
\* Type invariant; step never passes max_steps.
TypeOK ==
  /\ phase \in {"chat", "blank", "tools", "exit", "ended", "failed"}
  /\ step \in 0 .. MaxSteps
  /\ pending \in 0 .. MaxToolCalls
  /\ nudged \in BOOLEAN
  /\ written \in 0 .. MaxWrites
  /\ files \in [Files -> 0 .. MaxWrites]
  /\ strategyPath \in Files \cup {NoFile}
  /\ resultFile \in Results \cup {NoResult, HalfWritten}
  /\ lastBacktest \in Results \cup {NoResult}
  /\ asked \in Results \cup {NoResult}
  /\ submitted \in BOOLEAN
  /\ submittedPath \in Files \cup {NoFile}
  /\ forced \in BOOLEAN
  /\ tested \subseteq 1 .. MaxWrites

\* The candidate of a session names a file that exists, and its figures are of
\* a run that came to its end, whatever the order of writes, failures,
\* submissions and the fallback.  Nothing here says that file and figures
\* belong together, or that they are those of the submission: the module's
\* docstring has submit_strategy freeze the candidate, but the calls after it in
\* the same reply may write the file again and replace the figures.
CandidateIsReal ==
  /\ lastBacktest # NoResult => lastBacktest.version \in tested
  /\ submitted => /\ submittedPath # NoFile
                  /\ files[submittedPath] > 0
                  /\ tested # {}

\* A session that ends with something tested ends submitted: exhausting steps or
\* falling silent does not leave it without a candidate.  What the fallback
\* submits is the last version written: one that was "validated at least
\* once", as its comment says, unless it was written after the last backtest.
WorkIsNotLost ==
  phase = "ended" =>
    /\ tested # {} => submitted
    /\ forced => files[submittedPath] = written

\* submit_strategy "Ends the session": no model call follows a submission,
\* although the rest of the calls of the same reply are still dispatched.
NoChatAfterSubmission == [][submitted => step' = step]_vars

Task == INSTANCE ExperimentSession WITH
  Limit <- MaxSteps,
  spent <- step,
  status <- IF phase \notin {"ended", "failed"} THEN "running"
            ELSE IF phase = "ended" /\ submitted THEN "submitted"
            ELSE "unsubmitted"

\* A session is one task of the orchestrator: at most max_steps calls, and
\* one end.
ImplementsTask == Task!TaskSpec

TaskSafety == Task!TaskSafety

-----------------------------------------------------------------------------
\* run_backtest is to "Backtest the most recently written strategy": what a
\* call returns is about the file strategy_path named and the partition asked for.
MetricsAreCurrent == lastBacktest = asked

=============================================================================

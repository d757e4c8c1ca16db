# Formal models of QuantResearchAgent

TLA+ models, TLC runs and TLAPS proofs for the parts of QuantResearchAgent whose
correctness depends on the order in which things happen: experiments that share a
semaphore and a database, an agent loop with tools that fail, a recorder that is
cancelled in the middle of a write, a gateway that retries, two market simulators that
are supposed to agree fill for fill, an order book that is rebuilt from messages, and
an evaluation whose verdicts depend on ties, ranks and failures.

Paths below are relative to the repository; `qra/` stands for
`src/quant_research_agent/`. `PROJECT.json` maps every definition that stands for
code to its lines.

    tlasany M.tla                        # parse a module
    tlc -workers 2 -config X.cfg M       # one run; the table below pairs X and M
    tlapm M_proofs.tla                   # check the proofs of a module

## 1. Inventory

The program is one Python process (the monitor: FastAPI, one asyncio event loop, a
thread pool for plain endpoints) or the CLI, a SQLite file, a directory of data
sets, a directory of model answers, and a C++ extension.

| Component | State it keeps | Operations | What is hard about it | Modelled |
|---|---|---|---|---|
| Experiment store `qra/obs/store.py` | four tables and the id sequence | `create_run`, `update_run`, `add_*`, `delete_run`, `delete_evaluation`, `set_survived`, the list queries | every operation commits alone; writers are jobs and curation in other threads; foreign keys are not enforced | `ExperimentStore` |
| Orchestrator `qra/orchestrator.py` | run id, experiment tasks, semaphore, journal, report | `run`: create, gather, record, evaluate in a thread, record, close | cancelled or failing at any await, process death, row-by-row results; experiments that go on after their job failed | `Orchestrator`, `ResearchService` |
| Journal `qra/agent/journal.py` | entries with holdout outcomes | `add`, `summary` into prompts | it is filled after the last prompt was rendered, and lives as long as its orchestrator | in `Orchestrator` |
| Dashboard `qra/obs/dashboard.py` | none of its own | delete and patch runs, factors, data sets; start and cancel jobs | runs in threads beside the event loop | in `ResearchService`, `JobManager`, `OkxRecorder` |
| Job manager `qra/obs/jobs.py` | jobs, tasks, stop events | start, cancel, the two job bodies | cancellation before the first step, swallowed, or beaten by another exception | `JobManager` |
| OKX recorder `qra/data/okx.py` | segment buffer, segment number, files | connect, receive, flush at boundaries, reconnect, last flush | rows in memory across errors, failed writes, deletion of the directory | `OkxRecorder` |
| Depth converter `_DepthToEvents` in `qra/data/okx.py` | the synthetic order of each level, the next identifier | snapshot, update, print | snapshots after a dropped connection, sizes that round away, late prints | `DepthFeed` |
| Recorded data `qra/data/crypto_l2.py`, `dataset.py`, `partition.py` | events, partition bounds | load and sort, partition, `as_of` | equal timestamps, truncated bounds, slices replayed on an empty book | `RecordedData`, `Splits` |
| Agent loop `qra/agent/loop.py` | transcript, steps, nudge | chat, dispatch, nudge, end, fallback submission | several calls in one reply, a submission among them; ends without a submission | `AgentSession`, `ExperimentSession` |
| Tools `qra/tools/` | `ToolContext`: path, last backtest, submission | write, backtest, submit, read-only tools | results read from a file that a failed run did not write | `AgentSession` |
| Sandbox `qra/sandbox/` | a workspace directory | `run` under limits | killed in the middle of a write | in `AgentSession` |
| Context window `qra/agent/context.py` | none (a function on the transcript) | `trim_to_budget` | applied again to its own result; identifiers by position, or always the same | `ContextWindow` |
| Model gateway `qra/models/gateway.py` | semaphore, attempts | `chat` with cache, retries, record | queueing again after a failure, cancellation in the queue, a response that is counted and then lost | `ModelGateway` |
| Response cache `qra/models/cache.py` | a file per prompt | `get`, `put` | shared by all jobs, written in place | `ModelGateway` |
| Cost ledger `qra/obs/ledger.py` | counters | `record` | exact through retries and hits, and through failures of the store and the cache | `ModelGateway`, `Orchestrator` |
| Python simulator `qra/sim/python_sim.py` | book, our orders, position, cash | add, cancel, trade, limit, market | zeroed nodes left in queues, self trades, ids used again | `PythonSimCore` |
| Native simulator `sim_core/include/alphaforge_sim/` | the same over pooled nodes | the same | pointers to nodes that are back in the pool, another rounding | `MarketSimulator` |
| Evaluation `qra/eval/protocol.py`, `multiple_testing.py`, `overfitting.py` | parallel lists, one entry per candidate | backtests, correction, overfitting, verdicts | candidates that fail or exit, ties, ranks, odd partitions | `Evaluation`, `MultipleTesting` |
| Folds and windows `qra/eval/purged_cv.py`, `walk_forward.py` | none (functions) | blocks, windows | remainders, embargo, skipped windows | `Splits` |
| Web interface, tracing, CLI, configuration, report, scripts | | | | not modelled (section 8) |

How they interact. A research job awaits `Orchestrator.run`, whose experiment tasks
each run a `ResearchAgent`; the agent awaits `ModelGateway.chat`, which writes the
ledger and, through `on_usage`, the usage table; its tools call the sandbox, which
blocks the event loop. Curation endpoints act on the same SQLite file and the same
directories from threads, so their operations fall between any two operations of a
job and, for files, between any two steps of a recorder, whether it awaits or not.
The evaluator and the tools drive one of the two simulators, on slices of a synthetic
feed or of a recording; the monitor's recorder and the command line's write the rows a
later session loads.

What makes each component correct, in one sentence each:

- store and orchestrator: what the leaderboard shows is backed by the run, the
  experiment and the job that produced it, a completed run is whole, counts match
  marks, nothing deleted comes back, and a job ends;
- agent session: a submission stands for a file that exists and for a backtest that
  ended, a session that tested something submits, and it ends within its steps;
- context window: calls and results stay paired through any number of cuts;
- recorder and job manager: a received row is lost in named ways only, files are in order, a
  cancelled job ends and stays cancelled;
- gateway: slots and queue are exact, the ledger counts every response once, also one that
  is lost afterwards, an answered prompt keeps its entry, every chat ends;
- converter and data: a replay of any recording shows the exchange's book or less,
  never volume that was not there; slices do not overlap, keep their embargo and show
  nothing of the future;
- evaluation: the rejected candidates are those of the step-up rule, a verdict is about
  its own candidate, a failure never helps another;
- simulators: no fill is counted twice or left out, the queue is honest, both cores
  take the same steps but for late cancels and a tick of a market fill.

## 2. Modules

    RunLifecycle            what a reader of the monitor is promised  (abstract)
      ^ implemented by
    ResearchService  EXTENDS Orchestrator  EXTENDS ExperimentStore
      ResearchService_proofs, MCResearchService

    ExperimentSession       what the orchestrator assumes of a session (abstract)
      ^ implemented by
    AgentSession            AgentSession_proofs, MCAgentSession

    ContextWindow           proved in AgentSession_proofs, MCContextWindow

    JobManager  EXTENDS OkxRecorder
      JobManager_proofs, MCJobManager

    ModelGateway            ModelGateway_proofs, MCModelGateway

    PythonSimCore           PythonSimCore_proofs, MCPythonSimCore
      ^ followed, with two exceptions, by
    MarketSimulator         MarketSimulator_proofs, MCMarketSimulator

    DepthFeed, Splits
      ^ extended by
    RecordedData            RecordedData_proofs, MCRecordedData

    MultipleTesting         Orchestrator (its action Evaluate)
      ^ extended by           ^ implemented by
    Evaluation              Evaluation_proofs, MCEvaluation

`ExperimentSession` closes the gap between two levels: the actions `ModelCall` and
`FinishExperiment` of `Orchestrator` treat a session as something that makes a
bounded number of calls and ends once, and `AgentSession` is shown to be that.
Likewise `JobManager` treats a research job as one long await that ends, which is
`JobsEnd` of `ResearchService`, and `AgentSession` treats a chat as a step that
returns or raises, which is `ChatsEnd` of `ModelGateway`. `Orchestrator` takes any
subset of the candidates as survivors and a PBO only with two candidates, all in one
step: `Evaluation` is shown to be that step (`EvaluationIsReport`). `OkxRecorder` counts rows, and `DepthFeed` says
what they are.

### ExperimentStore, Orchestrator, ResearchService

A table is a set of rows; every store method opens a connection and commits, so each
is one action. `update_run` on a missing row changes nothing, as `UPDATE ... WHERE`
does; ids come from `AUTOINCREMENT` and are never used again. `by` in a row is not a
column: it remembers which job wrote the row, so that properties can speak of it.

`pc[j]` is where the coroutine of job j is: `gather` (experiments run under the
semaphore), `persist` (one `add_experiment` per result), `evaluate` (in a worker
thread), `report` (one evaluation and one journal entry per candidate), then the run
is closed. A cancellation arrives at an await (`gather`, `evaluate`); in `gather` it is
passed on to the experiments (`cancelling`), each of which leaves through `async with` and
gives its slot back. An exception can come from any store call, from what precedes the
experiments (`FailsToStart`) and from an experiment before its agent runs (`StartFails`);
`gather` then raises at once and the other experiments go on without their job, so a job
that is `stopped` may still have sessions that start, call and end. A crash takes every
job and session (`dead`). None of them closes the run, because no handler in the code does. `ResearchService` adds the endpoints that
delete runs and evaluations and mark survivors; an evaluation whose run is gone is still
patched, and only then answered 404. What `evaluate` returns is any
report the evaluator can produce: survivors among the candidates, and a PBO only
with two of them.

### AgentSession

The model is free: each reply has any number of calls of any tool. Contents of files
are versions numbered by the writes. A sandboxed backtest completes, fails before it
writes (`SandboxFails`: the tool then reads what is there from an earlier run) or is
killed while writing (`SandboxKilledWriting`). A call that is refused, whose tool raises or
that only reads is `NoEffect`. `Raises` is an exception that leaves `run`: the gateway gave up, the reply
was white space alone (`BlankReply`: it has no first line), or the arguments of a call are JSON but
no object, which the registry does not take for invalid ones. `asked` and `tested` are observations and no
action's guard reads them.

### ContextWindow

A message is its role, its size and the ids it calls or answers. `Window` is what
`trim_to_budget` returns for the transcript before each call, and it becomes the
transcript, as in the loop: cuts compound. Ids come from the provider, by
position, as `models/openai_compat.py` gives them to replies that have none, or from the
tool, as `EchoModel` repeats them. Its
specification is named `ContextSpec`, with `ContextInit` and `ContextNext`, so that one
module can prove about it and about `AgentSession`, the loop it belongs to.

### OkxRecorder, JobManager

The coroutine `record_okx_segmented_async` with a place for every await and an action
from each to the next. `cancelReq` is a pending `CancelledError`; it is raised at an
await only, goes through the pinger and the closing of the socket on its way out,
and is swallowed when it finds the coroutine waiting for its pinger. Until the loop has been
left or has waited for a message, its pinger has not begun (`first`, `unstarted`): a task cancelled
before its first step never runs the handler that swallows the error, so that `await pinger`
raises `CancelledError`, which neither `suppress(Exception)` nor `except Exception` catches
(`PingerNeverBegan`). This is how a second failing flush, right after a reconnect, ends a
recording, and how one that expires there shows as cancelled though nobody asked.

Requests are handled only while every task is at an await; the deletion endpoints run in threads
and are not bound by that. The deletion of a dataset is `shutil.rmtree`: it lists the
directory, unlinks what it found and removes the directory, with a recorder's writes between
any two of these; a file written since the listing stays and keeps the directory. `lost` observes rows a user deleted and the buffer of a
last flush that failed, `overwritten` the rows of files another recording of the same dataset
wrote over. A refused write leaves the file alone.

### ModelGateway

Each job has its own gateway (semaphore and ledger); all of them share the cache
directory. The semaphore is the FIFO one of asyncio: a slot given back goes to the
session that has waited longest. `Succeed` counts the response, inserts the usage row and
writes the cache file in one step, since there is no await between them. Each may be where it
ends: the store refuses the row (`Unlogged`, and the second half of `Hit`), or the file cannot
be written (`Uncached`, before or after it was emptied); the session then fails with a response
the ledger has counted. `DiesInPut` is the death of the process during the write and leaves a torn file. `min_interval_s` is 0 wherever
a gateway is built, so pacing is not modelled.

What a provider sends is a body: a response, an object without the fields an adapter
looks for (`Foreign`), or no JSON (`Garbage`). The OpenAI adapter raises on a body without
choices (`OpenAICompatChat`), and as nothing handles that exception the chat fails without a
retry (`Unparsed`); the Anthropic adapter makes an empty response of it (`AnthropicChat`),
which is recorded and cached like any other. No adapter reads what is not JSON. An error
status is retried or not by its number (`Retryable`).

### PythonSimCore, MarketSimulator

`task` is the order or trade in progress and says how far the loops of `consume`,
`cross_or_rest` and `market_order` have got; each turn of a loop is one step.
A cancelled node stays in its queue with quantity 0 and is swept later.
`rested`, `ahead`, `reused` and `net` are observations: what an order had left when it
rested, which volume was ahead of it then, which ids were used again while an order of theirs
stood, and what was exchanged with the market. Nothing keeps a strategy from that use of an id, and
`LimitOrder` does not either.
In `MarketSimulator` a queue holds slots of a pool; `market_nodes_` keeps the slot of
every order the feed ever added. The pool is in a git submodule that is empty in this
repository; it is modelled from its two calls, `allocate` and `deallocate`.
The refinement mapping reads the book by value, and an external id as standing only
while its order is.

### DepthFeed, RecordedData, Splits

The exchange is external: its book moves, trades, and is sent as a snapshot when a
subscription begins and then as the levels whose size changed. A print of a trade may
arrive after depth messages that include it. What a dropped connection had not
delivered is lost. The recorder (`record_okx_async`) connects, handles one message per
step and drops or leaves at any time; the level map outlives connections, as the
converter object does. A connection that opens after the deadline ends it with the `CancelledError` of a
pinger that has not begun (`OpensLate`). Sizes are halves of a unit so that `round` matters: 1 rounds
away, 3 rounds to 2. `load_l2` sorts by timestamp, `Ties` then exchanges neighbours of one
timestamp, any number of times, for a sort that keeps no order. `apply_event` is what
a simulator does with a row (a cancelled order stays, with nothing left of it), and `Replay` does so with the
rows of the kinds it is given. `UpTo` is where the simulator's loop over the sorted events stops: before the first one that is
later. `Truncated` stands for `int()` of a floating-point product,
which may lie just below the exact value. Every partition, window and fold of the
code is an operator of `Splits`.

`told` remembers every depth message with the time, the exchange's book and the levels
where a replay may fall short of it (`Short`). Two things make it so, both by the nature of
the feed: a level that was traded and refilled to the size sent last is not in the next
message while its prints are in the file, and a trade in the millisecond of the message that
includes it is replayed on top of that message. A level stays short until a message
names it. No two changes of the exchange's book share a millisecond in the model.

### MultipleTesting, Evaluation

p-values and the level are numerators over one denominator, so that a comparison of quotients
is a comparison of products. `Orders` is every result `argsort` may give. `Evaluation` is the
body of `evaluate`: one step per candidate, which runs, fails, or exits the interpreter and
ends the evaluation of all (`Exits`), one for each statistic, one per verdict. What a backtest gives (a p-value, and a score on each half of the
blocks) is free, except where the code fixes it for short returns. `ran` remembers what each
candidate really gave. Nothing the code calls between the first and the last append of a
candidate can raise, so a candidate is appended to all lists or, in the handler, to all
of them.

`Caller` is `Orchestrator` with one job, whose submitted experiments are the candidates: it is at `evaluate` until the last
verdict and at `report` from then on, and its survivors and PBO are empty until then. Experiments, the store and the journal
do not change meanwhile.

## 3. Runs

| Run (`.cfg`) | Module | Question | Properties |
|---|---|---|---|
| `two_jobs` | MCResearchService | What does a reader see while two jobs write, users curate, jobs are cancelled and the process dies? | BoardHasProvenance, CompletedRunIsWhole |
| `one_job` | MCResearchService | Does one job with more experiments than slots account for slots, keep its headline count, follow the lifecycle and end? | TypeOK, SlotsAccounted, SurvivorCountHolds, ImplementsLifecycle, JobsEnd |
| `session` | MCAgentSession | Is what a session submits real, does a session that tested something submit, is a session a task? | TypeOK, CandidateIsReal, WorkIsNotLost, ImplementsTask, NoChatAfterSubmission |
| `context_window` | MCContextWindow | Are calls and results paired after repeated cuts? | PairsInv (TypeOK, NoDanglingResult, NoUnansweredCall), WindowFits |
| `jobs` | MCJobManager | Are rows lost in named ways only, and does a cancelled job end as cancelled, whatever fails when? | StatusInv (TypeOK, CancelIsFinal, NoJobForgotten), RowsKept, SegmentsInOrder, CancelEnds |
| `gateway` | MCModelGateway | Are slots, queue, ledger and cache exact through retries, cancellation and death? | LedgerInv (TypeOK, LedgerIsExact), SlotsHeldAtProvider, AnsweredIsCached, ChatsEnd |
| `python_core` | MCPythonSimCore | Are position, queue priority and the listing of orders right in every step? | TypeOK, PositionIsNet, QueueIsHonest, OrdersAreListed |
| `native_core` | MCMarketSimulator | Does the pooled simulator take the reference's steps, but for late cancels and a tick of a market fill? | PoolInv (TypeOK, QueuedOnce), FollowsReference |
| `depth_feed` | MCRecordedData | Does a recording replay to the exchange's book through drops, late prints and ties, and do its slices keep apart? | FeedInv (TypeOK, CancelsNameOrders), DepthIsRebuilt, ReplaysAreTruthful (LoadedDepthHolds, SlicesAreTruthful), AsOfIsPointInTime, CutsKeepEmbargo (PartitionsKeepEmbargo, FoldsArePurged), CutsTile |
| `evaluation` | MCEvaluation | Do corrections, PBO and verdicts agree with their definitions whatever ties and fails, and is the whole one step of the orchestrator? | EvaluationsAreTheirOwn, CorrectionIsExact (StepUpIsExact, AdjustedAgrees), FailuresOnlyHurt, PboJudgesSelection, EvaluationIsReport |
| `stale_metrics` | MCAgentSession | violated: a backtest's figures are about what was asked | MetricsAreCurrent |
| `late_cancels` | MCMarketSimulator | violated: both simulators agree on any feed | Parity |

A name with parts in brackets is their conjunction. The types of `Evaluation` are part of the
invariant that is proved of it (section 5).

### Bounds, and why they are enough

- `two_jobs`: jobs of two and of one experiment, one slot each, no model
  calls (they only add usage rows, which `one_job` has). Two jobs are
  needed for rows of one job to be taken for another's; two experiments for a run to
  be half written and for a PBO to exist. Every prefix of the writes meets every
  curation. `one_job`: three experiments (`MaxExp`) on two slots (`MaxParallel`), so
  that one has to wait, one may fail while another runs, and `MaxCalls` = 1, since
  one call per session shows what a call writes.
- `session`: `MaxSteps` 4, `MaxToolCalls` 3 in one reply, `MaxWrites` 3, two files. Three
  calls are write, backtest, submit in one reply, with a fourth effect in the next;
  four steps leave room for a nudge, work, and the fallback.
- `context_window`: `MaxTurns` 4 with up to `MaxCalls` 2 calls, messages of size 1 or 3
  (`Sizes`), `Budget` 6, `KeepRecent` 2. A turn outweighs the budget or half of it, so
  that every cut position inside a group of a call and its results occurs, and cuts
  repeat. The shipped values are 24 000 and 6; what matters is that a group
  can be larger than what is kept.
- `jobs`: one recorder with `MaxRows` 3 (rows in several segments, a failed write
  between two of them), one research job, one deletion of a dataset at a time. Two recorders of one dataset are beyond TLC's reach
  within minutes; `RowsKeptHolds` and `OrderHolds` are proved for any number.
- `gateway`: two sessions that share one slot (`MaxConcurrency` 1), a third on
  another gateway and the same cache, the one with the OpenAI adapter and the other with the
  Anthropic one, `MaxRetries` 1, `MaxChats` 2 for the sessions of the first and 1 for the other, which meets
  what the first two cached, two prompts, one response, a status that is
  retried (503) and one that is not (404).
- `python_core`: two prices and two sizes, `MaxEvents` 3 and `MaxActions` 3, one id for
  our orders, four node identities, half a tick of impact per unit. Enough for an order to
  queue behind volume that is cancelled or traded, for an order with ourselves, for
  a sweep over two levels, and for an id to be used again. A node identity
  is used again once it is in no queue, and the one id may be used while its order stands.
  `native_core`: the same with `MaxActions` 2 and three slots, so that slots are handed out again,
  half a tick of impact per unit, so that the two ways to round part, and late cancels. The default coefficient
  0.1 is a tenth; the theorem covers any.

- `depth_feed`: two levels (`NLevels`), `Sizes` of nothing, one that rounds away, one and two
  units, two opening books, `MaxEvents` 4 rows (the code's own limit), `MaxClock` 4. Four rows are a
  snapshot of two levels, a replacement of one (a cancel and an add) or a print, and two snapshots
  with a drop between them; four milliseconds let a print arrive after two
  later messages. A message that begins below four rows may end above, as in the code.
  `Fractions` 50 and 25 percent with an embargo of 20: the embargo is an event as soon as there are
  five rows. `NWindows` 3 windows on holdouts of at most a few events, so that windows are
  skipped; folds for every k up to the number of events. The proofs cover other
  sizes.
- `evaluation`: up to four candidates (`MaxCandidates`), `PValues` of 1, 2, 4 and 8 eighths, of which the
  thresholds 1/8, 2/8 and 4/8 at level 4/8 are met exactly, two `Scores`, three
  partitions (odd, lowered to two). Four candidates have a rank above its threshold below
  one that is not, ties on both sides of the cut, and failures between them.

Nodes and slots are symmetric in `python_core` and `native_core`; neither run checks
liveness. `FollowsReference` is a safety property, and the mapping treats slots
alike. Deadlock is not an error in any run: each model comes to rest when jobs have
ended or a bound is spent, as the program does.

### What the runs show

`two_jobs` and `one_job`: whatever is deleted, cancelled or killed at whatever
point, an evaluation on the board joins exactly one experiment row, written by the
job that wrote the evaluation and opened the run; a run shown as completed has all
rows except those a user removed. `SurvivorCountHolds` excepts two curations (`stale`): a patch
before the run is closed, as `update_run` writes the count of the report over whatever `set_survived` had
counted until then, and a deletion, as `delete_evaluation` does not count again. A later patch counts anew and
repairs either.
nobody curated before they were closed: `update_run` writes the count of the
report over whatever `set_survived` had counted until then, and
`delete_evaluation` does not count again.
`ImplementsLifecycle` adds that a deleted run does not come back when its job, which
goes on, closes it.

`session`: a submission names a file that was written, and there was a backtest that ended;
the figures are those of a version that was tested. That file and figures belong together is
not claimed: a later call of the same reply may rewrite the file or replace the figures, the
fallback submits the last version written, tested or not, and `stale_metrics` exhibits figures of
an older version. `WorkIsNotLost` is about sessions that end; one that raises loses what it had,
a submission included.

`context_window`: with identifiers of the provider no result loses its call. With
positional ones, or those of `EchoModel`, it can: the repair finds the same identifier in a later reply. The
property says so by its antecedent. `WindowFits` says what `keep_recent` means: the
budget is given up rather than cutting below it, although the repair afterwards may.

`jobs`: the buffer survives failed writes and comes out under the same segment
number, with a deletion going on beside them too; a cancellation that the pinger swallows still
ends the recording, by the stop event that was set before. A job that was cancelled shows it; the
converse is not claimed, for the reason above.

`gateway`: a slot is never lost to a session that is cancelled in the queue, and a
retry leaves the slot during its pause. The ledger counts more than sessions got: exactly the
responses that the store or the cache then took from them.

`python_core`: the position is exact between any two steps of a sweep, fills of an
order with itself included; an order fills only after what was ahead of it is gone;
a cancel takes away the volume of an order of that id and of no other; and an order of ours
that has volume can be cancelled by its id, unless the strategy used the id again while the
order stood. Then the map leads to the newer order, the fill of the older one takes the entry
away, and one of the two is out of reach. `native_core`: the native simulator does the same
with the same book. It parts from the reference by a cancel of an order that is gone, and by one tick of a market fill whose price
with impact is half-way between two ticks or below zero; after either, its steps are again steps of
the reference from the book as it is then.

`depth_feed`: in the file as written, cancels and adds pair up through any number of connections, and
depth messages alone rebuild the book. After sorting and with the prints, the replay
shows the exchange's depth at every depth message or, in the two cases above, less: a late print
or a cancel sorted before its add never leaves volume nobody offered. A
slice that starts in the middle shows a level once it has been added in the slice.

`evaluation`: what is rejected does not depend on how `argsort` orders ties, the adjusted
p-value shown beside a decision agrees with it, and a candidate that crashes counts in the number of
tests and so only makes it harder for others. The PBO is 0 for a candidate that is the best
of every half and 1 for scores that turn round; unless two candidates share the best score of a half,
it is the same for the reversed list of candidates.

### Disagreements between code and documentation

1. `stale_metrics`. The tool is to backtest the most recently written strategy. The
   result of the sandbox is dropped and `bt_result.json` read: when the run failed,
   the figures are those of an earlier run, version and partition.
2. `late_cancels`. The write-up promises identical equity curves. The native
   simulator sets the node of a cancelled external order to zero through a pointer it
   keeps for ever; when the order was consumed the node may belong to another order
   by now, ours included. Both feeds of the repository emit such cancels;
   the parity test's feed has none.

Noted without a run of their own; in each the model does what the code does, and the properties
claim no more than that:

- `qra/agent/journal.py:3-6` says that a summary of outcomes is injected into the next experiment's
  prompt. The journal is filled after all experiments have finished, and each orchestrator starts
  with an empty one, so no prompt has any.
- `qra/tools/backtest_tool.py:5`, `docs/DESIGN.md:73` and `docs/WRITEUP.md:45` say that the submitted
  candidate is frozen. Calls after `submit_strategy` in the same reply are dispatched and may
  rewrite its file or replace its figures.
- `qra/agent/loop.py:136-137` submits, as a fallback, "a strategy that was validated at least once". It submits
  the last version written, which may be younger than the last backtest.
- `qra/obs/dashboard.py:207` means to "refuse to clobber an existing dataset" and to "allow append into
  dir". Segment numbers start at 1 in each recording, so the first files are overwritten
  (`overwritten` in `RowsKept`).
- `qra/data/okx.py:294` says that the stream auto-reconnects on drops. An error in the first turn of the
  loop on a new connection, as a flush that fails again, ends the recording (`PingerNeverBegan`), and the job
  shows as cancelled.
- `qra/data/okx.py:211-216` says that rows collected before a drop are preserved and that an exception is raised
  only if nothing could be recorded. A connection that opens after the deadline raises `CancelledError` and
  loses all rows (`OpensLate`).
- `qra/data/okx.py:29` says that replaying the rows reproduces the correct aggregate depth at every
  timestamp. It does for depth messages alone (`DepthIsRebuilt`); with the prints it shows
  less in the two cases of `LoadedDepthHolds`, and a slice from the middle shows a level only
  after it changes.
- `qra/agent/context.py:4-6` says that the model never sees a tool result without its call. With identifiers
  that come back in later replies it does (the antecedent of `NoDanglingResult`). Besides,
  `_to_anthropic` in `qra/models/openai_compat.py` sends assistant messages without their tool calls.
- `qra/eval/protocol.py:151` catches `Exception` so that "buggy candidate code must not crash the harness". A
  strategy that calls `sys.exit()` raises `SystemExit`, which is none (`Exits`).
- `qra/obs/store.py:239` deletes a run "and all related" rows. Rows that its job inserts
  afterwards stay in their tables; no list shows them, but `overview_counts`
  (`qra/obs/store.py:223-236`) counts the evaluations and survivors among them.
- `docs/WRITEUP.md:32-33` promises identical equity curves (`late_cancels`). They also part by a tick where
  Python rounds half to even and C++ half up: the default coefficient 0.1 does so at a depth of 5
  (`TickAbove` in `FollowsReference`).
- A completed run with fewer than two usable candidates has a NULL `pbo` and is shown as running.
- `cscv_partitions` of 1 or 0 is not refused ("must be even" is a comment in
  `qra/config.py`) and raises out of `evaluate`; `PartitionsAssumption` excludes it.

Assumptions on what comes from outside:

- Depth messages are well-formed. A malformed level in the middle of one raises out of `on_book` after the level map has
  changed: the cancels of that message are never written, and the reconnect's snapshot cannot write them
  either. The exchange of the model sends none.
- No strategy gives an order the id 0, which both cores would take for market volume; the shipped
  strategies begin at 1 (`OrderIdsAssumption`).
- A sandboxed backtest blocks the event loop, so a recorder beside it may miss its keep-alive; time is
  not modelled, and a connection may drop at any moment anyway.

## 4. Fairness

Only liveness properties use it; users, cancellations, crashes and the feed are never
obliged to do anything. `RecordedData` and `Evaluation` state none: the first waits for an
exchange, the second is a loop over a list.

- `ResearchService`: weak fairness of each coroutine step, of the start and of the
  end of each experiment. The event loop runs every ready task; a semaphore waiter is
  woken when a slot is free (weak fairness suffices because the first one in the
  queue stays enabled until it starts); a session ends by `ImplementsTask`.
- `AgentSession`: weak fairness of the loop as a whole. A chat returns or raises
  within the timeouts and retries of the gateway; a sandboxed backtest ends by its
  wall-clock limit. An in-process backtest ends if the strategy returns for each
  event, which nothing enforces.
- `JobManager`: weak fairness of each task. Connecting has a timeout, the wait for a
  message lasts to the next boundary at most, pauses end. Boundaries and the deadline
  are not fair: they are not needed, since `stop` ends the loop.
- `ModelGateway`: weak fairness of the step of each session at the provider or in a
  pause. A request ends by its timeout. The semaphore's queue needs no fairness of its
  own, because giving a slot back names the next holder. Beginning a chat is not
  fair.

Finite retries, steps and rows in these runs are the code's own limits, except
`MaxRows`, `MaxChats` and `MaxWrites`. `CancelEnds` does not rest on `MaxRows`: the loop
tests the stop event before each message.

## 5. Proofs

The theorems hold for all values of the constants that satisfy the named `ASSUME`s;
they say what the code guarantees of its parameters (`max_parallel` is positive, an
experiment count is a natural number, the id reserved for the market is not used by the
strategy, and so on) and that bounds are natural numbers. No theorem about a specification has a
hypothesis beyond these; where the code needs an exception, the property names it. Every theorem
named in a table below states a property that a run checks, or is the invariant behind it.

| Module | Theorems |
|---|---|
| ResearchService_proofs | TypeCorrect, SlotsNeverLeak, ProvenanceHolds, CompletedRunsAreWhole, SurvivorCountsHold, LifecycleImplemented |
| AgentSession_proofs | SessionTypeCorrect, CandidatesAreReal, TestedWorkIsSubmitted, SubmissionEndsSession, SessionIsATask, PairsHold, WindowsFit |
| JobManager_proofs | StatusIsTrue, OrderHolds, RowsKeptHolds |
| ModelGateway_proofs | SlotsHold, LedgerHolds, CacheHolds |
| PythonSimCore_proofs | SimTypeCorrect, PositionIsExact, QueueHonest, OrdersListed |
| MarketSimulator_proofs | PoolSound, NativeFollows |
| RecordedData_proofs | EmbargoKept, FoldsPurged, CutsApart, CutsTileAll, RowsNameOrders, DepthRebuilt, NoLookahead, ReplaysTruthful |
| Evaluation_proofs | RejectedIsStepUp, OwnEvaluations, ExactStepUp, FailuresMakeStricter, AdjustedTellsTheSame, CorrectionHolds, OverfittingIsAboutTheChoice, EvaluationReports |

### How recursion is proved about

The code's loops over lists are recursive functions here, `f[i \in 0 .. n] == ...`. The prover has
no induction principle to instantiate, so each proof takes three steps. A set of numbers
that has 0 and is closed under the successor has them all (`EveryNumber`, from the well-foundedness of
`<`). So a function with the wanted recurrence exists for every length, and the one
`CHOOSE` picks has it, index by index (`SelectedBySteps`, `EstimatedBySteps`, `DropBySteps`, `ReplayBySteps`,
`FactorialIs`). Then the set of lengths for which the claim holds has 0 and is closed.

### ResearchService_proofs

`TInv` is `TypeOK`, `SlotsAccounted` and that the set of
evaluations is finite. The three need each other: a released slot stays within
`0 .. MaxParallel` only because the session that holds it is counted, and `n_survivors`
is a number only because what it counts is finite. `PhaseInv` says what a job has behind it: past
`gather` all its experiments have finished, and its journal is empty until the report loop. No guard says the
former; sessions of a job that stopped in `gather` do go on.

`BoardInv` is what makes the leaderboard true. Run ids are given once (`IdsInv`); a row of `runs` is
that of the job with its id, and has a PBO only when the job is done (`RunsInv`); a row of
`experiments` says of its job's experiment what is so (`ExperimentsInv`); an evaluation is about a
candidate of the job that wrote it, and as long as its run is there so is the experiment it joins
(`EvaluationsInv`); what the two loops of a job have passed is in the tables unless a user
removed it (`WholeInv`, with `Persisted` and `Judged` for "passed"). One lemma per table says what any step
does to it (`RunMoves`, `TableMoves`, `LoopMoves`), so that the conjuncts are preserved without going through all
actions each time. `ProvenanceHolds` and `CompletedRunsAreWhole` follow. For
`SurvivorCountsHold`, `MarksInv` says that while a report is written the marks are those of the
report, unless the run was curated; then what the job counts and what is marked have the same
size when it closes (`ClosingCount`).

`LifecycleImplemented` is the refinement of `RunLifecycle`. Each step maps to opening, revealing,
closing, deleting, withdrawing or patching a run, or to a stutter. `JournalInv` (the journal of a job
names every evaluation it wrote and stays behind its cursor) is why an evaluation is never
revealed twice, and `RunsInv` why a run that was deleted does not come back.

### AgentSession_proofs

`SessionInv` adds to the types where a session can be when it
is submitted (`LoopInv`) and how file versions, the result file, the context's
figures and the tested versions hang together (`WorkspaceInv`): a readable
result file is about a tested version, and figures exist exactly when something
was tested. It yields the first four theorems and `SessionIsATask`, the safety part of the
refinement of `ExperimentSession`.

`ContextInv` is about the transcript, not the window. `Paired`: it begins with the system prompt and has
no other, only assistants call and only tool messages answer, every answer belongs to a
call in the transcript and every call has a later answer. `Led`, when the provider names the calls: a result
follows the message that made its call with only results between, no two messages share an identifier, and
all identifiers carry earlier turns. None of the parts of `PairsInv` is inductive alone: that a result keeps its
call after a cut needs that no other message made it, and that calls keep their results
needs that popping leaves a suffix. `WindowIs` says what `trim_to_budget` returns, whether it cuts or not:
an order-preserving selection (`Embeds`) of those messages among the first and the last ones that
stand (`Standing`). `WindowPaired` and `WindowLed` carry the invariant to any such selection,
`ExtensionPaired` and `ExtensionLed` from the window to the next transcript. For `WindowsFit`, a selection
is no larger than what it is made from (`SelectionFits`) and no longer (`IncreasingGrow`).

### JobManager_proofs

`FilesInv`: the buffer holds the newest rows, and the number of the next file is above that of every file
with a row of the job. That is `SegmentsInOrder` made inductive; it survives a failed write because the number goes up
only after a write. `JobsInv` ties the signals to the status: a pending `CancelledError` was asked for, a
recorder that was told to stop before its first step still has the error pending, and a task that ended left a status that
is final. `StatusIsTrue` follows.

`KeptInv` says of every row that was received where it is (`Somewhere`): in the buffer, in a file, in `lost`,
or in `overwritten` with another recording of the same dataset there to have done it. A flush moves the buffer to
a file and what that file held of others to `overwritten`; of its own rows it holds none, by `FilesInv`.
A deletion, listing, unlinking and removing as it does, moves files to `lost` (`DeletionLoses`). `CoroutineInv`
says that a recording that ended has nothing in its buffer that is not in `lost`. `RowsKeptHolds` follows for any number of recordings, of one
dataset or of many.

### ModelGateway_proofs

`SemInv`: free slots and chats at the provider add up to `MaxConcurrency`; while a slot is free nobody waits; the
queue holds exactly the waiting, each once. The last is needed to know that the one a slot is given to is waiting
and not somewhere else, after any cancellation in the queue. The set of callers is finite
(`CallersAssumption`), or chats at the provider could not be counted. `LedgerHolds` rests on `AccountInv`: the ledger
counts what returned and the sessions that lost a response, each in a place of its own (`unlogged`, `uncached`), so
that the two cardinalities go up by one with the counters (`ComesCount`, `AccountMoves`). `AttemptInv`: only a session
with an attempt left pauses. `CacheHolds` rests on `CacheInv`: an entry is overwritten and torn, but never removed.

### PythonSimCore_proofs

`SimInv` is `TypeOK`, `TaskConsistent` and `PositionIsNet`.
The position is compared with the exchange in the middle of a sweep, when the taker's
side of the current level is not settled yet; `TaskConsistent` says that nothing is
unsettled between levels. One lemma per action; `ZeroedType`, `EnqueueType` and
`FrontOfQueue` are the facts on queues they share. `SimTypeCorrect` includes that a
level never gives more than was asked.

`BookInv` looks at the book by place (side, price, position in the queue): no node is in two places (`IdsOnce`), the maps lead to
what they say (`Listed`, `External`; an id leads to every order of it that stands unless it is in `reused`), what is ahead of an order stands before it in its queue and nothing
is once it has filled in part (`AheadIsBefore`). Cancelling, popping the front and filling it in part
move places alike, and `Shrinks` says how; `ShrinkKeeps` is proved once for all of them. `QueueHonest` and
`OrdersListed` follow.

### MarketSimulator_proofs

`PoolSound` holds of every feed, late cancels included: a pointer leads to a slot, though perhaps to another order's.
`NativeFollows` is the refinement, with its two exceptions in the property: a late cancel (`late_cancels` shows what
it does) and the tick of a market fill. `RoundsApart` is why there is no other: rounding half up and truncating gives the same as
rounding half to even unless the price is half-way between two ticks or below zero, and then one tick more; it is
about any coefficient, by way of `Quotient`. Each other action of the native core is shown
to be the action of that name of the reference: the mapping reads a queue of slots
by value, and a queue changes in it as its slots and their contents do (`PushBack`, `PopEffect`, `PartialEffect`, `ZeroEffect`).
A slot the pool hands out is in no queue, so that it is a fresh node (`AllocatableIsFresh`).

### RecordedData_proofs

`CutInv` says that the bounds of a dataset are `partition_events` of some natural numbers, the embargo among
them: `Truncated` of anything is natural, and no other action writes them. `EmbargoKept`, `FoldsPurged` and
`CutsTileAll` are then arithmetic for any number of events, folds and windows: bounds go up (`BoundsGoUp`),
blocks and windows begin where the last one ended and the last one ends with the events.

`FeedSound` is the converter's invariant. Of the rows: what is not a cancel has volume, an order is added once
and cancelled at most once, after it was added and at its level (`RowsSound`). Of the level map: it names
orders that were added to their level and not cancelled (`MapSound`). The second is why the first is kept by
the cancels of an update and by those of a snapshot after a dropped connection; identifiers that go up are why
an add names a new order. `RowsNameOrders` follows for any number of levels, connections and messages.

For `DepthRebuilt`, `Shows(d, v)`: in the replay of a converter's adds and cancels, the order the map names
for a level has the volume `v` gives the level and no other order has any (`Mirrors`; that no two orders share
an identifier is part of it, or a cancel could empty two). `emit_remove`, `Add`, `emit_set`, `drop_all` and
`on_book` each change `v` as their name says (`RemoveShows` to `BookShows`, the last two by induction over the
levels). `DepthSound` is the invariant: there is such a `v` at any time, and while a subscription lasts it is
the scaled book last sent. Between a drop and the next snapshot `v` is whatever the old connection left, and
the snapshot sets every level of it anew.

`NoLookahead`: after the load, events are in the order of their timestamps (`SortedIs`: a row's place counts
the rows before it), and `bisect_right` returns the number of events up to the time (`BisectIs`, by induction
on the length of the interval), so that a slice holds exactly those the time allows.

`ReplaysTruthful` is proved in three parts, because a replay runs over the rows in an order that is not the
one in which they were written:

1. What the rows say, in no particular order. `Agree(r, q, m, l)` is about the rows `r`, the prints `q` still
   to come, a depth message `m` and a level: either every order added to the level by then is cancelled by
   then, at a later timestamp, and the size is 0; or one order stands (`Stands`), it has the size of the
   message, every other was added before it and is cancelled, and any trade since then is one the message is
   short of. `RowsAgree` has this for every message that was told. It needs `Quoted`, which accounts for every
   order (`Accounts`: cancelled later, or on the map with the volume sent), `Pending` (a trade since an order
   was added is in `traded`, or some message is short of its level) and `Fresh` (while the exchange's book
   differs from what was sent, no add or cancel carries the clock's time, which is why a cancel and the add it cancels
   never share a timestamp). `MessagesSound` is their conjunction, `StepIs` says that a step is a depth
   message or writes no order (`Quiet`), and `AgreeStays` that later rows change nothing about an earlier
   message.
2. Loading. `AgreeReordered`: a permutation of the rows says the same, and `sorted` and `Ties` are
   permutations (`EventsSound`).
3. Replaying. `Traces` ties each order of a replayed book to the event that added it: it has no more than was
   added, nothing once it was cancelled, and all of it if neither a cancel nor a trade at its level followed.
   Every event keeps it (`TracesNext`), and a trade takes from its level only (`LeftIs`). Because events are
   in order, a cancel of a later timestamp comes after the add, within the slice if it is in time (`SliceIs`);
   so at most one order of a level has volume (`NoneLeft`, `OneLeft`). If that order was added before the
   slice began, nothing of the level was added in it, as all other orders are older still (`SliceShows`).

### Evaluation_proofs

`RejectedIsStepUp`: the code sorts, finds the last rank under its threshold and rejects up to it; the
definition counts, for some k, the p-values under the k-th threshold. One direction injects the ranks up to
the cut into the p-values under its threshold (`Monotone` compares the products). In the other, among k
p-values under the k-th threshold one has rank k or more (`RankAtLeast`, by counting), so the cut is no less
than k. `LastRank` says that the `CHOOSE` of `cutoff` has a value, by well-foundedness; `OrderReachesAll` that
a permutation is onto. The argument nowhere uses which order equal values have.

`EvaluationInv`: the lists are as long as the candidates that ran and say of each what it gave (`Aligned`);
the statistics begin when all have run (`AllRan`); the correction is `rejected` under some order
(`IsCorrected`); verdicts so far are about their candidates (`Reported`). `OwnEvaluations` follows, and with
`RejectedIsStepUp` `ExactStepUp`.

`FailuresMakeStricter`: a p-value of 1 in place of a candidate that crashed leaves the places of the others
and raises the number of tests, so a p-value that is under its threshold among all is under it among those
that ran (`StricterWithFailures`; `OrderExists` gives the others an order to be compared under).
`AdjustedTellsTheSame`: the adjusted p-value of rank r is the least of the products from r upwards
(`RunningMinLeast`), so it is at most alpha exactly when some rank from r on is under its threshold, which is
the step-up rule. The products are whole numbers because the denominator is a factorial that every rank
divides (`FactorialDivides`).

`OverfittingIsAboutTheChoice` is an action property. `ScoresInv`: until the overfitting step the returns are
kept in the order the candidates ran, and those of a candidate that did not fail have a score for every half.
So `ok_returns` numbers the scores of those that ran as `Place` does (`OkReturnsAre`). The rest is about any
table of scores: `Best` exists and is the first of the best (`BestIs`), by a set of lengths closed under the
successor; the complement of a half is a half (`ComplementIsHalf`); one candidate that dominates leaves all
others below it (`DominantIsNotOverfit`), opposite orders leave none (`ReversedIsOverfit`), and reversing the
list moves those below the best one to one (`OrderDoesNotMatter`).

`EvaluationReports` is the refinement of `Evaluate`. The step that gives the last verdict, or `Overfitting`
when there are no candidates, maps to it (`Seen`), all others change nothing the caller sees (`Unseen`), and
none follows (`JudgedOnce`). It needs `ChoiceInv`: a PBO is set only by `Overfitting`, from at least two lists
of returns, and there are no more of those than candidates (`OkReturnsAreFew`).

### Model-checked only

- Liveness (`JobsEnd`, `CancelEnds`, `ChatsEnd`, the end in `ImplementsTask`): the prover reaches neither
  fairness nor `ENABLED`.
- The two runs that expect a violation.

## 6. Abstractions

Left out everywhere: wording, formatting, logging, money and tokens. The columns of a
row are its keys, its flags and what the status is inferred from. A strategy's source
is a version number; what a backtest returns is the version and partition. Time is
left out: timeouts, boundaries and deadlines may happen at any moment. In the
simulators the strategy acts between any two events, fees and equity are left out, and
cash is in ticks. Prices of the depth feed are level numbers (two prices of a recording may share a tick
when it is loaded with a coarse tick size; here they do not), its two sides are one list
in the order `on_book` visits them, and identifiers of levels stand for (side, price). Corrections are exact
arithmetic where the code compares floats, which may decide otherwise at equality. The Sharpe
ratio of a part of the holdout is any score; the deflated Sharpe ratio and the comparison with the
baselines are one choice per candidate.

A file is written in one step except where a crash in the middle is modelled: the
cache file and the sandbox's result. A segment file is not; a crash of the
monitor ends recordings and their buffers, and nothing in the code recovers them.

## 7. Plan

Done: the research service, the agent session, the context window, jobs and recorder,
the gateway, both simulators, the depth feed with what becomes of a recording, the evaluation,
eight proof modules. In this order of importance, what remains:

1. Sandbox: a container that outlives `docker kill` and writes its result after the next
   backtest has begun.
2. `usePolling`: overlapping polls in the web interface, where an older response may replace a newer.

## 8. Not modelled, and why

Sharpe ratios, moments, deflation and normal quantiles are floating point over reals. Synthetic data
is random generation; what it may contain is an input of the simulators. Native bindings
convert arguments. Tracing observes. CLI, configuration, report, scripts and the web
interface (but for `usePolling`) parse, render or drive what is modelled. Wire formats of the
providers and the scripted answers of `EchoModel` are data of a chat that returns. The listings of
the dataset monitor only read directories, and may race with a deletion without changing
anything.

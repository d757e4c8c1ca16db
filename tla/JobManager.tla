----------------------------- MODULE JobManager -----------------------------
(***************************************************************************)
(* JobManager (obs/jobs.py): record and research jobs as asyncio tasks, a  *)
(* status for each, and cancellation.  A record job runs OkxRecorder; a    *)
(* research job awaits Orchestrator.run, whose steps are the subject of    *)
(* ResearchService and which is one long await here.                       *)
(***************************************************************************)
EXTENDS OkxRecorder

VARIABLES
  status,    \* job.status, "none" before the job is created
  research   \* where the coroutine of each research job is

vars == <<recorderVars, status, research>>

Researchers == Jobs \ Recorders
Terminal == {"completed", "failed", "cancelled"}

Init ==
  /\ RecorderInit
  /\ status = [j \in Jobs |-> "none"]
  /\ research = [j \in Researchers |-> "idle"]

SetStatus(j, s) == status' = [status EXCEPT ![j] = s]
SetResearch(j, place) == research' = [research EXCEPT ![j] = place]

TaskDone(j) == IF j \in Recorders THEN rec[j] = "ended" ELSE research[j] = "ended"

\* The event loop runs a request only when every task is at an await.
LoopIsFree ==
  /\ \A j \in Recorders : rec[j] \in Awaits \cup {"idle", "ended"}
  /\ \A j \in Researchers : research[j] \in {"idle", "running", "ended"}

\* start_record, start_research: the task is created but not begun.
start(j) ==
  /\ LoopIsFree
  /\ status[j] = "none"
  /\ SetStatus(j, "queued")
  /\ UNCHANGED <<recorderVars, research>>

\* Mutant: the status is left to the task.
CancelLeavesStatus(j) ==
  /\ LoopIsFree
  /\ status[j] \in {"queued", "running"}
  /\ stop' = [stop EXCEPT ![j] = TRUE]
  /\ cancelReq' = [cancelReq EXCEPT ![j] = ~TaskDone(j)]
  /\ UNCHANGED <<rec, how, received, fileVars, clockVars, directoryVars, lost,
                 status, research>>

\* A job that is over is returned as it is.
cancel(j) ==
  /\ LoopIsFree
  /\ status[j] \in {"queued", "running"}
  /\ stop' = [stop EXCEPT ![j] = TRUE]
  /\ cancelReq' = [cancelReq EXCEPT ![j] = ~TaskDone(j)]
  /\ SetStatus(j, "cancelled")
  /\ UNCHANGED <<rec, how, received, fileVars, clockVars, directoryVars, lost, research>>

(***************************************************************************)
(* _run_record.                                                            *)
(***************************************************************************)
RunRecord(j) ==
  /\ status[j] # "none"
  /\ CoroutineStep(j)
  /\ IF At(j, "idle") /\ rec'[j] # "ended" THEN SetStatus(j, "running")
     ELSE UNCHANGED status
  /\ UNCHANGED research

\* Mutant: a recorder that returns has completed.
ReturnedMeansCompleted(j) ==
  CASE rec[j] = "returned" -> "completed"
    [] rec[j] = "cancelled" -> "cancelled"
    [] rec[j] = "raised" -> "failed"

Outcome(j) ==
  CASE rec[j] = "returned" /\ ~stop[j] -> "completed"
    [] rec[j] = "returned" /\ stop[j] -> "cancelled"
    [] rec[j] = "cancelled" -> "cancelled"
    [] rec[j] = "raised" -> "failed"

EndRecord(j) ==
  /\ rec[j] \in {"returned", "cancelled", "raised"}
  /\ SetStatus(j, Outcome(j))
  /\ Goto(j, "ended")
  /\ UNCHANGED <<how, received, fileVars, clockVars, directoryVars, lost,
                 signalVars, research>>

(***************************************************************************)
(* _run_research.                                                          *)
(***************************************************************************)
BeginResearch(j) ==
  /\ status[j] # "none"
  /\ research[j] = "idle"
  /\ ~cancelReq[j]
  /\ SetStatus(j, "running")
  /\ SetResearch(j, "running")
  /\ UNCHANGED recorderVars

\* CancelledError before the first step, or out of Orchestrator.run.
ResearchCancelled(j) ==
  /\ research[j] \in {"idle", "running"}
  /\ cancelReq[j]
  /\ cancelReq' = [cancelReq EXCEPT ![j] = FALSE]
  /\ SetStatus(j, "cancelled")
  /\ SetResearch(j, "ended")
  /\ UNCHANGED <<rec, how, received, fileVars, clockVars, directoryVars, lost, stop>>

EndResearch(j, s) ==
  /\ research[j] = "running"
  /\ ~cancelReq[j]
  /\ SetStatus(j, s)
  /\ SetResearch(j, "ended")
  /\ UNCHANGED recorderVars

ResearchStep(j) ==
  \/ BeginResearch(j)
  \/ ResearchCancelled(j)
  \/ \E s \in {"completed", "failed"} : EndResearch(j, s)

Requests == \E j \in Jobs : start(j) \/ cancel(j)

Deletions ==
  /\ \E d \in Datasets : delete_dataset(d) \/ \E k \in Segments : delete_segment(d, k)
  /\ UNCHANGED <<status, research>>

Clock == (\E j \in Recorders : Boundary(j) \/ Deadline(j)) /\ UNCHANGED <<status, research>>

TaskStep(j) ==
  \/ j \in Recorders /\ (RunRecord(j) \/ EndRecord(j))
  \/ j \in Researchers /\ ResearchStep(j)

Next ==
  \/ Requests
  \/ \E j \in Jobs : TaskStep(j)
  \/ Deletions
  \/ Clock

Spec == Init /\ [][Next]_vars

\* The event loop runs every ready task: a connection opens, fails or times
\* out, a wait for a message lasts until the next boundary at most, a pause
\* ends, an orchestrator run ends (JobsEnd of ResearchService).
FairSpec ==
  /\ Spec
  /\ \A j \in Recorders : WF_vars(RunRecord(j)) /\ WF_vars(EndRecord(j))
  /\ \A j \in Researchers : WF_vars(ResearchStep(j))

-----------------------------------------------------------------------------
\* Type invariant.
TypeOK ==
  /\ rec \in [Recorders -> Places]
  /\ how \in [Recorders -> {"clean", "error", "cancel"}]
  /\ received \in [Recorders -> 0 .. MaxRows]
  /\ buffer \in [Recorders -> SUBSET Segments]
  /\ segIdx \in [Recorders -> 1 .. MaxRows + 1]
  /\ due \in [Recorders -> BOOLEAN]
  /\ timeUp \in [Recorders -> BOOLEAN]
  /\ disk \in [Datasets -> [Segments -> SUBSET Rows]]
  /\ dirThere \in [Datasets -> BOOLEAN]
  /\ listed \in [Datasets -> SUBSET Segments]
  /\ deleting \in [Datasets -> BOOLEAN]
  /\ lost \subseteq Rows
  /\ overwritten \subseteq Rows
  /\ stop \in [Jobs -> BOOLEAN]
  /\ cancelReq \in [Jobs -> BOOLEAN]
  /\ status \in [Jobs -> Terminal \cup {"none", "queued", "running"}]
  /\ research \in [Researchers -> {"idle", "running", "ended"}]

\* Whatever is interrupted when (errors, cancellations at any await, failed
\* writes, deletions that find a file or not), a row that was received is in
\* the buffer or in a file, unless a user deleted it, the last write of its
\* job failed, or another recording of the same dataset wrote over its file.
Shared(j) == \E i \in Recorders \ {j} : Dataset[i] = Dataset[j]

RowsKeptOf(j) ==
  \A n \in 1 .. received[j] :
    \/ n \in buffer[j] /\ rec[j] # "ended"
    \/ <<j, n>> \in OnDisk(Dataset[j]) \cup lost
    \/ <<j, n>> \in overwritten /\ Shared(j)

RowsKept == \A j \in Recorders : RowsKeptOf(j)

\* Segment files hold the rows of a job in the order they were received, so
\* that a CANCEL in a later file refers to an ADD in the same or an earlier
\* one, also after writes that failed and were repeated.
SegmentsInOrder ==
  \A j \in Recorders : \A k, l \in Segments :
    k < l => \A m, n \in 1 .. MaxRows :
      <<j, m>> \in disk[Dataset[j]][k] /\ <<j, n>> \in disk[Dataset[j]][l] => m < n

\* A cancelled job never shows another status than cancelled, or failed when
\* its last write failed: it does not run on, and it never completes, even
\* when the recorder swallows the CancelledError and returns.
CancelIsFinal == \A j \in Jobs : stop[j] => status[j] \in {"cancelled", "failed"}

\* A task that is over left its job in a terminal status, also when it was
\* cancelled before its first step.
NoJobForgotten == \A j \in Jobs : TaskDone(j) => status[j] \in Terminal

\* What the monitor shows of a job is so: its fields are well-formed, a
\* cancellation is final and the end of a task shows.  The converse is not
\* claimed: a recording that PingerNeverBegan ends shows as cancelled too.
StatusInv == TypeOK /\ CancelIsFinal /\ NoJobForgotten

\* A cancelled job's task ends, wherever the cancellation found it: also
\* when the pinger swallowed it, by the stop event.
CancelEnds == \A j \in Jobs : stop[j] ~> TaskDone(j)
=============================================================================

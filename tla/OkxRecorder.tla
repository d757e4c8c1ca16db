---------------------------- MODULE OkxRecorder ----------------------------
(***************************************************************************)
(* record_okx_segmented_async (data/okx.py): the body of a record job.     *)
(* It keeps a socket open, appends the rows of every message to a buffer,  *)
(* writes the buffer to the next segment file at each wall-clock boundary, *)
(* reconnects after errors, and writes what is left on its way out.  The   *)
(* endpoint and the length of the pause, which follow the number of        *)
(* errors, are left out.                                                   *)
(*                                                                         *)
(* A row is <<j, n>>, the n-th row job j received.  Every recording        *)
(* numbers its segments from 1, so that recordings of the same dataset     *)
(* write over each other's files.  Cancellation of the task is delivered   *)
(* at an await: connecting, receiving, waiting for the pinger, closing the *)
(* socket, backing off.  Between awaits nothing of the event loop runs;    *)
(* only the deletion endpoints do, in their threads.                       *)
(***************************************************************************)
EXTENDS Naturals, FiniteSets

CONSTANTS
  Jobs,       \* jobs of the monitor
  Recorders,  \* those of kind "record"
  Datasets,   \* directories under data_root
  Dataset,    \* the directory (and prefix) each recorder writes to
  MaxRows     \* bound: rows received by one job

ASSUME RecordersAssumption == Recorders \subseteq Jobs
ASSUME DatasetAssumption == Dataset \in [Recorders -> Datasets]
ASSUME BoundsAssumption == MaxRows \in Nat

VARIABLES
  rec,       \* where the coroutine of each recorder is
  how,       \* why it is closing its socket
  received,  \* rows received
  buffer,    \* seg_rows
  segIdx,    \* seg_idx
  due,       \* now >= next_flush
  timeUp,    \* now >= total_deadline
  disk,      \* rows in each segment file of each dataset, {} if missing
  dirThere,  \* whether the directory of each dataset exists
  listed,    \* files that a deletion of each dataset found and has yet to unlink
  deleting,  \* whether a deletion of each dataset is under way
  lost,      \* observed: rows deleted by a user or left in a final buffer
  overwritten,  \* observed: rows in files that another recording wrote over
  stop,      \* stop_event of each job
  cancelReq  \* Task.cancel() was called and CancelledError not raised yet

fileVars == <<buffer, segIdx, disk, overwritten>>
clockVars == <<due, timeUp>>
signalVars == <<stop, cancelReq>>
directoryVars == <<dirThere, listed, deleting>>
recorderVars == <<rec, how, received, fileVars, clockVars, directoryVars,
                  lost, signalVars>>

\* "first" is the top of the loop on a new connection, whose pinger has been
\* created but not begun; "unstarted" awaits such a pinger.
Awaits == {"connect", "recv", "pinger", "unstarted", "close", "backoff"}
Places == Awaits \cup {"idle", "first", "top", "leave", "returned", "raised", "cancelled",
                       "ended"}
Segments == 1 .. MaxRows
Rows == Recorders \X Segments

RecorderInit ==
  /\ rec = [j \in Recorders |-> "idle"]
  /\ how = [j \in Recorders |-> "clean"]
  /\ received = [j \in Recorders |-> 0]
  /\ buffer = [j \in Recorders |-> {}]
  /\ segIdx = [j \in Recorders |-> 1]
  /\ due = [j \in Recorders |-> FALSE]
  /\ timeUp = [j \in Recorders |-> FALSE]
  /\ disk = [d \in Datasets |-> [k \in Segments |-> {}]]
  /\ dirThere = [d \in Datasets |-> FALSE]
  /\ listed = [d \in Datasets |-> {}]
  /\ deleting = [d \in Datasets |-> FALSE]
  /\ lost = {}
  /\ overwritten = {}
  /\ stop = [j \in Jobs |-> FALSE]
  /\ cancelReq = [j \in Jobs |-> FALSE]

At(j, place) == rec[j] = place
Goto(j, place) == rec' = [rec EXCEPT ![j] = place]

\* Mutant: only the total duration ends a recording.
DeadlineOnly(j) == timeUp[j]

expired(j) == stop[j] \/ timeUp[j]

OnDisk(d) == UNION {disk[d][k] : k \in Segments}

(***************************************************************************)
(* flush().  The buffer is emptied only after the file was written; a      *)
(* write fails when the directory is gone or the disk refuses it.          *)
(***************************************************************************)

\* Mutant: the buffer is swapped out before the write.
FlushDropsBuffer(j) ==
  /\ buffer[j] # {}
  /\ buffer' = [buffer EXCEPT ![j] = {}]
  /\ UNCHANGED <<segIdx, disk, overwritten>>

FlushFails(j) == buffer[j] # {} /\ UNCHANGED fileVars

\* Mutant: seg_rows is not reset.
FlushKeepsBuffer(j) ==
  IF buffer[j] = {} THEN UNCHANGED fileVars
  ELSE /\ dirThere[Dataset[j]]
       /\ segIdx[j] \in Segments
       /\ disk' = [disk EXCEPT ![Dataset[j]][segIdx[j]] = {j} \X buffer[j]]
       /\ segIdx' = [segIdx EXCEPT ![j] = @ + 1]
       /\ UNCHANGED <<buffer, overwritten>>

Target(j) == disk[Dataset[j]][segIdx[j]]

Flush(j) ==
  IF buffer[j] = {} THEN UNCHANGED fileVars
  ELSE /\ dirThere[Dataset[j]]
       /\ overwritten' = overwritten \cup {row \in Target(j) : row[1] # j}
       /\ disk' = [disk EXCEPT ![Dataset[j]][segIdx[j]] = {j} \X buffer[j]]
       /\ segIdx' = [segIdx EXCEPT ![j] = @ + 1]
       /\ buffer' = [buffer EXCEPT ![j] = {}]

(***************************************************************************)
(* The coroutine.                                                          *)
(***************************************************************************)
Begin(j) ==
  /\ At(j, "idle")
  /\ ~cancelReq[j]
  /\ dirThere' = [dirThere EXCEPT ![Dataset[j]] = TRUE]
  /\ Goto(j, "connect")
  /\ UNCHANGED <<how, received, fileVars, clockVars, listed, deleting, lost, signalVars>>

\* A task cancelled before its first step never runs its body.
NeverBegins(j) ==
  /\ At(j, "idle")
  /\ cancelReq[j]
  /\ cancelReq' = [cancelReq EXCEPT ![j] = FALSE]
  /\ Goto(j, "ended")
  /\ UNCHANGED <<how, received, fileVars, clockVars, directoryVars, lost, stop>>

Connected(j) ==
  /\ At(j, "connect")
  /\ ~cancelReq[j]
  /\ Goto(j, "first")
  /\ UNCHANGED <<how, received, fileVars, clockVars, directoryVars, lost, signalVars>>

\* Where the loop is left for: pinger.cancel() and "await pinger".
Pinger(j) == IF At(j, "first") THEN "unstarted" ELSE "pinger"

\* The top of the receiving loop.
Iterate(j) ==
  /\ rec[j] \in {"first", "top"}
  /\ \/ /\ expired(j)
        /\ how' = [how EXCEPT ![j] = "clean"]
        /\ Goto(j, Pinger(j))
        /\ UNCHANGED <<fileVars, due>>
     \/ /\ ~expired(j) /\ ~due[j]
        /\ Goto(j, "recv")
        /\ UNCHANGED <<fileVars, due, how>>
     \/ /\ ~expired(j) /\ due[j]
        /\ Flush(j)
        /\ due' = [due EXCEPT ![j] = FALSE]
        /\ Goto(j, "recv")
        /\ UNCHANGED how
  /\ UNCHANGED <<received, timeUp, directoryVars, lost, signalVars>>

\* A failed write is handled like a dropped connection, and the rows stay;
\* the boundary stays due, so that the write is repeated on reconnecting.
IterateFails(j) ==
  /\ rec[j] \in {"first", "top"}
  /\ ~expired(j) /\ due[j]
  /\ FlushFails(j)
  /\ how' = [how EXCEPT ![j] = "error"]
  /\ Goto(j, Pinger(j))
  /\ UNCHANGED <<received, clockVars, directoryVars, lost, signalVars>>

\* A message; one that carries no row (ack, pong) is a timeout here.
Receive(j) ==
  /\ At(j, "recv")
  /\ ~cancelReq[j]
  /\ received[j] < MaxRows
  /\ received' = [received EXCEPT ![j] = @ + 1]
  /\ buffer' = [buffer EXCEPT ![j] = @ \cup {received[j] + 1}]
  /\ Goto(j, "top")
  /\ UNCHANGED <<how, segIdx, disk, overwritten, clockVars, directoryVars, lost, signalVars>>

RecvTimeout(j) ==
  /\ At(j, "recv")
  /\ ~cancelReq[j]
  /\ due[j] \/ timeUp[j]
  /\ Goto(j, "top")
  /\ UNCHANGED <<how, received, fileVars, clockVars, directoryVars, lost, signalVars>>

Drop(j) ==
  /\ At(j, "recv")
  /\ ~cancelReq[j]
  /\ how' = [how EXCEPT ![j] = "error"]
  /\ Goto(j, "pinger")
  /\ UNCHANGED <<received, fileVars, clockVars, directoryVars, lost, signalVars>>

\* pinger.cancel(), then the pinger returns.  A cancellation of the job that
\* arrives while it waits for the pinger is passed on to the pinger, which
\* swallows it.
PingerEnds(j) ==
  /\ At(j, "pinger")
  /\ cancelReq' = [cancelReq EXCEPT ![j] = FALSE]
  /\ Goto(j, "close")
  /\ UNCHANGED <<how, received, fileVars, clockVars, directoryVars, lost, stop>>

\* A pinger cancelled before its first step never runs the handler that
\* swallows CancelledError: "await pinger" raises it, suppress(Exception) and
\* "except Exception" let it pass, and it replaces whatever was under way.
PingerNeverBegan(j) ==
  /\ At(j, "unstarted")
  /\ how' = [how EXCEPT ![j] = "cancel"]
  /\ cancelReq' = [cancelReq EXCEPT ![j] = FALSE]
  /\ Goto(j, "close")
  /\ UNCHANGED <<received, fileVars, clockVars, directoryVars, lost, stop>>

\* Leaving "async with connect": on, out of the loop, or to the handler.
Closed(j) ==
  /\ At(j, "close")
  /\ ~cancelReq[j]
  /\ how[j] # "error"
  /\ Goto(j, "leave")
  /\ UNCHANGED <<how, received, fileVars, clockVars, directoryVars, lost, signalVars>>

\* on_reconnect, then the pause, unless the recording is over anyway.
Reconnect(j) ==
  /\ ~cancelReq[j]
  /\ \/ At(j, "close") /\ how[j] = "error"
     \/ At(j, "connect")
  /\ how' = [how EXCEPT ![j] = "clean"]
  /\ IF expired(j) THEN Goto(j, "leave") ELSE Goto(j, "backoff")
  /\ UNCHANGED <<received, fileVars, clockVars, directoryVars, lost, signalVars>>

WakesUp(j) ==
  /\ At(j, "backoff")
  /\ ~cancelReq[j]
  /\ IF expired(j) THEN Goto(j, "leave") ELSE Goto(j, "connect")
  /\ UNCHANGED <<how, received, fileVars, clockVars, directoryVars, lost, signalVars>>

\* CancelledError at an await.  Inside the socket it first goes through the
\* pinger and the closing handshake.
Cancelled(j) ==
  /\ rec[j] \in Awaits \ {"unstarted"}
  /\ cancelReq[j]
  /\ cancelReq' = [cancelReq EXCEPT ![j] = FALSE]
  /\ how' = [how EXCEPT ![j] = "cancel"]
  /\ Goto(j, CASE rec[j] = "recv" -> "pinger"
               [] rec[j] = "pinger" -> "close"
               [] OTHER -> "leave")
  /\ UNCHANGED <<received, fileVars, clockVars, directoryVars, lost, stop>>

\* The finally clause.  Its own failure replaces whatever was under way.
Leave(j) ==
  /\ At(j, "leave")
  /\ Flush(j)
  /\ Goto(j, IF how[j] = "cancel" THEN "cancelled" ELSE "returned")
  /\ UNCHANGED <<how, received, clockVars, directoryVars, lost, signalVars>>

LeaveFails(j) ==
  /\ At(j, "leave")
  /\ FlushFails(j)
  /\ lost' = lost \cup ({j} \X buffer[j])
  /\ Goto(j, "raised")
  /\ UNCHANGED <<how, received, clockVars, directoryVars, signalVars>>

CoroutineStep(j) ==
  \/ Begin(j) \/ NeverBegins(j) \/ Connected(j) \/ Iterate(j) \/ IterateFails(j)
  \/ Receive(j) \/ RecvTimeout(j) \/ Drop(j) \/ PingerEnds(j)
  \/ PingerNeverBegan(j) \/ Closed(j) \/ Reconnect(j) \/ WakesUp(j) \/ Cancelled(j)
  \/ Leave(j) \/ LeaveFails(j)

\* Time passes: a segment boundary, and the end of the total duration.
Boundary(j) ==
  /\ rec[j] \in Awaits
  /\ ~due[j]
  /\ due' = [due EXCEPT ![j] = TRUE]
  /\ UNCHANGED <<rec, how, received, fileVars, timeUp, directoryVars, lost, signalVars>>

Deadline(j) ==
  /\ rec[j] \in Awaits
  /\ ~timeUp[j]
  /\ timeUp' = [timeUp EXCEPT ![j] = TRUE]
  /\ UNCHANGED <<rec, how, received, fileVars, due, directoryVars, lost, signalVars>>

(***************************************************************************)
(* DELETE /api/data/datasets/... (obs/data_monitor.py), from threads of    *)
(* their own.  shutil.rmtree lists the directory, unlinks what it found,   *)
(* one file after the other, and removes the directory.  Bound: one        *)
(* deletion of a dataset at a time.                                        *)
(***************************************************************************)
ListsFiles(d) ==
  /\ dirThere[d] /\ ~deleting[d]
  /\ deleting' = [deleting EXCEPT ![d] = TRUE]
  /\ listed' = [listed EXCEPT ![d] = {k \in Segments : disk[d][k] # {}}]
  /\ UNCHANGED <<dirThere, disk, lost>>

Removes(d, k) ==
  /\ disk[d][k] # {}
  /\ disk' = [disk EXCEPT ![d][k] = {}]
  /\ lost' = lost \cup disk[d][k]

Unlinks(d, k) ==
  /\ k \in listed[d]
  /\ Removes(d, k)
  /\ listed' = [listed EXCEPT ![d] = @ \ {k}]
  /\ UNCHANGED <<dirThere, deleting>>

\* A file that went meanwhile: Python 3.12 raises, 3.13 goes on.
FindsNone(d, k) ==
  /\ k \in listed[d] /\ disk[d][k] = {}
  /\ \/ listed' = [listed EXCEPT ![d] = @ \ {k}] /\ UNCHANGED deleting
     \/ /\ listed' = [listed EXCEPT ![d] = {}]
        /\ deleting' = [deleting EXCEPT ![d] = FALSE]
  /\ UNCHANGED <<dirThere, disk, lost>>

\* os.rmdir fails if a segment was written since the listing.
RemovesDirectory(d) ==
  /\ deleting[d] /\ listed[d] = {}
  /\ deleting' = [deleting EXCEPT ![d] = FALSE]
  /\ dirThere' = [dirThere EXCEPT ![d] = OnDisk(d) # {}]
  /\ UNCHANGED <<listed, disk, lost>>

delete_dataset(d) ==
  /\ \/ ListsFiles(d)
     \/ \E k \in Segments : Unlinks(d, k) \/ FindsNone(d, k)
     \/ RemovesDirectory(d)
  /\ UNCHANGED <<rec, how, received, buffer, segIdx, overwritten, clockVars, signalVars>>

delete_segment(d, k) ==
  /\ Removes(d, k)
  /\ UNCHANGED <<rec, how, received, buffer, segIdx, overwritten, clockVars, directoryVars,
                 signalVars>>
=============================================================================

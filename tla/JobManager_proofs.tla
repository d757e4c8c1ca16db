------------------------- MODULE JobManager_proofs -------------------------
(***************************************************************************)
(* Theorems about JobManager, for any jobs, recorders, datasets and number *)
(* of rows, wherever a job is cancelled, a connection lost, a write        *)
(* refused or a file deleted.                                              *)
(***************************************************************************)
EXTENDS JobManager, TLAPS

(***************************************************************************)
(* The inductive invariant of the files: the buffer holds the newest rows, *)
(* the number of the next file is above that of every file with a row of   *)
(* the job, and within the bound as long as there is something to write.   *)
(***************************************************************************)
BufferIsNewest(j) ==
  /\ buffer[j] \subseteq 1 .. received[j]
  /\ segIdx[j] <= received[j] + 1
  /\ buffer[j] # {} => segIdx[j] <= received[j]

FilesAreOld(j) ==
  \A k \in Segments : \A n \in 1 .. MaxRows :
    <<j, n>> \in disk[Dataset[j]][k] =>
      /\ k < segIdx[j]
      /\ n <= received[j]
      /\ \A m \in buffer[j] : n < m

FilesInv == \A j \in Recorders : BufferIsNewest(j) /\ FilesAreOld(j)

\* Nothing is received before the task begins, and what is in the buffer
\* after flush() on the way out failed is counted as lost.
CoroutineInv ==
  \A j \in Recorders :
    /\ rec[j] = "idle" => received[j] = 0
    /\ rec[j] \in {"returned", "raised", "cancelled", "ended"} =>
         {j} \X buffer[j] \subseteq lost

\* A pending CancelledError was asked for by cancel(), and a job that was
\* cancelled before its first step still has it pending.
SignalInv ==
  /\ \A j \in Jobs : cancelReq[j] => stop[j]
  /\ \A j \in Recorders : rec[j] = "idle" /\ stop[j] => cancelReq[j]
  /\ \A j \in Researchers : research[j] # "ended" /\ stop[j] => cancelReq[j]

RecorderTypes ==
  /\ rec \in [Recorders -> Places]
  /\ how \in [Recorders -> {"clean", "error", "cancel"}]
  /\ due \in [Recorders -> BOOLEAN]
  /\ timeUp \in [Recorders -> BOOLEAN]
  /\ dirThere \in [Datasets -> BOOLEAN]
  /\ listed \in [Datasets -> SUBSET Segments]
  /\ deleting \in [Datasets -> BOOLEAN]

FileTypes ==
  /\ received \in [Recorders -> 0 .. MaxRows]
  /\ buffer \in [Recorders -> SUBSET Segments]
  /\ segIdx \in [Recorders -> 1 .. MaxRows + 1]
  /\ disk \in [Datasets -> [Segments -> SUBSET Rows]]
  /\ lost \subseteq Rows
  /\ overwritten \subseteq Rows

JobTypes ==
  /\ stop \in [Jobs -> BOOLEAN]
  /\ cancelReq \in [Jobs -> BOOLEAN]
  /\ status \in [Jobs -> Terminal \cup {"none", "queued", "running"}]
  /\ research \in [Researchers -> {"idle", "running", "ended"}]

LEMMA TypesByPart == TypeOK <=> RecorderTypes /\ FileTypes /\ JobTypes
BY DEF TypeOK, RecorderTypes, FileTypes, JobTypes

FileState == <<received, fileVars, lost>>

LEMMA FilesStutter ==
  ASSUME FileTypes, FilesInv, UNCHANGED FileState
  PROVE  FileTypes' /\ FilesInv'
BY DEF FileTypes, FilesInv, FilesAreOld, BufferIsNewest, FileState, fileVars

(***************************************************************************)
(* flush() moves the buffer to a file of its own.                          *)
(***************************************************************************)
LEMMA FlushWrites ==
  ASSUME NEW j \in Recorders, FileTypes, FilesInv, Flush(j), buffer[j] # {}
  PROVE  /\ segIdx[j] \in Segments
         /\ buffer' = [buffer EXCEPT ![j] = {}]
         /\ segIdx' = [segIdx EXCEPT ![j] = segIdx[j] + 1]
         /\ disk' \in [Datasets -> [Segments -> SUBSET Rows]]
         /\ disk'[Dataset[j]][segIdx[j]] = {j} \X buffer[j]
         /\ \A d \in Datasets, k \in Segments :
              d # Dataset[j] \/ k # segIdx[j] => disk'[d][k] = disk[d][k]
         /\ overwritten' \subseteq Rows
         /\ overwritten' = overwritten \cup {row \in Target(j) : row[1] # j}
<1> USE DatasetAssumption, BoundsAssumption
<1>1. segIdx[j] \in Segments
  BY DEF FilesInv, BufferIsNewest, FileTypes, Segments
<1>2. /\ disk' = [disk EXCEPT ![Dataset[j]][segIdx[j]] = {j} \X buffer[j]]
      /\ segIdx' = [segIdx EXCEPT ![j] = segIdx[j] + 1]
      /\ buffer' = [buffer EXCEPT ![j] = {}]
      /\ overwritten' = overwritten \cup {row \in Target(j) : row[1] # j}
  BY DEF Flush
<1>3. {j} \X buffer[j] \subseteq Rows
  BY DEF FileTypes, Rows, Segments
<1>4. Dataset[j] \in Datasets
  OBVIOUS
<1>5. disk \in [Datasets -> [Segments -> SUBSET Rows]]
  BY DEF FileTypes
<1>6. Target(j) \subseteq Rows /\ overwritten \subseteq Rows
  BY <1>1, <1>4, <1>5 DEF Target, FileTypes
<1> HIDE DatasetAssumption, BoundsAssumption
<1>7. QED
  BY <1>1, <1>2, <1>3, <1>4, <1>5, <1>6

LEMMA FlushKeepsFiles ==
  ASSUME NEW j \in Recorders, FileTypes, FilesInv, Flush(j), UNCHANGED <<received, lost>>
  PROVE  FileTypes' /\ FilesInv'
<1> USE DatasetAssumption, BoundsAssumption
<1>1. CASE buffer[j] = {}
  BY <1>1, FilesStutter DEF Flush, FileState, fileVars
<1>2. CASE buffer[j] # {}
  <2>1. /\ segIdx[j] \in Segments
        /\ overwritten' \subseteq Rows
        /\ buffer' = [buffer EXCEPT ![j] = {}]
        /\ segIdx' = [segIdx EXCEPT ![j] = segIdx[j] + 1]
        /\ disk' \in [Datasets -> [Segments -> SUBSET Rows]]
        /\ disk'[Dataset[j]][segIdx[j]] = {j} \X buffer[j]
        /\ \A d \in Datasets, k \in Segments :
             d # Dataset[j] \/ k # segIdx[j] => disk'[d][k] = disk[d][k]
    BY <1>2, FlushWrites
  <2>2. FileTypes'
    BY <2>1 DEF FileTypes, Segments
  <2>3. ASSUME NEW i \in Recorders PROVE BufferIsNewest(i)'
    BY <1>2, <2>1 DEF FilesInv, BufferIsNewest, FileTypes, Segments
  <2>4. ASSUME NEW i \in Recorders PROVE FilesAreOld(i)'
    <3> SUFFICES ASSUME NEW k \in Segments, NEW n \in 1 .. MaxRows,
                        <<i, n>> \in disk'[Dataset[i]][k]
                 PROVE  /\ k < segIdx'[i]
                        /\ n <= received'[i]
                        /\ \A m \in buffer'[i] : n < m
      BY DEF FilesAreOld
    <3>0. segIdx \in [Recorders -> Nat] /\ segIdx'[j] = segIdx[j] + 1 /\ buffer'[j] = {}
      BY <2>1 DEF FileTypes
    <3>1. CASE Dataset[i] = Dataset[j] /\ k = segIdx[j]
      <4>1. i = j /\ n \in buffer[j]
        BY <2>1, <3>1
      <4>2. n <= received[j]
        BY <4>1 DEF FilesInv, BufferIsNewest, FileTypes
      <4>3. QED
        BY <3>0, <3>1, <4>1, <4>2
    <3>2. CASE ~(Dataset[i] = Dataset[j] /\ k = segIdx[j])
      <4>1. <<i, n>> \in disk[Dataset[i]][k]
        BY <2>1, <3>2
      <4>2. k < segIdx[i] /\ n <= received[i] /\ \A m \in buffer[i] : n < m
        BY <4>1 DEF FilesInv, FilesAreOld
      <4>3. buffer'[i] \subseteq buffer[i] /\ (segIdx'[i] = segIdx[i] \/ segIdx'[i] = segIdx[i] + 1)
        BY <2>1 DEF FileTypes
      <4>4. QED
        BY <3>0, <4>2, <4>3 DEF Segments
    <3>3. QED
      BY <3>1, <3>2
  <2>5. QED
    BY <2>2, <2>3, <2>4 DEF FilesInv
<1>3. QED
  BY <1>1, <1>2

LEMMA ReceiveKeepsFiles ==
  ASSUME NEW j \in Recorders, FileTypes, FilesInv, Receive(j)
  PROVE  FileTypes' /\ FilesInv'
<1> USE BoundsAssumption
<1>1. /\ received' = [received EXCEPT ![j] = received[j] + 1]
      /\ buffer' = [buffer EXCEPT ![j] = buffer[j] \cup {received[j] + 1}]
      /\ received[j] \in 0 .. MaxRows /\ received[j] < MaxRows
      /\ UNCHANGED <<segIdx, disk, lost, overwritten>>
  BY DEF Receive, FileTypes
<1>2. FileTypes'
  BY <1>1 DEF FileTypes, Segments
<1>3. ASSUME NEW i \in Recorders PROVE BufferIsNewest(i)'
  BY <1>1 DEF FilesInv, BufferIsNewest, FileTypes, Segments
<1>4. ASSUME NEW i \in Recorders PROVE FilesAreOld(i)'
  BY <1>1 DEF FilesInv, FilesAreOld, FileTypes, Segments
<1>5. QED
  BY <1>2, <1>3, <1>4 DEF FilesInv

(***************************************************************************)
(* A deletion takes rows from the files and counts them as lost.           *)
(***************************************************************************)
LEMMA RemovalLoses ==
  ASSUME NEW d \in Datasets, NEW s \in Segments, FileTypes, Removes(d, s)
  PROVE  /\ disk' \in [Datasets -> [Segments -> SUBSET Rows]]
         /\ lost' \subseteq Rows /\ lost \subseteq lost'
         /\ \A e \in Datasets, k \in Segments :
              /\ disk'[e][k] \subseteq disk[e][k]
              /\ disk[e][k] \subseteq disk'[e][k] \cup lost'
BY DEF Removes, FileTypes

LEMMA DeletionLoses ==
  ASSUME FileTypes, Deletions
  PROVE  /\ disk' \in [Datasets -> [Segments -> SUBSET Rows]]
         /\ lost' \subseteq Rows /\ lost \subseteq lost'
         /\ \A d \in Datasets, k \in Segments :
              /\ disk'[d][k] \subseteq disk[d][k]
              /\ disk[d][k] \subseteq disk'[d][k] \cup lost'
<1>1. \/ \E d \in Datasets, s \in Segments : Removes(d, s)
      \/ UNCHANGED <<disk, lost>>
  BY DEF Deletions, delete_dataset, delete_segment, ListsFiles, Unlinks, FindsNone,
         RemovesDirectory
<1>2. CASE UNCHANGED <<disk, lost>>
  BY <1>2 DEF FileTypes
<1>3. QED
  BY <1>1, <1>2, RemovalLoses

LEMMA DeletionsKeepFiles ==
  ASSUME FileTypes, FilesInv, Deletions
  PROVE  FileTypes' /\ FilesInv'
<1> USE DatasetAssumption
<1>1. UNCHANGED <<received, buffer, segIdx, overwritten>>
  BY DEF Deletions, delete_dataset, delete_segment
<1>2. QED
  BY <1>1, DeletionLoses DEF FileTypes, FilesInv, FilesAreOld, BufferIsNewest

\* A final write that fails: what is left in the buffer is lost.
LEMMA FailedLeaveKeepsFiles ==
  ASSUME NEW j \in Recorders, FileTypes, FilesInv, LeaveFails(j)
  PROVE  FileTypes' /\ FilesInv'
<1>1. /\ lost' = lost \cup ({j} \X buffer[j])
      /\ UNCHANGED <<received, buffer, segIdx, disk, overwritten>>
  BY DEF LeaveFails, FlushFails, fileVars
<1>2. {j} \X buffer[j] \subseteq Rows
  BY DEF FileTypes, Rows, Segments
<1>3. QED
  BY <1>1, <1>2 DEF FileTypes, FilesInv, FilesAreOld, BufferIsNewest

(***************************************************************************)
(* Steps of the coroutine by what they do to the files: flush(), a         *)
(* message, a final write that fails; the others leave them alone.         *)
(***************************************************************************)
FlushStep(j) == Flush(j) /\ UNCHANGED <<received, lost>>

LEMMA StepsOnFiles ==
  ASSUME NEW j \in Recorders, CoroutineStep(j)
  PROVE  \/ UNCHANGED FileState
         \/ FlushStep(j) /\ dirThere' = dirThere
         \/ Receive(j)
         \/ LeaveFails(j)
BY DEF CoroutineStep, FlushStep, FileState, fileVars, Begin, NeverBegins, Connected,
       Iterate, IterateFails, FlushFails, RecvTimeout, Drop, PingerEnds,
       PingerNeverBegan, Closed, directoryVars, Reconnect, WakesUp, Cancelled, Leave

LEMMA NextOnFiles ==
  ASSUME [Next]_vars
  PROVE  \/ UNCHANGED FileState
         \/ \E j \in Recorders : FlushStep(j) \/ Receive(j) \/ LeaveFails(j)
         \/ Deletions
<1>1. CASE Requests
  BY <1>1 DEF Requests, start, cancel, recorderVars, FileState, fileVars
<1>2. ASSUME NEW j \in Jobs, TaskStep(j)
      PROVE  UNCHANGED FileState \/ (j \in Recorders /\ (FlushStep(j) \/ Receive(j) \/ LeaveFails(j)))
  <2>1. CASE j \in Recorders /\ RunRecord(j)
    BY <2>1, StepsOnFiles DEF RunRecord
  <2>2. CASE j \in Recorders /\ EndRecord(j)
    BY <2>2 DEF EndRecord, FileState
  <2>3. CASE j \in Researchers /\ ResearchStep(j)
    BY <2>3 DEF ResearchStep, BeginResearch, ResearchCancelled, EndResearch,
                recorderVars, FileState, fileVars
  <2>4. QED
    BY <1>2, <2>1, <2>2, <2>3 DEF TaskStep
<1>3. CASE Clock
  BY <1>3 DEF Clock, Boundary, Deadline, FileState, directoryVars
<1>4. CASE UNCHANGED vars
  BY <1>4 DEF vars, recorderVars, FileState, fileVars
<1>5. QED
  BY <1>1, <1>2, <1>3, <1>4 DEF Next

LEMMA FilesNext ==
  ASSUME FileTypes, FilesInv, [Next]_vars
  PROVE  FileTypes' /\ FilesInv'
BY NextOnFiles, FilesStutter, FlushKeepsFiles, ReceiveKeepsFiles, FailedLeaveKeepsFiles,
   DeletionsKeepFiles DEF FlushStep

(***************************************************************************)
(* Well-formedness of the rest of the state.                               *)
(***************************************************************************)
LEMMA CoroutineTypes ==
  ASSUME NEW j \in Recorders, RecorderTypes, CoroutineStep(j)
  PROVE  RecorderTypes'
<1> USE DatasetAssumption DEF RecorderTypes
<1>1. CASE Begin(j) \/ NeverBegins(j) \/ Connected(j)
  BY <1>1 DEF Begin, NeverBegins, Connected, Goto, clockVars, directoryVars, Places, Awaits
<1>2. CASE Iterate(j)
  BY <1>2 DEF Iterate, Pinger, Goto, directoryVars, Places, Awaits
<1>3. CASE IterateFails(j) \/ Receive(j) \/ RecvTimeout(j) \/ Drop(j)
  BY <1>3 DEF IterateFails, Pinger, Receive, RecvTimeout, Drop, Goto, clockVars,
              directoryVars, Places, Awaits
<1>4. CASE PingerEnds(j) \/ PingerNeverBegan(j) \/ Closed(j)
  BY <1>4 DEF PingerEnds, PingerNeverBegan, Closed, Goto, clockVars, directoryVars,
              Places, Awaits
<1>5. CASE Reconnect(j) \/ WakesUp(j)
  BY <1>5 DEF Reconnect, WakesUp, Goto, clockVars, directoryVars, Places, Awaits
<1>6. CASE Cancelled(j)
  <2>1. rec' = [rec EXCEPT ![j] = "pinger"] \/ rec' = [rec EXCEPT ![j] = "close"]
        \/ rec' = [rec EXCEPT ![j] = "leave"]
    BY <1>6, Zenon DEF Cancelled, Goto
  <2>2. /\ how' = [how EXCEPT ![j] = "cancel"]
        /\ UNCHANGED <<due, timeUp, dirThere, listed, deleting>>
    BY <1>6 DEF Cancelled, clockVars, directoryVars
  <2>3. QED
    BY <2>1, <2>2 DEF Places, Awaits
<1>7. CASE Leave(j) \/ LeaveFails(j)
  BY <1>7 DEF Leave, LeaveFails, Goto, clockVars, directoryVars, Places
<1>8. QED
  BY <1>1, <1>2, <1>3, <1>4, <1>5, <1>6, <1>7 DEF CoroutineStep

LEMMA RecorderTypesNext ==
  ASSUME RecorderTypes, [Next]_vars
  PROVE  RecorderTypes'
<1> DEFINE Recorder == <<rec, how, due, timeUp, dirThere, listed, deleting>>
<1>1. CASE Requests
  BY <1>1 DEF Requests, start, cancel, recorderVars, clockVars, directoryVars, RecorderTypes
<1>2. ASSUME NEW j \in Jobs, TaskStep(j) PROVE RecorderTypes'
  <2>1. CASE j \in Recorders /\ RunRecord(j)
    BY <2>1, CoroutineTypes DEF RunRecord
  <2>2. CASE j \in Recorders /\ EndRecord(j)
    BY <2>2 DEF EndRecord, Goto, clockVars, directoryVars, RecorderTypes, Places
  <2>3. CASE j \in Researchers /\ ResearchStep(j)
    BY <2>3 DEF ResearchStep, BeginResearch, ResearchCancelled, EndResearch,
                recorderVars, clockVars, directoryVars, RecorderTypes
  <2>4. QED
    BY <1>2, <2>1, <2>2, <2>3 DEF TaskStep
<1>3. CASE Deletions
  <2>1. UNCHANGED <<rec, how, due, timeUp>>
    BY <1>3 DEF Deletions, delete_dataset, delete_segment, clockVars
  <2>2. \/ UNCHANGED directoryVars
        \/ \E d \in Datasets : \/ ListsFiles(d)
                               \/ \E k \in Segments : Unlinks(d, k) \/ FindsNone(d, k)
                               \/ RemovesDirectory(d)
    BY <1>3 DEF Deletions, delete_dataset, delete_segment
  <2>3. ASSUME NEW d \in Datasets, ListsFiles(d) \/ RemovesDirectory(d) PROVE RecorderTypes'
    BY <2>1, <2>3 DEF ListsFiles, RemovesDirectory, RecorderTypes
  <2>4. ASSUME NEW d \in Datasets, NEW k \in Segments, Unlinks(d, k) \/ FindsNone(d, k)
        PROVE  RecorderTypes'
    BY <2>1, <2>4 DEF Unlinks, FindsNone, RecorderTypes
  <2>5. CASE UNCHANGED directoryVars
    BY <2>1, <2>5 DEF directoryVars, RecorderTypes
  <2>6. QED
    BY <2>2, <2>3, <2>4, <2>5
<1>4. CASE Clock
  BY <1>4 DEF Clock, Boundary, Deadline, clockVars, directoryVars, RecorderTypes
<1>5. CASE UNCHANGED vars
  BY <1>5 DEF vars, recorderVars, clockVars, directoryVars, RecorderTypes
<1>6. QED
  BY <1>1, <1>2, <1>3, <1>4, <1>5 DEF Next

(***************************************************************************)
(* Where the coroutine is, and what was received and lost.                 *)
(***************************************************************************)
LEMMA CoroutineKeeps ==
  ASSUME NEW j \in Recorders, RecorderTypes, FileTypes, FilesInv, CoroutineInv,
         CoroutineStep(j)
  PROVE  CoroutineInv'
<1> USE BoundsAssumption DEF CoroutineInv, RecorderTypes, FileTypes, At, Goto
<1>1. CASE Begin(j) \/ NeverBegins(j) \/ Connected(j)
  <2>1. CASE Begin(j) \/ Connected(j)
    BY <2>1 DEF Begin, Connected, fileVars
  <2>2. CASE NeverBegins(j)
    <3>1. buffer[j] = {}
      BY <2>2 DEF NeverBegins, FilesInv, BufferIsNewest
    <3>2. QED
      BY <2>2, <3>1 DEF NeverBegins, fileVars
  <2>3. QED
    BY <1>1, <2>1, <2>2
<1>2. CASE Iterate(j)
  BY <1>2 DEF Iterate, Pinger, Flush, fileVars
<1>3. CASE IterateFails(j) \/ RecvTimeout(j) \/ Drop(j)
  BY <1>3 DEF IterateFails, FlushFails, Pinger, RecvTimeout, Drop, fileVars
<1>4. CASE Receive(j)
  BY <1>4 DEF Receive
<1>5. CASE PingerEnds(j) \/ PingerNeverBegan(j) \/ Closed(j)
  BY <1>5 DEF PingerEnds, PingerNeverBegan, Closed, fileVars
<1>6. CASE Reconnect(j) \/ WakesUp(j)
  BY <1>6 DEF Reconnect, WakesUp, fileVars
<1>7. CASE Cancelled(j)
  <2>1. rec' = [rec EXCEPT ![j] = "pinger"] \/ rec' = [rec EXCEPT ![j] = "close"]
        \/ rec' = [rec EXCEPT ![j] = "leave"]
    BY <1>7, Zenon DEF Cancelled
  <2>2. UNCHANGED <<received, buffer, lost>>
    BY <1>7 DEF Cancelled, fileVars
  <2>3. QED
    BY <2>1, <2>2
<1>8. CASE Leave(j)
  <2>1. buffer' = [buffer EXCEPT ![j] = {}] /\ UNCHANGED <<received, lost>>
    BY <1>8 DEF Leave, Flush, fileVars
  <2>2. rec' = [rec EXCEPT ![j] = "cancelled"] \/ rec' = [rec EXCEPT ![j] = "returned"]
    BY <1>8 DEF Leave
  <2>3. QED
    BY <2>1, <2>2
<1>9. CASE LeaveFails(j)
  BY <1>9 DEF LeaveFails, FlushFails, fileVars
<1>10. QED
  BY <1>1, <1>2, <1>3, <1>4, <1>5, <1>6, <1>7, <1>8, <1>9 DEF CoroutineStep

LEMMA CoroutineNext ==
  ASSUME RecorderTypes, FileTypes, FilesInv, CoroutineInv, [Next]_vars
  PROVE  CoroutineInv'
<1>1. CASE Requests
  BY <1>1 DEF Requests, start, cancel, recorderVars, fileVars, CoroutineInv
<1>2. ASSUME NEW j \in Jobs, TaskStep(j) PROVE CoroutineInv'
  <2>1. CASE j \in Recorders /\ RunRecord(j)
    BY <2>1, CoroutineKeeps DEF RunRecord
  <2>2. CASE j \in Recorders /\ EndRecord(j)
    BY <2>2 DEF EndRecord, Goto, fileVars, CoroutineInv, RecorderTypes
  <2>3. CASE j \in Researchers /\ ResearchStep(j)
    BY <2>3 DEF ResearchStep, BeginResearch, ResearchCancelled, EndResearch,
                recorderVars, fileVars, CoroutineInv
  <2>4. QED
    BY <1>2, <2>1, <2>2, <2>3 DEF TaskStep
<1>3. CASE Deletions
  <2>1. UNCHANGED <<rec, received, buffer>>
    BY <1>3 DEF Deletions, delete_dataset, delete_segment
  <2>2. QED
    BY <1>3, <2>1, DeletionLoses DEF CoroutineInv
<1>4. CASE Clock
  BY <1>4 DEF Clock, Boundary, Deadline, fileVars, CoroutineInv
<1>5. CASE UNCHANGED vars
  BY <1>5 DEF vars, recorderVars, fileVars, CoroutineInv
<1>6. QED
  BY <1>1, <1>2, <1>3, <1>4, <1>5 DEF Next

(***************************************************************************)
(* Cancellations and statuses.                                             *)
(***************************************************************************)
JobsInv == JobTypes /\ SignalInv /\ CancelIsFinal /\ NoJobForgotten

\* A step of the coroutine leaves "idle" for good, raises a pending
\* CancelledError at most once, and ends the task only when it never began.
LEMMA StepsOnSignals ==
  ASSUME NEW j \in Recorders, RecorderTypes, JobTypes, CoroutineStep(j)
  PROVE  /\ stop' = stop
         /\ cancelReq' \in [Jobs -> BOOLEAN]
         /\ \A i \in Jobs : cancelReq'[i] => cancelReq[i]
         /\ \A i \in Jobs \ {j} : cancelReq'[i] = cancelReq[i]
         /\ \A i \in Recorders \ {j} : rec'[i] = rec[i]
         /\ rec'[j] # "idle"
         /\ rec'[j] = "ended" <=> rec[j] = "idle" /\ cancelReq[j]
<1> USE RecordersAssumption DEF RecorderTypes, JobTypes, At, Goto, signalVars
<1>1. CASE Begin(j) \/ NeverBegins(j) \/ Connected(j)
  BY <1>1 DEF Begin, NeverBegins, Connected
<1>2. CASE Iterate(j)
  BY <1>2 DEF Iterate, Pinger
<1>3. CASE IterateFails(j) \/ Receive(j) \/ RecvTimeout(j) \/ Drop(j)
  BY <1>3 DEF IterateFails, Pinger, Receive, RecvTimeout, Drop
<1>4. CASE PingerEnds(j) \/ PingerNeverBegan(j) \/ Closed(j)
  BY <1>4 DEF PingerEnds, PingerNeverBegan, Closed
<1>5. CASE Reconnect(j) \/ WakesUp(j)
  BY <1>5 DEF Reconnect, WakesUp
<1>6. CASE Cancelled(j)
  <2>1. rec' = [rec EXCEPT ![j] = "pinger"] \/ rec' = [rec EXCEPT ![j] = "close"]
        \/ rec' = [rec EXCEPT ![j] = "leave"]
    BY <1>6, Zenon DEF Cancelled
  <2>2. cancelReq' = [cancelReq EXCEPT ![j] = FALSE] /\ stop' = stop /\ rec[j] # "idle"
    BY <1>6 DEF Cancelled, Awaits
  <2>3. QED
    BY <2>1, <2>2
<1>7. CASE Leave(j) \/ LeaveFails(j)
  BY <1>7 DEF Leave, LeaveFails
<1>8. QED
  BY <1>1, <1>2, <1>3, <1>4, <1>5, <1>6, <1>7 DEF CoroutineStep

LEMMA RecordJobs ==
  ASSUME NEW j \in Recorders, RecorderTypes, JobsInv, RunRecord(j)
  PROVE  JobsInv'
<1> USE RecordersAssumption DEF JobsInv
<1>1. /\ stop' = stop
      /\ cancelReq' \in [Jobs -> BOOLEAN]
      /\ \A i \in Jobs : cancelReq'[i] => cancelReq[i]
      /\ \A i \in Jobs \ {j} : cancelReq'[i] = cancelReq[i]
      /\ \A i \in Recorders \ {j} : rec'[i] = rec[i]
      /\ rec'[j] # "idle"
      /\ rec'[j] = "ended" <=> rec[j] = "idle" /\ cancelReq[j]
  BY StepsOnSignals DEF RunRecord
<1>2. research' = research
  BY DEF RunRecord
<1>3. \/ status' = status
      \/ /\ status' = [status EXCEPT ![j] = "running"]
         /\ rec[j] = "idle" /\ rec'[j] # "ended"
  BY DEF RunRecord, SetStatus, At
<1>4. JobTypes'
  BY <1>1, <1>2, <1>3 DEF JobTypes
<1>5. SignalInv'
  BY <1>1, <1>2 DEF SignalInv, Researchers
<1>6. \A i \in Jobs : stop'[i] => status'[i] \in {"cancelled", "failed"}
  <2>1. status' # status => ~stop[j]
    BY <1>1, <1>3 DEF SignalInv, JobTypes
  <2>2. QED
    BY <1>1, <1>3, <2>1 DEF JobTypes, CancelIsFinal
<1>7. ASSUME NEW i \in Jobs, TaskDone(i)' PROVE status'[i] \in Terminal
  <2>1. CASE i = j
    <3>1. rec'[j] = "ended"
      BY <1>7, <2>1 DEF TaskDone
    <3>2. status' = status /\ stop[j]
      BY <1>1, <1>3, <3>1 DEF SignalInv, JobTypes
    <3>3. QED
      BY <2>1, <3>2 DEF CancelIsFinal, Terminal
  <2>2. CASE i # j
    BY <1>1, <1>2, <1>3, <1>7, <2>2 DEF TaskDone, NoJobForgotten, JobTypes
  <2>3. QED
    BY <2>1, <2>2
<1>8. QED
  BY <1>4, <1>5, <1>6, <1>7 DEF CancelIsFinal, NoJobForgotten

LEMMA EndRecordJobs ==
  ASSUME NEW j \in Recorders, RecorderTypes, JobsInv, EndRecord(j)
  PROVE  JobsInv'
<1> USE RecordersAssumption DEF JobsInv
<1>1. /\ UNCHANGED <<stop, cancelReq, research>>
      /\ status' = [status EXCEPT ![j] = Outcome(j)]
      /\ rec' = [rec EXCEPT ![j] = "ended"]
      /\ rec[j] \in {"returned", "cancelled", "raised"}
  BY DEF EndRecord, signalVars, SetStatus, Goto
<1>2. /\ Outcome(j) \in Terminal
      /\ stop[j] => Outcome(j) \in {"cancelled", "failed"}
  <2>1. stop[j] \in BOOLEAN
    BY DEF JobTypes
  <2>2. CASE rec[j] = "returned"
    BY <2>1, <2>2 DEF Outcome, Terminal
  <2>3. CASE rec[j] # "returned"
    BY <1>1, <2>3 DEF Outcome, Terminal
  <2>4. QED
    BY <2>2, <2>3
<1>3. JobTypes'
  BY <1>1, <1>2 DEF JobTypes
<1>4. SignalInv'
  BY <1>1 DEF SignalInv, RecorderTypes
<1>5. CancelIsFinal'
  BY <1>1, <1>2 DEF CancelIsFinal, JobTypes
<1>6. NoJobForgotten'
  BY <1>1, <1>2 DEF NoJobForgotten, TaskDone, JobTypes, RecorderTypes
<1>7. QED
  BY <1>3, <1>4, <1>5, <1>6

LEMMA ResearchJobs ==
  ASSUME NEW j \in Researchers, JobsInv, ResearchStep(j)
  PROVE  JobsInv'
<1> USE RecordersAssumption DEF JobsInv, JobTypes, SetStatus, SetResearch
<1>1. j \in Jobs /\ j \notin Recorders
  BY DEF Researchers
<1>2. CASE BeginResearch(j)
  <2>1. /\ UNCHANGED <<rec, stop, cancelReq>>
        /\ status' = [status EXCEPT ![j] = "running"]
        /\ research' = [research EXCEPT ![j] = "running"]
        /\ ~cancelReq[j] /\ research[j] = "idle"
    BY <1>2 DEF BeginResearch, recorderVars, signalVars
  <2>2. ~stop[j]
    BY <2>1 DEF SignalInv
  <2>3. QED
    BY <1>1, <2>1, <2>2 DEF SignalInv, CancelIsFinal, NoJobForgotten, TaskDone, Terminal,
                            Researchers
<1>3. CASE ResearchCancelled(j)
  <2>1. /\ UNCHANGED <<rec, stop>>
        /\ cancelReq' = [cancelReq EXCEPT ![j] = FALSE]
        /\ status' = [status EXCEPT ![j] = "cancelled"]
        /\ research' = [research EXCEPT ![j] = "ended"]
    BY <1>3 DEF ResearchCancelled
  <2>2. QED
    BY <1>1, <2>1 DEF SignalInv, CancelIsFinal, NoJobForgotten, TaskDone, Terminal,
                      Researchers
<1>4. ASSUME NEW s \in {"completed", "failed"}, EndResearch(j, s) PROVE JobsInv'
  <2>1. /\ UNCHANGED <<rec, stop, cancelReq>>
        /\ status' = [status EXCEPT ![j] = s]
        /\ research' = [research EXCEPT ![j] = "ended"]
        /\ ~cancelReq[j] /\ research[j] = "running"
    BY <1>4 DEF EndResearch, recorderVars, signalVars
  <2>2. ~stop[j]
    BY <2>1 DEF SignalInv
  <2>3. QED
    BY <1>1, <2>1, <2>2 DEF SignalInv, CancelIsFinal, NoJobForgotten, TaskDone, Terminal,
                            Researchers
<1>5. QED
  BY <1>2, <1>3, <1>4 DEF ResearchStep

\* cancel() is for a job whose task is not over: one that is shows it.
LEMMA RequestJobs ==
  ASSUME NEW j \in Jobs, JobsInv, start(j) \/ cancel(j)
  PROVE  JobsInv'
<1> USE RecordersAssumption DEF JobsInv, JobTypes, SetStatus
<1>1. UNCHANGED <<rec, research>>
  BY DEF start, cancel, recorderVars
<1>2. CASE start(j)
  <2>1. /\ UNCHANGED <<stop, cancelReq>>
        /\ status' = [status EXCEPT ![j] = "queued"]
        /\ status[j] = "none"
    BY <1>2 DEF start, recorderVars, signalVars
  <2>2. ~stop[j] /\ ~TaskDone(j)
    BY <2>1 DEF CancelIsFinal, NoJobForgotten, Terminal
  <2>3. QED
    BY <1>1, <2>1, <2>2 DEF SignalInv, CancelIsFinal, NoJobForgotten, TaskDone
<1>3. CASE cancel(j)
  <2>1. ~TaskDone(j)
    BY <1>3 DEF cancel, NoJobForgotten, Terminal
  <2>2. /\ stop' = [stop EXCEPT ![j] = TRUE]
        /\ cancelReq' = [cancelReq EXCEPT ![j] = TRUE]
        /\ status' = [status EXCEPT ![j] = "cancelled"]
    BY <1>3, <2>1, Zenon DEF cancel
  <2>3. SignalInv' /\ JobTypes'
    BY <1>1, <2>2 DEF SignalInv, Researchers, Terminal
  <2>4. CancelIsFinal' /\ NoJobForgotten'
    BY <1>1, <2>2 DEF CancelIsFinal, NoJobForgotten, TaskDone, Terminal
  <2>5. QED
    BY <2>3, <2>4
<1>4. QED
  BY <1>2, <1>3

JobState == <<rec, stop, cancelReq, status, research>>

LEMMA JobsNext ==
  ASSUME RecorderTypes, JobsInv, [Next]_vars
  PROVE  JobsInv'
<1>1. ASSUME UNCHANGED JobState PROVE JobsInv'
  BY <1>1 DEF JobState, JobsInv, JobTypes, SignalInv, CancelIsFinal, NoJobForgotten,
              TaskDone
<1>2. CASE Requests
  BY <1>2, RequestJobs DEF Requests
<1>3. ASSUME NEW j \in Jobs, TaskStep(j) PROVE JobsInv'
  BY <1>3, RecordJobs, EndRecordJobs, ResearchJobs DEF TaskStep
<1>4. CASE Deletions
  BY <1>1, <1>4 DEF Deletions, delete_dataset, delete_segment, signalVars, JobState
<1>5. CASE Clock
  BY <1>1, <1>5 DEF Clock, Boundary, Deadline, signalVars, JobState
<1>6. CASE UNCHANGED vars
  BY <1>1, <1>6 DEF vars, recorderVars, signalVars, JobState
<1>7. QED
  BY <1>2, <1>3, <1>4, <1>5, <1>6 DEF Next

(***************************************************************************)
(* Rows are kept, and those another recording wrote over are known: every  *)
(* recording numbers its segments from 1, and a flush of its own goes to a *)
(* file above all those that hold rows of it.                              *)
(***************************************************************************)
Somewhere(j, n) ==
  \/ n \in buffer[j]
  \/ <<j, n>> \in OnDisk(Dataset[j]) \cup lost
  \/ <<j, n>> \in overwritten /\ Shared(j)

KeptInv == \A j \in Recorders : \A n \in 1 .. received[j] : Somewhere(j, n)

LEMMA FlushKeepsRows ==
  ASSUME NEW i \in Recorders, FileTypes, FilesInv, FlushStep(i),
         NEW j \in Recorders, NEW n \in 1 .. received[j], Somewhere(j, n)
  PROVE  Somewhere(j, n)'
<1> USE DatasetAssumption, BoundsAssumption
<1>1. CASE buffer[i] = {}
  BY <1>1 DEF FlushStep, Flush, fileVars, Somewhere, OnDisk
<1>2. CASE buffer[i] # {}
  <2>1. /\ segIdx[i] \in Segments
        /\ buffer' = [buffer EXCEPT ![i] = {}]
        /\ disk'[Dataset[i]][segIdx[i]] = {i} \X buffer[i]
        /\ \A d \in Datasets, k \in Segments :
             d # Dataset[i] \/ k # segIdx[i] => disk'[d][k] = disk[d][k]
        /\ lost' = lost
        /\ overwritten' = overwritten \cup {row \in Target(i) : row[1] # i}
    BY <1>2, FlushWrites DEF FlushStep
  <2>2. CASE n \in buffer[j]
    <3>1. CASE i = j
      BY <2>1, <2>2, <3>1 DEF Somewhere, Shared, OnDisk
    <3>2. CASE i # j
      BY <2>1, <2>2, <3>2 DEF Somewhere, FileTypes
    <3>3. QED
      BY <3>1, <3>2
  <2>3. ASSUME NEW k \in Segments, <<j, n>> \in disk[Dataset[j]][k]
        PROVE  Somewhere(j, n)'
    <3>1. n \in 1 .. MaxRows
      BY DEF FileTypes
    <3>2. i = j => k < segIdx[i]
      BY <2>3, <3>1 DEF FilesInv, FilesAreOld
    <3>3. CASE k = segIdx[i] /\ Dataset[j] = Dataset[i]
      <4>1. i # j
        BY <2>1, <3>2, <3>3 DEF Segments
      <4>2. <<j, n>> \in overwritten'
        BY <2>1, <2>3, <3>3, <4>1 DEF Target
      <4>3. QED
        BY <3>3, <4>1, <4>2 DEF Somewhere, Shared
    <3>4. CASE k # segIdx[i] \/ Dataset[j] # Dataset[i]
      <4>1. <<j, n>> \in disk'[Dataset[j]][k]
        BY <2>1, <2>3, <3>4
      <4>2. QED
        BY <4>1 DEF Somewhere, Shared, OnDisk
    <3>5. QED
      BY <3>3, <3>4
  <2>4. CASE <<j, n>> \in lost \/ (<<j, n>> \in overwritten /\ Shared(j))
    BY <2>1, <2>4 DEF Somewhere, Shared
  <2>5. QED
    BY <2>2, <2>3, <2>4 DEF Somewhere, Shared, OnDisk
<1>3. QED
  BY <1>1, <1>2

LEMMA KeptNext ==
  ASSUME FileTypes, FilesInv, KeptInv, [Next]_vars
  PROVE  KeptInv'
<1> USE DatasetAssumption, BoundsAssumption
<1>1. CASE UNCHANGED FileState
  BY <1>1 DEF FileState, fileVars, KeptInv, Somewhere, Shared, OnDisk
<1>2. ASSUME NEW i \in Recorders, FlushStep(i) PROVE KeptInv'
  <2>1. received' = received
    BY <1>2 DEF FlushStep
  <2>2. QED
    BY <1>2, <2>1, FlushKeepsRows DEF KeptInv
<1>3. ASSUME NEW i \in Recorders, Receive(i) PROVE KeptInv'
  <2>1. /\ received' = [received EXCEPT ![i] = received[i] + 1]
        /\ buffer' = [buffer EXCEPT ![i] = buffer[i] \cup {received[i] + 1}]
        /\ UNCHANGED <<disk, lost, overwritten>>
    BY <1>3 DEF Receive
  <2>2. SUFFICES ASSUME NEW j \in Recorders, NEW n \in 1 .. received'[j]
                 PROVE  Somewhere(j, n)'
    BY DEF KeptInv
  <2>3. CASE i = j /\ n = received[j] + 1
    BY <2>1, <2>3 DEF Somewhere, FileTypes
  <2>4. CASE ~(i = j /\ n = received[j] + 1)
    <3>1. n \in 1 .. received[j]
      <4>1. received[j] \in Nat /\ n \in 1 .. received'[j]
        BY <2>2 DEF FileTypes
      <4>2. received'[j] = IF i = j THEN received[j] + 1 ELSE received[j]
        BY <2>1 DEF FileTypes
      <4>3. QED
        BY <2>4, <4>1, <4>2
    <3>2. Somewhere(j, n)
      BY <2>2, <3>1 DEF KeptInv
    <3>3. buffer[j] \subseteq buffer'[j]
      BY <2>1 DEF FileTypes
    <3>4. QED
      BY <2>1, <3>2, <3>3 DEF Somewhere, Shared, OnDisk
  <2>5. QED
    BY <2>3, <2>4
<1>4. ASSUME NEW i \in Recorders, LeaveFails(i) PROVE KeptInv'
  BY <1>4 DEF LeaveFails, FlushFails, fileVars, KeptInv, Somewhere, Shared, OnDisk
<1>5. CASE Deletions
  <2>1. UNCHANGED <<received, buffer, overwritten>>
    BY <1>5 DEF Deletions, delete_dataset, delete_segment
  <2>2. ASSUME NEW j \in Recorders, NEW n, Somewhere(j, n) PROVE Somewhere(j, n)'
    <3>1. ASSUME NEW k \in Segments, <<j, n>> \in disk[Dataset[j]][k]
          PROVE  <<j, n>> \in disk'[Dataset[j]][k] \cup lost'
      BY <1>5, <3>1, DeletionLoses
    <3>2. lost \subseteq lost'
      BY <1>5, DeletionLoses
    <3>3. QED
      BY <2>1, <2>2, <3>1, <3>2 DEF Somewhere, Shared, OnDisk
  <2>3. QED
    BY <2>1, <2>2 DEF KeptInv
<1>6. QED
  BY <1>1, <1>2, <1>3, <1>4, <1>5, NextOnFiles

(***************************************************************************)
(* Files stay in order: what flush() writes is newer than every file.      *)
(***************************************************************************)
LEMMA FlushKeepsOrder ==
  ASSUME NEW i \in Recorders, FileTypes, FilesInv, SegmentsInOrder, FlushStep(i)
  PROVE  SegmentsInOrder'
<1> USE DatasetAssumption, BoundsAssumption
<1>1. CASE buffer[i] = {}
  BY <1>1 DEF FlushStep, Flush, fileVars, SegmentsInOrder
<1>2. CASE buffer[i] # {}
  <2>1. /\ segIdx[i] \in Segments
        /\ disk'[Dataset[i]][segIdx[i]] = {i} \X buffer[i]
        /\ \A d \in Datasets, k \in Segments :
             d # Dataset[i] \/ k # segIdx[i] => disk'[d][k] = disk[d][k]
    BY <1>2, FlushWrites DEF FlushStep
  <2>2. SUFFICES ASSUME NEW j \in Recorders, NEW k \in Segments, NEW l \in Segments, k < l,
                        NEW m \in 1 .. MaxRows, NEW n \in 1 .. MaxRows,
                        <<j, m>> \in disk'[Dataset[j]][k], <<j, n>> \in disk'[Dataset[j]][l]
                 PROVE  m < n
    BY DEF SegmentsInOrder
  <2> DEFINE New(f) == Dataset[j] = Dataset[i] /\ f = segIdx[i]
  <2>3. CASE New(k)
    <3>1. i = j /\ ~New(l)
      BY <2>1, <2>2, <2>3 DEF Segments
    <3>2. <<j, n>> \in disk[Dataset[j]][l]
      BY <2>1, <2>2, <3>1
    <3>3. l < segIdx[j]
      BY <3>2 DEF FilesInv, FilesAreOld
    <3>4. QED
      BY <2>1, <2>2, <2>3, <3>1, <3>3 DEF Segments
  <2>4. CASE ~New(k) /\ New(l)
    <3>1. <<j, m>> \in disk[Dataset[j]][k]
      BY <2>1, <2>2, <2>4
    <3>2. i = j /\ n \in buffer[j]
      BY <2>1, <2>2, <2>4
    <3>3. QED
      BY <3>1, <3>2 DEF FilesInv, FilesAreOld
  <2>5. CASE ~New(k) /\ ~New(l)
    BY <2>1, <2>2, <2>5 DEF SegmentsInOrder
  <2>6. QED
    BY <2>3, <2>4, <2>5
<1>3. QED
  BY <1>1, <1>2

LEMMA OrderNext ==
  ASSUME FileTypes, FilesInv, SegmentsInOrder, [Next]_vars
  PROVE  SegmentsInOrder'
<1> USE DatasetAssumption
<1>1. CASE UNCHANGED FileState
  BY <1>1 DEF FileState, fileVars, SegmentsInOrder
<1>2. ASSUME NEW i \in Recorders, Receive(i) \/ LeaveFails(i) PROVE SegmentsInOrder'
  BY <1>2 DEF Receive, LeaveFails, FlushFails, fileVars, SegmentsInOrder
<1>3. CASE Deletions
  BY <1>3, DeletionLoses DEF SegmentsInOrder
<1>4. QED
  BY <1>1, <1>2, <1>3, FlushKeepsOrder, NextOnFiles

-----------------------------------------------------------------------------
JobManagerInv ==
  /\ RecorderTypes /\ FileTypes /\ FilesInv /\ CoroutineInv
  /\ JobsInv /\ KeptInv /\ SegmentsInOrder

LEMMA JobManagerInvInit == Init => JobManagerInv
<1> SUFFICES ASSUME Init PROVE JobManagerInv
  OBVIOUS
<1> USE DatasetAssumption, BoundsAssumption, RecordersAssumption DEF Init, RecorderInit
<1>1. RecorderTypes
  BY DEF RecorderTypes, Places
<1>2. FileTypes
  BY DEF FileTypes
<1>3. FilesInv /\ SegmentsInOrder
  BY DEF FilesInv, BufferIsNewest, FilesAreOld, SegmentsInOrder
<1>4. CoroutineInv
  BY DEF CoroutineInv
<1>5. JobsInv
  BY DEF JobsInv, JobTypes, SignalInv, CancelIsFinal, NoJobForgotten, TaskDone, Researchers
<1>6. KeptInv
  BY DEF KeptInv
<1>7. QED
  BY <1>1, <1>2, <1>3, <1>4, <1>5, <1>6 DEF JobManagerInv

LEMMA JobManagerInvNext == JobManagerInv /\ [Next]_vars => JobManagerInv'
BY RecorderTypesNext, FilesNext, CoroutineNext, JobsNext, KeptNext, OrderNext
   DEF JobManagerInv

THEOREM JobManagerInvHolds == Spec => []JobManagerInv
BY JobManagerInvInit, JobManagerInvNext, PTL DEF Spec

\* What the monitor shows of a job is so, for any jobs: fields are
\* well-formed, a cancelled job never shows anything but cancelled or failed,
\* and a task that ended left a terminal status.
THEOREM StatusIsTrue == Spec => []StatusInv
<1>1. JobManagerInv => StatusInv
  BY TypesByPart DEF JobManagerInv, JobsInv, StatusInv
<1>2. QED
  BY <1>1, JobManagerInvHolds, PTL

\* The segment files of a recording are in the order of its rows, whatever
\* fails and whoever else writes into the same directory.
THEOREM OrderHolds == Spec => []SegmentsInOrder
<1>1. JobManagerInv => SegmentsInOrder
  BY DEF JobManagerInv
<1>2. QED
  BY <1>1, JobManagerInvHolds, PTL

LEMMA KeptSuffices == JobManagerInv => RowsKept
<1> SUFFICES ASSUME JobManagerInv, NEW j \in Recorders, NEW n \in 1 .. received[j]
             PROVE  \/ n \in buffer[j] /\ rec[j] # "ended"
                    \/ <<j, n>> \in OnDisk(Dataset[j]) \cup lost
                    \/ <<j, n>> \in overwritten /\ Shared(j)
  BY DEF RowsKept, RowsKeptOf
<1>1. Somewhere(j, n)
  BY DEF JobManagerInv, KeptInv
<1>2. n \in buffer[j] /\ rec[j] = "ended" => <<j, n>> \in lost
  BY DEF JobManagerInv, CoroutineInv
<1>3. QED
  BY <1>1, <1>2 DEF Somewhere

\* A row that a recording received is in its buffer or in a file, but for
\* those a user deleted, those of a last write that failed and those another
\* recording of the same dataset wrote over, whoever writes where.
THEOREM RowsKeptHolds == Spec => []RowsKept
BY KeptSuffices, JobManagerInvHolds, PTL
=============================================================================

------------------------------ MODULE Recorder ------------------------------
(***************************************************************************)
(* The raw-recording path of one connection: the acquisition worker that   *)
(* hands complete SDF1 frames to a sink (acquisition/controller.py), the   *)
(* RawSessionRecorder with its bounded queue and writer thread             *)
(* (storage/recorder.py), and the GUI thread that attaches, detaches and   *)
(* stops recorders (presentation/app_controller.py).                       *)
(*                                                                         *)
(* Three threads interleave.  The controller's _recorder_lock is held for  *)
(* a whole submit, whose two halves (reserve bytes under the recorder's    *)
(* own lock, then put the chunk after releasing it) are separate steps     *)
(* because the writer runs between them.  A recorder object is used for    *)
(* one segment and never restarted.                                        *)
(***************************************************************************)
EXTENDS Integers, Sequences, SequencesExt

CONSTANTS
  Segments,      \* the recorder objects a connection may create, one per segment
  Sizes,         \* the frame sizes in bytes
  Capacity,      \* RawSessionRecorder's queue_capacity_bytes
  DeferCapacity, \* _DEFERRED_RECORDING_CAPACITY_BYTES
  MaxFrames,     \* bound on the frames the link delivers
  None           \* Python's None

Frame == [id : 1..MaxFrames, size : Sizes]

ASSUME RecorderAssumption ==
  /\ Sizes \subseteq Nat \ {0}
  /\ Capacity \in Nat \ {0}
  /\ DeferCapacity \in Nat
  /\ MaxFrames \in Nat
  /\ None \notin Segments /\ None \notin Frame

VARIABLES
  \* AcquisitionController
  lock,          \* who holds _recorder_lock: "free", "worker" or "gui"
  attached,      \* _recorder
  deferring,     \* _defer_recording
  deferred,      \* _deferred_recording_frames
  deferredBytes, \* _deferred_recording_bytes
  hand,          \* the chunk between submit's reservation and its put
  \* the GUI thread, inside _start_session_recording or _stop_session_recording
  gui,           \* "idle", "attach", "flush", "stop" or "join"
  owner,         \* the recorder it is working on, or session.recorder
  flush,         \* deferred frames set_recorder has still to submit
  \* RawSessionRecorder
  active,        \* _is_active: "new", "active" or "closed"
  failure,       \* _failure
  queuedBytes,   \* _queued_bytes
  bytesWritten,  \* _bytes_written
  queue,         \* _queue, whose None sentinel ends the writer
  writer,        \* "none", "get", "write", "count", "finish" or "exited"
  chunk,         \* the chunk the writer took from the queue
  file,          \* the frames in the .sdf1 file
  summary,       \* the RecordingSummary saved as metadata
  \* history
  handled,       \* the number of frames the worker has handled
  offered,       \* frames submitted to a recorder, in order
  accepted,      \* those for which submit returned True
  dropped        \* frames the deferral buffer refused

controllerVars == <<lock, attached, deferring, deferred, deferredBytes, hand>>
guiVars        == <<gui, owner, flush>>
recorderVars   == <<active, failure, queuedBytes, bytesWritten, queue, writer,
                    chunk, file, summary>>
historyVars    == <<handled, offered, accepted, dropped>>
vars == <<controllerVars, guiVars, recorderVars, historyVars>>

Failures == {"none", "capacity", "io"}

-----------------------------------------------------------------------------
(* A session added while recording is on defers from its first frame, before *)
(* its worker thread starts; any other session starts with no sink.          *)
Init ==
  /\ lock = "free" /\ attached = None /\ hand = None
  /\ deferring \in BOOLEAN /\ deferred = <<>> /\ deferredBytes = 0
  /\ gui = "idle" /\ owner = None /\ flush = <<>>
  /\ active       = [r \in Segments |-> "new"]
  /\ failure      = [r \in Segments |-> "none"]
  /\ queuedBytes  = [r \in Segments |-> 0]
  /\ bytesWritten = [r \in Segments |-> 0]
  /\ queue        = [r \in Segments |-> <<>>]
  /\ writer       = [r \in Segments |-> "none"]
  /\ chunk        = [r \in Segments |-> None]
  /\ file         = [r \in Segments |-> <<>>]
  /\ summary      = [r \in Segments |-> None]
  /\ handled = 0 /\ dropped = {}
  /\ offered  = [r \in Segments |-> <<>>]
  /\ accepted = [r \in Segments |-> <<>>]

-----------------------------------------------------------------------------
(* RawSessionRecorder.submit up to the release of the recorder's lock.       *)

\* Mutant: the capacity test forgets the chunk being submitted.
FullMutant(r, f) == queuedBytes[r] > Capacity

Full(r, f) == queuedBytes[r] + f.size > Capacity

Refuses(r, f) == failure[r] # "none" \/ Full(r, f)

\* Mutant: an overflow is refused without being latched.
RefuseMutant(r, f) ==
  /\ Refuses(r, f)
  /\ offered' = [offered EXCEPT ![r] = Append(@, f)]
  /\ UNCHANGED <<active, failure, queuedBytes, bytesWritten, queue, writer, chunk,
                 file, summary, hand, accepted>>

\* submit returns False: the first overflow is latched and never cleared.
Refuse(r, f) ==
  /\ Refuses(r, f)
  /\ failure' = [failure EXCEPT ![r] = IF @ = "none" THEN "capacity" ELSE @]
  /\ offered' = [offered EXCEPT ![r] = Append(@, f)]
  /\ UNCHANGED <<active, queuedBytes, bytesWritten, queue, writer, chunk, file,
                 summary, hand, accepted>>

\* submit reserves the chunk's bytes and still has to put it.
Reserve(r, f) ==
  /\ ~ Refuses(r, f)
  /\ queuedBytes' = [queuedBytes EXCEPT ![r] = @ + f.size]
  /\ hand' = f
  /\ offered'  = [offered EXCEPT ![r] = Append(@, f)]
  /\ accepted' = [accepted EXCEPT ![r] = Append(@, f)]
  /\ UNCHANGED <<active, failure, bytesWritten, queue, writer, chunk, file,
                 summary>>

\* The second half of submit: put_nowait.
Put(r) ==
  /\ hand # None
  /\ queue' = [queue EXCEPT ![r] = Append(@, hand)]
  /\ hand' = None
  /\ UNCHANGED <<active, failure, queuedBytes, bytesWritten, writer, chunk, file,
                 summary, historyVars>>

-----------------------------------------------------------------------------
(* The acquisition worker: _handle_frame for one live frame.                 *)

NextFrame(size) == [id |-> handled + 1, size |-> size]

HandleFrameRecorded(size) ==
  /\ lock = "free" /\ handled < MaxFrames /\ attached # None
  /\ LET f == NextFrame(size) IN
       \/ Refuse(attached, f) /\ UNCHANGED lock
       \/ Reserve(attached, f) /\ lock' = "worker"
  /\ handled' = handled + 1
  /\ UNCHANGED <<attached, deferring, deferred, deferredBytes, guiVars, dropped>>

WorkerPut ==
  /\ lock = "worker" /\ Put(attached)
  /\ lock' = "free"
  /\ UNCHANGED <<attached, deferring, deferred, deferredBytes, guiVars>>

DeferFits(size) == deferredBytes + size <= DeferCapacity

HandleFrameDeferred(size) ==
  /\ lock = "free" /\ handled < MaxFrames /\ attached = None /\ deferring
  /\ \/ /\ DeferFits(size)
        /\ deferred' = Append(deferred, NextFrame(size))
        /\ deferredBytes' = deferredBytes + size
        /\ UNCHANGED dropped
     \/ /\ ~ DeferFits(size)
        /\ dropped' = dropped \cup {handled + 1}
        /\ UNCHANGED <<deferred, deferredBytes>>
  /\ handled' = handled + 1
  /\ UNCHANGED <<lock, attached, deferring, hand, guiVars, recorderVars, offered,
                 accepted>>

HandleFrameUnrecorded(size) ==
  /\ lock = "free" /\ handled < MaxFrames /\ attached = None /\ ~ deferring
  /\ handled' = handled + 1
  /\ UNCHANGED <<controllerVars, guiVars, recorderVars, offered, accepted, dropped>>

-----------------------------------------------------------------------------
(* The GUI thread.                                                           *)

\* RawSessionRecorder.start: a fresh recorder, file and writer thread.
StartRecorder(r) ==
  /\ gui = "idle" /\ owner = None /\ active[r] = "new"
  /\ gui' = "attach" /\ owner' = r
  /\ active' = [active EXCEPT ![r] = "active"]
  /\ writer' = [writer EXCEPT ![r] = "get"]
  /\ UNCHANGED <<controllerVars, flush, failure, queuedBytes, bytesWritten, queue,
                 chunk, file, summary, historyVars>>

\* Mutant: the recorder is attached without taking the lock, so that live frames
\* overtake the deferred ones.
AttachRecorderMutant ==
  /\ gui = "attach" /\ lock = "free"
  /\ attached' = owner
  /\ gui' = "flush" /\ flush' = deferred
  /\ UNCHANGED <<lock, deferring, deferred, deferredBytes, hand, owner, recorderVars,
                 historyVars>>

\* set_recorder(recorder) takes the lock and walks the deferred frames.
AttachRecorder ==
  /\ gui = "attach" /\ lock = "free"
  /\ lock' = "gui" /\ attached' = owner
  /\ gui' = "flush" /\ flush' = deferred
  /\ UNCHANGED <<deferring, deferred, deferredBytes, hand, owner, recorderVars,
                 historyVars>>

\* One deferred frame; the loop ends at the first refusal.
FlushDeferred ==
  /\ gui = "flush" /\ flush # <<>> /\ hand = None
  /\ \/ Refuse(owner, Head(flush)) /\ flush' = <<>>
     \/ Reserve(owner, Head(flush)) /\ flush' = Tail(flush)
  /\ UNCHANGED <<lock, attached, deferring, deferred, deferredBytes, gui, owner,
                 handled, dropped>>

FlushPut ==
  /\ gui = "flush" /\ Put(owner)
  /\ UNCHANGED <<lock, attached, deferring, deferred, deferredBytes, guiVars>>

StopDeferring ==
  /\ deferring' = FALSE /\ deferred' = <<>> /\ deferredBytes' = 0

FlushDone ==
  /\ gui = "flush" /\ flush = <<>> /\ hand = None
  /\ StopDeferring
  /\ lock' = "free" /\ gui' = "idle"
  /\ UNCHANGED <<attached, hand, owner, flush, recorderVars, historyVars>>

\* Mutant: the recorder is stopped while the controller still submits to it.
DetachRecorderMutant ==
  /\ gui = "idle" /\ owner # None /\ lock = "free"
  /\ StopDeferring
  /\ gui' = "stop"
  /\ UNCHANGED <<lock, attached, hand, owner, flush, recorderVars, historyVars>>

\* set_recorder(None): waits for _recorder_lock, so for a submit in progress.
DetachRecorder ==
  /\ gui = "idle" /\ owner # None /\ lock = "free"
  /\ attached' = None /\ StopDeferring
  /\ gui' = "stop"
  /\ UNCHANGED <<lock, hand, owner, flush, recorderVars, historyVars>>

\* cancel_deferred_recording, when recording stops before an identity is known.
CancelDeferred ==
  /\ gui = "idle" /\ owner = None /\ lock = "free" /\ deferring
  /\ StopDeferring
  /\ UNCHANGED <<lock, attached, hand, guiVars, recorderVars, historyVars>>

\* Mutant: stop joins the writer without queueing the sentinel.
StopRecorderMutant ==
  /\ gui = "stop"
  /\ gui' = "join"
  /\ UNCHANGED <<controllerVars, owner, flush, recorderVars, historyVars>>

\* RawSessionRecorder.stop up to the join: the sentinel is queued.
StopRecorder ==
  /\ gui = "stop"
  /\ queue' = [queue EXCEPT ![owner] = Append(@, None)]
  /\ gui' = "join"
  /\ UNCHANGED <<controllerVars, owner, flush, active, failure, queuedBytes,
                 bytesWritten, writer, chunk, file, summary, historyVars>>

\* Mutant: the summary is saved without checking that the writer has ended.
JoinWriterMutant ==
  /\ gui = "join"
  /\ active' = [active EXCEPT ![owner] = "closed"]
  /\ summary' = [summary EXCEPT ![owner] =
                   [bytes |-> bytesWritten[owner], failure |-> failure[owner]]]
  /\ gui' = "idle" /\ owner' = None
  /\ UNCHANGED <<controllerVars, flush, failure, queuedBytes, bytesWritten, queue,
                 writer, chunk, file, historyVars>>

\* The writer has ended: deactivate, summarise and save the metadata.
JoinWriter ==
  /\ gui = "join" /\ writer[owner] = "exited"
  /\ active' = [active EXCEPT ![owner] = "closed"]
  /\ summary' = [summary EXCEPT ![owner] =
                   [bytes |-> bytesWritten[owner], failure |-> failure[owner]]]
  /\ gui' = "idle" /\ owner' = None
  /\ UNCHANGED <<controllerVars, flush, failure, queuedBytes, bytesWritten, queue,
                 writer, chunk, file, historyVars>>

\* Five seconds pass: stop raises, the caller reports it and forgets the recorder.
JoinTimeout ==
  /\ gui = "join" /\ writer[owner] # "exited"
  /\ gui' = "idle" /\ owner' = None
  /\ UNCHANGED <<controllerVars, flush, recorderVars, historyVars>>

-----------------------------------------------------------------------------
(* The writer thread: _writer_loop.                                          *)

\* Mutant: the sentinel is written like any chunk.
WriterGetMutant(r) ==
  /\ writer[r] = "get" /\ queue[r] # <<>>
  /\ chunk' = [chunk EXCEPT ![r] = Head(queue[r])]
  /\ queue' = [queue EXCEPT ![r] = Tail(@)]
  /\ writer' = [writer EXCEPT ![r] = "write"]
  /\ UNCHANGED <<controllerVars, guiVars, active, failure, queuedBytes,
                 bytesWritten, file, summary, historyVars>>

WriterGet(r) ==
  /\ writer[r] = "get" /\ queue[r] # <<>>
  /\ chunk' = [chunk EXCEPT ![r] = Head(queue[r])]
  /\ queue' = [queue EXCEPT ![r] = Tail(@)]
  /\ writer' = [writer EXCEPT ![r] = IF Head(queue[r]) = None THEN "finish"
                                     ELSE "write"]
  /\ UNCHANGED <<controllerVars, guiVars, active, failure, queuedBytes,
                 bytesWritten, file, summary, historyVars>>

WriterWrite(r) ==
  /\ writer[r] = "write"
  /\ file' = [file EXCEPT ![r] = Append(@, chunk[r])]
  /\ writer' = [writer EXCEPT ![r] = "count"]
  /\ UNCHANGED <<controllerVars, guiVars, active, failure, queuedBytes,
                 bytesWritten, queue, chunk, summary, historyVars>>

WriterCount(r) ==
  /\ writer[r] = "count"
  /\ queuedBytes'  = [queuedBytes EXCEPT ![r] = @ - chunk[r].size]
  /\ bytesWritten' = [bytesWritten EXCEPT ![r] = @ + chunk[r].size]
  /\ chunk'  = [chunk EXCEPT ![r] = None]
  /\ writer' = [writer EXCEPT ![r] = "get"]
  /\ UNCHANGED <<controllerVars, guiVars, active, failure, queue, file, summary,
                 historyVars>>

\* flush, fsync and close after the sentinel.
WriterFinish(r) ==
  /\ writer[r] = "finish"
  /\ writer' = [writer EXCEPT ![r] = "exited"]
  /\ UNCHANGED <<controllerVars, guiVars, active, failure, queuedBytes,
                 bytesWritten, queue, chunk, file, summary, historyVars>>

\* Mutant: the write error ends the writer but is not recorded.
WriterFailsMutant(r) ==
  /\ writer[r] \in {"write", "finish"}
  /\ \E n \in 0..Len(file[r]) : file' = [file EXCEPT ![r] = SubSeq(@, 1, n)]
  /\ writer' = [writer EXCEPT ![r] = "exited"]
  /\ UNCHANGED <<controllerVars, guiVars, active, failure, queuedBytes, bytesWritten,
                 queue, chunk, summary, historyVars>>

\* OSError in write, flush or fsync: the first failure is kept, the stream is
\* closed, and what the stream still buffered is lost.
WriterFails(r) ==
  /\ writer[r] \in {"write", "finish"}
  /\ failure' = [failure EXCEPT ![r] = IF @ = "none" THEN "io" ELSE @]
  /\ \E n \in 0..Len(file[r]) : file' = [file EXCEPT ![r] = SubSeq(@, 1, n)]
  /\ writer' = [writer EXCEPT ![r] = "exited"]
  /\ UNCHANGED <<controllerVars, guiVars, active, queuedBytes, bytesWritten, queue,
                 chunk, summary, historyVars>>

-----------------------------------------------------------------------------
Worker == \/ \E size \in Sizes : \/ HandleFrameRecorded(size)
                                 \/ HandleFrameDeferred(size)
                                 \/ HandleFrameUnrecorded(size)
          \/ WorkerPut

Gui == \/ \E r \in Segments : StartRecorder(r)
       \/ AttachRecorder \/ FlushDeferred \/ FlushPut \/ FlushDone
       \/ DetachRecorder \/ CancelDeferred
       \/ StopRecorder \/ JoinWriter \/ JoinTimeout

Writer(r) == \/ WriterGet(r) \/ WriterWrite(r) \/ WriterCount(r)
             \/ WriterFinish(r) \/ WriterFails(r)

Next == Worker \/ Gui \/ \E r \in Segments : Writer(r)

Spec == Init /\ [][Next]_vars

(* The writer threads are scheduled by the operating system, and submit and  *)
(* set_recorder run to completion once started; the GUI's decisions and the  *)
(* arrival of frames are not fair.                                           *)
FairSpec ==
  /\ Spec
  /\ \A r \in Segments : WF_vars(Writer(r))
  /\ WF_vars(WorkerPut \/ AttachRecorder \/ FlushDeferred \/ FlushPut \/ FlushDone)
  /\ WF_vars(StopRecorder) /\ WF_vars(JoinWriter \/ JoinTimeout)

-----------------------------------------------------------------------------
(* Properties.                                                               *)

Lock    == {"free", "worker", "gui"}
GuiStep == {"idle", "attach", "flush", "stop", "join"}
WriterStep == {"none", "get", "write", "count", "finish", "exited"}

\* Every variable has its type; in particular the sentinel never reaches the file.
TypeOK ==
  /\ lock \in Lock /\ gui \in GuiStep
  /\ attached \in Segments \cup {None} /\ owner \in Segments \cup {None}
  /\ deferring \in BOOLEAN /\ deferred \in Seq(Frame) /\ deferredBytes \in Nat
  /\ hand \in Frame \cup {None} /\ flush \in Seq(Frame)
  /\ active \in [Segments -> {"new", "active", "closed"}]
  /\ failure \in [Segments -> Failures]
  /\ queuedBytes \in [Segments -> Int] /\ bytesWritten \in [Segments -> Nat]
  /\ queue \in [Segments -> Seq(Frame \cup {None})]
  /\ writer \in [Segments -> WriterStep]
  /\ chunk \in [Segments -> Frame \cup {None}]
  /\ file \in [Segments -> Seq(Frame)]
  /\ summary \in [Segments -> [bytes : Nat, failure : Failures] \cup {None}]
  /\ handled \in 0..MaxFrames /\ dropped \subseteq 1..MaxFrames
  /\ offered \in [Segments -> Seq(Frame)] /\ accepted \in [Segments -> Seq(Frame)]

Bytes(s) ==
  LET total[n \in 0..Len(s)] == IF n = 0 THEN 0 ELSE total[n - 1] + s[n].size
  IN  total[Len(s)]

\* The frames of a recorder that are reserved, queued or in the writer's hand.
Reserved(r) == IF attached = r /\ hand # None THEN <<hand>> ELSE <<>>
Chunks(q)   == IF q # <<>> /\ q[Len(q)] = None THEN SubSeq(q, 1, Len(q) - 1) ELSE q
Queued(r)   == Chunks(queue[r])
Taken(r)    == IF writer[r] = "write" THEN <<chunk[r]>> ELSE <<>>
Counting(r) == IF writer[r] = "count" THEN <<chunk[r]>> ELSE <<>>

(* A frame for which submit returned True is never lost, duplicated or       *)
(* reordered on its way to the file, whatever the worker, the writer and the *)
(* GUI do in between; only a failed writer may leave accepted frames behind, *)
(* and then the file is a prefix of them.                                    *)
NoAcceptedFrameLost ==
  \A r \in Segments :
    \/ accepted[r] = file[r] \o (Taken(r) \o (Queued(r) \o Reserved(r)))
    \/ /\ failure[r] # "none" /\ writer[r] = "exited"
       /\ IsPrefix(file[r], accepted[r])

(* The file holds a gap-free prefix of what the controller submitted to the  *)
(* recorder: once submit has refused a frame it accepts none after it.       *)
FileIsPrefixOfOffered ==
  \A r \in Segments : IsPrefix(file[r], offered[r])

(* Metadata that reports no failure belongs to a complete file: every frame  *)
(* submitted between attach and detach is in it.  Rests on detaching before  *)
(* stop, so that nothing is queued behind the sentinel.                      *)
CleanSummaryIsComplete ==
  \A r \in Segments :
    summary[r] # None /\ summary[r].failure = "none" => file[r] = offered[r]

(* The bytes accounted to the queue never exceed the capacity and are those  *)
(* of the frames accepted and not yet counted as written, although submit    *)
(* and the writer update the counter outside the queue's own operations; and *)
(* the bytes_written of a clean summary is the length of the file.           *)
ByteAccounting ==
  \A r \in Segments :
    /\ queuedBytes[r] <= Capacity
    /\ writer[r] # "exited" =>
         queuedBytes[r] = Bytes(Counting(r) \o (Taken(r) \o (Queued(r) \o Reserved(r))))
    /\ summary[r] # None /\ summary[r].failure = "none" =>
         summary[r].bytes = Bytes(file[r])

\* The frames are in order, and those between two of them were refused.
Contiguous(s, refused) ==
  \A i \in 1..(Len(s) - 1) : /\ s[i].id < s[i + 1].id
                             /\ (s[i].id + 1)..(s[i + 1].id - 1) \subseteq refused

(* A recording misses a frame between two it holds only where the deferral   *)
(* buffer was full when that frame arrived.                                  *)
GapsAreDeferralOverflows == \A r \in Segments : Contiguous(file[r], dropped)

(* Once the metadata is saved the file it describes never changes again.     *)
ClosedFileIsFinal ==
  [][\A r \in Segments : summary[r] # None => file'[r] = file[r]]_vars

(* A recording the GUI stops is drained: its writer thread ends, even if the *)
(* five-second join gave up on it.                                           *)
StopDrains ==
  \A r \in Segments : (gui = "join" /\ owner = r) ~> (writer[r] = "exited")

(***************************************************************************)
(* The inductive invariant behind the safety theorems of RecorderProofs.   *)
(***************************************************************************)

\* A chunk in the writer's hand is a frame.
ChunkInv == \A r \in Segments : writer[r] \in {"write", "count"} => chunk[r] \in Frame

\* Who holds _recorder_lock, and for what.
LockInv ==
  /\ hand # None => lock # "free" /\ attached # None
  /\ lock = "worker" => hand # None
  /\ lock = "gui" <=> gui = "flush"

\* The controller's sink is the recorder of the session, or none.
SinkInv ==
  /\ gui \in {"idle", "flush"} => attached = owner
  /\ gui \in {"attach", "stop", "join"} => attached = None
  /\ gui # "idle" => owner # None

\* A recorder that was not started is untouched.
FreshInv(r) ==
  active[r] = "new" =>
    /\ writer[r] = "none" /\ owner # r /\ summary[r] = None
    /\ queue[r] = <<>> /\ file[r] = <<>> /\ accepted[r] = <<>>

NoSentinel(q)   == \A i \in 1..Len(q) : q[i] # None
SentinelLast(q) == \A i \in 1..Len(q) : q[i] = None => i = Len(q)

\* stop queues one sentinel, behind every chunk, and nothing follows it.
SentinelInv(r) ==
  /\ SentinelLast(queue[r])
  /\ owner = r /\ gui # "join" =>
       /\ NoSentinel(queue[r])
       /\ writer[r] # "finish"
       /\ writer[r] = "exited" => failure[r] # "none"
  /\ writer[r] = "finish" => queue[r] = <<>>

\* Where the accepted frames are.
PipeInv(r) ==
  /\ writer[r] # "exited" =>
       accepted[r] = file[r] \o (Taken(r) \o (Queued(r) \o Reserved(r)))
  /\ writer[r] = "exited" /\ failure[r] = "none" =>
       accepted[r] = file[r] /\ queue[r] = <<>>
  /\ IsPrefix(file[r], accepted[r])

\* Which of the submitted frames were accepted.
OfferInv(r) ==
  /\ failure[r] = "none" => accepted[r] = offered[r]
  /\ IsPrefix(accepted[r], offered[r])

\* Saved metadata describes a recorder that nothing uses any more.
SummaryInv(r) ==
  summary[r] # None =>
    writer[r] = "exited" /\ owner # r /\ summary[r].failure = failure[r]

TypeInv == TypeOK /\ ChunkInv
RecorderInv(r) ==
  FreshInv(r) /\ SentinelInv(r) /\ PipeInv(r) /\ OfferInv(r) /\ SummaryInv(r)

IInv == TypeInv /\ LockInv /\ SinkInv /\ \A r \in Segments : RecorderInv(r)

\* The first n frames behind s were refused.
UpTo(s, n, refused) ==
  s # <<>> => s[Len(s)].id <= n /\ (s[Len(s)].id + 1)..n \subseteq refused

\* The next frame a recorder gets follows on the last it got: set_recorder submits what was
\* deferred before it lets the worker go on.
GapInv ==
  /\ \A r \in Segments : Contiguous(accepted[r], dropped)
  /\ Contiguous(deferred, dropped) /\ UpTo(deferred, handled, dropped)
  /\ deferred # <<>> => deferring /\ (attached = None \/ gui = "flush")
  /\ gui = "attach" => accepted[owner] = <<>>
  /\ gui = "flush" /\ failure[owner] = "none" => accepted[owner] \o flush = deferred
  /\ attached # None /\ gui # "flush" /\ failure[attached] = "none" =>
       UpTo(accepted[attached], handled, dropped)

\* The bytes of an accepted frame are queued or written.
BytesInv(r) ==
  /\ queuedBytes[r] <= Capacity
  /\ queuedBytes[r] + bytesWritten[r] = Bytes(accepted[r])
  /\ writer[r] # "exited" \/ failure[r] = "none" =>
       bytesWritten[r] + Bytes(Counting(r)) = Bytes(file[r])
  /\ summary[r] # None /\ summary[r].failure = "none" => summary[r].bytes = Bytes(file[r])

AccountInv == \A r \in Segments : BytesInv(r)
=============================================================================

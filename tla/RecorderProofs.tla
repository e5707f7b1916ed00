--------------------------- MODULE RecorderProofs ---------------------------
(***************************************************************************)
(* Safety of the recording path for every set of segments, every capacity  *)
(* and every number of frames.                                             *)
(***************************************************************************)
EXTENDS Recorder, SequenceTheorems, FiniteSetTheorems, WellFoundedInduction, TLAPS

-----------------------------------------------------------------------------
(* Type correctness.                                                         *)

LEMMA InitTypeInv == Init => TypeInv
BY RecorderAssumption
DEF Init, TypeInv, TypeOK, ChunkInv, Lock, GuiStep, WriterStep, Failures

\* The frame the worker handles next is a frame.
LEMMA NextFrameType ==
  ASSUME TypeOK, handled < MaxFrames, NEW size \in Sizes
  PROVE  /\ NextFrame(size) \in Frame
         /\ handled + 1 \in 1..MaxFrames
         /\ handled' = handled + 1 => handled' \in 0..MaxFrames
<1>1. handled \in 0..MaxFrames /\ MaxFrames \in Nat
  BY RecorderAssumption DEF TypeOK
<1>2. handled + 1 \in 1..MaxFrames /\ (handled' = handled + 1 => handled' \in 0..MaxFrames)
  BY ONLY <1>1, handled < MaxFrames
<1>3. NextFrame(size) \in Frame
  BY <1>2 DEF NextFrame, Frame
<1> QED
  BY <1>2, <1>3

\* A frame's size is a positive number of bytes.
LEMMA FrameSize == ASSUME NEW f \in Frame PROVE f.size \in Nat
BY RecorderAssumption DEF Frame

LEMMA FrameId == ASSUME NEW f \in Frame PROVE f.id \in Nat
BY RecorderAssumption DEF Frame

\* Appending to one of a function's sequences, or adding to one of its numbers.
LEMMA ExceptAppend ==
  ASSUME NEW S, NEW D, NEW f \in [S -> Seq(D)], NEW r, NEW x \in D
  PROVE  [f EXCEPT ![r] = Append(@, x)] \in [S -> Seq(D)]
<1>1. ASSUME NEW s \in S PROVE [f EXCEPT ![r] = Append(@, x)][s] \in Seq(D)
  OBVIOUS
<1> QED
  BY <1>1

LEMMA ExceptAdd ==
  ASSUME NEW S, NEW f \in [S -> Int], NEW r, NEW n \in Int
  PROVE  [f EXCEPT ![r] = @ + n] \in [S -> Int]
<1>1. ASSUME NEW s \in S PROVE [f EXCEPT ![r] = @ + n][s] \in Int
  OBVIOUS
<1> QED
  BY <1>1

LEMMA RefuseType ==
  ASSUME TypeInv, NEW r, NEW f \in Frame, Refuse(r, f)
  PROVE  /\ failure' \in [Segments -> Failures]
         /\ offered' \in [Segments -> Seq(Frame)]
<1>1. failure \in [Segments -> Failures] /\ offered \in [Segments -> Seq(Frame)]
  BY DEF TypeInv, TypeOK
<1>2. /\ failure' = [failure EXCEPT ![r] = IF @ = "none" THEN "capacity" ELSE @]
      /\ offered' = [offered EXCEPT ![r] = Append(@, f)]
  BY DEF Refuse
<1>3. failure' \in [Segments -> Failures]
  BY <1>1, <1>2 DEF Failures
<1> QED
  BY <1>1, <1>2, <1>3, ExceptAppend

LEMMA ReserveType ==
  ASSUME TypeInv, NEW r, NEW f \in Frame, Reserve(r, f)
  PROVE  /\ queuedBytes' \in [Segments -> Int]
         /\ hand' \in Frame
         /\ offered' \in [Segments -> Seq(Frame)]
         /\ accepted' \in [Segments -> Seq(Frame)]
<1>1. /\ queuedBytes \in [Segments -> Int]
      /\ offered \in [Segments -> Seq(Frame)] /\ accepted \in [Segments -> Seq(Frame)]
  BY DEF TypeInv, TypeOK
<1>2. /\ queuedBytes' = [queuedBytes EXCEPT ![r] = @ + f.size] /\ hand' = f
      /\ offered'  = [offered EXCEPT ![r] = Append(@, f)]
      /\ accepted' = [accepted EXCEPT ![r] = Append(@, f)]
  BY DEF Reserve
<1>3. f.size \in Int
  BY FrameSize
<1>4. queuedBytes' \in [Segments -> Int]
  BY <1>1, <1>2, <1>3, ExceptAdd
<1> QED
  BY <1>1, <1>2, <1>4, ExceptAppend

LEMMA PutType ==
  ASSUME TypeInv, NEW r, Put(r)
  PROVE  queue' \in [Segments -> Seq(Frame \cup {None})] /\ hand' = None
<1>1. queue \in [Segments -> Seq(Frame \cup {None})] /\ hand \in Frame \cup {None}
  BY DEF TypeInv, TypeOK
<1>2. queue' = [queue EXCEPT ![r] = Append(@, hand)] /\ hand' = None
  BY DEF Put
<1> QED
  BY <1>1, <1>2, ExceptAppend

LEMMA StopDeferringType ==
  StopDeferring => deferring' \in BOOLEAN /\ deferred' \in Seq(Frame) /\ deferredBytes' \in Nat
<1>1. StopDeferring => deferring' \in BOOLEAN
  BY Zenon DEF StopDeferring
<1>2. <<>> \in Seq(Frame) /\ 0 \in Nat
  OBVIOUS
<1> QED
  BY <1>1, <1>2, Zenon DEF StopDeferring

LEMMA WorkerTypeInv == TypeInv /\ Worker => TypeInv'
<1> SUFFICES ASSUME TypeInv, Worker PROVE TypeInv'
  OBVIOUS
<1> USE DEF TypeInv
<1>1. ASSUME NEW size \in Sizes, HandleFrameRecorded(size) PROVE TypeInv'
  <2> DEFINE f == NextFrame(size)
  <2>1. f \in Frame /\ handled' \in 0..MaxFrames
    BY <1>1, NextFrameType DEF HandleFrameRecorded
  <2>2. attached \in Segments \cup {None}
    BY DEF TypeOK
  <2> HIDE DEF f
  <2>3. CASE Refuse(attached, f) /\ UNCHANGED lock
    <3>1. /\ failure' \in [Segments -> Failures]
          /\ offered' \in [Segments -> Seq(Frame)]
      BY <2>1, <2>2, <2>3, RefuseType
    <3> QED
      BY <1>1, <2>1, <2>3, <3>1
      DEF HandleFrameRecorded, Refuse, TypeOK, ChunkInv, guiVars
  <2>4. CASE Reserve(attached, f) /\ lock' = "worker"
    <3>1. /\ queuedBytes' \in [Segments -> Int] /\ hand' \in Frame
          /\ offered' \in [Segments -> Seq(Frame)]
          /\ accepted' \in [Segments -> Seq(Frame)]
      BY <2>1, <2>2, <2>4, ReserveType
    <3> QED
      BY <1>1, <2>1, <2>4, <3>1
      DEF HandleFrameRecorded, Reserve, TypeOK, ChunkInv, guiVars, Lock
  <2> QED
    BY <1>1, <2>3, <2>4 DEF HandleFrameRecorded, f
<1>2. ASSUME NEW size \in Sizes, HandleFrameDeferred(size) PROVE TypeInv'
  <2>1. /\ NextFrame(size) \in Frame /\ handled' \in 0..MaxFrames
        /\ handled + 1 \in 1..MaxFrames
    BY <1>2, NextFrameType DEF HandleFrameDeferred
  <2>2. size \in Nat
    BY RecorderAssumption
  <2>3. deferred' \in Seq(Frame) /\ deferredBytes' \in Nat /\ dropped' \subseteq 1..MaxFrames
    <3>1. deferred \in Seq(Frame) /\ deferredBytes \in Nat /\ dropped \subseteq 1..MaxFrames
      BY DEF TypeOK
    <3>2. \/ /\ deferred' = Append(deferred, NextFrame(size))
             /\ deferredBytes' = deferredBytes + size
             /\ dropped' = dropped
          \/ /\ deferred' = deferred /\ deferredBytes' = deferredBytes
             /\ dropped' = dropped \cup {handled + 1}
      BY <1>2 DEF HandleFrameDeferred
    <3>3. Append(deferred, NextFrame(size)) \in Seq(Frame)
      BY ONLY <2>1, <3>1
    <3>4. deferredBytes + size \in Nat
      BY ONLY <2>2, <3>1
    <3>5. dropped \cup {handled + 1} \subseteq 1..MaxFrames
      BY ONLY <2>1, <3>1, Zenon
    <3> QED
      BY <3>1, <3>2, <3>3, <3>4, <3>5, Zenon
  <2> QED
    BY <1>2, <2>1, <2>3
    DEF HandleFrameDeferred, TypeOK, ChunkInv, guiVars, recorderVars
<1>3. ASSUME NEW size \in Sizes, HandleFrameUnrecorded(size) PROVE TypeInv'
  <2>1. handled' \in 0..MaxFrames
    BY <1>3, NextFrameType DEF HandleFrameUnrecorded
  <2> QED
    BY <1>3, <2>1
    DEF HandleFrameUnrecorded, TypeOK, ChunkInv, controllerVars, guiVars, recorderVars
<1>4. CASE WorkerPut
  <2>1. queue' \in [Segments -> Seq(Frame \cup {None})] /\ hand' = None
    BY <1>4, PutType DEF WorkerPut, TypeOK
  <2> QED
    BY <1>4, <2>1 DEF WorkerPut, Put, TypeOK, ChunkInv, guiVars, historyVars, Lock
<1> QED
  BY <1>1, <1>2, <1>3, <1>4 DEF Worker

LEMMA GuiTypeInv == TypeInv /\ Gui => TypeInv'
<1> SUFFICES ASSUME TypeInv, Gui PROVE TypeInv'
  OBVIOUS
<1> USE DEF TypeInv, TypeOK, ChunkInv
<1>1. ASSUME NEW r \in Segments, StartRecorder(r) PROVE TypeInv'
  BY <1>1 DEF StartRecorder, controllerVars, historyVars, GuiStep, WriterStep
<1>2. CASE AttachRecorder
  BY <1>2 DEF AttachRecorder, recorderVars, historyVars, GuiStep, Lock
<1>3. CASE FlushDeferred
  <2>1. Head(flush) \in Frame /\ flush' \in Seq(Frame)
    <3>1. flush \in Seq(Frame)
      OBVIOUS
    <3>2. flush # <<>> /\ (flush' = <<>> \/ flush' = Tail(flush))
      BY <1>3 DEF FlushDeferred
    <3>3. Head(flush) \in Frame /\ Tail(flush) \in Seq(Frame) /\ <<>> \in Seq(Frame)
      BY ONLY <3>1, <3>2
    <3> QED
      BY <3>2, <3>3, Zenon
  <2>2. CASE Refuse(owner, Head(flush))
    <3>1. /\ failure' \in [Segments -> Failures]
          /\ offered' \in [Segments -> Seq(Frame)]
      BY <2>1, <2>2, RefuseType
    <3> QED
      BY <1>3, <2>1, <2>2, <3>1 DEF FlushDeferred, Refuse
  <2>3. CASE Reserve(owner, Head(flush))
    <3>1. /\ queuedBytes' \in [Segments -> Int] /\ hand' \in Frame
          /\ offered' \in [Segments -> Seq(Frame)]
          /\ accepted' \in [Segments -> Seq(Frame)]
      BY <2>1, <2>3, ReserveType
    <3> QED
      BY <1>3, <2>1, <2>3, <3>1 DEF FlushDeferred, Reserve
  <2> QED
    BY <1>3, <2>2, <2>3 DEF FlushDeferred
<1>4. CASE FlushPut
  <2>1. queue' \in [Segments -> Seq(Frame \cup {None})] /\ hand' = None
    BY <1>4, PutType DEF FlushPut
  <2> QED
    BY <1>4, <2>1 DEF FlushPut, Put, guiVars, historyVars
<1>5. CASE FlushDone
  BY <1>5, StopDeferringType DEF FlushDone, recorderVars, historyVars, GuiStep, Lock
<1>6. CASE DetachRecorder
  BY <1>6, StopDeferringType DEF DetachRecorder, recorderVars, historyVars, GuiStep
<1>7. CASE CancelDeferred
  BY <1>7, StopDeferringType DEF CancelDeferred, guiVars, recorderVars, historyVars
<1>8. CASE StopRecorder
  <2>1. queue' \in [Segments -> Seq(Frame \cup {None})]
    <3>1. /\ queue \in [Segments -> Seq(Frame \cup {None})]
          /\ queue' = [queue EXCEPT ![owner] = Append(@, None)]
      BY <1>8 DEF StopRecorder
    <3> QED
      BY ONLY <3>1, ExceptAppend
  <2> QED
    BY <1>8, <2>1 DEF StopRecorder, controllerVars, historyVars, GuiStep
<1>9. CASE JoinWriter
  BY <1>9 DEF JoinWriter, controllerVars, historyVars, GuiStep
<1>10. CASE JoinTimeout
  BY <1>10 DEF JoinTimeout, controllerVars, recorderVars, historyVars, GuiStep
<1> QED
  BY <1>1, <1>2, <1>3, <1>4, <1>5, <1>6, <1>7, <1>8, <1>9, <1>10 DEF Gui

LEMMA WriterTypeInv ==
  ASSUME TypeInv, NEW r \in Segments, Writer(r)
  PROVE  TypeInv'
<1> USE DEF TypeInv, TypeOK, ChunkInv, controllerVars, guiVars, historyVars, WriterStep
<1>1. CASE WriterGet(r)
  <2>1. /\ Head(queue[r]) \in Frame \cup {None}
        /\ queue' \in [Segments -> Seq(Frame \cup {None})]
    <3>1. /\ queue \in [Segments -> Seq(Frame \cup {None})] /\ queue[r] # <<>>
          /\ queue' = [queue EXCEPT ![r] = Tail(@)]
      BY <1>1 DEF WriterGet
    <3>2. Head(queue[r]) \in Frame \cup {None} /\ Tail(queue[r]) \in Seq(Frame \cup {None})
      BY ONLY <3>1, r \in Segments
    <3> QED
      BY ONLY <3>1, <3>2
  <2> QED
    BY <1>1, <2>1 DEF WriterGet
<1>2. CASE WriterWrite(r)
  <2>1. /\ file \in [Segments -> Seq(Frame)] /\ chunk[r] \in Frame
        /\ file' = [file EXCEPT ![r] = Append(@, chunk[r])]
    BY <1>2 DEF WriterWrite
  <2>2. file' \in [Segments -> Seq(Frame)]
    BY ONLY <2>1, ExceptAppend
  <2> QED
    BY <1>2, <2>2 DEF WriterWrite
<1>3. CASE WriterCount(r)
  <2>1. chunk[r].size \in Nat
    BY <1>3, RecorderAssumption DEF WriterCount, Frame
  <2>2. queuedBytes' \in [Segments -> Int] /\ bytesWritten' \in [Segments -> Nat]
    <3>1. /\ queuedBytes \in [Segments -> Int] /\ bytesWritten \in [Segments -> Nat]
          /\ queuedBytes'  = [queuedBytes EXCEPT ![r] = queuedBytes[r] - chunk[r].size]
          /\ bytesWritten' = [bytesWritten EXCEPT ![r] = bytesWritten[r] + chunk[r].size]
      BY <1>3 DEF WriterCount
    <3>2. queuedBytes[r] - chunk[r].size \in Int /\ bytesWritten[r] + chunk[r].size \in Nat
      BY ONLY <2>1, <3>1, r \in Segments
    <3> QED
      BY ONLY <3>1, <3>2
  <2> QED
    BY <1>3, <2>2 DEF WriterCount
<1>4. CASE WriterFinish(r)
  BY <1>4 DEF WriterFinish
<1>5. CASE WriterFails(r)
  <2>1. PICK n \in 0..Len(file[r]) : file' = [file EXCEPT ![r] = SubSeq(file[r], 1, n)]
    BY <1>5 DEF WriterFails
  <2>2. file \in [Segments -> Seq(Frame)]
    OBVIOUS
  <2>3. SubSeq(file[r], 1, n) \in Seq(Frame)
    BY ONLY <2>2, r \in Segments, n \in 0..Len(file[r])
  <2>4. file' \in [Segments -> Seq(Frame)]
    BY ONLY <2>1, <2>2, <2>3
  <2> QED
    BY <1>5, <2>4 DEF WriterFails, Failures
<1> QED
  BY <1>1, <1>2, <1>3, <1>4, <1>5 DEF Writer

LEMMA NextTypeInv == TypeInv /\ [Next]_vars => TypeInv'
<1>1. ASSUME TypeInv, UNCHANGED vars PROVE TypeInv'
  BY <1>1 DEF TypeInv, TypeOK, ChunkInv, vars, controllerVars, guiVars, recorderVars,
              historyVars
<1> QED
  BY <1>1, WorkerTypeInv, GuiTypeInv, WriterTypeInv DEF Next

(* Every variable of the recording path keeps its type: in particular only   *)
(* frames, never the writer's None sentinel, reach a recording file.         *)
THEOREM TypeCorrect == Spec => []TypeOK
<1>1. TypeInv => TypeOK
  BY DEF TypeInv
<1> QED
  BY <1>1, InitTypeInv, NextTypeInv, PTL DEF Spec

-----------------------------------------------------------------------------
(* Sequences: prefixes, and the frames queued ahead of the sentinel.         *)

LEMMA PrefixRefl == ASSUME NEW S, NEW a \in Seq(S) PROVE IsPrefix(a, a)
BY DEF IsPrefix

LEMMA PrefixConcat ==
  ASSUME NEW S, NEW a \in Seq(S), NEW b \in Seq(S)
  PROVE  IsPrefix(a, a \o b)
BY DEF IsPrefix

LEMMA PrefixAppend ==
  ASSUME NEW S, NEW a \in Seq(S), NEW x \in S
  PROVE  IsPrefix(a, Append(a, x))
BY DEF IsPrefix

LEMMA PrefixSub ==
  ASSUME NEW S, NEW a \in Seq(S), NEW n \in 0..Len(a)
  PROVE  IsPrefix(SubSeq(a, 1, n), a)
BY DEF IsPrefix

LEMMA PrefixTrans ==
  ASSUME NEW S, NEW a \in Seq(S), NEW b \in Seq(S), NEW c \in Seq(S),
         IsPrefix(a, b), IsPrefix(b, c)
  PROVE  IsPrefix(a, c)
BY DEF IsPrefix

LEMMA ConsProperties ==
  ASSUME NEW S, NEW x \in S, NEW u \in Seq(S)
  PROVE  /\ <<x>> \o u \in Seq(S) /\ Len(<<x>> \o u) = Len(u) + 1
         /\ (<<x>> \o u)[1] = x
         /\ \A i \in 2..(Len(u) + 1) : (<<x>> \o u)[i] = u[i - 1]
OBVIOUS

LEMMA ChunksOfPlain ==
  ASSUME NEW q \in Seq(Frame \cup {None}), NoSentinel(q)
  PROVE  Chunks(q) = q /\ q \in Seq(Frame)
BY DEF Chunks, NoSentinel

LEMMA ChunksType ==
  ASSUME NEW q \in Seq(Frame \cup {None}), SentinelLast(q)
  PROVE  Chunks(q) \in Seq(Frame)
BY DEF Chunks, SentinelLast

\* Putting a frame behind frames.
LEMMA SentinelOfPut ==
  ASSUME NEW q \in Seq(Frame \cup {None}), NoSentinel(q), NEW x \in Frame
  PROVE  NoSentinel(Append(q, x)) /\ SentinelLast(Append(q, x))
BY RecorderAssumption DEF NoSentinel, SentinelLast

\* Putting the sentinel behind frames.
LEMMA ChunksStop ==
  ASSUME NEW q \in Seq(Frame \cup {None}), NoSentinel(q)
  PROVE  Chunks(Append(q, None)) = q /\ SentinelLast(Append(q, None))
<1> DEFINE p == Append(q, None)
<1>1. /\ p \in Seq(Frame \cup {None}) /\ Len(p) = Len(q) + 1 /\ p # <<>>
      /\ p[Len(p)] = None /\ \A i \in 1..Len(q) : p[i] = q[i]
  OBVIOUS
<1>2. SubSeq(p, 1, Len(p) - 1) = q
  <2>1. /\ SubSeq(p, 1, Len(p) - 1) \in Seq(Frame \cup {None})
        /\ Len(SubSeq(p, 1, Len(p) - 1)) = Len(q)
    BY <1>1
  <2> QED
    BY <1>1, <2>1, SeqEqual
<1>3. SentinelLast(p)
  BY <1>1 DEF SentinelLast, NoSentinel
<1> QED
  BY <1>1, <1>2, <1>3 DEF Chunks

\* Taking the head off a queue.
LEMMA SentinelOfTail ==
  ASSUME NEW q \in Seq(Frame \cup {None}), SentinelLast(q), q # <<>>
  PROVE  SentinelLast(Tail(q)) /\ (NoSentinel(q) => NoSentinel(Tail(q)))
BY DEF NoSentinel, SentinelLast

LEMMA ChunksOfSentinel ==
  ASSUME NEW q \in Seq(Frame \cup {None}), SentinelLast(q), q # <<>>, Head(q) = None
  PROVE  Tail(q) = <<>> /\ Chunks(q) = <<>>
BY DEF Chunks, SentinelLast

LEMMA ChunksOfGet ==
  ASSUME NEW q \in Seq(Frame \cup {None}), SentinelLast(q), q # <<>>, Head(q) # None
  PROVE  Chunks(q) = <<Head(q)>> \o Chunks(Tail(q))
<1> DEFINE t == Tail(q)
<1>1. /\ t \in Seq(Frame \cup {None}) /\ Len(t) = Len(q) - 1
      /\ \A i \in 1..Len(t) : t[i] = q[i + 1]
      /\ Head(q) = q[1] /\ Len(q) >= 1
  OBVIOUS
<1> HIDE DEF t
<1>2. CASE q[Len(q)] = None
  <2>1. Len(q) >= 2 /\ t # <<>> /\ t[Len(t)] = None
    BY <1>1, <1>2
  <2>2. Chunks(q) = SubSeq(q, 1, Len(q) - 1) /\ Chunks(t) = SubSeq(t, 1, Len(t) - 1)
    BY <1>2, <2>1 DEF Chunks
  <2> DEFINE u == SubSeq(t, 1, Len(t) - 1)
             v == SubSeq(q, 1, Len(q) - 1)
             w == <<q[1]>> \o u
  <2>3. /\ v \in Seq(Frame \cup {None}) /\ Len(v) = Len(q) - 1
        /\ \A i \in 1..(Len(q) - 1) : v[i] = q[i]
    BY <2>1
  <2>4. /\ u \in Seq(Frame \cup {None}) /\ Len(u) = Len(q) - 2
        /\ \A i \in 1..(Len(q) - 2) : u[i] = q[i + 1]
    BY <1>1, <2>1
  <2>5. q[1] \in Frame \cup {None}
    BY <1>1
  <2>6. /\ w \in Seq(Frame \cup {None}) /\ Len(w) = Len(u) + 1
        /\ w[1] = q[1] /\ \A i \in 2..(Len(u) + 1) : w[i] = u[i - 1]
    BY <2>4, <2>5, ConsProperties
  <2> HIDE DEF u, v, w
  <2>7. ASSUME NEW i \in 1..Len(v) PROVE v[i] = w[i]
    <3>1. CASE i = 1
      BY <2>1, <2>3, <2>6, <3>1
    <3>2. CASE i # 1
      <4>1. i \in 2..(Len(u) + 1) /\ i - 1 \in 1..(Len(q) - 2) /\ (i - 1) + 1 = i /\ i \in 1..(Len(q) - 1)
        BY <1>1, <2>1, <2>3, <2>4, <3>2
      <4>2. w[i] = u[i - 1] /\ u[i - 1] = q[(i - 1) + 1] /\ v[i] = q[i]
        BY ONLY <2>3, <2>4, <2>6, <4>1
      <4> QED
        BY <4>1, <4>2
    <3> QED
      BY <3>1, <3>2
  <2>8. v = w
    <3>1. v \in Seq(Frame \cup {None}) /\ w \in Seq(Frame \cup {None}) /\ Len(v) = Len(w)
      BY <2>1, <2>3, <2>4, <2>6
    <3> QED
      BY ONLY <2>7, <3>1, SeqEqual
  <2> QED
    BY <1>1, <2>2, <2>8 DEF t, u, v, w
<1>3. CASE q[Len(q)] # None
  <2>1. Chunks(q) = q
    BY <1>3 DEF Chunks
  <2>2. t # <<>> => t[Len(t)] # None
    BY <1>1, <1>3
  <2>3. Chunks(t) = t
    BY <2>2 DEF Chunks
  <2>4. q = <<q[1]>> \o t
    BY <1>1 DEF t
  <2> QED
    BY <1>1, <2>1, <2>3, <2>4 DEF t
<1> QED
  BY <1>2, <1>3

-----------------------------------------------------------------------------
(* The lock and the sink.                                                    *)

LEMMA SinkStep == IInv /\ [Next]_vars => LockInv' /\ SinkInv'
<1> SUFFICES ASSUME IInv, [Next]_vars PROVE LockInv' /\ SinkInv'
  OBVIOUS
<1>0. LockInv /\ SinkInv /\ TypeOK
  BY DEF IInv, TypeInv
<1> USE DEF LockInv, SinkInv
<1>1. ASSUME NEW size \in Sizes, HandleFrameRecorded(size) PROVE LockInv' /\ SinkInv'
  <2>1. NextFrame(size) # None
    BY <1>0, <1>1, NextFrameType, RecorderAssumption DEF HandleFrameRecorded
  <2> QED
    BY <1>0, <1>1, <2>1 DEF HandleFrameRecorded, Refuse, Reserve, guiVars
<1>2. ASSUME NEW size \in Sizes, HandleFrameDeferred(size) \/ HandleFrameUnrecorded(size)
      PROVE  LockInv' /\ SinkInv'
  BY <1>0, <1>2 DEF HandleFrameDeferred, HandleFrameUnrecorded, controllerVars, guiVars
<1>3. CASE WorkerPut \/ FlushPut
  BY <1>0, <1>3 DEF WorkerPut, FlushPut, Put, guiVars
<1>4. ASSUME NEW r \in Segments, StartRecorder(r) PROVE LockInv' /\ SinkInv'
  BY <1>0, <1>4, RecorderAssumption DEF StartRecorder, controllerVars
<1>5. CASE AttachRecorder
  BY <1>0, <1>5 DEF AttachRecorder
<1>6. CASE FlushDeferred
  <2>1. Head(flush) # None
    <3>1. flush \in Seq(Frame) /\ flush # <<>>
      BY <1>0, <1>6 DEF TypeOK, FlushDeferred
    <3>2. Head(flush) \in Frame
      BY ONLY <3>1
    <3> QED
      BY <3>2, RecorderAssumption
  <2> QED
    BY <1>0, <1>6, <2>1 DEF FlushDeferred, Refuse, Reserve
<1>7. CASE FlushDone
  BY <1>0, <1>7 DEF FlushDone
<1>8. CASE DetachRecorder \/ CancelDeferred
  BY <1>0, <1>8 DEF DetachRecorder, CancelDeferred, guiVars
<1>9. CASE StopRecorder \/ JoinWriter \/ JoinTimeout
  BY <1>0, <1>9 DEF StopRecorder, JoinWriter, JoinTimeout, controllerVars
<1>10. ASSUME NEW r \in Segments, Writer(r) PROVE LockInv' /\ SinkInv'
  BY <1>0, <1>10
  DEF Writer, WriterGet, WriterWrite, WriterCount, WriterFinish, WriterFails,
      controllerVars, guiVars
<1>11. CASE UNCHANGED vars
  BY <1>0, <1>11 DEF vars, controllerVars, guiVars
<1> QED
  BY <1>1, <1>2, <1>3, <1>4, <1>5, <1>6, <1>7, <1>8, <1>9, <1>10, <1>11
  DEF Next, Worker, Gui

-----------------------------------------------------------------------------
(* Steps that leave a recorder alone.                                        *)

\* The step changes nothing that the invariant of recorder s speaks of.
Same(s) ==
  /\ active'[s] = active[s] /\ failure'[s] = failure[s] /\ queue'[s] = queue[s]
  /\ writer'[s] = writer[s] /\ chunk'[s] = chunk[s] /\ file'[s] = file[s]
  /\ summary'[s] = summary[s]
  /\ offered'[s] = offered[s] /\ accepted'[s] = accepted[s]
  /\ Reserved(s)' = Reserved(s)
  /\ owner' = s => owner = s /\ (gui' # "join" => gui # "join")

LEMMA SameKeeps == ASSUME NEW s, RecorderInv(s), Same(s) PROVE RecorderInv(s)'
<1>1. Taken(s)' = Taken(s) /\ Queued(s)' = Queued(s) /\ Reserved(s)' = Reserved(s)
  BY DEF Same, Taken, Queued, Chunks
<1> QED
  BY <1>1
  DEF RecorderInv, FreshInv, SentinelInv, NoSentinel, SentinelLast, PipeInv, OfferInv,
      SummaryInv, Same

\* Steps of the worker and of the GUI that touch no recorder.
ControlStep ==
  \/ \E size \in Sizes : HandleFrameDeferred(size) \/ HandleFrameUnrecorded(size)
  \/ AttachRecorder \/ FlushDone \/ DetachRecorder \/ CancelDeferred \/ JoinTimeout
  \/ UNCHANGED vars

LEMMA ControlKeeps ==
  ASSUME IInv, ControlStep, NEW s \in Segments PROVE RecorderInv(s)'
<1>1. RecorderInv(s) /\ LockInv /\ SinkInv
  BY DEF IInv
<1>2. Same(s)
  BY <1>1, RecorderAssumption
  DEF ControlStep, HandleFrameDeferred, HandleFrameUnrecorded, AttachRecorder, FlushDone,
      DetachRecorder, CancelDeferred, JoinTimeout, vars, controllerVars, guiVars,
      recorderVars, historyVars, Same, Reserved, LockInv, SinkInv
<1> QED
  BY <1>1, <1>2, SameKeeps

-----------------------------------------------------------------------------
(* submit and put.                                                           *)

\* The frames of a recorder and the queue ahead of its writer.
LEMMA PartsType ==
  ASSUME IInv, NEW r \in Segments
  PROVE  /\ file[r] \in Seq(Frame) /\ accepted[r] \in Seq(Frame)
         /\ offered[r] \in Seq(Frame) /\ queue[r] \in Seq(Frame \cup {None})
         /\ Taken(r) \in Seq(Frame) /\ Queued(r) \in Seq(Frame)
         /\ Reserved(r) \in Seq(Frame)
<1>1. /\ file[r] \in Seq(Frame) /\ accepted[r] \in Seq(Frame)
      /\ offered[r] \in Seq(Frame) /\ queue[r] \in Seq(Frame \cup {None})
      /\ hand # None => hand \in Frame
      /\ writer[r] = "write" => chunk[r] \in Frame
  BY DEF IInv, TypeInv, TypeOK, ChunkInv
<1>2. SentinelLast(queue[r])
  BY DEF IInv, RecorderInv, SentinelInv
<1>3. Queued(r) \in Seq(Frame)
  BY <1>1, <1>2, ChunksType DEF Queued
<1>4. Taken(r) \in Seq(Frame)
  BY ONLY <1>1 DEF Taken
<1>5. Reserved(r) \in Seq(Frame)
  BY ONLY <1>1 DEF Reserved
<1> QED
  BY <1>1, <1>3, <1>4, <1>5

\* A submit goes to the session's recorder, before its sentinel is queued.
LEMMA SinkFacts ==
  ASSUME IInv, attached # None
  PROVE  attached \in Segments /\ owner = attached /\ gui # "join"
BY DEF IInv, TypeInv, TypeOK, SinkInv, GuiStep

LEMMA RefuseKeeps ==
  ASSUME IInv, NEW f \in Frame, attached # None, Refuse(attached, f),
         UNCHANGED <<attached, gui, owner>>, NEW s \in Segments
  PROVE  RecorderInv(s)'
<1> DEFINE r == attached
<1>1. /\ r \in Segments /\ owner = r /\ gui # "join"
      /\ RecorderInv(s) /\ RecorderInv(r)
  BY SinkFacts DEF IInv
<1>2. /\ failure \in [Segments -> Failures] /\ offered \in [Segments -> Seq(Frame)]
  BY DEF IInv, TypeInv, TypeOK
<1>3. CASE s # r
  <2>1. Same(s)
    BY <1>1, <1>2, <1>3 DEF Refuse, Same, Reserved
  <2> QED
    BY <1>1, <2>1, SameKeeps
<1>4. CASE s = r
  <2>1. failure'[r] # "none" /\ offered'[r] = Append(offered[r], f)
    BY <1>1, <1>2 DEF Refuse
  <2>2. /\ UNCHANGED <<active, queue, writer, chunk, file, summary, accepted, hand>>
        /\ Taken(r)' = Taken(r) /\ Queued(r)' = Queued(r) /\ Reserved(r)' = Reserved(r)
    BY DEF Refuse, Taken, Queued, Chunks, Reserved
  <2>3. FreshInv(r)'
    BY <1>1, <2>2 DEF RecorderInv, FreshInv
  <2>4. SentinelInv(r)'
    BY <1>1, <2>1, <2>2 DEF RecorderInv, SentinelInv, NoSentinel, SentinelLast
  <2>5. PipeInv(r)'
    BY <1>1, <2>1, <2>2 DEF RecorderInv, PipeInv
  <2>6. OfferInv(r)'
    <3>1. IsPrefix(accepted[r], offered[r]) /\ IsPrefix(offered[r], Append(offered[r], f))
      BY <1>1, <1>2, PrefixAppend DEF RecorderInv, OfferInv
    <3>2. accepted[r] \in Seq(Frame) /\ Append(offered[r], f) \in Seq(Frame)
      BY <1>1, <1>2, PartsType
    <3>3. IsPrefix(accepted[r], Append(offered[r], f))
      BY <1>1, <1>2, <3>1, <3>2, PrefixTrans
    <3> QED
      BY <2>1, <2>2, <3>3 DEF OfferInv
  <2>7. SummaryInv(r)'
    BY <1>1, <2>2 DEF RecorderInv, SummaryInv
  <2> QED
    BY <1>4, <2>3, <2>4, <2>5, <2>6, <2>7 DEF RecorderInv
<1> QED
  BY <1>3, <1>4

LEMMA AppendEmpty ==
  ASSUME NEW S, NEW a \in Seq(S), NEW x \in S
  PROVE  Append(a, x) \o <<>> = a \o <<x>>
<1>1. Append(a, x) \in Seq(S) /\ Append(a, x) = a \o <<x>>
  BY AppendIsConcat
<1> QED
  BY <1>1, ConcatEmptySeq

LEMMA ReserveKeeps ==
  ASSUME IInv, NEW f \in Frame, attached # None, hand = None, Reserve(attached, f),
         UNCHANGED <<attached, gui, owner>>, NEW s \in Segments
  PROVE  RecorderInv(s)'
<1> DEFINE r == attached
<1>1. /\ r \in Segments /\ owner = r /\ gui # "join"
      /\ RecorderInv(s) /\ RecorderInv(r)
  BY SinkFacts DEF IInv
<1>2. /\ accepted \in [Segments -> Seq(Frame)] /\ offered \in [Segments -> Seq(Frame)]
  BY DEF IInv, TypeInv, TypeOK
<1>3. CASE s # r
  <2>1. Same(s)
    BY <1>1, <1>2, <1>3 DEF Reserve, Same, Reserved
  <2> QED
    BY <1>1, <2>1, SameKeeps
<1>4. CASE s = r
  <2>1. /\ offered'[r] = Append(offered[r], f) /\ accepted'[r] = Append(accepted[r], f)
        /\ failure[r] = "none"
    BY <1>1, <1>2 DEF Reserve, Refuses
  <2>2. /\ UNCHANGED <<active, failure, queue, writer, chunk, file, summary>>
        /\ Taken(r)' = Taken(r) /\ Queued(r)' = Queued(r)
    BY DEF Reserve, Taken, Queued, Chunks
  <2>3. Reserved(r) = <<>> /\ Reserved(r)' = <<f>>
    BY RecorderAssumption DEF Reserve, Reserved
  <2>4. FreshInv(r)'
    BY <1>1, <2>2 DEF RecorderInv, FreshInv
  <2>5. SentinelInv(r)'
    BY <1>1, <2>1, <2>2 DEF RecorderInv, SentinelInv, NoSentinel, SentinelLast
  <2>6. accepted[r] = offered[r]
    BY <1>1, <2>1 DEF RecorderInv, OfferInv
  <2>7. PipeInv(r)'
    <3>1. writer[r] # "exited"
      BY <1>1, <2>1 DEF RecorderInv, SentinelInv
    <3>2. accepted[r] = file[r] \o (Taken(r) \o (Queued(r) \o Reserved(r)))
      BY <1>1, <3>1 DEF RecorderInv, PipeInv
    <3>3. /\ file[r] \in Seq(Frame) /\ Taken(r) \in Seq(Frame) /\ Queued(r) \in Seq(Frame)
          /\ accepted[r] \in Seq(Frame) /\ Append(accepted[r], f) \in Seq(Frame)
      BY <1>1, <1>2, PartsType
    <3>4. accepted'[r] = file[r] \o (Taken(r) \o (Queued(r) \o <<f>>))
      <4>1. Queued(r) \o Reserved(r) = Queued(r)
        BY <2>3, <3>3, ConcatEmptySeq
      <4>2. accepted[r] = file[r] \o (Taken(r) \o Queued(r))
        BY <3>2, <4>1
      <4>3. /\ <<f>> \in Seq(Frame) /\ Taken(r) \o Queued(r) \in Seq(Frame)
            /\ file[r] \o (Taken(r) \o Queued(r)) \in Seq(Frame)
        BY ONLY <3>3, f \in Frame
      <4>4. accepted'[r] = (file[r] \o (Taken(r) \o Queued(r))) \o <<f>>
        BY <2>1, <4>2, <4>3, AppendIsConcat
      <4>5. (file[r] \o (Taken(r) \o Queued(r))) \o <<f>>
              = file[r] \o ((Taken(r) \o Queued(r)) \o <<f>>)
        <5> DEFINE a == file[r]
                   b == Taken(r) \o Queued(r)
                   x == <<f>>
        <5>1. a \in Seq(Frame) /\ b \in Seq(Frame) /\ x \in Seq(Frame)
          BY <3>3, <4>3
        <5> HIDE DEF a, b, x
        <5>2. (a \o b) \o x = a \o (b \o x)
          BY <5>1, ConcatAssociative
        <5> QED
          BY <5>2 DEF a, b, x
      <4>6. (Taken(r) \o Queued(r)) \o <<f>> = Taken(r) \o (Queued(r) \o <<f>>)
        BY <3>3, <4>3, ConcatAssociative
      <4> QED
        BY ONLY <4>4, <4>5, <4>6
    <3>5. IsPrefix(file[r], accepted[r]) /\ IsPrefix(accepted[r], Append(accepted[r], f))
      BY <1>1, <3>3, PrefixAppend DEF RecorderInv, PipeInv
    <3>6. IsPrefix(file[r], Append(accepted[r], f))
      BY <3>3, <3>5, PrefixTrans
    <3> QED
      BY <2>1, <2>2, <2>3, <3>1, <3>4, <3>6 DEF PipeInv
  <2>8. OfferInv(r)'
    <3>1. accepted'[r] = offered'[r] /\ offered'[r] \in Seq(Frame)
      BY <1>1, <1>2, <2>1, <2>6
    <3> QED
      BY <3>1, PrefixRefl DEF OfferInv
  <2>9. SummaryInv(r)'
    BY <1>1, <2>2 DEF RecorderInv, SummaryInv
  <2> QED
    BY <1>4, <2>4, <2>5, <2>7, <2>8, <2>9 DEF RecorderInv
<1> QED
  BY <1>3, <1>4

LEMMA PutKeeps ==
  ASSUME IInv, attached # None, Put(attached), UNCHANGED <<attached, gui, owner>>,
         NEW s \in Segments
  PROVE  RecorderInv(s)'
<1> DEFINE r == attached
<1>1. /\ r \in Segments /\ owner = r /\ gui # "join"
      /\ RecorderInv(s) /\ RecorderInv(r)
  BY SinkFacts DEF IInv
<1>2. queue \in [Segments -> Seq(Frame \cup {None})] /\ hand \in Frame
  BY DEF IInv, TypeInv, TypeOK, Put
<1>3. CASE s # r
  <2>1. Same(s)
    BY <1>1, <1>2, <1>3 DEF Put, historyVars, Same, Reserved
  <2> QED
    BY <1>1, <2>1, SameKeeps
<1>4. CASE s = r
  <2>1. queue'[r] = Append(queue[r], hand)
    BY <1>1, <1>2 DEF Put
  <2>2. /\ UNCHANGED <<active, failure, writer, chunk, file, summary, offered, accepted>>
        /\ Taken(r)' = Taken(r)
    BY DEF Put, Taken, historyVars
  <2>3. Reserved(r) = <<hand>> /\ Reserved(r)' = <<>>
    BY DEF Put, Reserved
  <2>4. NoSentinel(queue[r]) /\ writer[r] # "finish"
    BY <1>1 DEF RecorderInv, SentinelInv
  <2>5. NoSentinel(queue'[r]) /\ SentinelLast(queue'[r])
    BY <1>1, <1>2, <2>1, <2>4, SentinelOfPut
  <2>6. FreshInv(r)'
    BY <1>1, <2>2 DEF RecorderInv, FreshInv
  <2>7. SentinelInv(r)'
    BY <1>1, <2>2, <2>4, <2>5 DEF RecorderInv, SentinelInv, NoSentinel, SentinelLast
  <2>8. PipeInv(r)'
    <3>1. Queued(r) = queue[r] /\ queue[r] \in Seq(Frame)
      BY <1>1, <1>2, <2>4, ChunksOfPlain DEF Queued
    <3>2. Append(queue[r], hand) \in Seq(Frame \cup {None})
      BY <1>1, <1>2
    <3>3. Queued(r)' = Append(queue[r], hand)
      BY <2>1, <2>5, <3>2, ChunksOfPlain DEF Queued, Chunks
    <3>4. Append(queue[r], hand) \o <<>> = queue[r] \o <<hand>>
      BY <1>2, <3>1, AppendEmpty
    <3>5. Queued(r)' \o Reserved(r)' = Queued(r) \o Reserved(r)
      BY <2>3, <3>1, <3>3, <3>4
    <3>6. writer[r] = "exited" => failure[r] # "none"
      BY <1>1 DEF RecorderInv, SentinelInv
    <3> QED
      BY <1>1, <2>2, <3>5, <3>6 DEF RecorderInv, PipeInv
  <2>9. OfferInv(r)' /\ SummaryInv(r)'
    BY <1>1, <2>2 DEF RecorderInv, OfferInv, SummaryInv
  <2> QED
    BY <1>4, <2>6, <2>7, <2>8, <2>9 DEF RecorderInv
<1> QED
  BY <1>3, <1>4

-----------------------------------------------------------------------------
(* Starting and stopping a recorder.                                         *)

LEMMA StartKeeps ==
  ASSUME IInv, NEW r \in Segments, StartRecorder(r), NEW s \in Segments
  PROVE  RecorderInv(s)'
<1>1. RecorderInv(s) /\ RecorderInv(r)
  BY DEF IInv
<1>2. /\ active \in [Segments -> {"new", "active", "closed"}]
      /\ writer \in [Segments -> WriterStep]
  BY DEF IInv, TypeInv, TypeOK
<1>3. \A t \in Segments : Reserved(t)' = Reserved(t)
  BY DEF StartRecorder, controllerVars, Reserved
<1>4. CASE s # r
  <2>1. Same(s)
    BY <1>2, <1>3, <1>4 DEF StartRecorder, historyVars, Same
  <2> QED
    BY <1>1, <2>1, SameKeeps
<1>5. CASE s = r
  <2>1. /\ active'[r] = "active" /\ writer[r] = "none" /\ writer'[r] = "get"
        /\ queue[r] = <<>> /\ summary[r] = None
        /\ UNCHANGED <<failure, queue, file, summary, chunk, offered, accepted>>
    BY <1>1, <1>2 DEF StartRecorder, RecorderInv, FreshInv, historyVars
  <2>2. Taken(r)' = Taken(r) /\ Queued(r)' = Queued(r)
    BY <2>1 DEF Taken, Queued, Chunks
  <2>3. NoSentinel(queue'[r]) /\ SentinelLast(queue'[r])
    BY <2>1 DEF NoSentinel, SentinelLast
  <2>4. FreshInv(r)' /\ SentinelInv(r)' /\ SummaryInv(r)'
    BY <2>1, <2>3 DEF FreshInv, SentinelInv, SummaryInv, NoSentinel, SentinelLast
  <2>5. PipeInv(r)' /\ OfferInv(r)'
    BY <1>1, <1>3, <2>1, <2>2 DEF RecorderInv, PipeInv, OfferInv
  <2> QED
    BY <1>5, <2>4, <2>5 DEF RecorderInv
<1> QED
  BY <1>4, <1>5

LEMMA StopKeeps ==
  ASSUME IInv, StopRecorder, NEW s \in Segments
  PROVE  RecorderInv(s)'
<1>0. PICK r \in Segments : owner = r
  BY DEF IInv, TypeInv, TypeOK, SinkInv, StopRecorder
<1>1. gui = "stop" /\ owner = r /\ RecorderInv(s)
  BY <1>0 DEF IInv, StopRecorder
<1>2. queue \in [Segments -> Seq(Frame \cup {None})] /\ RecorderInv(r)
  BY <1>1 DEF IInv, TypeInv, TypeOK
<1>3. \A t \in Segments : Reserved(t)' = Reserved(t)
  BY DEF StopRecorder, controllerVars, Reserved
<1>4. CASE s # r
  <2>1. Same(s)
    BY <1>1, <1>2, <1>3, <1>4 DEF StopRecorder, historyVars, Same
  <2> QED
    BY <1>1, <2>1, SameKeeps
<1>5. CASE s = r
  <2>1. /\ queue'[r] = Append(queue[r], None) /\ gui' = "join" /\ owner' = owner
        /\ UNCHANGED <<active, failure, writer, file, summary, chunk, offered, accepted>>
    BY <1>1, <1>2 DEF StopRecorder, historyVars
  <2>2. /\ NoSentinel(queue[r]) /\ writer[r] # "finish"
        /\ writer[r] = "exited" => failure[r] # "none"
    BY <1>1, <1>2 DEF RecorderInv, SentinelInv
  <2>3. SentinelLast(queue'[r]) /\ Chunks(queue'[r]) = queue[r] /\ Chunks(queue[r]) = queue[r]
    BY <1>1, <1>2, <2>1, <2>2, ChunksStop, ChunksOfPlain
  <2>4. Taken(r)' = Taken(r) /\ Queued(r)' = Queued(r) /\ Reserved(r)' = Reserved(r)
    BY <1>1, <1>3, <2>1, <2>3 DEF Taken, Queued, Chunks
  <2>5. FreshInv(r)' /\ SummaryInv(r)' /\ OfferInv(r)'
    BY <1>1, <1>2, <2>1 DEF RecorderInv, FreshInv, SummaryInv, OfferInv
  <2>6. SentinelInv(r)'
    BY <2>1, <2>2, <2>3 DEF SentinelInv, SentinelLast
  <2>7. PipeInv(r)'
    BY <1>2, <2>1, <2>2, <2>4 DEF RecorderInv, PipeInv
  <2> QED
    BY <1>5, <2>5, <2>6, <2>7 DEF RecorderInv
<1> QED
  BY <1>4, <1>5

LEMMA JoinKeeps ==
  ASSUME IInv, JoinWriter, NEW s \in Segments
  PROVE  RecorderInv(s)'
<1>0. PICK r \in Segments : owner = r
  BY DEF IInv, TypeInv, TypeOK, SinkInv, JoinWriter
<1>1. gui = "join" /\ owner = r /\ RecorderInv(s) /\ writer[r] = "exited"
  BY <1>0 DEF IInv, JoinWriter
<1>2. /\ active \in [Segments -> {"new", "active", "closed"}]
      /\ summary \in [Segments -> [bytes : Nat, failure : Failures] \cup {None}]
      /\ RecorderInv(r)
  BY <1>1 DEF IInv, TypeInv, TypeOK
<1>3. /\ \A t \in Segments : Reserved(t)' = Reserved(t)
      /\ UNCHANGED <<failure, queue, writer, chunk, file, offered, accepted>>
      /\ owner' = None /\ None \notin Segments
  BY RecorderAssumption DEF JoinWriter, controllerVars, historyVars, Reserved
<1>4. CASE s # r
  <2>1. Same(s)
    BY <1>1, <1>2, <1>3, <1>4 DEF JoinWriter, Same
  <2> QED
    BY <1>1, <2>1, SameKeeps
<1>5. CASE s = r
  <2>1. /\ active'[r] = "closed" /\ summary'[r].failure = failure[r]
    BY <1>1, <1>2 DEF JoinWriter
  <2>2. Taken(r)' = Taken(r) /\ Queued(r)' = Queued(r) /\ Reserved(r)' = Reserved(r)
    BY <1>1, <1>3 DEF Taken, Queued, Chunks
  <2>3. FreshInv(r)' /\ SummaryInv(r)' /\ OfferInv(r)'
    BY <1>1, <1>2, <1>3, <2>1 DEF RecorderInv, FreshInv, SummaryInv, OfferInv
  <2>4. SentinelInv(r)'
    BY <1>1, <1>2, <1>3 DEF RecorderInv, SentinelInv, SentinelLast, NoSentinel
  <2>5. PipeInv(r)'
    BY <1>2, <1>3, <2>2 DEF RecorderInv, PipeInv
  <2> QED
    BY <1>5, <2>3, <2>4, <2>5 DEF RecorderInv
<1> QED
  BY <1>4, <1>5

-----------------------------------------------------------------------------
(* The writer thread.                                                        *)

\* A writer step touches its own recorder and neither the controller nor the GUI.
LEMMA WriterElsewhere ==
  ASSUME IInv, NEW r \in Segments, Writer(r), NEW s \in Segments
  PROVE  /\ Reserved(s)' = Reserved(s)
         /\ UNCHANGED <<owner, gui, attached, hand, active, summary, offered, accepted>>
         /\ s # r => RecorderInv(s)'
<1>1. UNCHANGED <<owner, gui, attached, hand, active, summary, offered, accepted>>
  BY DEF Writer, WriterGet, WriterWrite, WriterCount, WriterFinish, WriterFails,
         controllerVars, guiVars, historyVars
<1>2. Reserved(s)' = Reserved(s)
  BY <1>1 DEF Reserved
<1>3. ASSUME s # r PROVE RecorderInv(s)'
  <2>1. RecorderInv(s)
    BY DEF IInv
  <2>2. /\ failure'[s] = failure[s] /\ queue'[s] = queue[s] /\ writer'[s] = writer[s]
        /\ chunk'[s] = chunk[s] /\ file'[s] = file[s]
    BY <1>3
    DEF IInv, TypeInv, TypeOK, Writer, WriterGet, WriterWrite, WriterCount, WriterFinish,
        WriterFails
  <2>3. Same(s)
    BY <1>1, <1>2, <2>2 DEF Same
  <2> QED
    BY <2>1, <2>3, SameKeeps
<1> QED
  BY <1>1, <1>2, <1>3

LEMMA GetKeeps ==
  ASSUME IInv, NEW r \in Segments, WriterGet(r)
  PROVE  RecorderInv(r)'
<1> DEFINE q == queue[r]
           h == Head(queue[r])
<1>1. /\ Reserved(r)' = Reserved(r) /\ RecorderInv(r)
      /\ UNCHANGED <<owner, gui, active, summary, offered, accepted>>
  BY WriterElsewhere DEF IInv, Writer
<1>2. /\ q \in Seq(Frame \cup {None}) /\ q # <<>> /\ writer[r] = "get"
      /\ queue'[r] = Tail(q) /\ chunk'[r] = h
      /\ writer'[r] = IF h = None THEN "finish" ELSE "write"
      /\ file' = file /\ failure' = failure
  BY DEF IInv, TypeInv, TypeOK, WriterGet
<1>3. SentinelLast(q)
  BY <1>1 DEF RecorderInv, SentinelInv
<1>4. SentinelLast(Tail(q)) /\ (NoSentinel(q) => NoSentinel(Tail(q)) /\ h # None)
  <2>1. NoSentinel(q) => h # None
    BY <1>2 DEF NoSentinel
  <2> QED
    BY <1>2, <1>3, <2>1, SentinelOfTail
<1>5. h = None => Tail(q) = <<>> /\ Chunks(q) = <<>>
  BY <1>2, <1>3, ChunksOfSentinel
<1>6. FreshInv(r)' /\ OfferInv(r)' /\ SummaryInv(r)'
  BY <1>1, <1>2 DEF RecorderInv, FreshInv, OfferInv, SummaryInv
<1>7. SentinelInv(r)'
  BY <1>1, <1>2, <1>4, <1>5 DEF RecorderInv, SentinelInv, NoSentinel, SentinelLast
<1>8. PipeInv(r)'
  <2> DEFINE a == file[r]
             c == Chunks(Tail(q))
             e == Reserved(r)
  <2>1. Taken(r) = <<>> /\ accepted[r] = a \o (Taken(r) \o (Queued(r) \o e))
    BY <1>1, <1>2 DEF RecorderInv, PipeInv, Taken
  <2>2. a \in Seq(Frame) /\ e \in Seq(Frame) /\ Queued(r) \in Seq(Frame)
    BY PartsType
  <2>3. c \in Seq(Frame)
    <3>1. Tail(q) \in Seq(Frame \cup {None})
      BY <1>2
    <3> QED
      BY <1>4, <3>1, ChunksType
  <2>4. Queued(r)' = c
    BY <1>2 DEF Queued, Chunks
  <2> HIDE DEF a, c, e
  <2>5. Taken(r)' \o (c \o e) = Taken(r) \o (Queued(r) \o e)
    <3>1. CASE h = None
      <4>1. Taken(r)' = <<>> /\ Queued(r) = <<>>
        BY <1>2, <1>5, <3>1 DEF Taken, Queued
      <4>2. c = <<>>
        BY <1>5, <3>1 DEF c, Chunks
      <4> QED
        BY <2>1, <4>1, <4>2
    <3>2. CASE h # None
      <4>1. Taken(r)' = <<h>> /\ h \in Frame
        BY <1>2, <3>2 DEF Taken
      <4>2. Queued(r) = <<h>> \o c
        BY <1>2, <1>3, <3>2, ChunksOfGet DEF Queued, c
      <4>3. <<h>> \in Seq(Frame)
        BY <4>1
      <4>4. (<<h>> \o c) \o e = <<h>> \o (c \o e)
        BY <2>2, <2>3, <4>3, ConcatAssociative
      <4>5. (<<h>> \o c) \o e \in Seq(Frame)
        BY <2>2, <4>2
      <4>6. <<>> \o ((<<h>> \o c) \o e) = (<<h>> \o c) \o e
        BY <4>5, ConcatEmptySeq
      <4> QED
        BY <2>1, <4>1, <4>2, <4>4, <4>6, Zenon
    <3> QED
      BY <3>1, <3>2
  <2>6. writer'[r] # "exited" /\ IsPrefix(file[r], accepted[r])
    BY <1>1, <1>2 DEF RecorderInv, PipeInv
  <2> QED
    BY <1>1, <1>2, <2>1, <2>4, <2>5, <2>6 DEF PipeInv, a, e
<1> QED
  BY <1>6, <1>7, <1>8 DEF RecorderInv

LEMMA WriteKeeps ==
  ASSUME IInv, NEW r \in Segments, WriterWrite(r)
  PROVE  RecorderInv(r)'
<1>1. /\ Reserved(r)' = Reserved(r) /\ RecorderInv(r)
      /\ UNCHANGED <<owner, gui, active, summary, offered, accepted>>
  BY WriterElsewhere DEF IInv, Writer
<1>2. /\ writer[r] = "write" /\ writer'[r] = "count" /\ chunk[r] \in Frame
      /\ file'[r] = Append(file[r], chunk[r]) /\ queue' = queue /\ failure' = failure
  BY DEF IInv, TypeInv, TypeOK, ChunkInv, WriterWrite
<1>3. FreshInv(r)' /\ OfferInv(r)' /\ SummaryInv(r)'
  BY <1>1, <1>2 DEF RecorderInv, FreshInv, OfferInv, SummaryInv
<1>4. SentinelInv(r)'
  BY <1>1, <1>2 DEF RecorderInv, SentinelInv, NoSentinel, SentinelLast
<1>5. PipeInv(r)'
  <2> DEFINE a == file[r]
             x == <<chunk[r]>>
             b == Queued(r) \o Reserved(r)
  <2>1. /\ accepted[r] = a \o (Taken(r) \o b) /\ Taken(r) = <<chunk[r]>>
        /\ Taken(r)' = <<>> /\ Queued(r)' = Queued(r)
    BY <1>1, <1>2 DEF RecorderInv, PipeInv, Taken, Queued, Chunks
  <2>2. a \in Seq(Frame) /\ b \in Seq(Frame) /\ x \in Seq(Frame)
    BY <1>2, PartsType
  <2>3. file'[r] = a \o x
    BY <1>2, <2>2, AppendIsConcat
  <2>4. a \o x \in Seq(Frame)
    BY <2>2
  <2> HIDE DEF a, b, x
  <2>5. a \o (x \o b) = (a \o x) \o b
    <3>1. a \in Seq(Frame) /\ x \in Seq(Frame) /\ b \in Seq(Frame)
      BY <2>2
    <3>2. (a \o x) \o b = a \o (x \o b)
      BY ONLY <3>1, ConcatAssociative
    <3> QED BY ONLY <3>2
  <2>6. <<>> \o b = b
    BY <2>2, ConcatEmptySeq
  <2>7. accepted'[r] = file'[r] \o (Taken(r)' \o b)
    BY <1>1, <2>1, <2>3, <2>5, <2>6 DEF x
  <2>8. IsPrefix(a \o x, (a \o x) \o b)
    BY <2>2, <2>4, PrefixConcat
  <2>9. IsPrefix(file'[r], accepted'[r])
    BY <2>1, <2>3, <2>6, <2>7, <2>8
  <2> QED
    BY <1>1, <1>2, <2>1, <2>7, <2>9 DEF PipeInv, b
<1> QED
  BY <1>3, <1>4, <1>5 DEF RecorderInv

LEMMA CountKeeps ==
  ASSUME IInv, NEW r \in Segments, WriterCount(r)
  PROVE  RecorderInv(r)'
<1>1. /\ Reserved(r)' = Reserved(r) /\ RecorderInv(r)
      /\ UNCHANGED <<owner, gui, active, summary, offered, accepted>>
  BY WriterElsewhere DEF IInv, Writer
<1>2. /\ writer[r] = "count" /\ writer'[r] = "get"
      /\ file' = file /\ queue' = queue /\ failure' = failure
  BY DEF IInv, TypeInv, TypeOK, WriterCount
<1>3. Taken(r)' = Taken(r) /\ Queued(r)' = Queued(r)
  BY <1>2 DEF Taken, Queued, Chunks
<1> QED
  BY <1>1, <1>2, <1>3
  DEF RecorderInv, FreshInv, OfferInv, SummaryInv, SentinelInv, NoSentinel, SentinelLast,
      PipeInv

LEMMA FinishKeeps ==
  ASSUME IInv, NEW r \in Segments, WriterFinish(r)
  PROVE  RecorderInv(r)'
<1>1. /\ Reserved(r)' = Reserved(r) /\ RecorderInv(r)
      /\ UNCHANGED <<owner, gui, active, summary, offered, accepted>>
  BY WriterElsewhere DEF IInv, Writer
<1>2. /\ writer[r] = "finish" /\ writer'[r] = "exited"
      /\ file' = file /\ queue' = queue /\ failure' = failure
  BY DEF IInv, TypeInv, TypeOK, WriterFinish
<1>3. queue[r] = <<>> /\ ~ (owner = r /\ gui # "join")
  BY <1>1, <1>2 DEF RecorderInv, SentinelInv
<1>4. FreshInv(r)' /\ OfferInv(r)' /\ SummaryInv(r)'
  BY <1>1, <1>2 DEF RecorderInv, FreshInv, OfferInv, SummaryInv
<1>5. SentinelInv(r)'
  BY <1>1, <1>2, <1>3 DEF RecorderInv, SentinelInv, NoSentinel, SentinelLast
<1>6. PipeInv(r)'
  <2>1. attached # r
    BY <1>3, SinkFacts, RecorderAssumption
  <2>2. Taken(r) = <<>> /\ Queued(r) = <<>> /\ Reserved(r) = <<>>
    BY <1>2, <1>3, <2>1 DEF Taken, Queued, Chunks, Reserved
  <2>3. accepted[r] = file[r] \o (Taken(r) \o (Queued(r) \o Reserved(r)))
    BY <1>1, <1>2 DEF RecorderInv, PipeInv
  <2>4. file[r] \in Seq(Frame)
    BY PartsType
  <2>5. accepted[r] = file[r]
    BY <2>2, <2>3, <2>4
  <2> QED
    BY <1>1, <1>2, <1>3, <2>5 DEF RecorderInv, PipeInv
<1> QED
  BY <1>4, <1>5, <1>6 DEF RecorderInv

LEMMA FailsKeeps ==
  ASSUME IInv, NEW r \in Segments, WriterFails(r)
  PROVE  RecorderInv(r)'
<1>1. /\ Reserved(r)' = Reserved(r) /\ RecorderInv(r)
      /\ UNCHANGED <<owner, gui, active, summary, offered, accepted>>
  BY WriterElsewhere DEF IInv, Writer
<1>2. /\ writer[r] \in {"write", "finish"} /\ writer'[r] = "exited"
      /\ queue' = queue /\ failure'[r] # "none"
  BY DEF IInv, TypeInv, TypeOK, WriterFails
<1>3. PICK n \in 0..Len(file[r]) : file'[r] = SubSeq(file[r], 1, n)
  BY DEF IInv, TypeInv, TypeOK, WriterFails
<1>4. FreshInv(r)' /\ OfferInv(r)' /\ SummaryInv(r)'
  BY <1>1, <1>2 DEF RecorderInv, FreshInv, OfferInv, SummaryInv
<1>5. SentinelInv(r)'
  BY <1>1, <1>2 DEF RecorderInv, SentinelInv, NoSentinel, SentinelLast
<1>6. PipeInv(r)'
  <2>1. file[r] \in Seq(Frame) /\ accepted[r] \in Seq(Frame)
    BY PartsType
  <2>2. SubSeq(file[r], 1, n) \in Seq(Frame) /\ IsPrefix(SubSeq(file[r], 1, n), file[r])
    BY <2>1, PrefixSub
  <2>3. IsPrefix(file[r], accepted[r])
    BY <1>1 DEF RecorderInv, PipeInv
  <2>4. IsPrefix(SubSeq(file[r], 1, n), accepted[r])
    BY <2>1, <2>2, <2>3, PrefixTrans
  <2> QED
    BY <1>1, <1>2, <1>3, <2>4 DEF PipeInv
<1> QED
  BY <1>4, <1>5, <1>6 DEF RecorderInv

-----------------------------------------------------------------------------
(* The theorems.                                                             *)

LEMMA InitIInv == Init => IInv
<1> SUFFICES ASSUME Init PROVE IInv
  OBVIOUS
<1>1. TypeInv
  BY InitTypeInv
<1>2. LockInv /\ SinkInv
  BY DEF Init, LockInv, SinkInv
<1>3. ASSUME NEW r \in Segments PROVE RecorderInv(r)
  <2>1. /\ Taken(r) = <<>> /\ Queued(r) = <<>> /\ Reserved(r) = <<>>
        /\ <<>> \o (<<>> \o (<<>> \o <<>>)) = <<>> /\ IsPrefix(<<>>, <<>>)
    BY DEF Init, Taken, Queued, Chunks, Reserved, IsPrefix
  <2> QED
    BY <2>1, RecorderAssumption
    DEF Init, RecorderInv, FreshInv, SentinelInv, SentinelLast, NoSentinel, PipeInv,
        OfferInv, SummaryInv
<1> QED
  BY <1>1, <1>2, <1>3 DEF IInv

LEMMA NextIInv == IInv /\ [Next]_vars => IInv'
<1> SUFFICES ASSUME IInv, [Next]_vars PROVE IInv'
  OBVIOUS
<1>0. TypeInv /\ LockInv /\ SinkInv /\ TypeOK
  BY DEF IInv, TypeInv
<1>1. TypeInv' /\ LockInv' /\ SinkInv'
  BY <1>0, NextTypeInv, SinkStep
<1> SUFFICES ASSUME NEW s \in Segments PROVE RecorderInv(s)'
  BY <1>1 DEF IInv
<1>2. ASSUME NEW size \in Sizes, HandleFrameRecorded(size) PROVE RecorderInv(s)'
  <2>1. /\ NextFrame(size) \in Frame /\ attached # None /\ hand = None
        /\ UNCHANGED <<attached, gui, owner>>
    BY <1>0, <1>2, NextFrameType DEF HandleFrameRecorded, LockInv, guiVars
  <2> QED
    BY <1>2, <2>1, RefuseKeeps, ReserveKeeps DEF HandleFrameRecorded
<1>3. CASE FlushDeferred
  <2>1. /\ attached = owner /\ attached # None /\ hand = None
        /\ UNCHANGED <<attached, gui, owner>>
    BY <1>0, <1>3 DEF FlushDeferred, SinkInv
  <2>2. Head(flush) \in Frame
    <3>1. flush \in Seq(Frame) /\ flush # <<>>
      BY <1>0, <1>3 DEF TypeOK, FlushDeferred
    <3> QED
      BY ONLY <3>1
  <2> QED
    BY <1>3, <2>1, <2>2, RefuseKeeps, ReserveKeeps DEF FlushDeferred
<1>4. CASE WorkerPut \/ FlushPut
  <2>1. attached # None /\ Put(attached) /\ UNCHANGED <<attached, gui, owner>>
    BY <1>0, <1>4 DEF WorkerPut, FlushPut, Put, LockInv, SinkInv, guiVars
  <2> QED
    BY <2>1, PutKeeps
<1>5. ASSUME NEW r \in Segments, StartRecorder(r) PROVE RecorderInv(s)'
  BY <1>5, StartKeeps
<1>6. CASE StopRecorder
  BY <1>6, StopKeeps
<1>7. CASE JoinWriter
  BY <1>7, JoinKeeps
<1>8. ASSUME NEW r \in Segments, Writer(r) PROVE RecorderInv(s)'
  <2>1. RecorderInv(r)'
    BY <1>8, GetKeeps, WriteKeeps, CountKeeps, FinishKeeps, FailsKeeps DEF Writer
  <2> QED
    BY <1>8, <2>1, WriterElsewhere
<1>9. CASE ControlStep
  BY <1>9, ControlKeeps
<1> QED
  BY <1>2, <1>3, <1>4, <1>5, <1>6, <1>7, <1>8, <1>9 DEF Next, Worker, Gui, ControlStep

\* The inductive invariant holds in every reachable state.
THEOREM InductiveInvariant == Spec => []IInv
BY InitIInv, NextIInv, PTL DEF Spec

(* submit's True is a promise: an accepted frame is in the file, in the      *)
(* writer's hand or still queued, once and in order, unless the writer       *)
(* failed, and then the file is a prefix of what was accepted.               *)
THEOREM AcceptedFramesKept == Spec => []NoAcceptedFrameLost
<1>1. IInv => NoAcceptedFrameLost
  <2> SUFFICES ASSUME IInv, NEW r \in Segments
               PROVE  \/ accepted[r] = file[r] \o (Taken(r) \o (Queued(r) \o Reserved(r)))
                      \/ /\ failure[r] # "none" /\ writer[r] = "exited"
                         /\ IsPrefix(file[r], accepted[r])
    BY DEF NoAcceptedFrameLost
  <2>1. RecorderInv(r)
    BY DEF IInv
  <2>2. CASE writer[r] # "exited" \/ failure[r] # "none"
    BY <2>1, <2>2 DEF RecorderInv, PipeInv
  <2>3. CASE writer[r] = "exited" /\ failure[r] = "none"
    <3>1. accepted[r] = file[r] /\ queue[r] = <<>>
      BY <2>1, <2>3 DEF RecorderInv, PipeInv
    <3>2. attached # r
      BY <2>1, <2>3, SinkFacts, RecorderAssumption DEF RecorderInv, SentinelInv
    <3>3. Taken(r) = <<>> /\ Queued(r) = <<>> /\ Reserved(r) = <<>>
      BY <2>3, <3>1, <3>2 DEF Taken, Queued, Chunks, Reserved
    <3>4. file[r] \in Seq(Frame)
      BY PartsType
    <3> QED
      BY <3>1, <3>3, <3>4
  <2> QED
    BY <2>2, <2>3
<1> QED
  BY <1>1, InductiveInvariant, PTL

(* A recording file is always a gap-free prefix of what the controller       *)
(* submitted to its recorder.                                                *)
THEOREM FilePrefix == Spec => []FileIsPrefixOfOffered
<1>1. IInv => FileIsPrefixOfOffered
  <2> SUFFICES ASSUME IInv, NEW r \in Segments PROVE IsPrefix(file[r], offered[r])
    BY DEF FileIsPrefixOfOffered
  <2>1. IsPrefix(file[r], accepted[r]) /\ IsPrefix(accepted[r], offered[r])
    BY DEF IInv, RecorderInv, PipeInv, OfferInv
  <2>2. /\ file[r] \in Seq(Frame) /\ accepted[r] \in Seq(Frame)
        /\ offered[r] \in Seq(Frame)
    BY PartsType
  <2> QED
    BY <2>1, <2>2, PrefixTrans
<1> QED
  BY <1>1, InductiveInvariant, PTL

(* Metadata without a failure describes a complete file: stop joins a writer *)
(* that has drained the queue, and nothing was submitted after the detach.   *)
THEOREM CleanSummaryComplete == Spec => []CleanSummaryIsComplete
<1>1. IInv => CleanSummaryIsComplete
  BY DEF IInv, RecorderInv, SummaryInv, PipeInv, OfferInv, CleanSummaryIsComplete
<1> QED
  BY <1>1, InductiveInvariant, PTL

(* No step changes a file whose metadata is saved.                           *)
THEOREM ClosedFilesFinal == Spec => ClosedFileIsFinal
<1>1. ASSUME IInv, [Next]_vars
      PROVE  [\A r \in Segments : summary[r] # None => file'[r] = file[r]]_vars
  <2> SUFFICES ASSUME NEW s \in Segments, summary[s] # None PROVE file'[s] = file[s]
    OBVIOUS
  <2>1. writer[s] = "exited" /\ file \in [Segments -> Seq(Frame)]
    BY <1>1 DEF IInv, TypeInv, TypeOK, RecorderInv, SummaryInv
  <2>2. ASSUME NEW r \in Segments, Writer(r) PROVE file'[s] = file[s]
    BY <2>1, <2>2
    DEF Writer, WriterGet, WriterWrite, WriterCount, WriterFinish, WriterFails
  <2>3. CASE Worker
    BY <2>3
    DEF Worker, HandleFrameRecorded, HandleFrameDeferred, HandleFrameUnrecorded, WorkerPut,
        Refuse, Reserve, Put, recorderVars
  <2>4. CASE Gui
    BY <2>4
    DEF Gui, StartRecorder, AttachRecorder, FlushDeferred, FlushPut, FlushDone,
        DetachRecorder, CancelDeferred, StopRecorder, JoinWriter, JoinTimeout, Refuse,
        Reserve, Put, recorderVars
  <2>5. CASE UNCHANGED vars
    BY <2>5 DEF vars, recorderVars
  <2> QED
    BY <1>1, <2>2, <2>3, <2>4, <2>5 DEF Next
<1> QED
  BY <1>1, InductiveInvariant, PTL DEF Spec, ClosedFileIsFinal

-----------------------------------------------------------------------------
(* The bytes of a sequence of frames: that the recursive function exists, is *)
(* unique and adds up is proved by taking a least counterexample.            *)

LEMMA LeastNatural ==
  ASSUME NEW T \in SUBSET Nat, T # {}
  PROVE  \E n \in T : \A m \in T : n <= m
<1> DEFINE B == {0..(n - 1) : n \in T}
<1>1. IsWellFoundedOn(StrictSubsetOrdering(Nat), FiniteSubsetsOf(Nat))
  BY FS_StrictSubsetOrderingWellFounded
<1>2. B \subseteq FiniteSubsetsOf(Nat) /\ B # {}
  <2>1. ASSUME NEW n \in T PROVE 0..(n - 1) \in FiniteSubsetsOf(Nat)
    <3>1. n \in Nat /\ 0..(n - 1) \subseteq Nat
      OBVIOUS
    <3>2. IsFiniteSet(0..(n - 1))
      BY <3>1, FS_Interval
    <3> QED BY <3>1, <3>2 DEF FiniteSubsetsOf
  <2> QED BY <2>1
<1>3. \E b \in B : \A c \in B : ~ (<<c, b>> \in StrictSubsetOrdering(Nat))
  <2> HIDE DEF B
  <2> QED BY <1>1, <1>2, WFMin
<1>4. PICK n \in T : \A m \in T : ~ (<<0..(m - 1), 0..(n - 1)>> \in StrictSubsetOrdering(Nat))
  BY <1>3
<1>5. ASSUME NEW m \in T, m < n PROVE FALSE
  <2>1. /\ 0..(m - 1) \subseteq 0..(n - 1) /\ m \in 0..(n - 1) /\ m \notin 0..(m - 1)
        /\ 0..(m - 1) \subseteq Nat /\ 0..(n - 1) \subseteq Nat
    BY <1>5
  <2> QED BY <1>4, <2>1 DEF StrictSubsetOrdering
<1> QED BY <1>5

\* g has the number of bytes up to each frame of s.
Totals(s, g) == g = [n \in 0..Len(s) |-> IF n = 0 THEN 0 ELSE g[n - 1] + s[n].size]

LEMMA TotalsStep ==
  ASSUME NEW s \in Seq(Frame), NEW g
  PROVE  Totals(s, g) <=> /\ g = [n \in 0..Len(s) |-> g[n]] /\ g[0] = 0
                          /\ \A n \in 1..Len(s) : g[n] = g[n - 1] + s[n].size
<1>1. ASSUME Totals(s, g)
      PROVE  /\ g = [n \in 0..Len(s) |-> g[n]] /\ g[0] = 0
             /\ \A n \in 1..Len(s) : g[n] = g[n - 1] + s[n].size
  BY <1>1 DEF Totals
<1>2. ASSUME g = [n \in 0..Len(s) |-> g[n]], g[0] = 0,
             \A n \in 1..Len(s) : g[n] = g[n - 1] + s[n].size
      PROVE  Totals(s, g)
  <2>1. \A n \in 0..Len(s) : g[n] = IF n = 0 THEN 0 ELSE g[n - 1] + s[n].size
    BY <1>2
  <2> QED BY <1>2, <2>1 DEF Totals
<1> QED BY <1>1, <1>2

LEMMA TotalsExist ==
  ASSUME NEW s \in Seq(Frame)
  PROVE  \E g \in [0..Len(s) -> Nat] : Totals(s, g)
<1> DEFINE Upto(m) == \E g \in [0..m -> Nat] : /\ g[0] = 0
                                               /\ \A n \in 1..m : g[n] = g[n - 1] + s[n].size
           T == {m \in 0..Len(s) : ~ Upto(m)}
<1>1. ASSUME T # {} PROVE FALSE
  <2>1. PICK m \in T : \A k \in T : m <= k
    <3>1. T \in SUBSET Nat
      OBVIOUS
    <3> HIDE DEF T
    <3> QED BY <1>1, <3>1, LeastNatural
  <2>2. m # 0
    <3>1. [n \in 0..0 |-> 0] \in [0..0 -> Nat] /\ [n \in 0..0 |-> 0][0] = 0 /\ 1..0 = {}
      OBVIOUS
    <3>2. Upto(0)
      BY <3>1
    <3> QED BY <2>1, <3>2
  <2>3. m - 1 \in 0..Len(s) /\ m \in 1..Len(s)
    BY <2>2
  <2>4. Upto(m - 1)
    <3>1. m - 1 \notin T
      <4> HIDE DEF T
      <4> QED BY <2>1, <2>3
    <3> QED BY <2>3, <3>1
  <2>5. PICK g \in [0..(m - 1) -> Nat] : /\ g[0] = 0
                                         /\ \A n \in 1..(m - 1) : g[n] = g[n - 1] + s[n].size
    BY <2>4
  <2>6. s[m].size \in Nat
    BY <2>3, FrameSize
  <2> DEFINE h == [n \in 0..m |-> IF n = m THEN g[m - 1] + s[m].size ELSE g[n]]
  <2>7. h \in [0..m -> Nat] /\ h[0] = 0
    BY <2>3, <2>5, <2>6
  <2>8. \A n \in 1..m : h[n] = h[n - 1] + s[n].size
    BY <2>3, <2>5, <2>6
  <2>9. Upto(m)
    <3> HIDE DEF h
    <3> QED BY <2>7, <2>8
  <2> QED BY <2>1, <2>9
<1>2. Upto(Len(s))
  <2>1. Len(s) \in 0..Len(s)
    OBVIOUS
  <2> QED BY <1>1, <2>1
<1>3. PICK g \in [0..Len(s) -> Nat] : /\ g[0] = 0
                                      /\ \A n \in 1..Len(s) : g[n] = g[n - 1] + s[n].size
  BY <1>2
<1>4. g = [n \in 0..Len(s) |-> g[n]]
  OBVIOUS
<1> QED BY <1>3, <1>4, TotalsStep

LEMMA TotalsAgree ==
  ASSUME NEW s \in Seq(Frame), NEW g, NEW h, Totals(s, g), Totals(s, h)
  PROVE  g = h
<1> DEFINE T == {n \in 0..Len(s) : g[n] # h[n]}
<1>1. ASSUME T # {} PROVE FALSE
  <2>1. PICK n \in T : \A k \in T : n <= k
    <3>1. T \in SUBSET Nat
      OBVIOUS
    <3> HIDE DEF T
    <3> QED BY <1>1, <3>1, LeastNatural
  <2>2. n \in 0..Len(s) /\ g[n] # h[n]
    OBVIOUS
  <2>3. n # 0
    BY <2>2, TotalsStep
  <2>4. n - 1 \in 0..Len(s) /\ n \in 1..Len(s)
    BY <2>2, <2>3
  <2>5. n - 1 \notin T
    <3> HIDE DEF T
    <3> QED BY <2>1, <2>4
  <2>6. g[n - 1] = h[n - 1]
    BY <2>4, <2>5
  <2> QED BY <2>2, <2>4, <2>6, TotalsStep
<1>2. \A n \in 0..Len(s) : g[n] = h[n]
  BY <1>1
<1>3. g = [n \in 0..Len(s) |-> g[n]] /\ h = [n \in 0..Len(s) |-> h[n]]
  BY TotalsStep
<1> QED BY <1>2, <1>3

LEMMA BytesOfTotals ==
  ASSUME NEW s \in Seq(Frame), NEW g, Totals(s, g)
  PROVE  Bytes(s) = g[Len(s)] /\ Bytes(s) \in Nat
<1> DEFINE total == CHOOSE t : Totals(s, t)
<1>1. Totals(s, total)
  OBVIOUS
<1>2. total = g
  <2> HIDE DEF total
  <2> QED BY <1>1, TotalsAgree
<1>3. Bytes(s) = total[Len(s)]
  BY DEF Bytes, Totals
<1>4. PICK f \in [0..Len(s) -> Nat] : Totals(s, f)
  BY TotalsExist
<1>5. f = g /\ f[Len(s)] \in Nat
  BY <1>4, TotalsAgree
<1> QED BY <1>2, <1>3, <1>5

LEMMA BytesEmpty == Bytes(<<>>) = 0
<1>1. <<>> \in Seq(Frame) /\ Len(<<>>) = 0
  OBVIOUS
<1>2. PICK g \in [0..Len(<<>>) -> Nat] : Totals(<<>>, g)
  BY <1>1, TotalsExist
<1>3. g[0] = 0 /\ Bytes(<<>>) = g[Len(<<>>)]
  BY <1>1, <1>2, BytesOfTotals, TotalsStep
<1> QED BY <1>1, <1>3

LEMMA BytesConcat ==
  ASSUME NEW a \in Seq(Frame), NEW b \in Seq(Frame)
  PROVE  Bytes(a \o b) = Bytes(a) + Bytes(b)
<1> DEFINE s == a \o b
<1>1. PICK g \in [0..Len(a) -> Nat] : Totals(a, g)
  BY TotalsExist
<1>2. PICK h \in [0..Len(b) -> Nat] : Totals(b, h)
  BY TotalsExist
<1>3. /\ s \in Seq(Frame) /\ Len(s) = Len(a) + Len(b) /\ Len(a) \in Nat /\ Len(b) \in Nat
      /\ \A n \in 1..Len(s) : s[n] = IF n <= Len(a) THEN a[n] ELSE b[n - Len(a)]
  OBVIOUS
<1> DEFINE t == [n \in 0..Len(s) |-> IF n <= Len(a) THEN g[n] ELSE g[Len(a)] + h[n - Len(a)]]
<1> HIDE DEF s
<1>4. /\ g[0] = 0 /\ \A n \in 1..Len(a) : g[n] = g[n - 1] + a[n].size
      /\ h[0] = 0 /\ \A n \in 1..Len(b) : h[n] = h[n - 1] + b[n].size
  BY <1>1, <1>2, TotalsStep
<1>5. \A n \in 1..Len(s) : t[n] = t[n - 1] + s[n].size
  <2> TAKE n \in 1..Len(s)
  <2>0. /\ n \in 0..Len(s) /\ n - 1 \in 0..Len(s) /\ g[Len(a)] \in Nat
        /\ \A i \in 1..Len(b) : b[i].size \in Nat
    <3>1. Len(a) \in 0..Len(a) /\ n \in 0..Len(s) /\ n - 1 \in 0..Len(s)
      BY <1>3
    <3>2. \A i \in 1..Len(b) : b[i] \in Frame
      OBVIOUS
    <3> QED BY <3>1, <3>2, FrameSize
  <2>1. CASE n <= Len(a)
    <3>1. /\ n \in 1..Len(a) /\ s[n] = a[n] /\ n - 1 <= Len(a)
          /\ t[n] = g[n] /\ t[n - 1] = g[n - 1]
      BY <1>3, <2>0, <2>1
    <3> QED BY <1>4, <3>1
  <2>2. CASE n > Len(a)
    <3>1. /\ n - Len(a) \in 1..Len(b) /\ s[n] = b[n - Len(a)]
          /\ t[n] = g[Len(a)] + h[n - Len(a)]
      BY <1>3, <2>0, <2>2
    <3>2. h[n - Len(a)] = h[(n - Len(a)) - 1] + s[n].size
      BY <1>4, <3>1
    <3>3. t[n - 1] = g[Len(a)] + h[(n - Len(a)) - 1]
      <4>1. CASE n - 1 = Len(a)
        <5>1. t[n - 1] = g[Len(a)] /\ (n - Len(a)) - 1 = 0
          BY <1>3, <2>0, <4>1
        <5> QED BY <1>4, <2>0, <5>1
      <4>2. CASE n - 1 # Len(a)
        BY <1>3, <2>0, <2>2, <4>2
      <4> QED BY <4>1, <4>2
    <3>4. h[(n - Len(a)) - 1] \in Nat /\ s[n].size \in Nat
      <4>1. (n - Len(a)) - 1 \in 0..Len(b)
        BY <1>3, <3>1
      <4> QED BY <2>0, <3>1, <4>1
    <3>5. t[n] = g[Len(a)] + (h[(n - Len(a)) - 1] + s[n].size)
      BY ONLY <3>1, <3>2, Zenon
    <3>6. PICK u \in Nat, v \in Nat, w \in Nat :
            u = g[Len(a)] /\ v = h[(n - Len(a)) - 1] /\ w = s[n].size
      BY ONLY <2>0, <3>4, Zenon
    <3>7. u + (v + w) = (u + v) + w
      BY ONLY u \in Nat, v \in Nat, w \in Nat
    <3>8. t[n] = u + (v + w) /\ t[n - 1] = u + v
      BY ONLY <3>3, <3>5, <3>6, Zenon
    <3> QED BY ONLY <3>6, <3>7, <3>8, Zenon
  <2> QED BY <1>3, <2>1, <2>2
<1>6. t[0] = 0 /\ t = [n \in 0..Len(s) |-> t[n]]
  BY <1>3, <1>4
<1>7. t[Len(s)] = g[Len(a)] + h[Len(b)]
  <2>1. CASE Len(b) = 0
    <3>1. t[Len(s)] = g[Len(a)] /\ g[Len(a)] \in Nat
      BY <1>3, <2>1
    <3> QED BY <1>4, <2>1, <3>1
  <2>2. CASE Len(b) # 0
    BY <1>3, <2>2
  <2> QED BY <2>1, <2>2
<1>8. Totals(s, t)
  <2> HIDE DEF t
  <2> QED BY <1>3, <1>5, <1>6, TotalsStep
<1>9. Bytes(s) = t[Len(s)] /\ Bytes(a) = g[Len(a)] /\ Bytes(b) = h[Len(b)]
  <2> HIDE DEF t
  <2> QED BY <1>1, <1>2, <1>3, <1>8, BytesOfTotals
<1> QED BY <1>7, <1>9 DEF s

LEMMA BytesOne ==
  ASSUME NEW f \in Frame
  PROVE  Bytes(<<f>>) = f.size
<1> DEFINE s == <<f>>
<1>1. s \in Seq(Frame) /\ Len(s) = 1 /\ s[1] = f /\ f.size \in Nat
  BY FrameSize
<1> HIDE DEF s
<1>2. PICK g \in [0..Len(s) -> Nat] : Totals(s, g)
  BY <1>1, TotalsExist
<1>3. g[0] = 0 /\ \A n \in 1..Len(s) : g[n] = g[n - 1] + s[n].size
  BY <1>1, <1>2, TotalsStep
<1>4. g[1] = g[0] + f.size
  <2>1. 1 \in 1..Len(s) /\ 1 - 1 = 0
    BY <1>1
  <2> QED BY <1>1, <1>3, <2>1
<1>5. Bytes(s) = g[Len(s)]
  BY <1>1, <1>2, BytesOfTotals
<1> QED BY <1>1, <1>3, <1>4, <1>5 DEF s

LEMMA BytesAppend ==
  ASSUME NEW s \in Seq(Frame), NEW f \in Frame
  PROVE  Bytes(Append(s, f)) = Bytes(s) + f.size
<1>1. <<f>> \in Seq(Frame) /\ Append(s, f) = s \o <<f>>
  BY AppendIsConcat
<1> QED BY <1>1, BytesConcat, BytesOne

-----------------------------------------------------------------------------
(* Gaps.                                                                     *)

LEMMA ContiguousAppend ==
  ASSUME NEW s \in Seq(Frame), NEW f \in Frame, NEW D, NEW n \in Nat,
         Contiguous(s, D), UpTo(s, n, D), f.id = n + 1
  PROVE  Contiguous(Append(s, f), D) /\ UpTo(Append(s, f), n + 1, D)
<1> DEFINE t == Append(s, f)
<1>1. /\ t \in Seq(Frame) /\ Len(t) = Len(s) + 1 /\ Len(s) \in Nat /\ t[Len(t)] = f
      /\ \A i \in 1..Len(s) : t[i] = s[i] /\ s[i].id \in Nat
  <2>1. /\ t \in Seq(Frame) /\ Len(t) = Len(s) + 1 /\ Len(s) \in Nat /\ t[Len(t)] = f
        /\ \A i \in 1..Len(s) : t[i] = s[i] /\ s[i] \in Frame
    OBVIOUS
  <2> QED BY <2>1, FrameId
<1> HIDE DEF t
<1>2. Contiguous(t, D)
  <2> SUFFICES ASSUME NEW i \in 1..(Len(t) - 1)
               PROVE  t[i].id < t[i + 1].id /\ (t[i].id + 1)..(t[i + 1].id - 1) \subseteq D
    BY DEF Contiguous
  <2>1. CASE i < Len(s)
    <3>1. i \in 1..(Len(s) - 1) /\ t[i] = s[i] /\ t[i + 1] = s[i + 1]
      BY <1>1, <2>1
    <3> QED BY <3>1 DEF Contiguous
  <2>2. CASE i = Len(s)
    <3>1. t[i] = s[Len(s)] /\ t[i + 1] = f /\ s # <<>> /\ s[Len(s)].id \in Nat
      BY <1>1, <2>2
    <3> QED BY <3>1 DEF UpTo
  <2> QED BY <1>1, <2>1, <2>2
<1>3. UpTo(t, n + 1, D)
  BY <1>1 DEF UpTo
<1> QED BY <1>2, <1>3 DEF t

\* A frame behind s is refused.
LEMMA RefusedBehind ==
  ASSUME NEW s \in Seq(Frame), NEW D, NEW n \in Nat, UpTo(s, n, D)
  PROVE  UpTo(s, n + 1, D \cup {n + 1})
<1>1. s # <<>> => s[Len(s)].id \in Nat
  <2>1. s # <<>> => s[Len(s)] \in Frame
    OBVIOUS
  <2> QED BY <2>1, FrameId
<1> QED BY <1>1 DEF UpTo

LEMMA ContiguousMore ==
  ASSUME NEW s, NEW D, NEW E, D \subseteq E, Contiguous(s, D)
  PROVE  Contiguous(s, E)
BY DEF Contiguous

LEMMA ContiguousPrefix ==
  ASSUME NEW s \in Seq(Frame), NEW t \in Seq(Frame), NEW D, IsPrefix(s, t), Contiguous(t, D)
  PROVE  Contiguous(s, D)
<1>1. Len(s) <= Len(t) /\ \A i \in 1..Len(s) : s[i] = t[i]
  BY DEF IsPrefix
<1>2. ASSUME NEW i \in 1..(Len(s) - 1) PROVE i \in 1..(Len(t) - 1) /\ s[i] = t[i] /\ s[i + 1] = t[i + 1]
  BY <1>1
<1> QED BY <1>2 DEF Contiguous

LEMMA HeadMoves ==
  ASSUME NEW a \in Seq(Frame), NEW b \in Seq(Frame), b # <<>>
  PROVE  Append(a, Head(b)) \o Tail(b) = a \o b
<1>1. /\ Head(b) \in Frame /\ Tail(b) \in Seq(Frame) /\ <<Head(b)>> \in Seq(Frame)
      /\ <<Head(b)>> \o Tail(b) = b
  OBVIOUS
<1>2. Append(a, Head(b)) = a \o <<Head(b)>>
  BY <1>1, AppendIsConcat
<1>3. (a \o <<Head(b)>>) \o Tail(b) = a \o (<<Head(b)>> \o Tail(b))
  BY <1>1, ConcatAssociative
<1> QED BY <1>1, <1>2, <1>3

LEMMA NextGap == IInv /\ GapInv /\ [Next]_vars => GapInv'
<1> SUFFICES ASSUME IInv, GapInv, [Next]_vars PROVE GapInv'
  OBVIOUS
<1> USE DEF controllerVars, guiVars, recorderVars, historyVars
<1>0. /\ LockInv /\ SinkInv /\ TypeOK /\ handled \in Nat /\ None \notin Segments
      /\ deferred \in Seq(Frame) /\ flush \in Seq(Frame)
      /\ accepted \in [Segments -> Seq(Frame)] /\ failure \in [Segments -> Failures]
      /\ attached # None => attached \in Segments
      /\ owner # None => owner \in Segments
  <2>1. LockInv /\ SinkInv /\ TypeOK
    BY DEF IInv, TypeInv
  <2>2. handled \in 0..MaxFrames
    BY <2>1 DEF TypeOK
  <2>3. handled \in Nat
    BY ONLY <2>2, RecorderAssumption
  <2> QED
    BY ONLY <2>1, <2>3, RecorderAssumption, Zenon DEF TypeOK
<1>1. ASSUME UNCHANGED <<accepted, dropped, deferred, handled, deferring, attached, flush>>,
             gui' = gui \/ {gui, gui'} \cap {"attach", "flush"} = {}, owner' = owner \/ gui' \notin {"attach", "flush"},
             \A r \in Segments : failure'[r] = "none" => failure[r] = "none"
      PROVE  GapInv'
  <2>1. (gui' \in {"attach", "flush"} => gui = gui' /\ owner' = owner /\ owner \in Segments) /\ (gui = "flush" => gui' = "flush")
    BY <1>0, <1>1 DEF SinkInv
  <2> QED BY <1>0, <1>1, <2>1 DEF GapInv
<1>2. ASSUME NEW size \in Sizes, HandleFrameRecorded(size) PROVE GapInv'
  <2> DEFINE f == NextFrame(size)
             r == attached
  <2>1. /\ f \in Frame /\ f.id = handled + 1 /\ r \in Segments /\ gui # "flush" /\ gui # "attach"
        /\ deferred = <<>> /\ handled' = handled + 1
        /\ UNCHANGED <<attached, deferring, deferred, gui, owner, flush, dropped>>
    BY <1>0, <1>2, NextFrameType DEF HandleFrameRecorded, NextFrame, GapInv, LockInv, SinkInv
  <2>2. Contiguous(deferred', dropped') /\ UpTo(deferred', handled', dropped')
    BY <2>1 DEF Contiguous, UpTo
  <2>3. CASE Refuse(r, f)
    <3>1. accepted' = accepted /\ failure'[r] # "none"
      BY <1>0, <2>1, <2>3 DEF Refuse
    <3> QED BY <2>1, <2>2, <3>1 DEF GapInv
  <2>4. CASE Reserve(r, f)
    <3>1. /\ failure[r] = "none" /\ accepted'[r] = Append(accepted[r], f)
          /\ \A s \in Segments \ {r} : accepted'[s] = accepted[s]
      BY <1>0, <2>1, <2>4 DEF Reserve, Refuses
    <3>2. Contiguous(accepted'[r], dropped') /\ UpTo(accepted'[r], handled', dropped')
      <4>1. /\ accepted[r] \in Seq(Frame) /\ Contiguous(accepted[r], dropped)
            /\ UpTo(accepted[r], handled, dropped)
        BY <1>0, <2>1, <3>1 DEF GapInv
      <4>2. Contiguous(Append(accepted[r], f), dropped) /\ UpTo(Append(accepted[r], f), handled + 1, dropped)
        BY <1>0, <2>1, <4>1, ContiguousAppend
      <4> QED BY <2>1, <3>1, <4>2
    <3> QED BY <2>1, <2>2, <3>1, <3>2 DEF GapInv
  <2> QED BY <1>2, <2>3, <2>4 DEF HandleFrameRecorded
<1>3. ASSUME NEW size \in Sizes, HandleFrameDeferred(size) PROVE GapInv'
  <2> DEFINE f == NextFrame(size)
  <2>1. /\ f \in Frame /\ f.id = handled + 1 /\ attached = None /\ gui # "flush" /\ deferring
        /\ handled' = handled + 1
        /\ UNCHANGED <<attached, deferring, gui, owner, flush, accepted, failure>>
    BY <1>0, <1>3, NextFrameType DEF HandleFrameDeferred, NextFrame, LockInv
  <2>2. CASE deferred' = Append(deferred, f) /\ dropped' = dropped
    <3>1. Contiguous(deferred', dropped') /\ UpTo(deferred', handled', dropped')
      <4>1. Contiguous(deferred, dropped) /\ UpTo(deferred, handled, dropped)
        BY DEF GapInv
      <4>2. Contiguous(Append(deferred, f), dropped) /\ UpTo(Append(deferred, f), handled + 1, dropped)
        BY <1>0, <2>1, <4>1, ContiguousAppend
      <4> QED BY <2>1, <2>2, <4>2
    <3> QED BY <2>1, <2>2, <3>1 DEF GapInv
  <2>3. CASE deferred' = deferred /\ dropped' = dropped \cup {handled + 1}
    <3>1. Contiguous(deferred', dropped') /\ UpTo(deferred', handled', dropped')
      BY <1>0, <2>1, <2>3, RefusedBehind, ContiguousMore DEF GapInv
    <3>2. \A r \in Segments : Contiguous(accepted'[r], dropped')
      BY <2>1, <2>3, ContiguousMore DEF GapInv
    <3> QED BY <2>1, <2>3, <3>1, <3>2 DEF GapInv
  <2> QED BY <1>3, <2>2, <2>3 DEF HandleFrameDeferred
<1>4. ASSUME NEW size \in Sizes, HandleFrameUnrecorded(size) PROVE GapInv'
  <2>1. /\ attached = None /\ gui # "flush" /\ deferred = <<>>
        /\ UNCHANGED <<attached, deferring, deferred, gui, owner, flush, accepted, failure, dropped>>
    BY <1>0, <1>4 DEF HandleFrameUnrecorded, GapInv, LockInv
  <2>2. UpTo(deferred', handled', dropped')
    BY <2>1 DEF UpTo
  <2> QED BY <2>1, <2>2 DEF GapInv
<1>5. CASE WorkerPut \/ FlushPut
  BY <1>1, <1>5 DEF WorkerPut, FlushPut, Put
<1>6. ASSUME NEW r \in Segments, StartRecorder(r) PROVE GapInv'
  <2>1. /\ gui' = "attach" /\ owner' = r /\ gui # "flush" /\ active[r] = "new"
        /\ UNCHANGED <<accepted, dropped, deferred, handled, deferring, attached, failure>>
    BY <1>6 DEF StartRecorder
  <2>2. accepted[r] = <<>>
    BY <2>1 DEF IInv, RecorderInv, FreshInv
  <2> QED BY <2>1, <2>2 DEF GapInv
<1>7. CASE AttachRecorder
  <2>1. /\ gui = "attach" /\ gui' = "flush" /\ flush' = deferred /\ attached' = owner
        /\ UNCHANGED <<accepted, dropped, deferred, handled, deferring, owner, failure>>
    BY <1>7 DEF AttachRecorder
  <2>2. accepted[owner] = <<>> /\ <<>> \o deferred = deferred
    BY <1>0, <2>1 DEF GapInv
  <2> QED BY <2>1, <2>2 DEF GapInv
<1>8. CASE FlushDeferred
  <2> DEFINE r == owner
             f == Head(flush)
  <2>1. /\ gui = "flush" /\ flush # <<>> /\ r \in Segments /\ attached = owner
        /\ UNCHANGED <<attached, deferring, deferred, gui, owner, handled, dropped>>
    BY <1>0, <1>8 DEF FlushDeferred, SinkInv
  <2>2. CASE Refuse(r, f)
    <3>1. accepted' = accepted /\ failure'[r] # "none"
      BY <1>0, <2>1, <2>2 DEF Refuse
    <3> QED BY <2>1, <3>1 DEF GapInv
  <2>3. CASE Reserve(r, f) /\ flush' = Tail(flush)
    <3>1. f \in Frame /\ accepted[r] \in Seq(Frame)
      BY <1>0, <2>1
    <3>2. /\ failure[r] = "none" /\ failure' = failure /\ accepted'[r] = Append(accepted[r], f)
          /\ \A s \in Segments \ {r} : accepted'[s] = accepted[s]
      BY <1>0, <2>1, <2>3 DEF Reserve, Refuses
    <3>3. accepted'[r] \o flush' = deferred /\ accepted'[r] \in Seq(Frame) /\ flush' \in Seq(Frame)
      <4>1. accepted[r] \o flush = deferred
        BY <2>1, <3>2 DEF GapInv
      <4>2. Append(accepted[r], f) \o Tail(flush) = accepted[r] \o flush
        BY <1>0, <2>1, <3>1, HeadMoves
      <4>3. Append(accepted[r], f) \in Seq(Frame)
        BY <3>1
      <4>4. Tail(flush) \in Seq(Frame)
        BY <1>0, <2>1
      <4> QED BY <2>3, <3>2, <4>1, <4>2, <4>3, <4>4
    <3>4. IsPrefix(accepted'[r], deferred)
      BY <3>3, PrefixConcat
    <3>5. Contiguous(accepted'[r], dropped)
      BY <1>0, <3>3, <3>4, ContiguousPrefix DEF GapInv
    <3> QED BY <2>1, <3>2, <3>3, <3>5 DEF GapInv
  <2> QED BY <1>8, <2>2, <2>3 DEF FlushDeferred
<1>9. CASE FlushDone
  <2>1. /\ gui = "flush" /\ flush = <<>> /\ gui' = "idle" /\ deferred' = <<>>
        /\ UNCHANGED <<attached, owner, accepted, dropped, handled, failure>>
        /\ attached = owner /\ owner \in Segments
    BY <1>0, <1>9 DEF FlushDone, StopDeferring, SinkInv
  <2>2. failure[owner] = "none" => accepted[owner] = deferred
    <3>1. accepted[owner] \o <<>> = accepted[owner]
      BY <1>0, <2>1
    <3> QED BY <2>1, <3>1 DEF GapInv
  <2>3. Contiguous(deferred', dropped') /\ UpTo(deferred', handled', dropped')
    BY <2>1 DEF Contiguous, UpTo
  <2> QED BY <2>1, <2>2, <2>3 DEF GapInv
<1>10. CASE DetachRecorder \/ CancelDeferred
  <2>1. /\ gui = "idle" /\ gui' \in {"idle", "stop"} /\ deferred' = <<>> /\ attached' \in {attached, None}
        /\ UNCHANGED <<owner, accepted, dropped, handled, failure>>
    BY <1>10 DEF DetachRecorder, CancelDeferred, StopDeferring
  <2>2. Contiguous(deferred', dropped') /\ UpTo(deferred', handled', dropped')
    BY <2>1 DEF Contiguous, UpTo
  <2> QED BY <2>1, <2>2 DEF GapInv
<1>11. CASE StopRecorder \/ JoinWriter \/ JoinTimeout
  BY <1>1, <1>11 DEF StopRecorder, JoinWriter, JoinTimeout
<1>12. ASSUME NEW r \in Segments, Writer(r) PROVE GapInv'
  <2>1. \A s \in Segments : failure'[s] = "none" => failure[s] = "none"
    BY <1>0, <1>12 DEF Writer, WriterGet, WriterWrite, WriterCount, WriterFinish, WriterFails
  <2> QED
    BY <1>1, <1>12, <2>1 DEF Writer, WriterGet, WriterWrite, WriterCount, WriterFinish, WriterFails
<1>13. CASE UNCHANGED vars
  BY <1>1, <1>13 DEF vars
<1> QED
  BY <1>2, <1>3, <1>4, <1>5, <1>6, <1>7, <1>8, <1>9, <1>10, <1>11, <1>12, <1>13 DEF Next, Worker, Gui

(* A recording of one connection has no gap but those the deferral buffer    *)
(* made: _handle_frame never skips a frame between the deferred ones that    *)
(* set_recorder submits and the live ones.                                   *)
THEOREM GapsExplained == Spec => []GapsAreDeferralOverflows
<1>1. Init => GapInv
  BY DEF Init, GapInv, Contiguous, UpTo
<1>2. IInv /\ GapInv => GapsAreDeferralOverflows
  <2> SUFFICES ASSUME IInv, GapInv, NEW r \in Segments PROVE Contiguous(file[r], dropped)
    BY DEF GapsAreDeferralOverflows
  <2>1. /\ file[r] \in Seq(Frame) /\ accepted[r] \in Seq(Frame)
        /\ IsPrefix(file[r], accepted[r]) /\ Contiguous(accepted[r], dropped)
    BY PartsType DEF IInv, RecorderInv, PipeInv, GapInv
  <2> QED BY <2>1, ContiguousPrefix
<1> QED BY <1>1, <1>2, NextGap, InductiveInvariant, PTL DEF Spec

-----------------------------------------------------------------------------
(* The byte counters.                                                        *)

\* The step changes nothing that the accounting of recorder s speaks of.
SameBytes(s) ==
  /\ queuedBytes'[s] = queuedBytes[s] /\ bytesWritten'[s] = bytesWritten[s]
  /\ accepted'[s] = accepted[s] /\ writer'[s] = writer[s] /\ chunk'[s] = chunk[s]
  /\ file'[s] = file[s] /\ summary'[s] = summary[s]
  /\ failure'[s] = "none" => failure[s] = "none"

LEMMA SameBytesKeeps == ASSUME NEW s, BytesInv(s), SameBytes(s) PROVE BytesInv(s)'
<1>1. Counting(s)' = Counting(s)
  BY DEF SameBytes, Counting
<1> QED BY <1>1 DEF BytesInv, SameBytes

LEMMA CountingType ==
  ASSUME IInv, NEW r \in Segments
  PROVE  Counting(r) \in Seq(Frame)
<1>1. writer[r] = "count" => chunk[r] \in Frame
  BY DEF IInv, TypeInv, ChunkInv
<1> QED BY ONLY <1>1 DEF Counting

LEMMA RefuseBytes ==
  ASSUME IInv, AccountInv, NEW r \in Segments, NEW f, Refuse(r, f), NEW s \in Segments
  PROVE  BytesInv(s)'
<1>1. failure \in [Segments -> Failures] /\ BytesInv(s)
  BY DEF IInv, TypeInv, TypeOK, AccountInv
<1>2. failure'[s] = "none" => failure[s] = "none"
  BY <1>1 DEF Refuse
<1> QED BY <1>1, <1>2, SameBytesKeeps DEF Refuse, SameBytes

\* A reservation adds the chunk's size to the queue's count and stays in its capacity.
LEMMA ReserveBytes ==
  ASSUME IInv, AccountInv, NEW r \in Segments, NEW f \in Frame, Reserve(r, f), NEW s \in Segments
  PROVE  BytesInv(s)'
<1>1. /\ queuedBytes \in [Segments -> Int] /\ bytesWritten \in [Segments -> Nat]
      /\ accepted \in [Segments -> Seq(Frame)] /\ BytesInv(s) /\ BytesInv(r)
  BY DEF IInv, TypeInv, TypeOK, AccountInv
<1>2. /\ queuedBytes' = [queuedBytes EXCEPT ![r] = @ + f.size]
      /\ accepted' = [accepted EXCEPT ![r] = Append(@, f)]
      /\ UNCHANGED <<failure, bytesWritten, writer, chunk, file, summary>>
      /\ ~ (queuedBytes[r] + f.size > Capacity)
  BY DEF Reserve, Refuses, Full
<1>3. CASE s # r
  <2>1. SameBytes(s)
    BY <1>1, <1>2, <1>3 DEF SameBytes
  <2> QED BY <1>1, <2>1, SameBytesKeeps
<1>4. CASE s = r
  <2>1. /\ queuedBytes'[r] = queuedBytes[r] + f.size /\ accepted'[r] = Append(accepted[r], f)
        /\ Counting(r)' = Counting(r) /\ f.size \in Nat /\ accepted[r] \in Seq(Frame)
        /\ queuedBytes[r] \in Int /\ bytesWritten[r] \in Nat
    BY <1>1, <1>2, FrameSize DEF Counting
  <2>2. Bytes(accepted'[r]) = Bytes(accepted[r]) + f.size
    BY <2>1, BytesAppend
  <2>3. queuedBytes'[r] <= Capacity
    BY <1>2, <2>1, RecorderAssumption
  <2>4. queuedBytes'[r] + bytesWritten'[r] = Bytes(accepted'[r])
    BY <1>1, <1>2, <2>1, <2>2 DEF BytesInv
  <2> QED BY <1>1, <1>2, <1>4, <2>1, <2>3, <2>4 DEF BytesInv
<1> QED BY <1>3, <1>4

\* stop saves the writer's own count, which a writer without a failure has brought up to
\* the end of the file.
LEMMA JoinBytes ==
  ASSUME IInv, AccountInv, JoinWriter, NEW s \in Segments
  PROVE  BytesInv(s)'
<1>1. /\ gui = "join" /\ owner \in Segments /\ writer[owner] = "exited"
      /\ summary \in [Segments -> [bytes : Nat, failure : Failures] \cup {None}]
      /\ BytesInv(s) /\ bytesWritten[s] \in Nat
  BY DEF IInv, TypeInv, TypeOK, AccountInv, JoinWriter, SinkInv
<1>2. /\ summary' = [summary EXCEPT ![owner] =
                       [bytes |-> bytesWritten[owner], failure |-> failure[owner]]]
      /\ UNCHANGED <<failure, queuedBytes, bytesWritten, writer, chunk, file, accepted>>
  BY DEF JoinWriter, historyVars
<1>3. CASE s # owner
  <2>1. SameBytes(s)
    BY <1>1, <1>2, <1>3 DEF SameBytes
  <2> QED BY <1>1, <2>1, SameBytesKeeps
<1>4. CASE s = owner
  <2>1. summary'[s] = [bytes |-> bytesWritten[s], failure |-> failure[s]]
    BY <1>1, <1>2, <1>4
  <2>2. Counting(s) = <<>> /\ Counting(s)' = <<>> /\ Bytes(<<>>) = 0
    BY <1>1, <1>2, <1>4, BytesEmpty DEF Counting
  <2>3. failure[s] = "none" => bytesWritten[s] = Bytes(file[s])
    BY <1>1, <2>2 DEF BytesInv
  <2> QED BY <1>1, <1>2, <2>1, <2>2, <2>3 DEF BytesInv
<1> QED BY <1>3, <1>4

\* The writer adds a frame to the file and then to its count.
LEMMA WriterBytes ==
  ASSUME IInv, AccountInv, NEW r \in Segments, Writer(r), NEW s \in Segments
  PROVE  BytesInv(s)'
<1>1. /\ queuedBytes \in [Segments -> Int] /\ bytesWritten \in [Segments -> Nat]
      /\ file \in [Segments -> Seq(Frame)] /\ writer \in [Segments -> WriterStep]
      /\ chunk \in [Segments -> Frame \cup {None}] /\ failure \in [Segments -> Failures]
      /\ BytesInv(s)
      /\ writer[s] \in {"write", "count"} => chunk[s] \in Frame
      /\ summary[s] # None => writer[s] = "exited"
  BY DEF IInv, TypeInv, TypeOK, AccountInv, ChunkInv, RecorderInv, SummaryInv
<1>2. UNCHANGED <<accepted, summary>>
  BY DEF Writer, WriterGet, WriterWrite, WriterCount, WriterFinish, WriterFails, historyVars
<1>3. CASE s # r
  <2>1. SameBytes(s)
    BY <1>1, <1>2, <1>3
    DEF SameBytes, Writer, WriterGet, WriterWrite, WriterCount, WriterFinish, WriterFails
  <2> QED BY <1>1, <2>1, SameBytesKeeps
<1>4. CASE s = r /\ (WriterGet(r) \/ WriterFinish(r))
  <2>1. /\ writer[r] \in {"get", "finish"} /\ writer'[r] # "count"
        /\ UNCHANGED <<failure, queuedBytes, bytesWritten, file>>
    BY <1>1, <1>4 DEF WriterGet, WriterFinish
  <2>2. Counting(r) = <<>> /\ Counting(r)' = <<>>
    BY <2>1 DEF Counting
  <2> QED BY <1>1, <1>2, <1>4, <2>1, <2>2 DEF BytesInv
<1>5. CASE s = r /\ WriterWrite(r)
  <2>1. /\ writer[r] = "write" /\ writer'[r] = "count" /\ chunk' = chunk
        /\ file'[r] = Append(file[r], chunk[r]) /\ summary[r] = None
        /\ UNCHANGED <<failure, queuedBytes, bytesWritten>>
        /\ chunk[r] \in Frame /\ file[r] \in Seq(Frame) /\ bytesWritten[r] \in Nat
    BY <1>1, <1>5 DEF WriterWrite
  <2>2. /\ Bytes(Counting(r)) = 0 /\ Bytes(Counting(r)') = chunk[r].size
        /\ Bytes(file'[r]) = Bytes(file[r]) + chunk[r].size /\ chunk[r].size \in Nat
    BY <2>1, BytesEmpty, BytesOne, BytesAppend, FrameSize DEF Counting
  <2>3. bytesWritten'[r] + Bytes(Counting(r)') = Bytes(file'[r])
    BY <1>1, <1>5, <2>1, <2>2 DEF BytesInv
  <2> QED BY <1>1, <1>2, <1>5, <2>1, <2>3 DEF BytesInv
<1>6. CASE s = r /\ WriterCount(r)
  <2>1. /\ writer[r] = "count" /\ writer'[r] = "get" /\ file' = file /\ failure' = failure
        /\ queuedBytes'[r] = queuedBytes[r] - chunk[r].size
        /\ bytesWritten'[r] = bytesWritten[r] + chunk[r].size
        /\ chunk[r] \in Frame /\ summary[r] = None
        /\ queuedBytes[r] \in Int /\ bytesWritten[r] \in Nat
    BY <1>1, <1>6 DEF WriterCount
  <2>2. /\ Bytes(Counting(r)) = chunk[r].size /\ Bytes(Counting(r)') = 0
        /\ chunk[r].size \in Nat
    BY <2>1, BytesEmpty, BytesOne, FrameSize DEF Counting
  <2>3. bytesWritten'[r] + Bytes(Counting(r)') = Bytes(file'[r])
    BY <1>1, <1>6, <2>1, <2>2 DEF BytesInv
  <2>4. queuedBytes'[r] <= Capacity /\ queuedBytes'[r] + bytesWritten'[r] = Bytes(accepted'[r])
    BY <1>1, <1>2, <1>6, <2>1, <2>2, RecorderAssumption DEF BytesInv
  <2> QED BY <1>2, <1>6, <2>1, <2>3, <2>4 DEF BytesInv
<1>7. CASE s = r /\ WriterFails(r)
  <2>1. /\ writer[r] \in {"write", "finish"} /\ writer'[r] = "exited" /\ failure'[r] # "none"
        /\ UNCHANGED <<queuedBytes, bytesWritten>> /\ summary[r] = None
    BY <1>1, <1>7 DEF WriterFails
  <2> QED BY <1>1, <1>2, <1>7, <2>1 DEF BytesInv
<1> QED BY <1>3, <1>4, <1>5, <1>6, <1>7 DEF Writer

LEMMA NextAccount == IInv /\ AccountInv /\ [Next]_vars => AccountInv'
<1> SUFFICES ASSUME IInv, AccountInv, [Next]_vars, NEW s \in Segments PROVE BytesInv(s)'
  BY DEF AccountInv
<1>0. TypeOK /\ LockInv /\ SinkInv /\ BytesInv(s)
  BY DEF IInv, TypeInv, AccountInv
<1>1. ASSUME UNCHANGED <<queuedBytes, bytesWritten, accepted, chunk, file, summary, failure>>,
             writer'[s] = writer[s]
      PROVE  BytesInv(s)'
  BY <1>0, <1>1, SameBytesKeeps DEF SameBytes
<1>2. ASSUME NEW size \in Sizes, HandleFrameRecorded(size) PROVE BytesInv(s)'
  <2>1. NextFrame(size) \in Frame /\ attached \in Segments
    BY <1>0, <1>2, NextFrameType DEF HandleFrameRecorded, TypeOK, IInv, TypeInv
  <2> QED BY <1>2, <2>1, RefuseBytes, ReserveBytes DEF HandleFrameRecorded
<1>3. CASE FlushDeferred
  <2>1. owner \in Segments /\ flush \in Seq(Frame) /\ flush # <<>>
    BY <1>0, <1>3 DEF FlushDeferred, SinkInv, TypeOK
  <2>2. Head(flush) \in Frame
    BY ONLY <2>1
  <2> QED BY <1>3, <2>1, <2>2, RefuseBytes, ReserveBytes DEF FlushDeferred
<1>4. CASE WorkerPut \/ FlushPut
  BY <1>1, <1>4 DEF WorkerPut, FlushPut, Put, historyVars
<1>5. ASSUME NEW r \in Segments, StartRecorder(r) PROVE BytesInv(s)'
  <2>1. /\ UNCHANGED <<queuedBytes, bytesWritten, accepted, chunk, file, summary, failure>>
        /\ writer' = [writer EXCEPT ![r] = "get"] /\ writer[r] = "none"
        /\ writer \in [Segments -> WriterStep]
    BY <1>0, <1>5 DEF StartRecorder, historyVars, IInv, RecorderInv, FreshInv, TypeOK
  <2>2. Counting(s)' = Counting(s) /\ (writer'[s] = "exited" <=> writer[s] = "exited")
    BY <2>1 DEF Counting
  <2> QED BY <1>0, <2>1, <2>2 DEF BytesInv
<1>6. CASE StopRecorder
  BY <1>1, <1>6 DEF StopRecorder, historyVars
<1>7. CASE JoinWriter
  BY <1>7, JoinBytes
<1>8. ASSUME NEW r \in Segments, Writer(r) PROVE BytesInv(s)'
  BY <1>8, WriterBytes
<1>9. CASE ControlStep
  BY <1>1, <1>9
  DEF ControlStep, HandleFrameDeferred, HandleFrameUnrecorded, AttachRecorder, FlushDone,
      DetachRecorder, CancelDeferred, JoinTimeout, recorderVars, historyVars, vars
<1> QED
  BY <1>2, <1>3, <1>4, <1>5, <1>6, <1>7, <1>8, <1>9 DEF Next, Worker, Gui, ControlStep

(* The recorder's bytes add up: what submit reserved and the writer has not  *)
(* counted yet is the size of the frames in between, within the capacity,    *)
(* and a clean summary's bytes_written is the length of the file.            *)
THEOREM BytesAccounted == Spec => []ByteAccounting
<1>1. Init => AccountInv
  <2> SUFFICES ASSUME Init, NEW r \in Segments PROVE BytesInv(r)
    BY DEF AccountInv
  <2>1. /\ queuedBytes[r] = 0 /\ bytesWritten[r] = 0 /\ accepted[r] = <<>> /\ file[r] = <<>>
        /\ summary[r] = None /\ Counting(r) = <<>>
    BY DEF Init, Counting
  <2> QED BY <2>1, BytesEmpty, RecorderAssumption DEF BytesInv
<1>2. IInv /\ AccountInv => ByteAccounting
  <2> SUFFICES ASSUME IInv, AccountInv, NEW r \in Segments, writer[r] # "exited"
               PROVE  queuedBytes[r] = Bytes(Counting(r) \o (Taken(r) \o (Queued(r) \o Reserved(r))))
    BY DEF ByteAccounting, AccountInv, BytesInv
  <2> DEFINE rest == Taken(r) \o (Queued(r) \o Reserved(r))
  <2>1. /\ file[r] \in Seq(Frame) /\ Taken(r) \in Seq(Frame) /\ Queued(r) \in Seq(Frame)
        /\ Reserved(r) \in Seq(Frame) /\ Counting(r) \in Seq(Frame)
    BY PartsType, CountingType
  <2>2. rest \in Seq(Frame)
    BY ONLY <2>1
  <2>3. accepted[r] = file[r] \o rest
    BY DEF IInv, RecorderInv, PipeInv
  <2> HIDE DEF rest
  <2>4. /\ Bytes(accepted[r]) = Bytes(file[r]) + Bytes(rest)
        /\ Bytes(Counting(r) \o rest) = Bytes(Counting(r)) + Bytes(rest)
    BY <2>1, <2>2, <2>3, BytesConcat
  <2>5. /\ queuedBytes[r] + bytesWritten[r] = Bytes(accepted[r])
        /\ bytesWritten[r] + Bytes(Counting(r)) = Bytes(file[r])
    BY DEF AccountInv, BytesInv
  <2>6. /\ Bytes(file[r]) \in Nat /\ Bytes(rest) \in Nat /\ Bytes(Counting(r)) \in Nat
        /\ queuedBytes[r] \in Int /\ bytesWritten[r] \in Nat
    <3>1. Bytes(file[r]) \in Nat /\ Bytes(rest) \in Nat /\ Bytes(Counting(r)) \in Nat
      BY <2>1, <2>2, TotalsExist, BytesOfTotals
    <3> QED BY <3>1 DEF IInv, TypeInv, TypeOK
  <2>7. queuedBytes[r] = Bytes(Counting(r) \o rest)
    BY <2>4, <2>5, <2>6
  <2> QED BY <2>7 DEF rest
<1> QED
  BY <1>1, <1>2, NextAccount, InductiveInvariant, PTL DEF Spec
=============================================================================

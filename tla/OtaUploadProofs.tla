--------------------------- MODULE OtaUploadProofs ---------------------------
(***************************************************************************)
(* Proofs about OtaUpload: its types and, for an attempt that began on a   *)
(* quiet link, that the progress reported is durable, that losses within   *)
(* the number of retries are tolerated, and that the upload implements     *)
(* OtaSpec.  IInv of OtaUpload is the inductive invariant.  The argument:  *)
(* the link keeps the order, so that whatever an attempt reads after its   *)
(* own READY answers one of its own frames.                                *)
(***************************************************************************)
EXTENDS OtaUpload, SequenceTheorems, TLAPS

-----------------------------------------------------------------------------
(* Queues.                                                                   *)

LEMMA SetOfShort ==
  /\ ToSet(<<>>) = {}
  /\ \A x : ToSet(<<x>>) = {x}
  /\ \A x, y : ToSet(<<x, y>>) = {x, y}
<1>1. \A x : DOMAIN <<x>> = {1} /\ <<x>>[1] = x
  OBVIOUS
<1>2. \A x, y : DOMAIN <<x, y>> = {1, 2} /\ <<x, y>>[1] = x /\ <<x, y>>[2] = y
  OBVIOUS
<1> QED
  BY <1>1, <1>2 DEF ToSet

LEMMA SetOfAppend ==
  ASSUME NEW S, NEW s \in Seq(S), NEW e \in S
  PROVE  Append(s, e) \in Seq(S) /\ ToSet(Append(s, e)) = ToSet(s) \cup {e}
<1>1. /\ Append(s, e) \in Seq(S) /\ DOMAIN Append(s, e) = 1..(Len(s) + 1)
      /\ DOMAIN s = 1..Len(s) /\ Len(s) \in Nat
      /\ \A i \in 1..Len(s) : Append(s, e)[i] = s[i]
      /\ Append(s, e)[Len(s) + 1] = e
  OBVIOUS
<1> QED
  BY <1>1 DEF ToSet

LEMMA SetOfTail ==
  ASSUME NEW S, NEW s \in Seq(S), s # <<>>
  PROVE  /\ Tail(s) \in Seq(S) /\ Head(s) \in S
         /\ Head(s) \in ToSet(s) /\ ToSet(Tail(s)) \subseteq ToSet(s)
         /\ ToSet(s) = {Head(s)} \cup ToSet(Tail(s))
<1>1. /\ Tail(s) \in Seq(S) /\ Head(s) \in S /\ Head(s) = s[1]
      /\ Len(s) \in Nat \ {0} /\ DOMAIN s = 1..Len(s)
      /\ DOMAIN Tail(s) = 1..(Len(s) - 1)
      /\ \A i \in 1..(Len(s) - 1) : Tail(s)[i] = s[i + 1] /\ i + 1 \in 1..Len(s)
  OBVIOUS
<1>2. \A i \in 2..Len(s) : i - 1 \in 1..(Len(s) - 1) /\ (i - 1) + 1 = i
  BY <1>1
<1>3. \A i \in 2..Len(s) : s[i] = Tail(s)[i - 1]
  BY <1>1, <1>2
<1>4. ToSet(Tail(s)) \subseteq ToSet(s)
  BY <1>1 DEF ToSet
<1>5. ToSet(s) \subseteq {Head(s)} \cup ToSet(Tail(s))
  <2> SUFFICES ASSUME NEW x \in ToSet(s) PROVE x = Head(s) \/ x \in ToSet(Tail(s))
    OBVIOUS
  <2>1. PICK i \in 1..Len(s) : x = s[i]
    BY <1>1 DEF ToSet
  <2>2. CASE i = 1
    BY <1>1, <2>1, <2>2
  <2>3. CASE i # 1
    <3>1. i - 1 \in DOMAIN Tail(s) /\ x = Tail(s)[i - 1]
      BY <1>1, <1>2, <1>3, <2>1, <2>3
    <3> QED
      BY <3>1 DEF ToSet
  <2> QED
    BY <2>2, <2>3
<1>6. Head(s) \in ToSet(s)
  BY <1>1 DEF ToSet
<1> QED
  BY <1>1, <1>4, <1>5, <1>6

LEMMA SetOfConcat ==
  ASSUME NEW S, NEW s \in Seq(S), NEW t \in Seq(S)
  PROVE  s \o t \in Seq(S) /\ ToSet(s \o t) = ToSet(s) \cup ToSet(t)
<1>1. /\ s \o t \in Seq(S) /\ DOMAIN (s \o t) = 1..(Len(s) + Len(t))
      /\ DOMAIN s = 1..Len(s) /\ DOMAIN t = 1..Len(t) /\ Len(s) \in Nat /\ Len(t) \in Nat
      /\ \A i \in 1..Len(s) : (s \o t)[i] = s[i]
      /\ \A i \in 1..Len(t) : (s \o t)[Len(s) + i] = t[i]
  OBVIOUS
<1>2. \A i \in 1..(Len(s) + Len(t)) : i \in 1..Len(s) \/ \E j \in 1..Len(t) : i = Len(s) + j
  <2> SUFFICES ASSUME NEW i \in 1..(Len(s) + Len(t)), i \notin 1..Len(s)
               PROVE  \E j \in 1..Len(t) : i = Len(s) + j
    OBVIOUS
  <2>1. i - Len(s) \in 1..Len(t) /\ i = Len(s) + (i - Len(s))
    BY <1>1
  <2> QED
    BY <2>1
<1>3. ASSUME NEW x \in ToSet(s \o t) PROVE x \in ToSet(s) \cup ToSet(t)
  <2>1. PICK i \in 1..(Len(s) + Len(t)) : x = (s \o t)[i]
    BY <1>1 DEF ToSet
  <2>2. CASE i \in 1..Len(s)
    <3>1. x = s[i] /\ i \in DOMAIN s
      BY <1>1, <2>1, <2>2
    <3> QED
      BY <3>1 DEF ToSet
  <2>3. CASE i \notin 1..Len(s)
    <3>1. PICK j \in 1..Len(t) : i = Len(s) + j
      BY <1>2, <2>3
    <3>2. x = t[j] /\ j \in DOMAIN t
      BY <1>1, <2>1, <3>1
    <3> QED
      BY <3>2 DEF ToSet
  <2> QED
    BY <2>2, <2>3
<1>4. \A i \in 1..Len(t) : Len(s) + i \in 1..(Len(s) + Len(t))
  BY <1>1
<1>5. ToSet(s) \subseteq ToSet(s \o t)
  BY <1>1 DEF ToSet
<1>6. ASSUME NEW x \in ToSet(t) PROVE x \in ToSet(s \o t)
  <2>1. PICK i \in 1..Len(t) : x = t[i]
    BY <1>1 DEF ToSet
  <2>2. Len(s) + i \in DOMAIN (s \o t) /\ x = (s \o t)[Len(s) + i]
    BY <1>1, <1>4, <2>1
  <2> QED
    BY <2>2 DEF ToSet
<1> QED
  BY <1>1, <1>3, <1>5, <1>6

LEMMA SetInType ==
  ASSUME NEW S, NEW s \in Seq(S)
  PROVE  ToSet(s) \subseteq S
  BY DEF ToSet

-----------------------------------------------------------------------------
(* Frames, lines and images.                                                 *)

LEMMA Constants ==
  /\ PayloadLimit \in Nat \ {0}
  /\ MaxRetries \in Nat /\ MaxFaults \in Nat
  /\ \A p \in Packages : ImageSize[p] \in Nat \ {0} /\ p # NoPackage
  BY OtaAssumption DEF PayloadLimit

(* The image of a package is a sequence of bytes.                            *)
LEMMA ImageFacts ==
  ASSUME NEW p \in Packages
  PROVE  /\ Image(p) \in Seq(Byte) /\ Len(Image(p)) = ImageSize[p]
         /\ \A i \in 1..ImageSize[p] : Image(p)[i] = <<p, i>>
<1>1. ImageSize[p] \in Nat
  BY Constants
<1>2. \A i \in 1..ImageSize[p] : <<p, i>> \in Byte
  BY <1>1 DEF Byte
<1>3. Image(p) \in [1..ImageSize[p] -> Byte]
  BY <1>2 DEF Image
<1>4. Image(p) \in Seq(Byte) /\ Len(Image(p)) = ImageSize[p]
  BY ONLY <1>1, <1>3
<1>5. \A i \in 1..ImageSize[p] : Image(p)[i] = <<p, i>>
  BY DEF Image
<1> QED
  BY <1>4, <1>5

(* A DATA frame carries at least one byte, the next ones of the image.       *)
LEMMA PayloadFacts ==
  ASSUME NEW p \in Packages, NEW o \in Nat, o < ImageSize[p]
  PROVE  /\ Payload(p, o) \in Seq(Byte)
         /\ Len(Payload(p, o)) \in Nat \ {0} /\ o + Len(Payload(p, o)) <= ImageSize[p]
         /\ Payload(p, o) = SubSeq(Image(p), o + 1, o + Len(Payload(p, o)))
<1> DEFINE e == IF o + PayloadLimit > ImageSize[p] THEN ImageSize[p] ELSE o + PayloadLimit
<1>1. e \in Nat /\ o < e /\ e <= ImageSize[p] /\ ImageSize[p] \in Nat
  BY Constants
<1>2. Payload(p, o) = SubSeq(Image(p), o + 1, e)
  BY DEF Payload
<1> HIDE DEF e
<1>3. Image(p) \in Seq(Byte) /\ Len(Image(p)) = ImageSize[p]
  BY ImageFacts
<1>4. SubSeq(Image(p), o + 1, e) \in Seq(Byte) /\ Len(SubSeq(Image(p), o + 1, e)) = e - o
  BY <1>1, <1>3, SubSeqProperties
<1> QED
  BY <1>1, <1>2, <1>4

(* Bytes stored behind the first o bytes of an image give its first bytes.   *)
LEMMA StoredBehind ==
  ASSUME NEW p \in Packages, NEW o \in Nat, o < ImageSize[p]
  PROVE  SubSeq(Image(p), 1, o) \o Payload(p, o)
           = SubSeq(Image(p), 1, o + Len(Payload(p, o)))
<1> DEFINE n == Len(Payload(p, o))
<1>1. n \in Nat \ {0} /\ o + n <= ImageSize[p] /\ ImageSize[p] \in Nat
      /\ Payload(p, o) = SubSeq(Image(p), o + 1, o + n)
  BY PayloadFacts, Constants
<1>2. Image(p) \in Seq(Byte) /\ Len(Image(p)) = ImageSize[p]
  BY ImageFacts
<1> HIDE DEF n
<1>3. 1 \in 1..(Len(Image(p)) + 1) /\ o \in (1 - 1)..Len(Image(p)) /\ o + n \in o..Len(Image(p))
  BY <1>1, <1>2
<1>4. SubSeq(Image(p), 1, o) \o SubSeq(Image(p), o + 1, o + n) = SubSeq(Image(p), 1, o + n)
  BY ONLY <1>2, <1>3, ConcatAdjacentSubSeq
<1> QED
  BY <1>1, <1>4 DEF n

(* The records of the protocol, and what tells them apart.                   *)
LEMMA FrameFacts ==
  /\ Hello \in Frame /\ Hello.type = "hello"
  /\ BeginFrame \in Frame /\ BeginFrame.type = "begin" /\ BeginFrame.offset = 0
  /\ BeginFrame.data = <<>>
  /\ \A o \in Nat : /\ CommitFrame(o) \in Frame /\ CommitFrame(o).type = "commit"
                    /\ CommitFrame(o).offset = o /\ CommitFrame(o).data = <<>>
                    /\ CancelFrame(o) \in Frame /\ CancelFrame(o).type = "cancel"
<1>1. <<>> \in Seq(Byte)
  OBVIOUS
<1> QED
  BY <1>1 DEF Hello, BeginFrame, CommitFrame, CancelFrame, Frame, FrameTypes

LEMMA DataFacts ==
  ASSUME NEW p \in Packages, NEW o \in Nat, o < ImageSize[p]
  PROVE  /\ DataFrame(p, o) \in Frame /\ DataFrame(p, o).type = "data"
         /\ DataFrame(p, o).offset = o /\ DataFrame(p, o).data = Payload(p, o)
  BY PayloadFacts DEF DataFrame, Frame, FrameTypes

LEMMA LineFacts ==
  /\ Ready \in ReplyLine /\ Ready.kind = "ready"
  /\ Ok \in ReplyLine /\ Ok.kind = "ok"
  /\ Nack \in ReplyLine /\ Nack.kind = "nack"
  /\ Staged \in ReplyLine /\ Staged.kind = "staged" /\ Staged.next = 0
  /\ \A n \in Nat : /\ Ack(n) \in ReplyLine /\ Ack(n).kind = "ack" /\ Ack(n).next = n
                    /\ OffsetNack(n) \in ReplyLine /\ OffsetNack(n).kind = "offset"
  BY DEF Ready, Ok, Nack, Staged, Ack, OffsetNack, ReplyLine, LineKinds

-----------------------------------------------------------------------------
(* Types, and what the uploader is at.                                       *)

Flags ==
  /\ quiet \in BOOLEAN /\ benign \in BOOLEAN /\ cancelling \in BOOLEAN
  /\ armed \in BOOLEAN /\ resetting \in BOOLEAN

HostTypes ==
  /\ package \in Packages \cup {NoPackage} /\ tried \subseteq Packages
  /\ result \in {"none", "staged", "failed", "cancelled"}
  /\ cause \in {"none", "handshake", "size", "timeout", "rejected", "offset", "unstaged"}
  /\ pc \in {"idle", "hello", "ready", "ok", "send", "wait", "trailer", "done"}
  /\ frame \in Frame /\ offset \in Nat /\ tries \in 0..(MaxRetries + 1)

LinkTypes ==
  /\ replies \in Seq(ReplyLine) /\ down \in Seq(ReplyLine) /\ up \in Seq(Frame)
  /\ faults \in Nat /\ next \in Nat /\ image \in Seq(Byte) /\ staged \in Seq(Byte)

LEMMA TypeParts == TypeOK <=> Flags /\ HostTypes /\ LinkTypes
  BY Zenon DEF TypeOK, Flags, HostTypes, LinkTypes

LEMMA TypePartsNext == TypeOK' <=> Flags' /\ HostTypes' /\ LinkTypes'
  BY Zenon DEF TypeOK, Flags, HostTypes, LinkTypes

LEMMA FlagsStep == Flags /\ [Next]_vars => Flags'
<1> SUFFICES ASSUME Flags, [Next]_vars PROVE Flags'
  OBVIOUS
<1> USE DEF Flags
<1>1. ASSUME NEW p \in Packages, StartOta(p) PROVE Flags'
  BY <1>1, Zenon DEF StartOta
<1>2. CASE CancelOta
  BY <1>2, Zenon DEF CancelOta, guiVars
<1>3. CASE EndOta
  BY <1>3, Zenon DEF EndOta, guiVars
<1>4. CASE Uploader
  BY <1>4, Zenon DEF Uploader, SendHello, ReadReady, ReadOk, HandshakeFails, SendFrame, RetryFrame,
     FrameRejected, BeginOrDataAcked, CommitAcked, ReadTrailer, waitUnchanged, Exchange, Conclude,
     Cancelled, Read, TimedOut, Fault, guiVars
<1>5. CASE ReceiveLine \/ ReceiveFrames
  BY <1>5, Zenon DEF ReceiveLine, ReceiveFrames, guiVars
<1>6. CASE Device
  BY <1>6, Zenon DEF Device, DeviceHello, DeviceBegin, DeviceCancel, DeviceCommit, DeviceData,
     Answer, guiVars
<1>7. CASE Link
  BY <1>7, Zenon DEF Link, LoseFrame, LoseReply, RepeatFrame, DamageFrame, BusyDevice, Answer,
     Fault, linkUnchanged, guiVars
<1>8. CASE UNCHANGED vars
  BY <1>8, Zenon DEF vars, guiVars
<1> QED
  BY <1>1, <1>2, <1>3, <1>4, <1>5, <1>6, <1>7, <1>8, Zenon DEF Next

LEMMA InitTypes == Init => TypeOK /\ HostInv
<1> SUFFICES ASSUME Init PROVE TypeOK /\ HostInv
  OBVIOUS
<1>1. Flags
  BY Zenon DEF Init, Flags
<1>2. HostTypes
  BY FrameFacts, Constants DEF Init, HostTypes
<1>3. LinkTypes
  BY DEF Init, LinkTypes
<1>4. HostInv
  BY DEF Init, HostInv
<1> QED
  BY <1>1, <1>2, <1>3, <1>4, TypeParts

(* The three frames an attempt goes on with.                                 *)
LEMMA NextFrame ==
  ASSUME NEW p \in Packages, NEW o \in Nat, o <= ImageSize[p]
  PROVE  LET f == IF o < ImageSize[p] THEN DataFrame(p, o) ELSE CommitFrame(o)
         IN  /\ f \in Frame /\ f # Hello /\ f.type \in {"data", "commit"}
             /\ \/ f = DataFrame(p, o) /\ o < ImageSize[p]
                \/ f = CommitFrame(o) /\ o = ImageSize[p]
<1>1. ImageSize[p] \in Nat
  BY Constants
<1>2. CASE o < ImageSize[p]
  BY <1>2, FrameFacts, DataFacts
<1>3. CASE ~ (o < ImageSize[p])
  <2>1. o = ImageSize[p]
    BY <1>1, <1>3
  <2> QED
    BY <1>3, <2>1, FrameFacts
<1> QED
  BY <1>2, <1>3

(* Where the acknowledgement of the frame leads.                             *)
LEMMA ExpectedFacts ==
  ASSUME TypeOK, HostInv, frame # Hello
  PROVE  /\ package \in Packages /\ Expected \in Nat /\ Expected <= ImageSize[package]
         /\ offset <= Expected /\ frame.offset = offset
         /\ frame = BeginFrame => Expected = 0
         /\ frame.type = "data" => /\ offset < ImageSize[package] /\ frame.data = Payload(package, offset)
                                   /\ Expected = offset + Len(Payload(package, offset))
         /\ frame.type = "commit" => offset = ImageSize[package]
         /\ frame.type \in {"begin", "data", "commit"}
         /\ frame.type = "begin" <=> frame = BeginFrame
<1>1. package \in Packages /\ offset \in Nat /\ ImageSize[package] \in Nat \ {0}
  BY Constants DEF HostInv, TypeOK
<1>2. CASE frame = BeginFrame /\ offset = 0
  BY <1>1, <1>2, FrameFacts DEF Expected
<1>3. CASE frame = DataFrame(package, offset) /\ offset < ImageSize[package]
  <2>1. /\ frame.type = "data" /\ frame.offset = offset /\ frame.data = Payload(package, offset)
        /\ BeginFrame.type = "begin"
    BY <1>1, <1>3, FrameFacts, DataFacts
  <2>2. /\ Len(Payload(package, offset)) \in Nat \ {0}
        /\ offset + Len(Payload(package, offset)) <= ImageSize[package]
    BY <1>1, <1>3, PayloadFacts
  <2>3. Expected = offset + Len(Payload(package, offset))
    BY <2>1 DEF Expected
  <2> QED
    BY <1>1, <1>3, <2>1, <2>2, <2>3
<1>4. CASE frame = CommitFrame(offset) /\ offset = ImageSize[package]
  BY <1>1, <1>4, FrameFacts DEF Expected
<1> QED
  BY <1>2, <1>3, <1>4 DEF HostInv

LEMMA HostStep ==
  TypeOK /\ HostInv /\ [Next]_vars => HostTypes' /\ HostInv'
<1> SUFFICES ASSUME TypeOK, HostInv, [Next]_vars PROVE HostTypes' /\ HostInv'
  OBVIOUS
<1>0. HostTypes
  BY TypeParts
<1>c. ASSUME NEW r \in {"staged", "failed", "cancelled"},
             NEW why \in {"none", "handshake", "size", "timeout", "rejected", "offset", "unstaged"},
             Conclude(r, why), armed' = armed, pc # "idle"
      PROVE  HostTypes' /\ HostInv'
  BY <1>0, <1>c DEF Conclude, HostTypes, HostInv
<1>e. ASSUME NEW f \in Frame, NEW o \in Nat, Exchange(f, o), armed' = armed,
             pc \in {"ok", "wait"}, f # Hello,
             \/ f = BeginFrame /\ o = 0
             \/ f = DataFrame(package, o) /\ o < ImageSize[package]
             \/ f = CommitFrame(o) /\ o = ImageSize[package]
      PROVE  HostTypes' /\ HostInv'
  BY <1>0, <1>e, Constants DEF Exchange, HostTypes, HostInv, guiVars
<1>s. ASSUME UNCHANGED <<guiVars, hostVars, armed>> PROVE HostTypes' /\ HostInv'
  BY <1>0, <1>s DEF HostTypes, HostInv, guiVars, hostVars
<1>1. ASSUME NEW p \in Packages, StartOta(p) PROVE HostTypes' /\ HostInv'
  BY <1>0, <1>1, FrameFacts, Constants DEF StartOta, HostTypes, HostInv
<1>2. CASE CancelOta
  BY <1>2, <1>s DEF CancelOta
<1>3. CASE EndOta
  BY <1>0, <1>3 DEF EndOta, HostTypes, HostInv, guiVars
<1>4. CASE Uploader
  <2>1. CASE SendHello
    <3>1. CASE Cancelled
      BY <2>1, <3>1, <1>c DEF SendHello, Cancelled
    <3>2. CASE ~ Cancelled
      BY <1>0, <2>1, <3>2 DEF SendHello, HostTypes, HostInv, guiVars
    <3> QED
      BY <3>1, <3>2
  <2>2. CASE ReadReady
    BY <1>0, <2>2 DEF ReadReady, waitUnchanged, HostTypes, HostInv, guiVars
  <2>3. CASE ReadOk
    BY <2>3, <1>c, <1>e, FrameFacts DEF ReadOk, waitUnchanged
  <2>4. CASE HandshakeFails
    BY <2>4, <1>c DEF HandshakeFails, waitUnchanged
  <2>5. CASE SendFrame
    <3>1. CASE Cancelled
      BY <2>5, <3>1, <1>c DEF SendFrame, Cancelled
    <3>2. CASE ~ Cancelled
      BY <1>0, <2>5, <3>2, Constants DEF SendFrame, HostTypes, HostInv, guiVars
    <3> QED
      BY <3>1, <3>2
  <2>6. CASE RetryFrame
    <3>1. CASE Conclude("failed", "timeout")
      BY <2>6, <3>1, <1>c DEF RetryFrame, waitUnchanged
    <3>2. CASE ~ Conclude("failed", "timeout")
      BY <1>0, <2>6, <3>2, Constants DEF RetryFrame, waitUnchanged, HostTypes, HostInv, guiVars
    <3> QED
      BY <3>1, <3>2
  <2>7. CASE FrameRejected
    BY <2>7, <1>c DEF FrameRejected, waitUnchanged
  <2>8. CASE BeginOrDataAcked
    <3>1. pc = "wait" /\ frame # Hello /\ armed' = armed
      BY <2>8 DEF BeginOrDataAcked, waitUnchanged, HostInv
    <3>2. package \in Packages /\ Expected \in Nat /\ Expected <= ImageSize[package]
      BY <3>1, ExpectedFacts
    <3>3. CASE Conclude("failed", "offset")
      BY <3>1, <3>3, <1>c
    <3>4. CASE ~ Conclude("failed", "offset")
      <4> DEFINE f == IF Expected < ImageSize[package] THEN DataFrame(package, Expected)
                      ELSE CommitFrame(Expected)
      <4>1. Exchange(f, Expected)
        BY <2>8, <3>4 DEF BeginOrDataAcked
      <4>2. /\ f \in Frame /\ f # Hello
            /\ \/ f = DataFrame(package, Expected) /\ Expected < ImageSize[package]
               \/ f = CommitFrame(Expected) /\ Expected = ImageSize[package]
        BY <3>2, NextFrame
      <4> HIDE DEF f
      <4> QED
        BY <3>1, <3>2, <4>1, <4>2, <1>e
    <3> QED
      BY <3>3, <3>4
  <2>9. CASE CommitAcked
    <3>1. CASE Conclude("failed", "unstaged")
      BY <2>9, <3>1, <1>c DEF CommitAcked, waitUnchanged
    <3>2. CASE ~ Conclude("failed", "unstaged")
      BY <1>0, <2>9, <3>2 DEF CommitAcked, waitUnchanged, HostTypes, HostInv, guiVars
    <3> QED
      BY <3>1, <3>2
  <2>10. CASE ReadTrailer
    BY <2>10, <1>c DEF ReadTrailer, waitUnchanged
  <2> QED
    BY <1>4, <2>1, <2>2, <2>3, <2>4, <2>5, <2>6, <2>7, <2>8, <2>9, <2>10 DEF Uploader
<1>5. CASE ReceiveLine \/ ReceiveFrames
  BY <1>5, <1>s DEF ReceiveLine, ReceiveFrames
<1>6. CASE Device
  BY <1>6, <1>s DEF Device, DeviceHello, DeviceBegin, DeviceCancel, DeviceCommit, DeviceData, Answer
<1>7. CASE Link
  BY <1>7, <1>s DEF Link, LoseFrame, LoseReply, RepeatFrame, DamageFrame, BusyDevice, Answer,
     linkUnchanged
<1>8. CASE UNCHANGED vars
  BY <1>8, <1>s DEF vars
<1> QED
  BY <1>1, <1>2, <1>3, <1>4, <1>5, <1>6, <1>7, <1>8 DEF Next

(* A line is added to a queue, a frame sent, the first one taken.            *)
LEMMA QueueTypes ==
  ASSUME LinkTypes
  PROVE  /\ \A f \in Frame : Append(up, f) \in Seq(Frame)
         /\ \A l \in ReplyLine : /\ Append(replies, l) \in Seq(ReplyLine)
                                 /\ <<l>> \in Seq(ReplyLine)
                                 /\ down \o <<l>> \in Seq(ReplyLine)
         /\ \A l, m \in ReplyLine : down \o <<l, m>> \in Seq(ReplyLine)
         /\ up # <<>> => /\ Tail(up) \in Seq(Frame) /\ Head(up) \in Frame
                         /\ <<Head(up)>> \o up \in Seq(Frame)
         /\ down # <<>> => Tail(down) \in Seq(ReplyLine) /\ Head(down) \in ReplyLine
         /\ replies # <<>> => Tail(replies) \in Seq(ReplyLine) /\ Head(replies) \in ReplyLine
  BY DEF LinkTypes

LEMMA LinkStep ==
  TypeOK /\ HostInv /\ [Next]_vars => LinkTypes'
<1> SUFFICES ASSUME TypeOK, HostInv, [Next]_vars PROVE LinkTypes'
  OBVIOUS
<1>0. LinkTypes /\ frame \in Frame /\ offset \in Nat
  BY TypeParts DEF HostTypes
<1>q. /\ \A f \in Frame : Append(up, f) \in Seq(Frame)
      /\ \A l \in ReplyLine : /\ Append(replies, l) \in Seq(ReplyLine)
                              /\ <<l>> \in Seq(ReplyLine)
                              /\ down \o <<l>> \in Seq(ReplyLine)
      /\ \A l, m \in ReplyLine : down \o <<l, m>> \in Seq(ReplyLine)
      /\ up # <<>> => /\ Tail(up) \in Seq(Frame) /\ Head(up) \in Frame
                      /\ <<Head(up)>> \o up \in Seq(Frame)
      /\ down # <<>> => Tail(down) \in Seq(ReplyLine) /\ Head(down) \in ReplyLine
      /\ replies # <<>> => Tail(replies) \in Seq(ReplyLine) /\ Head(replies) \in ReplyLine
  BY <1>0, QueueTypes
<1>s. ASSUME replies' \in Seq(ReplyLine), down' = down, up' \in Seq(Frame),
             faults' \in Nat, UNCHANGED deviceVars
      PROVE  LinkTypes'
  BY <1>0, <1>s DEF LinkTypes, deviceVars
<1>f. ASSUME NEW k, Fault(k) PROVE faults' \in Nat
  BY <1>0, <1>f DEF Fault, LinkTypes
<1>r. Read \/ TimedOut => replies' \in Seq(ReplyLine) /\ faults' \in Nat
  BY <1>0, <1>q, <1>f DEF Read, TimedOut, LinkTypes
<1>a. ASSUME NEW ls, Answer(ls), down \o ls \in Seq(ReplyLine), faults' \in Nat, next' \in Nat,
             image' \in Seq(Byte), staged' \in Seq(Byte)
      PROVE  LinkTypes'
  BY <1>0, <1>a, <1>q DEF Answer, LinkTypes
<1>1. ASSUME NEW p \in Packages, StartOta(p) PROVE LinkTypes'
  BY <1>0, <1>1, <1>s DEF StartOta, LinkTypes
<1>2. CASE CancelOta
  BY <1>0, <1>2, <1>s DEF CancelOta, LinkTypes
<1>3. CASE EndOta
  BY <1>0, <1>3, <1>s DEF EndOta, LinkTypes
<1>4. CASE Uploader
  <2>1. CASE SendHello \/ SendFrame
    BY <1>0, <2>1, <1>s, <1>q, FrameFacts DEF SendHello, SendFrame, Cancelled, Transmit, LinkTypes
  <2>2. CASE ReadReady \/ ReadOk \/ HandshakeFails \/ RetryFrame \/ FrameRejected
             \/ BeginOrDataAcked \/ CommitAcked \/ ReadTrailer
    <3>1. (Read \/ TimedOut) /\ UNCHANGED waitUnchanged
      BY <2>2 DEF ReadReady, ReadOk, HandshakeFails, RetryFrame, FrameRejected, BeginOrDataAcked,
         CommitAcked, ReadTrailer
    <3> QED
      BY <1>0, <3>1, <1>r, <1>s DEF waitUnchanged, LinkTypes
  <2> QED
    BY <1>4, <2>1, <2>2 DEF Uploader
<1>5. CASE ReceiveLine
  <2>1. replies' \in Seq(ReplyLine)
    BY <1>0, <1>5, <1>q DEF ReceiveLine, LinkTypes
  <2> QED
    BY <1>0, <1>5, <1>q, <2>1 DEF ReceiveLine, LinkTypes, deviceVars
<1>9. CASE ReceiveFrames
  BY <1>0, <1>9, <1>s DEF ReceiveFrames, LinkTypes
<1>6. CASE Device
  <2>1. CASE DeviceHello
    <3>1. Answer(<<Ready, Ok>>) /\ next' = 0 /\ image' = <<>> /\ staged' = staged /\ faults' = faults
      BY <2>1 DEF DeviceHello
    <3>2. <<>> \in Seq(Byte) /\ down \o <<Ready, Ok>> \in Seq(ReplyLine)
      BY <1>q, LineFacts
    <3> QED
      BY <1>0, <3>1, <3>2, <1>a DEF LinkTypes
  <2>2. CASE DeviceBegin
    <3>1. Answer(<<Ack(0)>>) /\ UNCHANGED deviceVars /\ faults' = faults
      BY <2>2 DEF DeviceBegin
    <3>2. down \o <<Ack(0)>> \in Seq(ReplyLine)
      BY <1>q, LineFacts
    <3> QED
      BY <1>0, <3>1, <3>2, <1>a DEF LinkTypes, deviceVars
  <2>3. CASE DeviceCancel
    BY <1>0, <2>3, <1>a, <1>q, LineFacts DEF DeviceCancel, LinkTypes, deviceVars
  <2>4. CASE DeviceCommit
    BY <1>0, <2>4, <1>a, <1>q, LineFacts DEF DeviceCommit, LinkTypes
  <2>5. CASE DeviceData
    <3>1. Head(up) \in Frame
      BY <2>5, <1>q DEF DeviceData
    <3>2. Head(up).data \in Seq(Byte)
      BY <3>1 DEF Frame
    <3>3. image \o Head(up).data \in Seq(Byte) /\ next + Len(Head(up).data) \in Nat
      BY <1>0, <3>2 DEF LinkTypes
    <3> QED
      BY <1>0, <2>5, <3>3, <1>a, <1>q, LineFacts DEF DeviceData, LinkTypes
  <2> QED
    BY <1>6, <2>1, <2>2, <2>3, <2>4, <2>5 DEF Device
<1>7. CASE Link
  <2>1. CASE LoseFrame \/ RepeatFrame
    BY <1>0, <2>1, <1>s, <1>q, <1>f DEF LoseFrame, RepeatFrame, linkUnchanged, LinkTypes
  <2>2. CASE LoseReply
    BY <1>0, <2>2, <1>q, <1>f DEF LoseReply, linkUnchanged, LinkTypes, deviceVars
  <2>3. CASE DamageFrame
    <3>1. faults' \in Nat
      BY <2>3, <1>f DEF DamageFrame
    <3>2. Answer(<<Nack>>) /\ next' = next /\ image' = image /\ staged' = staged
      BY <2>3 DEF DamageFrame, deviceVars
    <3> QED
      BY <1>0, <3>1, <3>2, <1>a, <1>q, LineFacts DEF LinkTypes
  <2>4. CASE BusyDevice
    <3>1. faults' \in Nat
      BY <2>4, <1>f DEF BusyDevice
    <3>2. Answer(<<OffsetNack(next)>>) /\ next' = next /\ image' = image /\ staged' = staged
      BY <2>4 DEF BusyDevice, deviceVars
    <3> QED
      BY <1>0, <3>1, <3>2, <1>a, <1>q, LineFacts DEF LinkTypes
  <2> QED
    BY <1>7, <2>1, <2>2, <2>3, <2>4 DEF Link
<1>8. CASE UNCHANGED vars
  BY <1>0, <1>8, <1>s DEF vars, LinkTypes
<1> QED
  BY <1>1, <1>2, <1>3, <1>4, <1>5, <1>6, <1>7, <1>8, <1>9 DEF Next

(* Every variable keeps its type: THEOREM TypeCorrect at the end.            *)
LEMMA TypeStep == TypeOK /\ HostInv /\ [Next]_vars => TypeOK' /\ HostInv'
  BY FlagsStep, HostStep, LinkStep, TypeParts, TypePartsNext, Zenon

-----------------------------------------------------------------------------
(* HELLO frames come first.                                                  *)

LEMMA HellosOf ==
  /\ HellosFirst(<<>>) /\ HellosFirst(<<Hello>>)
  /\ \A s \in Seq(Frame), f \in Frame :
       HellosFirst(s) /\ f # Hello => HellosFirst(Append(s, f))
  /\ \A s \in Seq(Frame) :
       s # <<>> /\ HellosFirst(s) => /\ HellosFirst(Tail(s)) /\ HellosFirst(<<Head(s)>> \o s)
                                     /\ Head(s) # Hello => Hello \notin ToSet(s)
<1>1. HellosFirst(<<>>) /\ HellosFirst(<<Hello>>)
  <2>1. Len(<<>>) = 0 /\ Len(<<Hello>>) = 1
    OBVIOUS
  <2> QED
    BY <2>1 DEF HellosFirst
<1>2. ASSUME NEW s \in Seq(Frame), NEW f \in Frame, HellosFirst(s), f # Hello
      PROVE  HellosFirst(Append(s, f))
  <2>1. /\ Len(s) \in Nat /\ Len(Append(s, f)) = Len(s) + 1 /\ Append(s, f)[Len(s) + 1] = f
        /\ \A i \in 1..Len(s) : Append(s, f)[i] = s[i]
    OBVIOUS
  <2> SUFFICES ASSUME NEW i \in 1..(Len(s) + 1), NEW j \in 1..(Len(s) + 1), i < j,
                      Append(s, f)[j] = Hello
               PROVE  Append(s, f)[i] = Hello
    BY <2>1 DEF HellosFirst
  <2>2. i \in 1..Len(s) /\ j \in 1..Len(s)
    BY <1>2, <2>1
  <2> QED
    BY <1>2, <2>1, <2>2 DEF HellosFirst
<1>3. ASSUME NEW s \in Seq(Frame), s # <<>>, HellosFirst(s)
      PROVE  /\ HellosFirst(Tail(s)) /\ HellosFirst(<<Head(s)>> \o s)
             /\ Head(s) # Hello => Hello \notin ToSet(s)
  <2> DEFINE t == Tail(s)
             r == <<Head(s)>> \o s
  <2>1. /\ Len(s) \in Nat \ {0} /\ Head(s) = s[1]
        /\ Len(t) = Len(s) - 1 /\ \A i \in 1..(Len(s) - 1) : t[i] = s[i + 1]
    BY <1>3
  <2>2. /\ Len(r) = Len(s) + 1 /\ r[1] = Head(s)
        /\ \A i \in 1..Len(s) : r[i + 1] = s[i]
    BY <1>3
  <2> HIDE DEF t, r
  <2>3. HellosFirst(t)
    <3> SUFFICES ASSUME NEW i \in 1..(Len(s) - 1), NEW j \in 1..(Len(s) - 1), i < j, t[j] = Hello
                 PROVE  t[i] = Hello
      BY <2>1 DEF HellosFirst
    <3>1. i + 1 \in 1..Len(s) /\ j + 1 \in 1..Len(s) /\ i + 1 < j + 1
      BY <2>1
    <3>2. s[j + 1] = Hello
      BY <2>1
    <3>3. s[i + 1] = Hello
      BY <1>3, <3>1, <3>2 DEF HellosFirst
    <3> QED
      BY <2>1, <3>3
  <2>4. HellosFirst(r)
    <3> SUFFICES ASSUME NEW i \in 1..(Len(s) + 1), NEW j \in 1..(Len(s) + 1), i < j, r[j] = Hello
                 PROVE  r[i] = Hello
      BY <2>2 DEF HellosFirst
    <3>1. j - 1 \in 1..Len(s) /\ (j - 1) + 1 = j
      BY <2>1
    <3>2. s[j - 1] = Hello
      BY <2>2, <3>1
    <3>3. CASE i = 1
      <4>1. s[1] = Hello
        BY <1>3, <2>1, <3>1, <3>2 DEF HellosFirst
      <4> QED
        BY <2>1, <2>2, <3>3, <4>1
    <3>4. CASE i # 1
      <4>1. i - 1 \in 1..Len(s) /\ (i - 1) + 1 = i /\ i - 1 < j - 1
        BY <2>1, <3>4
      <4>2. s[i - 1] = Hello
        BY <1>3, <3>1, <3>2, <4>1 DEF HellosFirst
      <4> QED
        BY <2>2, <4>1, <4>2
    <3> QED
      BY <3>3, <3>4
  <2>5. ASSUME Head(s) # Hello, Hello \in ToSet(s) PROVE FALSE
    <3>1. PICK j \in 1..Len(s) : s[j] = Hello
      BY <2>5 DEF ToSet
    <3>2. j # 1 /\ 1 \in 1..Len(s) /\ 1 < j
      BY <2>1, <2>5, <3>1
    <3> QED
      BY <1>3, <2>1, <2>5, <3>1, <3>2 DEF HellosFirst
  <2> QED
    BY <2>3, <2>4, <2>5 DEF t, r
<1> QED
  BY <1>1, <1>2, <1>3

-----------------------------------------------------------------------------
(* An attempt that began on a quiet link.                                    *)

\* SetOfConcat, for frames and for lines.
LEMMA FrameConcat ==
  \A s, t \in Seq(Frame) : ToSet(s \o t) = ToSet(s) \cup ToSet(t)
BY SetOfConcat

LEMMA ReplyConcat ==
  \A s, t \in Seq(ReplyLine) : ToSet(s \o t) = ToSet(s) \cup ToSet(t)
BY SetOfConcat

LEMMA QueueSets ==
  ASSUME LinkTypes
  PROVE  /\ \A f \in Frame : ToSet(Append(up, f)) = ToSet(up) \cup {f}
         /\ \A l \in ReplyLine : /\ ToSet(Append(replies, l)) = ToSet(replies) \cup {l}
                                 /\ ToSet(down \o <<l>>) = ToSet(down) \cup {l}
         /\ \A l, m \in ReplyLine : ToSet(down \o <<l, m>>) = ToSet(down) \cup {l, m}
         /\ up # <<>> => /\ Head(up) \in ToSet(up) /\ ToSet(Tail(up)) \subseteq ToSet(up)
                         /\ ToSet(<<Head(up)>> \o up) = ToSet(up)
         /\ down # <<>> => Head(down) \in ToSet(down) /\ ToSet(Tail(down)) \subseteq ToSet(down)
         /\ replies # <<>> => /\ Head(replies) \in ToSet(replies)
                              /\ ToSet(Tail(replies)) \subseteq ToSet(replies)
         /\ ToSet(up) \subseteq Frame /\ ToSet(replies) \subseteq ReplyLine
         /\ ToSet(down) \subseteq ReplyLine
<1>0. up \in Seq(Frame) /\ replies \in Seq(ReplyLine) /\ down \in Seq(ReplyLine)
  BY DEF LinkTypes
<1>1. \A f \in Frame : ToSet(Append(up, f)) = ToSet(up) \cup {f}
  BY <1>0, SetOfAppend
<1>2. \A l \in ReplyLine : ToSet(Append(replies, l)) = ToSet(replies) \cup {l}
  BY <1>0, SetOfAppend
<1>3. ASSUME NEW l \in ReplyLine PROVE ToSet(down \o <<l>>) = ToSet(down) \cup {l}
  <2>1. <<l>> \in Seq(ReplyLine)
    OBVIOUS
  <2>2. ToSet(down \o <<l>>) = ToSet(down) \cup ToSet(<<l>>)
    BY <1>0, <2>1, ReplyConcat, Zenon
  <2> QED
    BY <2>2, SetOfShort, Zenon
<1>4. ASSUME NEW l \in ReplyLine, NEW m \in ReplyLine
      PROVE  ToSet(down \o <<l, m>>) = ToSet(down) \cup {l, m}
  <2>1. <<l, m>> \in Seq(ReplyLine)
    OBVIOUS
  <2>2. ToSet(down \o <<l, m>>) = ToSet(down) \cup ToSet(<<l, m>>)
    BY <1>0, <2>1, ReplyConcat, Zenon
  <2> QED
    BY <2>2, SetOfShort, Zenon
<1>5. ASSUME up # <<>>
      PROVE  /\ Head(up) \in ToSet(up) /\ ToSet(Tail(up)) \subseteq ToSet(up)
             /\ ToSet(<<Head(up)>> \o up) = ToSet(up)
  <2>1. /\ Head(up) \in Frame /\ Head(up) \in ToSet(up)
        /\ ToSet(Tail(up)) \subseteq ToSet(up)
    BY <1>0, <1>5, SetOfTail
  <2>2. <<Head(up)>> \in Seq(Frame)
    BY <2>1
  <2>3. ToSet(<<Head(up)>> \o up) = ToSet(<<Head(up)>>) \cup ToSet(up)
    BY <1>0, <2>2, FrameConcat, Zenon
  <2>4. ToSet(<<Head(up)>>) = {Head(up)}
    BY SetOfShort, Zenon
  <2>5. ToSet(<<Head(up)>> \o up) = ToSet(up)
    BY ONLY <2>1, <2>3, <2>4, Zenon
  <2> QED
    BY <2>1, <2>5
<1>6. down # <<>> => Head(down) \in ToSet(down) /\ ToSet(Tail(down)) \subseteq ToSet(down)
  BY <1>0, SetOfTail
<1>7. replies # <<>> => /\ Head(replies) \in ToSet(replies)
                        /\ ToSet(Tail(replies)) \subseteq ToSet(replies)
  BY <1>0, SetOfTail
<1>8. /\ ToSet(up) \subseteq Frame /\ ToSet(replies) \subseteq ReplyLine
      /\ ToSet(down) \subseteq ReplyLine
  BY <1>0, SetInType
<1> QED
  BY <1>1, <1>2, <1>3, <1>4, <1>5, <1>6, <1>7, <1>8, Zenon

QuietBody ==
  /\ pc = "hello" => Drained /\ up = <<>> /\ down = <<>>
  /\ SentInv /\ AnswerInv

(* StartOta on a quiet link.                                                 *)
LEMMA QuietStart ==
  ASSUME TypeOK, NEW p \in Packages, StartOta(p), quiet'
  PROVE  QuietBody'
<1>1. /\ up = <<>> /\ down = <<>> /\ Ready \notin ToSet(replies)
      /\ up' = up /\ down' = down /\ replies' = replies /\ next' = next
      /\ pc' = "hello" /\ frame' = Hello /\ offset' = 0 /\ resetting'
  BY Zenon DEF StartOta, deviceVars
<1>2. ToSet(<<>>) = {} /\ HellosFirst(<<>>) /\ next \in Nat
  BY SetOfShort, HellosOf DEF TypeOK
<1>3. SentInv'
  BY <1>1, <1>2 DEF SentInv
<1>4. Answers' = {} /\ ~ HelloPending'
  BY <1>1, <1>2 DEF Answers, HelloPending
<1>5. AnswerInv'
  BY <1>1, <1>2, <1>4 DEF AnswerInv
<1> QED
  BY <1>1, <1>3, <1>5 DEF QuietBody, Drained

(* What the device holds is as it was.                                       *)
LEMMA JoinedKept ==
  ASSUME Joined, UNCHANGED <<package, next, image>>
  PROVE  Joined'
  BY DEF Joined, Image

LEMMA StagedKept ==
  ASSUME staged = Image(package), UNCHANGED <<package, staged>>
  PROVE  (staged = Image(package))'
  BY DEF Image

(* The uploader reads a line, gives up or takes the next frame.              *)
LEMMA QuietRead ==
  ASSUME TypeOK, HostInv, QuietBody, HostInv',
         ReadReady \/ ReadOk \/ HandshakeFails \/ RetryFrame \/ FrameRejected
           \/ BeginOrDataAcked \/ CommitAcked \/ ReadTrailer
  PROVE  QuietBody'
<1>0. LinkTypes /\ next \in Nat /\ offset \in Nat
  BY TypeParts DEF LinkTypes, HostTypes
<1>q. /\ replies # <<>> => /\ Head(replies) \in ToSet(replies)
                           /\ ToSet(Tail(replies)) \subseteq ToSet(replies)
      /\ ToSet(replies) \subseteq ReplyLine
  BY <1>0, QueueSets
<1>1. /\ Read \/ TimedOut
      /\ UNCHANGED <<up, down, next, image, staged, resetting, package>>
      /\ pc \in {"ready", "ok", "wait", "trailer"}
  BY DEF ReadReady, ReadOk, HandshakeFails, RetryFrame, FrameRejected, BeginOrDataAcked,
     CommitAcked, ReadTrailer, waitUnchanged, deviceVars, Conclude, Exchange, guiVars
<1>2. ToSet(replies') \subseteq ToSet(replies)
  BY <1>1, <1>q DEF Read, TimedOut
<1>3. pc' # "hello"
  BY DEF ReadReady, ReadOk, HandshakeFails, RetryFrame, FrameRejected, BeginOrDataAcked,
     CommitAcked, ReadTrailer, Conclude, Exchange
<1>4. Answers' \subseteq Answers
  BY <1>1, <1>2 DEF Answers
<1>5. /\ Joined => Joined'
      /\ staged = Image(package) => (staged = Image(package))'
      /\ HelloPending' <=> HelloPending
  BY <1>1, JoinedKept, StagedKept DEF HelloPending
<1>l. ASSUME Read, ~ resetting PROVE Line \in Answers /\ Line \in ReplyLine /\ Line \in ToSet(replies)
  BY <1>1, <1>q, <1>l DEF Read, Line, Answers
<1>k. ASSUME frame' = frame, offset' = offset, pc' # "trailer",
             pc' \in {"ok", "send", "wait", "trailer"} => ~ resetting,
             pc' = "ok" => Joined
      PROVE  QuietBody'
  <2>1. SentInv'
    BY <1>1, <1>k DEF QuietBody, SentInv, DataFrame, Payload, Image
  <2>2. AnswerInv'
    BY <1>1, <1>2, <1>3, <1>4, <1>5, <1>k DEF QuietBody, AnswerInv
  <2> QED
    BY <1>3, <2>1, <2>2 DEF QuietBody
<1>c. ASSUME NEW r, NEW why, Conclude(r, why) PROVE QuietBody'
  BY <1>c, <1>k DEF Conclude
<1>6. CASE ReadReady
  <2>1. Line = Ready /\ Line \in ToSet(replies) /\ frame' = frame /\ offset' = offset /\ pc' = "ok"
    BY <1>6, <1>q DEF ReadReady, Read, Line
  <2>2. ~ resetting /\ Joined
    BY <2>1 DEF QuietBody, AnswerInv
  <2> QED
    BY <2>1, <2>2, <1>k
<1>7. CASE ReadOk
  <2>1. CASE Exchange(BeginFrame, 0)
    <3>1. pc = "ok" /\ frame' = BeginFrame /\ offset' = 0 /\ pc' = "send" /\ frame = Hello
      BY <1>7, <2>1 DEF ReadOk, Exchange, HostInv
    <3>2. SentInv'
      BY <1>1, <3>1, FrameFacts DEF QuietBody, SentInv, DataFrame, Payload, Image
    <3>3. AnswerInv'
      BY <1>0, <1>1, <1>2, <1>4, <1>5, <3>1 DEF QuietBody, AnswerInv
    <3> QED
      BY <3>1, <3>2, <3>3 DEF QuietBody
  <2> QED
    BY <1>7, <2>1, <1>c DEF ReadOk
<1>8. CASE HandshakeFails
  BY <1>8, <1>c DEF HandshakeFails
<1>9. CASE RetryFrame
  <2>1. CASE Conclude("failed", "timeout")
    BY <2>1, <1>c
  <2>2. CASE ~ Conclude("failed", "timeout")
    <3>1. pc = "wait" /\ pc' = "send" /\ frame' = frame /\ offset' = offset
      BY <1>9, <2>2 DEF RetryFrame
    <3> QED
      BY <3>1, <1>k DEF QuietBody, AnswerInv
  <2> QED
    BY <2>1, <2>2
<1>10. CASE FrameRejected
  BY <1>10, <1>c DEF FrameRejected
<1>11. CASE BeginOrDataAcked
  <2>0. pc = "wait" /\ Read /\ Acknowledged(Line) /\ frame.type \in {"begin", "data"} /\ frame # Hello
    BY <1>11, FrameFacts DEF BeginOrDataAcked, HostInv
  <2>1. CASE Conclude("failed", "offset")
    BY <2>1, <1>c
  <2>2. CASE ~ Conclude("failed", "offset")
    <3>1. Line.next = Expected /\ offset' = Expected /\ pc' = "send"
      BY <1>11, <2>2 DEF BeginOrDataAcked, Exchange
    <3>2. frame' = IF Expected < ImageSize[package] THEN DataFrame(package, Expected)
                   ELSE CommitFrame(Expected)
      BY <1>11, <2>2 DEF BeginOrDataAcked, Exchange
    <3>3. ~ resetting /\ Joined
      BY <2>0 DEF QuietBody, AnswerInv
    <3>4. Line \in Answers /\ Line \in ReplyLine
      BY <2>0, <3>3, <1>l
    <3>5. Line.kind \in {"ack", "staged"} /\ Line \notin {Ready, Ok}
      BY <2>0, LineFacts DEF Acknowledged
    <3>6. ~ HelloPending
      BY <3>4, <3>5 DEF QuietBody, AnswerInv
    <3>7. Expected <= next
      BY <1>0, <3>1, <3>4, <3>5, LineFacts DEF QuietBody, AnswerInv
    <3>8. frame' # Hello /\ frame'.type \in {"data", "commit"}
      BY <2>0, <3>2, ExpectedFacts, NextFrame
    <3>9. frame' \notin {Hello, BeginFrame}
      BY <3>8, FrameFacts
    <3>10. SentInv'
      <4>1. \A f \in ToSet(up) : f.type # "commit"
        BY <2>0, FrameFacts DEF QuietBody, SentInv, BeginFrame, Hello, DataFrame
      <4> QED
        BY <1>1, <3>9, <4>1 DEF QuietBody, SentInv, DataFrame, Payload, Image
    <3>11. AnswerInv'
      BY <1>1, <1>2, <1>4, <1>5, <3>1, <3>3, <3>6, <3>7 DEF QuietBody, AnswerInv
    <3> QED
      BY <3>1, <3>10, <3>11 DEF QuietBody
  <2> QED
    BY <2>1, <2>2
<1>12. CASE CommitAcked
  <2>0. pc = "wait" /\ Read /\ frame.type = "commit"
    BY <1>12 DEF CommitAcked
  <2>1. CASE Conclude("failed", "unstaged")
    BY <2>1, <1>c
  <2>2. CASE ~ Conclude("failed", "unstaged")
    <3>1. Line = Staged /\ pc' = "trailer" /\ frame' = frame /\ offset' = offset
      BY <1>12, <2>2 DEF CommitAcked
    <3>2. ~ resetting
      BY <2>0 DEF QuietBody, AnswerInv
    <3>3. staged = Image(package)
      BY <2>0, <3>1, <3>2, <1>l, LineFacts DEF QuietBody, AnswerInv
    <3>4. SentInv'
      BY <1>1, <3>1 DEF QuietBody, SentInv, DataFrame, Payload, Image
    <3>5. AnswerInv'
      BY <1>1, <1>2, <1>4, <1>5, <3>1, <3>2, <3>3 DEF QuietBody, AnswerInv
    <3> QED
      BY <3>1, <3>4, <3>5 DEF QuietBody
  <2> QED
    BY <2>1, <2>2
<1>13. CASE ReadTrailer
  BY <1>13, <1>c DEF ReadTrailer
<1> QED
  BY <1>6, <1>7, <1>8, <1>9, <1>10, <1>11, <1>12, <1>13

(* The uploader sends a frame: HELLO, the frame of an exchange, or CANCEL.   *)
LEMMA QuietSend ==
  ASSUME TypeOK, HostInv, QuietBody, SendHello \/ SendFrame
  PROVE  QuietBody'
<1>0. LinkTypes /\ frame \in Frame /\ offset \in Nat
  BY TypeParts DEF LinkTypes, HostTypes
<1>q. \A f \in Frame : ToSet(Append(up, f)) = ToSet(up) \cup {f}
  BY <1>0, QueueSets
<1>h. \A f \in Frame : HellosFirst(up) /\ f # Hello => HellosFirst(Append(up, f))
  BY <1>0, HellosOf DEF LinkTypes
<1>1. /\ UNCHANGED <<down, next, image, staged, resetting, package, replies, frame, offset>>
      /\ pc \in {"hello", "send"} /\ package \in Packages
  BY DEF SendHello, SendFrame, Cancelled, Conclude, guiVars, deviceVars, HostInv
<1>2. /\ Joined => Joined'
      /\ staged = Image(package) => (staged = Image(package))'
  BY <1>1, JoinedKept, StagedKept
<1>3. CASE Cancelled
  <2> DEFINE f == CancelFrame(offset)
  <2>1. up' = Append(up, f) /\ pc' = "done"
    BY <1>3 DEF Cancelled, Transmit, Conclude
  <2>2. f \in Frame /\ f.type = "cancel" /\ f # Hello
    BY <1>0, FrameFacts
  <2> HIDE DEF f
  <2>3. ToSet(up') = ToSet(up) \cup {f} /\ (HellosFirst(up) => HellosFirst(up'))
    BY <2>1, <2>2, <1>q, <1>h
  <2>4. SentInv'
    BY <1>1, <2>2, <2>3, <2>1, <1>h DEF QuietBody, SentInv, DataFrame, Payload, Image
  <2>5. Answers' \subseteq Answers /\ (HelloPending' <=> HelloPending)
    BY <1>1, <2>1, <2>2, <1>q DEF Answers, HelloPending
  <2>6. AnswerInv'
    BY <1>1, <1>2, <2>1, <2>5 DEF QuietBody, AnswerInv
  <2> QED
    BY <2>1, <2>4, <2>6 DEF QuietBody
<1>4. CASE SendHello /\ ~ Cancelled
  <2>1. pc = "hello" /\ up' = Append(up, Hello) /\ pc' = "ready" /\ frame = Hello
    BY <1>4 DEF SendHello, Transmit, HostInv
  <2>0. ToSet(<<>>) = {}
    BY SetOfShort, Zenon
  <2>2. up = <<>> /\ down = <<>> /\ Drained /\ Ready \notin ToSet(replies)
    BY <2>0, <2>1 DEF QuietBody, AnswerInv, Drained
  <2>3. up' = <<Hello>> /\ ToSet(up') = {Hello} /\ HellosFirst(up') /\ ToSet(down) = {}
    <3>1. up' = <<Hello>>
      BY <2>1, <2>2
    <3>2. ToSet(<<Hello>>) = {Hello} /\ ToSet(<<>>) = {}
      BY SetOfShort, Zenon
    <3>3. HellosFirst(<<Hello>>)
      BY HellosOf, Zenon
    <3> QED
      BY <2>2, <3>1, <3>2, <3>3, Zenon
  <2>4. SentInv'
    <3>1. \A f \in ToSet(up') : f = Hello
      BY <2>3
    <3> QED
      BY <1>1, <2>3, <3>1 DEF SentInv
  <2>5. Answers' = {}
    BY <1>1, <2>0, <2>1, <2>2, <2>3 DEF Answers, Drained
  <2>6. AnswerInv'
    BY <1>1, <2>1, <2>2, <2>3, <2>5 DEF QuietBody, AnswerInv
  <2> QED
    BY <2>1, <2>4, <2>6 DEF QuietBody
<1>5. CASE SendFrame /\ ~ Cancelled
  <2>1. pc = "send" /\ up' = Append(up, frame) /\ pc' = "wait" /\ frame # Hello
    BY <1>5 DEF SendFrame, Transmit, HostInv
  <2>2. ToSet(up') = ToSet(up) \cup {frame} /\ (HellosFirst(up) => HellosFirst(up'))
    BY <1>0, <2>1, <1>q, <1>h
  <2>3. \/ frame = BeginFrame
        \/ /\ frame = DataFrame(package, frame.offset) /\ frame.offset < ImageSize[package]
           /\ frame.type = "data"
        \/ frame.type = "commit"
    BY <1>0, <1>1, <2>1, FrameFacts, DataFacts DEF HostInv
  <2>4. frame.type = "data" => frame \notin {Hello, BeginFrame}
    BY <2>1, FrameFacts
  <2>5. SentInv'
    BY <1>0, <1>1, <2>1, <2>3, <2>4, <1>q, <1>h DEF QuietBody, SentInv, DataFrame, Payload, Image
  <2>6. Answers' \subseteq Answers /\ (HelloPending' <=> HelloPending)
    BY <1>0, <1>1, <2>1, <1>q DEF Answers, HelloPending
  <2>7. AnswerInv'
    BY <1>1, <1>2, <2>1, <2>6 DEF QuietBody, AnswerInv
  <2> QED
    BY <2>1, <2>5, <2>7 DEF QuietBody
<1> QED
  BY <1>3, <1>4, <1>5

(* The worker takes a line off the stream, and the GUI's steps.              *)
LEMMA QuietHost ==
  ASSUME TypeOK, HostInv, QuietBody,
         ReceiveLine \/ ReceiveFrames \/ CancelOta \/ EndOta \/ LoseReply \/ UNCHANGED vars
  PROVE  QuietBody'
<1>0. LinkTypes
  BY TypeParts
<1>q. /\ \A l \in ReplyLine : ToSet(Append(replies, l)) = ToSet(replies) \cup {l}
      /\ down # <<>> => Head(down) \in ToSet(down) /\ ToSet(Tail(down)) \subseteq ToSet(down)
      /\ ToSet(down) \subseteq ReplyLine
  BY <1>0, QueueSets
<1>1. UNCHANGED <<up, next, image, staged, package, frame, offset>>
  BY DEF ReceiveLine, ReceiveFrames, CancelOta, EndOta, LoseReply, vars, guiVars, hostVars, deviceVars,
     linkUnchanged
<1>2. /\ Joined => Joined'
      /\ staged = Image(package) => (staged = Image(package))'
      /\ HelloPending' <=> HelloPending
  BY <1>1, JoinedKept, StagedKept DEF HelloPending
<1>3. SentInv'
  BY <1>1 DEF QuietBody, SentInv, DataFrame, Payload, Image
<1>k. ASSUME Answers' \subseteq Answers,
             ToSet(down') \cup ToSet(replies') \subseteq ToSet(down) \cup ToSet(replies),
             resetting' => resetting /\ ToSet(replies') \subseteq ToSet(replies),
             pc' = pc \/ pc' = "idle",
             pc' = "hello" => down' = <<>> /\ Drained'
      PROVE  QuietBody'
  <2>1. AnswerInv'
    BY <1>1, <1>2, <1>k DEF QuietBody, AnswerInv
  <2> QED
    BY <1>1, <1>3, <1>k, <2>1 DEF QuietBody
<1>4. CASE ReceiveLine
  <2>1. down # <<>> /\ down' = Tail(down) /\ ~ resetting' /\ pc' = pc /\ pc # "hello"
    BY <1>4, Zenon DEF ReceiveLine, hostVars, QuietBody
  <2>2. ToSet(<<Head(down)>>) = {Head(down)}
    BY SetOfShort, Zenon
  <2>3. Head(down) \in ToSet(down) /\ ToSet(down') \subseteq ToSet(down) /\ Head(down) \in ReplyLine
    BY <2>1, <1>q
  <2>4. \/ ~ armed /\ replies' = replies
        \/ armed /\ resetting /\ replies' = <<Head(down)>>
        \/ armed /\ ~ resetting /\ replies' = Append(replies, Head(down))
    BY <1>4 DEF ReceiveLine
  <2>5. ToSet(replies') \subseteq ToSet(replies) \cup {Head(down)}
    BY <2>2, <2>3, <2>4, <1>q
  <2>6. pc # "idle" => armed
    BY DEF HostInv
  <2>7. Answers' \subseteq Answers
    BY <2>1, <2>2, <2>3, <2>4, <2>6, <1>q DEF Answers
  <2> QED
    BY <2>1, <2>3, <2>5, <2>7, <1>k
<1>8. CASE ReceiveFrames
  <2>1. replies' = <<>> /\ ~ resetting' /\ pc' = pc /\ down' = down
    BY <1>8, Zenon DEF ReceiveFrames, hostVars
  <2>2. ToSet(<<>>) = {}
    BY SetOfShort, Zenon
  <2>3. Answers' \subseteq Answers
    BY <2>1, <2>2 DEF Answers
  <2>4. Drained'
    BY <2>1 DEF Drained
  <2> QED
    BY <2>1, <2>2, <2>3, <2>4, <1>k DEF QuietBody
<1>5. CASE CancelOta \/ UNCHANGED vars
  <2>1. UNCHANGED <<pc, replies, down, resetting>>
    BY <1>5 DEF CancelOta, vars, hostVars
  <2>2. Answers' = Answers /\ Drained' = Drained
    BY <2>1 DEF Answers, Drained
  <2> QED
    BY <2>1, <2>2, <1>k DEF QuietBody
<1>6. CASE EndOta
  <2>1. pc' = "idle" /\ replies' = replies /\ down' = down /\ ~ resetting'
    BY <1>6, Zenon DEF EndOta
  <2>2. Answers' \subseteq Answers
    BY <2>1 DEF Answers
  <2> QED
    BY <2>1, <2>2, <1>k
<1>7. CASE LoseReply
  <2>1. UNCHANGED <<pc, replies, resetting>> /\ down # <<>> /\ down' = Tail(down)
    BY <1>7 DEF LoseReply, linkUnchanged, hostVars
  <2>2. ToSet(down') \subseteq ToSet(down) /\ pc # "hello"
    BY <2>1, <1>q DEF QuietBody
  <2>3. Answers' \subseteq Answers
    BY <2>1, <2>2 DEF Answers
  <2> QED
    BY <2>1, <2>2, <2>3, <1>k
<1> QED
  BY <1>4, <1>5, <1>6, <1>7, <1>8

(* The device answers a frame, or the link loses, repeats or damages it.     *)
LEMMA QuietDevice ==
  ASSUME TypeOK, TypeOK', HostInv, QuietBody,
         Device \/ LoseFrame \/ RepeatFrame \/ DamageFrame \/ BusyDevice
  PROVE  QuietBody'
<1>0. LinkTypes /\ next \in Nat /\ offset \in Nat
  BY TypeParts DEF LinkTypes, HostTypes
<1>q. /\ \A l \in ReplyLine : ToSet(down \o <<l>>) = ToSet(down) \cup {l}
      /\ \A l, m \in ReplyLine : ToSet(down \o <<l, m>>) = ToSet(down) \cup {l, m}
      /\ up # <<>> => /\ Head(up) \in ToSet(up) /\ ToSet(Tail(up)) \subseteq ToSet(up)
                      /\ ToSet(<<Head(up)>> \o up) = ToSet(up)
      /\ ToSet(down) \subseteq ReplyLine /\ ToSet(replies) \subseteq ReplyLine
      /\ ToSet(up) \subseteq Frame
  BY <1>0, QueueSets
<1>h. up # <<>> /\ HellosFirst(up) => /\ HellosFirst(Tail(up)) /\ HellosFirst(<<Head(up)>> \o up)
                                      /\ Head(up) # Hello => Hello \notin ToSet(up)
  BY <1>0, HellosOf DEF LinkTypes
<1>1. /\ UNCHANGED <<package, pc, frame, offset, resetting, replies>>
      /\ up # <<>> /\ up' \in {Tail(up), <<Head(up)>> \o up}
  BY DEF Device, DeviceHello, DeviceBegin, DeviceCancel, DeviceCommit, DeviceData, LoseFrame,
     RepeatFrame, DamageFrame, BusyDevice, Answer, guiVars, hostVars, linkUnchanged
<1>2. pc # "hello" /\ package \in Packages /\ HellosFirst(up)
  BY <1>1 DEF QuietBody, SentInv
<1>3. ToSet(up') \subseteq ToSet(up) /\ HellosFirst(up') /\ Head(up) \in ToSet(up)
  BY <1>1, <1>2, <1>q, <1>h
<1>4. SentInv'
  BY <1>1, <1>2, <1>3 DEF QuietBody, SentInv, DataFrame, Payload, Image
<1>5. HelloPending' => Head(up) = Hello
  BY <1>1, <1>2, <1>3, <1>h DEF HelloPending
<1> DEFINE N == ToSet(down') \ ToSet(down)
<1>k. ASSUME HelloPending' => HelloPending /\ N \subseteq {Ready, Ok},
             offset <= next',
             frame # Hello \/ pc = "ok" \/ Ready \in ToSet(down') \cup ToSet(replies) => Joined',
             \A l \in Answers : l.kind = "ack" => l.next <= next',
             \A l \in N : /\ l.kind = "ack" => l.next <= next'
                          /\ l.kind = "staged" => l = Staged /\ (staged = Image(package))',
             staged = Image(package) => (staged = Image(package))'
      PROVE  QuietBody'
  <2>1. Answers' \subseteq Answers \cup N
    BY <1>1, <1>k DEF Answers
  <2>2. AnswerInv'
    BY <1>1, <1>k, <2>1 DEF QuietBody, AnswerInv
  <2> QED
    BY <1>1, <1>2, <1>4, <2>2 DEF QuietBody
<1>s. ASSUME UNCHANGED <<next, image, staged>>,
             HelloPending' => HelloPending /\ N = {},
             Ready \notin N,
             \A l \in N : l.kind # "staged" /\ (l.kind = "ack" => l.next <= next)
      PROVE  QuietBody'
  <2>1. /\ Joined => Joined'
        /\ staged = Image(package) => (staged = Image(package))'
    BY <1>1, <1>s, JoinedKept, StagedKept
  <2>2. frame # Hello \/ pc = "ok" \/ Ready \in ToSet(down') \cup ToSet(replies) => Joined'
    BY <1>s, <2>1 DEF QuietBody, AnswerInv
  <2>3. offset <= next' /\ \A l \in Answers : l.kind = "ack" => l.next <= next'
    BY <1>s DEF QuietBody, AnswerInv
  <2> QED
    BY <1>s, <2>1, <2>2, <2>3, <1>k
<1>6. CASE DeviceHello
  <2>1. /\ Head(up).type = "hello" /\ down' = down \o <<Ready, Ok>> /\ next' = 0 /\ image' = <<>>
        /\ staged' = staged
    BY <1>6 DEF DeviceHello, Answer
  <2>2. Head(up) = Hello
    BY <1>3, <2>1, FrameFacts DEF QuietBody, SentInv, DataFrame
  <2>3. HelloPending
    BY <1>3, <2>2 DEF HelloPending
  <2>4. frame \in {Hello, BeginFrame} /\ Answers \subseteq {Ready, Ok}
    BY <2>3 DEF QuietBody, AnswerInv
  <2>5. offset = 0
    BY <1>0, <2>4, FrameFacts, DataFacts, <1>2 DEF HostInv
  <2>6. Joined'
    <3>1. SubSeq(Image(package), 1, 0) = <<>>
      BY <1>2, ImageFacts, SubSeqEmpty
    <3>2. ImageSize[package] \in Nat /\ Len(<<>>) = 0 /\ Image(package)' = Image(package)
      BY <1>1, <1>2, Constants DEF Image
    <3> QED
      BY <1>1, <1>2, <2>1, <3>1, <3>2 DEF Joined
  <2>7. ToSet(down') = ToSet(down) \cup {Ready, Ok} /\ {Ready, Ok} \subseteq ReplyLine
    BY <2>1, <1>q, LineFacts
  <2>8. \A l \in {Ready, Ok} : l.kind \notin {"ack", "staged"}
    BY LineFacts
  <2>9. staged = Image(package) => (staged = Image(package))'
    BY <1>1, <2>1, StagedKept
  <2>10. N \subseteq {Ready, Ok}
    BY <2>7
  <2> HIDE DEF N
  <2>11. /\ \A l \in Answers : l.kind = "ack" => l.next <= next'
         /\ \A l \in N : l.kind \notin {"ack", "staged"}
    BY <2>4, <2>8, <2>10
  <2>12. offset <= next'
    BY <2>1, <2>5
  <2> QED
    BY <2>3, <2>6, <2>9, <2>10, <2>11, <2>12, <1>k
<1>7. CASE DeviceBegin \/ DeviceCancel
  <2> DEFINE n == IF Head(up).type = "begin" THEN 0 ELSE next
  <2>1. /\ Head(up).type \in {"begin", "cancel"} /\ down' = down \o <<Ack(n)>>
        /\ UNCHANGED <<next, image, staged>>
    BY <1>7 DEF DeviceBegin, DeviceCancel, Answer, deviceVars
  <2>2. n \in Nat /\ n <= next
    BY <1>0
  <2> HIDE DEF n
  <2>3. Head(up) # Hello
    BY <2>1, FrameFacts
  <2>4. ToSet(down') = ToSet(down) \cup {Ack(n)} /\ {Ack(n)} \subseteq ReplyLine
    BY <2>1, <2>2, <1>q, LineFacts
  <2>5. Ready # Ack(n) /\ Ack(n).kind = "ack" /\ Ack(n).next = n
    BY <2>2, LineFacts
  <2> QED
    BY <1>5, <2>1, <2>2, <2>3, <2>4, <2>5, <1>s
<1>8. CASE DamageFrame \/ BusyDevice
  <2>0. PICK l \in {Nack, OffsetNack(next)} : down' = down \o <<l>>
    BY <1>8 DEF DamageFrame, BusyDevice, Answer
  <2>1. Head(up).type # "hello" /\ UNCHANGED <<next, image, staged>>
    BY <1>8 DEF DamageFrame, BusyDevice, Answer, deviceVars
  <2>2. l \in ReplyLine /\ l.kind \in {"nack", "offset"}
    BY <1>0, LineFacts
  <2>3. Head(up) # Hello
    BY <2>1, FrameFacts
  <2>4. ToSet(down') = ToSet(down) \cup {l}
    BY <2>0, <2>2, <1>q
  <2>5. Ready # l
    BY <2>2, LineFacts
  <2> QED
    BY <1>5, <2>1, <2>2, <2>3, <2>4, <2>5, <1>s
<1>9. CASE LoseFrame \/ RepeatFrame
  <2>1. down' = down /\ UNCHANGED <<next, image, staged>>
    BY <1>9 DEF LoseFrame, RepeatFrame, linkUnchanged, deviceVars
  <2>2. HelloPending' => HelloPending
    BY <1>3 DEF HelloPending
  <2>3. ToSet(down') \subseteq ToSet(down) \cup {}
    BY <2>1
  <2> QED
    BY <2>1, <2>2, <2>3, <1>s
<1>10. CASE DeviceCommit
  <2>1. /\ Head(up).type = "commit" /\ down' = down \o <<Staged, Ok>>
        /\ UNCHANGED <<next, image>> /\ staged' = image
    BY <1>10 DEF DeviceCommit, Answer
  <2>2. frame.type = "commit" /\ Head(up) # Hello /\ frame # Hello
    BY <1>3, <2>1, FrameFacts DEF QuietBody, SentInv, DataFrame
  <2>3. Joined /\ offset <= next /\ offset = ImageSize[package]
    BY <2>2, ExpectedFacts DEF QuietBody, AnswerInv
  <2>4. image = Image(package)
    <3>1. next = ImageSize[package] /\ image = SubSeq(Image(package), 1, next)
      BY <1>0, <1>2, <2>3, Constants DEF Joined
    <3> QED
      BY <1>2, <3>1, ImageFacts, SubSeqFull
  <2>5. (staged = Image(package))' /\ Joined'
    BY <1>1, <2>1, <2>3, <2>4, JoinedKept DEF Image
  <2>6. ToSet(down') = ToSet(down) \cup {Staged, Ok} /\ {Staged, Ok} \subseteq ReplyLine
    BY <2>1, <1>q, LineFacts
  <2>7. /\ \A l \in {Staged, Ok} : l.kind # "ack" /\ (l.kind = "staged" => l = Staged)
        /\ ~ HelloPending'
    BY <1>5, <2>2, LineFacts
  <2>8. \A l \in Answers : l.kind = "ack" => l.next <= next'
    BY <2>1 DEF QuietBody, AnswerInv
  <2> QED
    BY <2>1, <2>3, <2>5, <2>6, <2>7, <2>8, <1>k
<1>11. CASE DeviceData
  <2> DEFINE f == Head(up)
  <2>1. f.type = "data" /\ staged' = staged
    BY <1>11 DEF DeviceData, Answer
  <2>2. /\ f = DataFrame(package, f.offset) /\ f.offset < ImageSize[package]
        /\ frame # Hello /\ f # Hello /\ f \in Frame
    BY <1>q, <1>3, <2>1, FrameFacts DEF QuietBody, SentInv
  <2>3. f.offset \in Nat
    BY <2>2 DEF Frame
  <2>4. f.data = Payload(package, f.offset)
    BY <1>2, <2>2, <2>3, DataFacts
  <2>5. Joined
    BY <2>2 DEF QuietBody, AnswerInv
  <2>6. CASE f.offset = next
    <3> DEFINE n == next + Len(Payload(package, next))
    <3>1. image' = image \o Payload(package, next) /\ next' = n /\ down' = down \o <<Ack(n)>>
      BY <1>11, <2>4, <2>6 DEF DeviceData, Answer
    <3>2. /\ Len(Payload(package, next)) \in Nat \ {0} /\ n <= ImageSize[package]
          /\ Payload(package, next) \in Seq(Byte)
      BY <1>0, <1>2, <2>2, <2>6, PayloadFacts
    <3>3. SubSeq(Image(package), 1, next) \o Payload(package, next) = SubSeq(Image(package), 1, n)
      BY <1>0, <1>2, <2>2, <2>6, StoredBehind
    <3>4. image \in Seq(Byte)
      BY <1>0 DEF LinkTypes
    <3>5. n \in Nat /\ n > next
      BY <1>0, <3>2
    <3>6. Len(image \o Payload(package, next)) = n
      BY <2>5, <3>2, <3>4 DEF Joined
    <3> HIDE DEF n
    <3>7. Joined'
      BY <1>1, <1>2, <2>5, <3>1, <3>2, <3>3, <3>6 DEF Joined, Image
    <3>8. ToSet(down') = ToSet(down) \cup {Ack(n)} /\ {Ack(n)} \subseteq ReplyLine
      BY <3>1, <3>5, <1>q, LineFacts
    <3>9. Ack(n).kind = "ack" /\ Ack(n).next = n /\ n <= next' /\ ~ HelloPending'
      BY <1>5, <2>2, <3>1, <3>5, LineFacts
    <3>a. Answers \subseteq ReplyLine
      BY <1>q DEF Answers
    <3>10. offset <= next' /\ \A l \in Answers : l.kind = "ack" => l.next <= next'
      <4>1. \A l \in Answers : l.next \in Nat
        BY <3>a DEF ReplyLine
      <4> QED
        BY <1>0, <3>1, <3>5, <4>1 DEF QuietBody, AnswerInv
    <3>11. staged = Image(package) => (staged = Image(package))'
      BY <1>1, <2>1, StagedKept
    <3> QED
      BY <3>7, <3>8, <3>9, <3>10, <3>11, <1>k
  <2>7. CASE f.offset # next
    <3>1. UNCHANGED <<image, next>> /\ down' = down \o <<Ack(next)>>
      BY <1>11, <2>7 DEF DeviceData, Answer
    <3>2. ToSet(down') = ToSet(down) \cup {Ack(next)} /\ {Ack(next)} \subseteq ReplyLine
      BY <1>0, <3>1, <1>q, LineFacts
    <3>3. Ready # Ack(next) /\ Ack(next).kind = "ack" /\ Ack(next).next = next
      BY <1>0, LineFacts
    <3> QED
      BY <1>0, <1>5, <2>1, <2>2, <3>1, <3>2, <3>3, <1>s
  <2> QED
    BY <2>6, <2>7
<1> QED
  BY <1>6, <1>7, <1>8, <1>9, <1>10, <1>11 DEF Device

(* Only a new attempt looks at the link again.                               *)
LEMMA QuietKept ==
  ASSUME [Next]_vars, ~ \E p \in Packages : StartOta(p)
  PROVE  quiet' = quiet
  BY Zenon DEF Next, CancelOta, EndOta, Uploader, ReceiveLine, ReceiveFrames, Device, Link, SendHello, ReadReady,
     ReadOk, HandshakeFails, SendFrame, RetryFrame, FrameRejected, BeginOrDataAcked, CommitAcked,
     ReadTrailer, DeviceHello, DeviceBegin, DeviceCancel, DeviceCommit, DeviceData, LoseFrame,
     LoseReply, RepeatFrame, DamageFrame, BusyDevice, Cancelled, Conclude, Exchange, Answer,
     linkUnchanged, guiVars, vars

LEMMA QuietStep ==
  TypeOK /\ TypeOK' /\ HostInv /\ HostInv' /\ QuietInv /\ [Next]_vars => QuietInv'
<1> SUFFICES ASSUME TypeOK, TypeOK', HostInv, HostInv', QuietInv, [Next]_vars, quiet'
             PROVE  QuietBody'
  BY DEF QuietInv, QuietBody
<1>1. ASSUME NEW p \in Packages, StartOta(p) PROVE QuietBody'
  BY <1>1, QuietStart
<1>2. CASE ~ \E p \in Packages : StartOta(p)
  <2>1. quiet' = quiet
    BY <1>2, QuietKept
  <2>2. QuietBody
    BY <2>1, Zenon DEF QuietInv, QuietBody
  <2>3. CASE ReadReady \/ ReadOk \/ HandshakeFails \/ RetryFrame \/ FrameRejected
             \/ BeginOrDataAcked \/ CommitAcked \/ ReadTrailer
    BY <2>2, <2>3, QuietRead
  <2>4. CASE SendHello \/ SendFrame
    BY <2>2, <2>4, QuietSend
  <2>5. CASE ReceiveLine \/ ReceiveFrames \/ CancelOta \/ EndOta \/ LoseReply \/ UNCHANGED vars
    BY <2>2, <2>5, QuietHost
  <2>6. CASE Device \/ LoseFrame \/ RepeatFrame \/ DamageFrame \/ BusyDevice
    BY <2>2, <2>6, QuietDevice
  <2> QED
    BY <1>2, <2>3, <2>4, <2>5, <2>6, Zenon DEF Next, Uploader, Link
<1> QED
  BY <1>1, <1>2

-----------------------------------------------------------------------------
(* Losses.                                                                   *)

LEMMA OkFacts ==
  /\ OkIsLast(<<>>) /\ OkIsLast(<<Ready, Ok>>) /\ \A l \in ReplyLine : OkIsLast(<<l>>)
  /\ \A s \in Seq(ReplyLine) :
       s # <<>> /\ OkIsLast(s) => OkIsLast(Tail(s)) /\ (Head(s) = Ok => Tail(s) = <<>>)
  /\ \A s \in Seq(ReplyLine), l \in ReplyLine :
       Ok \notin ToSet(s) => OkIsLast(Append(s, l))
<1>1. OkIsLast(<<>>)
  BY DEF OkIsLast
<1>2. OkIsLast(<<Ready, Ok>>)
  <2>1. Len(<<Ready, Ok>>) = 2 /\ <<Ready, Ok>>[1] = Ready /\ Ready # Ok
    BY LineFacts
  <2> QED
    BY <2>1 DEF OkIsLast
<1>3. ASSUME NEW l \in ReplyLine PROVE OkIsLast(<<l>>)
  <2>1. Len(<<l>>) = 1
    OBVIOUS
  <2> QED
    BY <2>1 DEF OkIsLast
<1>4. ASSUME NEW s \in Seq(ReplyLine), s # <<>>, OkIsLast(s)
      PROVE  OkIsLast(Tail(s)) /\ (Head(s) = Ok => Tail(s) = <<>>)
  <2> DEFINE t == Tail(s)
  <2>1. /\ Len(s) \in Nat \ {0} /\ Head(s) = s[1] /\ Len(t) = Len(s) - 1
        /\ \A i \in 1..(Len(s) - 1) : t[i] = s[i + 1] /\ i + 1 \in 1..Len(s)
        /\ t \in Seq(ReplyLine)
    BY <1>4
  <2> HIDE DEF t
  <2>2. OkIsLast(t)
    <3> SUFFICES ASSUME NEW i \in 1..(Len(s) - 1), t[i] = Ok PROVE i = Len(s) - 1
      BY <2>1 DEF OkIsLast
    <3>1. s[i + 1] = Ok /\ i + 1 \in 1..Len(s)
      BY <2>1
    <3>2. i + 1 = Len(s)
      BY <1>4, <3>1 DEF OkIsLast
    <3> QED
      BY <2>1, <3>2
  <2>3. ASSUME Head(s) = Ok PROVE t = <<>>
    <3>1. 1 = Len(s)
      BY <1>4, <2>1, <2>3 DEF OkIsLast
    <3> QED
      BY <2>1, <3>1
  <2> QED
    BY <2>2, <2>3 DEF t
<1>5. ASSUME NEW s \in Seq(ReplyLine), NEW l \in ReplyLine, Ok \notin ToSet(s)
      PROVE  OkIsLast(Append(s, l))
  <2>1. /\ Len(s) \in Nat /\ Len(Append(s, l)) = Len(s) + 1
        /\ \A i \in 1..Len(s) : Append(s, l)[i] = s[i] /\ s[i] \in ToSet(s)
    BY DEF ToSet
  <2> QED
    BY <1>5, <2>1 DEF OkIsLast
<1> QED
  BY <1>1, <1>2, <1>3, <1>4, <1>5

LossBody == HandshakeInv /\ ExchangeInv /\ LossTolerated

(* Nothing but losses happened so far, and the step is no other fault.       *)
LEMMA BenignStep ==
  ASSUME TypeOK, [Next]_vars, benign'
  PROVE  /\ benign
         /\ \/ faults' = faults
            \/ faults' = faults + 1 /\ (LoseFrame \/ LoseReply)
         /\ TimedOut => Silent /\ replies' = replies
         /\ ~ RepeatFrame /\ ~ DamageFrame /\ ~ BusyDevice
<1>1. benign
  BY Zenon DEF Next, StartOta, CancelOta, EndOta, Uploader, ReceiveLine, ReceiveFrames, Device, Link, SendHello,
     ReadReady, ReadOk, HandshakeFails, SendFrame, RetryFrame, FrameRejected, BeginOrDataAcked,
     CommitAcked, ReadTrailer, DeviceHello, DeviceBegin, DeviceCancel, DeviceCommit, DeviceData,
     LoseFrame, LoseReply, RepeatFrame, DamageFrame, BusyDevice, Read, TimedOut, Fault, vars
<1>2. ASSUME NEW k, Fault(k) PROVE k \in {"loseFrame", "loseReply"} /\ faults' = faults + 1
  BY <1>2, Zenon DEF Fault
<1>n. ~ Fault("repeat") /\ ~ Fault("damage") /\ ~ Fault("busy") /\ ~ Fault("slow")
  BY Zenon DEF Fault
<1>3. ~ RepeatFrame /\ ~ DamageFrame /\ ~ BusyDevice
  BY <1>n, Zenon DEF RepeatFrame, DamageFrame, BusyDevice
<1>4. TimedOut => Silent /\ replies' = replies /\ faults' = faults
  BY <1>n, Zenon DEF TimedOut, Silent
<1>5. \/ faults' = faults
      \/ faults' = faults + 1 /\ (LoseFrame \/ LoseReply)
  <2>1. CASE LoseFrame \/ LoseReply
    BY <2>1, <1>2 DEF LoseFrame, LoseReply
  <2>2. CASE Read \/ TimedOut
    BY <2>2, <1>4 DEF Read
  <2>3. CASE ~ (LoseFrame \/ LoseReply \/ Read \/ TimedOut)
    BY <1>3, <2>3 DEF Next, StartOta, CancelOta, EndOta, Uploader, ReceiveLine, ReceiveFrames, Device, Link, SendHello,
       ReadReady, ReadOk, HandshakeFails, SendFrame, RetryFrame, FrameRejected, BeginOrDataAcked,
       CommitAcked, ReadTrailer, DeviceHello, DeviceBegin, DeviceCancel, DeviceCommit, DeviceData,
       vars
  <2> QED
    BY <2>1, <2>2, <2>3
<1> QED
  BY <1>1, <1>3, <1>4, <1>5

(* A frame is taken off a link that holds one.                               *)
LEMMA Single ==
  /\ \A x : Head(<<x>>) = x /\ Tail(<<x>>) = <<>> /\ Append(<<>>, x) = <<x>> /\ <<x>> # <<>>
  /\ \A x : <<>> \o <<x>> = <<x>>
  /\ \A x, y : <<>> \o <<x, y>> = <<x, y>>
  OBVIOUS

LEMMA LossRead ==
  ASSUME TypeOK, TypeOK', HostInv, QuietBody, LossBody, faults' = faults,
         TimedOut => Silent /\ replies' = replies,
         ReadReady \/ ReadOk \/ HandshakeFails \/ RetryFrame \/ FrameRejected
           \/ BeginOrDataAcked \/ CommitAcked \/ ReadTrailer
  PROVE  LossBody'
<1>0. /\ LinkTypes /\ faults \in Nat /\ next \in Nat /\ offset \in Nat /\ MaxRetries \in Nat
      /\ tries \in Nat /\ replies \in Seq(ReplyLine) /\ down \in Seq(ReplyLine)
  BY TypeParts, Constants DEF LinkTypes, HostTypes
<1>q. replies # <<>> => /\ Head(replies) \in ToSet(replies)
                        /\ ToSet(Tail(replies)) \subseteq ToSet(replies)
  BY <1>0, QueueSets
<1>1. /\ UNCHANGED <<up, down, next, resetting, package>>
      /\ pc \in {"ready", "ok", "wait", "trailer"} /\ result = "none"
  BY DEF ReadReady, ReadOk, HandshakeFails, RetryFrame, FrameRejected, BeginOrDataAcked,
     CommitAcked, ReadTrailer, waitUnchanged, deviceVars, Conclude, Exchange, guiVars, HostInv
<1>c. ASSUME NEW r, NEW why, Conclude(r, why),
             r # "failed" \/ why \in {"handshake", "size"} \/ frame.type = "commit" \/ faults > MaxRetries
      PROVE  LossBody'
  BY <1>0, <1>c DEF Conclude, LossBody, HandshakeInv, ExchangeInv, LossTolerated
<1>a. ASSUME Read, pc = "wait", frame.type # "commit"
      PROVE  /\ Line = Ack(Expected) /\ Line.kind = "ack" /\ Line.next = Expected
             /\ up = <<>> /\ down = <<>> /\ replies' = <<>> /\ next = Expected
  <2>1. replies # <<>> /\ Line \in ToSet(replies) /\ replies' = Tail(replies)
    BY <1>a, <1>q DEF Read, Line
  <2>2. /\ up = <<>> /\ Len(down) + Len(replies) = 1
        /\ ToSet(down) \cup ToSet(replies) = {Ack(Expected)} /\ next = Expected
    BY <1>a, <2>1 DEF LossBody, ExchangeInv, Silent
  <2>3. Len(replies) \in Nat \ {0} /\ Len(down) \in Nat
    BY <1>0, <2>1
  <2>e. \A a \in Nat \ {0}, b \in Nat : b + a = 1 => a = 1 /\ b = 0
    OBVIOUS
  <2>4. Len(replies) = 1 /\ Len(down) = 0
    BY ONLY <2>2, <2>3, <2>e
  <2>5. replies' = <<>> /\ down = <<>>
    BY <1>0, <2>1, <2>4
  <2>6. Ack(Expected).kind = "ack" /\ Ack(Expected).next = Expected
    BY DEF Ack
  <2>7. Line = Ack(Expected)
    BY <2>1, <2>2
  <2> QED
    BY <2>2, <2>5, <2>6, <2>7
<1>2. CASE ReadReady
  <2>1. /\ pc = "ready" /\ replies # <<>> /\ replies' = Tail(replies) /\ Line = Ready
        /\ Line \in ToSet(replies) /\ pc' = "ok" /\ result' = result
    BY <1>2, <1>q DEF ReadReady, Read, Line, guiVars
  <2>2. ~ resetting
    BY <2>1 DEF QuietBody, AnswerInv
  <2>3. Ready \in Answers
    BY <2>1, <2>2 DEF Answers
  <2>4. up = <<>> /\ HandshakeLines /\ next = 0
    BY <2>1, <2>2, <2>3 DEF LossBody, HandshakeInv, Drained
  <2>5. OkIsLast(replies') /\ ToSet(replies') \subseteq ToSet(replies)
    BY <1>0, <2>1, <2>4, <1>q, OkFacts DEF HandshakeLines
  <2>6. HandshakeLines'
    BY <1>1, <2>4, <2>5 DEF HandshakeLines
  <2> QED
    BY <1>1, <2>1, <2>4, <2>6 DEF LossBody, HandshakeInv, ExchangeInv, LossTolerated
<1>3. CASE ReadOk
  <2>1. CASE Exchange(BeginFrame, 0)
    <3>1. /\ pc = "ok" /\ replies # <<>> /\ replies' = Tail(replies) /\ Head(replies) = Ok
          /\ frame' = BeginFrame /\ offset' = 0 /\ tries' = 0 /\ pc' = "send" /\ result' = result
      BY <1>3, <2>1 DEF ReadOk, Read, Line, Exchange, guiVars
    <3>2. up = <<>> /\ HandshakeLines /\ next = 0
      BY <3>1 DEF LossBody, HandshakeInv
    <3>3. replies' = <<>> /\ down = <<>>
      BY <1>0, <3>1, <3>2, <1>q, OkFacts DEF HandshakeLines
    <3>4. Silent'
      BY <1>1, <3>2, <3>3 DEF Silent
    <3> QED
      BY <1>0, <1>1, <3>1, <3>2, <3>4 DEF LossBody, HandshakeInv, ExchangeInv, LossTolerated
  <2> QED
    BY <1>3, <2>1, <1>c DEF ReadOk
<1>4. CASE HandshakeFails
  BY <1>4, <1>c DEF HandshakeFails
<1>5. CASE RetryFrame
  <2>0. pc = "wait" /\ (TimedOut \/ (Read /\ Line = OffsetNack(frame.offset)))
    BY <1>5 DEF RetryFrame
  <2>1. CASE frame.type = "commit"
    <3>1. CASE Conclude("failed", "timeout")
      BY <2>1, <3>1, <1>c
    <3>2. CASE ~ Conclude("failed", "timeout")
      <4>1. pc' = "send" /\ frame' = frame /\ result' = result
        BY <1>5, <3>2 DEF RetryFrame, guiVars
      <4> QED
        BY <1>1, <2>1, <4>1 DEF LossBody, HandshakeInv, ExchangeInv, LossTolerated
    <3> QED
      BY <3>1, <3>2
  <2>2. CASE frame.type # "commit"
    <3>1. TimedOut
      <4>1. SUFFICES ASSUME Read, Line = OffsetNack(frame.offset) PROVE FALSE
        BY <2>0
      <4>2. Line.kind = "ack"
        BY <2>0, <2>2, <4>1, <1>a
      <4> QED
        BY <4>1, <4>2 DEF OffsetNack
    <3>2. Silent /\ replies' = replies
      BY <3>1
    <3>3. tries <= faults
      BY <2>0, <2>2, <3>2 DEF LossBody, ExchangeInv
    <3>4. CASE Conclude("failed", "timeout") /\ tries > MaxRetries
      BY <1>0, <3>3, <3>4, <1>c
    <3>5. CASE ~ (Conclude("failed", "timeout") /\ tries > MaxRetries)
      <4>1. /\ pc' = "send" /\ frame' = frame /\ result' = result /\ offset' = offset
            /\ tries' = tries
        BY <1>5, <3>5 DEF RetryFrame, guiVars
      <4>2. Silent' /\ Expected' = Expected
        BY <1>1, <3>2, <4>1 DEF Silent, Expected
      <4> QED
        BY <1>1, <2>0, <2>2, <3>3, <4>1, <4>2
           DEF LossBody, HandshakeInv, ExchangeInv, LossTolerated
    <3> QED
      BY <3>4, <3>5
  <2> QED
    BY <2>1, <2>2
<1>6. CASE FrameRejected
  <2>1. pc = "wait" /\ Read /\ ~ Acknowledged(Line) /\ Conclude("failed", "rejected")
    BY <1>6 DEF FrameRejected
  <2>2. frame.type = "commit"
    BY <2>1, <1>a DEF Acknowledged
  <2> QED
    BY <2>1, <2>2, <1>c
<1>7. CASE BeginOrDataAcked
  <2>1. pc = "wait" /\ Read /\ frame.type \in {"begin", "data"} /\ frame # Hello
    BY <1>7, FrameFacts DEF BeginOrDataAcked, HostInv
  <2>2. /\ Line.next = Expected /\ up = <<>> /\ down = <<>> /\ replies' = <<>> /\ next = Expected
    BY <2>1, <1>a
  <2>3. /\ offset' = Expected /\ tries' = 0 /\ pc' = "send" /\ result' = result
        /\ frame' = IF Expected < ImageSize[package] THEN DataFrame(package, Expected)
                    ELSE CommitFrame(Expected)
    BY <1>7, <2>2 DEF BeginOrDataAcked, Exchange, guiVars
  <2>4. frame'.type \in {"data", "commit"}
    BY <2>1, <2>3, ExpectedFacts, NextFrame
  <2>5. frame' # BeginFrame
    BY <2>4, FrameFacts
  <2>6. Silent'
    BY <1>1, <2>2 DEF Silent
  <2> QED
    BY <1>0, <1>1, <2>2, <2>3, <2>5, <2>6
       DEF LossBody, HandshakeInv, ExchangeInv, LossTolerated
<1>8. CASE CommitAcked
  <2>0. frame.type = "commit"
    BY <1>8 DEF CommitAcked
  <2>1. CASE Conclude("failed", "unstaged")
    BY <2>0, <2>1, <1>c
  <2>2. CASE ~ Conclude("failed", "unstaged")
    <3>1. pc' = "trailer" /\ result' = result
      BY <1>8, <2>2 DEF CommitAcked, guiVars
    <3> QED
      BY <1>1, <3>1 DEF LossBody, HandshakeInv, ExchangeInv, LossTolerated
  <2> QED
    BY <2>1, <2>2
<1>9. CASE ReadTrailer
  BY <1>9, <1>c DEF ReadTrailer
<1> QED
  BY <1>2, <1>3, <1>4, <1>5, <1>6, <1>7, <1>8, <1>9

LEMMA LossSend ==
  ASSUME TypeOK, TypeOK', HostInv, QuietBody, LossBody, faults' = faults,
         SendHello \/ SendFrame
  PROVE  LossBody'
<1>0. /\ LinkTypes /\ faults \in Nat /\ tries \in Nat
  BY TypeParts, Constants DEF LinkTypes, HostTypes
<1>1. /\ UNCHANGED <<down, next, resetting, replies, frame, offset>>
      /\ pc \in {"hello", "send"} /\ result = "none"
  BY DEF SendHello, SendFrame, Cancelled, Conclude, guiVars, deviceVars, HostInv
<1>2. CASE Cancelled
  <2>1. pc' = "done" /\ result' = "cancelled"
    BY <1>2 DEF Cancelled, Conclude
  <2> QED
    BY <2>1 DEF LossBody, HandshakeInv, ExchangeInv, LossTolerated
<1>3. CASE SendHello /\ ~ Cancelled
  <2>1. pc = "hello" /\ up' = Append(up, Hello) /\ pc' = "ready" /\ result' = result
    BY <1>3 DEF SendHello, Transmit, guiVars
  <2>2. up = <<>> /\ down = <<>> /\ Drained
    BY <2>1 DEF QuietBody
  <2>3. up' = <<Hello>>
    BY <2>1, <2>2, Single
  <2>4. up' = <<Hello>> /\ down' = <<>> /\ Drained'
    BY <1>1, <2>2, <2>3, Zenon DEF Drained
  <2> QED
    BY <1>1, <2>1, <2>4 DEF LossBody, HandshakeInv, ExchangeInv, LossTolerated
<1>4. CASE SendFrame /\ ~ Cancelled
  <2>1. /\ pc = "send" /\ up' = Append(up, frame) /\ pc' = "wait" /\ result' = result
        /\ tries' = tries + 1
    BY <1>4 DEF SendFrame, Transmit, guiVars
  <2>2. CASE frame.type = "commit"
    BY <1>1, <2>1, <2>2 DEF LossBody, HandshakeInv, ExchangeInv, LossTolerated
  <2>3. CASE frame.type # "commit"
    <3>1. /\ Silent /\ tries <= faults /\ next \in {offset, Expected}
          /\ (frame = BeginFrame => next = 0)
      BY <2>1, <2>3 DEF LossBody, ExchangeInv
    <3>2. up' = <<frame>> /\ down' = <<>> /\ replies' = <<>> /\ up' # <<>>
      BY <1>1, <2>1, <3>1, Single DEF Silent
    <3>3. Expected' = Expected /\ ~ Silent'
      BY <1>1, <3>2 DEF Expected, Silent
    <3>4. tries' <= faults' + 1
      BY <1>0, <2>1, <3>1
    <3> QED
      BY <1>1, <2>1, <3>1, <3>2, <3>3, <3>4 DEF LossBody, HandshakeInv, ExchangeInv, LossTolerated
  <2> QED
    BY <2>2, <2>3
<1> QED
  BY <1>2, <1>3, <1>4

LEMMA LossHost ==
  ASSUME TypeOK, TypeOK', HostInv, QuietBody, LossBody, quiet, benign, faults' = faults,
         ReceiveLine \/ ReceiveFrames \/ CancelOta \/ EndOta \/ UNCHANGED vars
  PROVE  LossBody'
<1>0. /\ LinkTypes /\ replies \in Seq(ReplyLine) /\ down \in Seq(ReplyLine)
  BY TypeParts DEF LinkTypes
<1>q. /\ \A l \in ReplyLine : ToSet(Append(replies, l)) = ToSet(replies) \cup {l}
      /\ down # <<>> => Head(down) \in ToSet(down) /\ ToSet(Tail(down)) \subseteq ToSet(down)
      /\ ToSet(down) \subseteq ReplyLine
  BY <1>0, QueueSets
<1>1. UNCHANGED <<up, next, frame, offset, tries, result, cause>>
  BY DEF ReceiveLine, ReceiveFrames, CancelOta, EndOta, vars, guiVars, hostVars, deviceVars
<1>t. LossTolerated' /\ Expected' = Expected
  BY <1>1 DEF LossBody, LossTolerated, Expected
<1>2. CASE CancelOta \/ UNCHANGED vars
  <2>1. UNCHANGED <<pc, replies, down, resetting>>
    BY <1>2 DEF CancelOta, vars, hostVars
  <2>2. /\ Silent' = Silent /\ Answers' = Answers /\ HandshakeLines' = HandshakeLines
        /\ Drained' = Drained
    BY <1>1, <2>1 DEF Silent, Answers, HandshakeLines, Drained
  <2> QED
    BY <1>1, <1>t, <2>1, <2>2 DEF LossBody, HandshakeInv, ExchangeInv
<1>3. CASE EndOta
  <2>1. pc' = "idle"
    BY <1>3 DEF EndOta
  <2> QED
    BY <1>t, <2>1 DEF LossBody, HandshakeInv, ExchangeInv
<1>5. CASE ReceiveFrames
  <2>1. replies' = <<>> /\ resetting /\ ~ resetting' /\ pc' = pc /\ down' = down
    BY <1>5, Zenon DEF ReceiveFrames, hostVars
  <2>2. pc \notin {"ok", "send", "wait"}
    BY <2>1 DEF QuietBody, AnswerInv
  <2>3. ToSet(<<>>) = {} /\ OkIsLast(<<>>)
    BY SetOfShort, OkFacts, Zenon
  <2>4. Answers' \subseteq Answers /\ Drained'
    BY <2>1, <2>3 DEF Answers, Drained
  <2>5. OkIsLast(down) => HandshakeLines'
    BY <2>1, <2>3 DEF HandshakeLines
  <2>6. HandshakeInv'
    BY <1>1, <2>1, <2>2, <2>4, <2>5 DEF LossBody, HandshakeInv
  <2> QED
    BY <1>t, <2>1, <2>2, <2>6 DEF LossBody, ExchangeInv
<1>4. CASE ReceiveLine
  <2>1. down # <<>> /\ down' = Tail(down) /\ ~ resetting' /\ pc' = pc
    BY <1>4, Zenon DEF ReceiveLine, hostVars
  <2>2. Head(down) \in ToSet(down) /\ ToSet(down') \subseteq ToSet(down) /\ Head(down) \in ReplyLine
    BY <2>1, <1>q
  <2>3. pc # "idle" => armed
    BY DEF HostInv
  <2>4. \/ ~ armed /\ replies' = replies
        \/ armed /\ resetting /\ replies' = <<Head(down)>>
        \/ armed /\ ~ resetting /\ replies' = Append(replies, Head(down))
    BY <1>4 DEF ReceiveLine
  <2>5. pc \in {"ok", "send", "wait"} => ~ resetting
    BY DEF QuietBody, AnswerInv
  <2>6. ToSet(<<Head(down)>>) = {Head(down)}
    BY SetOfShort, Zenon
  <2>7. ASSUME pc \in {"ready", "ok"} PROVE HandshakeInv'
    <3>1. /\ up = <<>> /\ OkIsLast(down) /\ (resetting \/ HandshakeLines)
          /\ Ready \in Answers => next = 0
      BY <2>1, <2>5, <2>7 DEF LossBody, HandshakeInv, HandshakeLines
    <3>2. OkIsLast(down') /\ (Head(down) = Ok => down' = <<>>)
      BY <1>0, <2>1, <3>1, OkFacts
    <3>3. CASE resetting
      <4>1. replies' = <<Head(down)>> /\ ToSet(replies') = {Head(down)}
        BY <2>3, <2>4, <2>6, <2>7, <3>3
      <4>2. HandshakeLines'
        BY <2>2, <3>2, <4>1, OkFacts DEF HandshakeLines
      <4>3. Answers' \subseteq Answers
        BY <2>1, <2>2, <4>1 DEF Answers
      <4> QED
        BY <1>1, <2>1, <2>5, <2>7, <3>1, <3>2, <3>3, <4>2, <4>3 DEF HandshakeInv
    <3>4. CASE ~ resetting
      <4>1. replies' = Append(replies, Head(down)) /\ ToSet(replies') = ToSet(replies) \cup {Head(down)}
        BY <2>2, <2>3, <2>4, <2>7, <3>4, <1>q
      <4>2. Ok \notin ToSet(replies)
        BY <2>1, <3>1, <3>4 DEF HandshakeLines
      <4>3. OkIsLast(replies')
        BY <1>0, <2>2, <4>1, <4>2, OkFacts
      <4>4. HandshakeLines'
        BY <3>2, <4>1, <4>2, <4>3 DEF HandshakeLines
      <4>5. Answers' \subseteq Answers
        BY <2>1, <2>2, <2>7, <3>4, <4>1 DEF Answers
      <4>6. pc = "ok" => next = 0
        BY DEF LossBody, HandshakeInv
      <4> QED
        BY <1>1, <2>1, <2>7, <3>1, <3>2, <4>4, <4>5, <4>6 DEF HandshakeInv
    <3> QED
      BY <3>3, <3>4
  <2>8. ASSUME pc \in {"send", "wait"}, frame.type # "commit" PROVE ExchangeInv'
    <3>1. /\ pc = "wait" /\ up = <<>> /\ Len(down) + Len(replies) = 1
          /\ ToSet(down) \cup ToSet(replies) = {Ack(Expected)} /\ next = Expected
          /\ next \in {offset, Expected} /\ (frame = BeginFrame => next = 0)
          /\ tries <= faults \/ tries <= faults + 1
      BY <2>1, <2>8 DEF LossBody, ExchangeInv, Silent
    <3>2. replies' = Append(replies, Head(down))
      BY <2>3, <2>4, <2>5, <3>1
    <3>3. /\ Len(down) \in Nat \ {0} /\ Len(replies) \in Nat
          /\ Len(down') = Len(down) - 1 /\ Len(replies') = Len(replies) + 1
      BY <1>0, <2>1, <2>2, <3>2
    <3>4. Len(down') + Len(replies') = 1 /\ replies' # <<>>
      BY <3>1, <3>3
    <3>5. ToSet(down') \cup ToSet(replies') = {Ack(Expected)}
      <4>1. ToSet(replies') = ToSet(replies) \cup {Head(down)}
        BY <2>2, <3>2, <1>q
      <4>2. Head(down) = Ack(Expected)
        BY <2>2, <3>1
      <4> QED
        BY <2>2, <3>1, <4>1, <4>2
    <3>6. ~ Silent' /\ ~ Silent
      BY <2>1, <3>4 DEF Silent
    <3>7. tries <= faults \/ (~ Silent /\ tries <= faults + 1)
      BY <3>1, <3>6
    <3> QED
      BY <1>1, <1>t, <2>1, <3>1, <3>4, <3>5, <3>6, <3>7 DEF ExchangeInv
  <2>9. ExchangeInv'
    BY <1>1, <2>1, <2>8 DEF ExchangeInv
  <2>10. HandshakeInv'
    BY <2>1, <2>7 DEF HandshakeInv
  <2> QED
    BY <1>t, <2>9, <2>10 DEF LossBody
<1> QED
  BY <1>2, <1>3, <1>4, <1>5

LEMMA LossLink ==
  ASSUME TypeOK, TypeOK', HostInv, QuietBody, LossBody, quiet, benign,
         \/ Device /\ faults' = faults
         \/ (LoseFrame \/ LoseReply) /\ faults' = faults + 1
  PROVE  LossBody'
<1>0. /\ LinkTypes /\ replies \in Seq(ReplyLine) /\ down \in Seq(ReplyLine)
      /\ faults \in Nat /\ tries \in Nat /\ next \in Nat /\ offset \in Nat /\ MaxRetries \in Nat
  BY TypeParts, Constants DEF LinkTypes, HostTypes
<1>1. UNCHANGED <<pc, frame, offset, tries, result, cause, resetting, replies>>
  BY DEF Device, DeviceHello, DeviceBegin, DeviceCancel, DeviceCommit, DeviceData, LoseFrame,
     LoseReply, Answer, guiVars, hostVars, linkUnchanged
<1>t. LossTolerated' /\ Expected' = Expected
  BY <1>0, <1>1 DEF LossBody, LossTolerated, Expected
<1>e. ToSet(<<>>) = {} /\ \A x : ToSet(<<x>>) = {x}
  BY SetOfShort, Zenon
<1>2. CASE LoseReply
  <2>1. down # <<>> /\ down' = Tail(down) /\ up' = up /\ next' = next /\ faults' = faults + 1
    <3>1. ~ (Device /\ faults' = faults)
      BY <1>0, <1>2 DEF LoseReply, Fault
    <3> QED
      BY <1>2, <3>1 DEF LoseReply, linkUnchanged, deviceVars
  <2>2. ToSet(down') \subseteq ToSet(down)
    BY <1>0, <2>1, QueueSets
  <2>3. Answers' \subseteq Answers
    BY <1>1, <2>2 DEF Answers
  <2>4. HandshakeInv'
    <3>1. OkIsLast(down) => OkIsLast(down')
      BY <1>0, <2>1, OkFacts
    <3>2. HandshakeLines => HandshakeLines'
      BY <1>1, <2>1, <3>1 DEF HandshakeLines
    <3> QED
      BY <1>1, <2>1, <2>3, <3>1, <3>2 DEF LossBody, HandshakeInv
  <2>5. ASSUME pc \in {"send", "wait"}, frame.type # "commit" PROVE ExchangeInv'
    <3>1. /\ pc = "wait" /\ up = <<>> /\ Len(down) + Len(replies) = 1
          /\ next \in {offset, Expected} /\ (frame = BeginFrame => next = 0)
          /\ tries <= faults \/ tries <= faults + 1
      BY <2>1, <2>5 DEF LossBody, ExchangeInv, Silent
    <3>2. Len(down) \in Nat \ {0} /\ Len(replies) \in Nat
      BY <1>0, <2>1
    <3>3. \A a \in Nat \ {0}, b \in Nat : a + b = 1 => a = 1 /\ b = 0
      OBVIOUS
    <3>4. Len(down) = 1 /\ Len(replies) = 0
      BY ONLY <3>1, <3>2, <3>3
    <3>5. down' = <<>> /\ replies = <<>>
      BY <1>0, <2>1, <3>4
    <3>6. Silent'
      BY <1>1, <2>1, <3>1, <3>5 DEF Silent
    <3>7. tries <= faults'
      BY <1>0, <2>1, <3>1
    <3> QED
      BY <1>1, <1>t, <2>1, <3>1, <3>6, <3>7 DEF ExchangeInv
  <2>6. ExchangeInv'
    BY <1>1, <2>5 DEF ExchangeInv
  <2> QED
    BY <1>t, <2>4, <2>6 DEF LossBody
<1>3. CASE LoseFrame
  <2>1. up # <<>> /\ up' = Tail(up) /\ down' = down /\ next' = next /\ faults' = faults + 1
    <3>1. ~ (Device /\ faults' = faults)
      BY <1>0, <1>3 DEF LoseFrame, Fault
    <3> QED
      BY <1>3, <3>1 DEF LoseFrame, linkUnchanged, deviceVars
  <2>2. HandshakeInv'
    <3>1. pc \in {"ready", "ok"} => pc = "ready" /\ up = <<Hello>> /\ down = <<>> /\ Drained
      BY <2>1 DEF LossBody, HandshakeInv
    <3>2. pc = "ready" => /\ up' = <<>> /\ down' = <<>> /\ (resetting' \/ HandshakeLines')
                          /\ Answers' = {} /\ OkIsLast(down')
      BY <1>1, <1>e, <2>1, <3>1, Single, OkFacts DEF Answers, Drained, HandshakeLines
    <3> QED
      BY <1>1, <3>1, <3>2 DEF HandshakeInv
  <2>3. ASSUME pc \in {"send", "wait"}, frame.type # "commit" PROVE ExchangeInv'
    <3>1. /\ pc = "wait" /\ up = <<frame>> /\ down = <<>> /\ replies = <<>>
          /\ next \in {offset, Expected} /\ (frame = BeginFrame => next = 0)
          /\ tries <= faults \/ tries <= faults + 1
      BY <2>1, <2>3 DEF LossBody, ExchangeInv, Silent
    <3>2. Silent' /\ tries <= faults'
      BY <1>0, <1>1, <2>1, <3>1, Single DEF Silent
    <3> QED
      BY <1>1, <1>t, <2>1, <3>1, <3>2 DEF ExchangeInv
  <2>4. ExchangeInv'
    BY <1>1, <2>3 DEF ExchangeInv
  <2> QED
    BY <1>t, <2>2, <2>4 DEF LossBody
<1>4. CASE Device /\ faults' = faults
  <2>1. up # <<>> /\ up' = Tail(up)
    BY <1>4 DEF Device, DeviceHello, DeviceBegin, DeviceCancel, DeviceCommit, DeviceData, Answer
  <2>2. ASSUME pc \in {"ready", "ok"} PROVE HandshakeInv'
    <3>1. pc = "ready" /\ up = <<Hello>> /\ down = <<>> /\ Drained
      BY <2>1, <2>2 DEF LossBody, HandshakeInv
    <3>2. Head(up).type = "hello" /\ up' = <<>>
      BY <2>1, <3>1, Single, FrameFacts
    <3>3. down' = <<Ready, Ok>> /\ next' = 0
      BY <1>4, <3>1, <3>2, Single
         DEF Device, DeviceHello, DeviceBegin, DeviceCancel, DeviceCommit, DeviceData, Answer
    <3>4. OkIsLast(down') /\ (resetting' \/ HandshakeLines')
      <4>1. OkIsLast(<<>>) /\ OkIsLast(<<Ready, Ok>>)
        BY OkFacts, Zenon
      <4>2. Ok \notin ToSet(<<>>)
        BY SetOfShort, Zenon
      <4> QED BY <1>1, <3>1, <3>3, <4>1, <4>2 DEF Drained, HandshakeLines
    <3> QED
      BY <1>1, <3>1, <3>2, <3>3, <3>4 DEF HandshakeInv
  <2>3. ASSUME pc \in {"send", "wait"}, frame.type # "commit" PROVE ExchangeInv'
    <3>1. /\ pc = "wait" /\ up = <<frame>> /\ down = <<>> /\ replies = <<>>
          /\ next \in {offset, Expected} /\ (frame = BeginFrame => next = 0)
          /\ tries <= faults \/ tries <= faults + 1
      BY <2>1, <2>3 DEF LossBody, ExchangeInv, Silent
    <3>2. Head(up) = frame /\ up' = <<>> /\ frame # Hello
      BY <2>1, <3>1, Single DEF HostInv
    <3>3. /\ frame.type \in {"begin", "data"} /\ frame.offset = offset
          /\ frame.type = "begin" => frame = BeginFrame /\ Expected = 0
          /\ frame.type = "data" => Expected = offset + Len(frame.data)
      BY <2>3, <3>2, ExpectedFacts
    <3>4. down' = <<>> \o <<Ack(Expected)>> /\ next' = Expected
      <4>1. CASE frame.type = "begin"
        BY <1>4, <3>1, <3>2, <3>3, <4>1
           DEF Device, DeviceHello, DeviceBegin, DeviceCancel, DeviceCommit, DeviceData, Answer,
               deviceVars
      <4>2. CASE frame.type = "data"
        <5>1. DeviceData
          BY <1>4, <3>2, <4>2 DEF Device, DeviceHello, DeviceBegin, DeviceCancel, DeviceCommit
        <5> QED
          BY <3>1, <3>2, <3>3, <4>2, <5>1 DEF DeviceData, Answer
      <4> QED
        BY <3>3, <4>1, <4>2
    <3>5. down' = <<Ack(Expected)>> /\ ToSet(down') = {Ack(Expected)} /\ ToSet(replies') = {}
      <4>1. down' = <<Ack(Expected)>> /\ replies' = <<>>
        BY <1>1, <3>1, <3>4, Single
      <4> QED
        BY <1>e, <4>1, Zenon
    <3>6. Len(down') + Len(replies') = 1 /\ ~ Silent' /\ ~ Silent
      <4>1. Len(<<Ack(Expected)>>) = 1 /\ Len(<<>>) = 0 /\ <<Ack(Expected)>> # <<>> /\ <<frame>> # <<>>
        OBVIOUS
      <4>2. Len(down') = 1 /\ Len(replies') = 0 /\ down' # <<>> /\ up # <<>>
        BY <1>1, <3>1, <3>5, <4>1
      <4> QED
        BY <4>2 DEF Silent
    <3>7. ToSet(down') \cup ToSet(replies') = {Ack(Expected)}
      BY <3>5
    <3>8. tries <= faults + 1
      BY <1>0, <3>1
    <3>9. frame = BeginFrame => next' = 0
      BY <3>3, <3>4, FrameFacts
    <3> QED
      BY <1>1, <1>4, <1>t, <3>1, <3>2, <3>4, <3>6, <3>7, <3>8, <3>9 DEF ExchangeInv
  <2>4. HandshakeInv'
    BY <1>1, <2>2 DEF HandshakeInv
  <2>5. ExchangeInv'
    BY <1>1, <2>3 DEF ExchangeInv
  <2> QED
    BY <1>t, <2>4, <2>5 DEF LossBody
<1> QED
  BY <1>2, <1>3, <1>4

LEMMA LossStep ==
  /\ TypeOK /\ TypeOK' /\ HostInv /\ QuietInv /\ LossInv /\ [Next]_vars
  => LossInv'
<1> SUFFICES ASSUME TypeOK, TypeOK', HostInv, QuietInv, LossInv, [Next]_vars, quiet', benign'
             PROVE  LossBody'
  BY DEF LossInv, LossBody
<1>1. ASSUME NEW p \in Packages, StartOta(p) PROVE LossBody'
  <2>1. pc' = "hello" /\ result' = "none"
    BY <1>1 DEF StartOta
  <2> QED
    BY <2>1 DEF LossBody, HandshakeInv, ExchangeInv, LossTolerated
<1>2. CASE ~ \E p \in Packages : StartOta(p)
  <2>1. quiet' = quiet
    BY <1>2, QuietKept
  <2>2. /\ benign
        /\ \/ faults' = faults
           \/ faults' = faults + 1 /\ (LoseFrame \/ LoseReply)
        /\ TimedOut => Silent /\ replies' = replies
        /\ ~ RepeatFrame /\ ~ DamageFrame /\ ~ BusyDevice
    BY BenignStep
  <2>3. QuietBody /\ LossBody /\ quiet
    BY <2>1, <2>2, Zenon DEF QuietInv, QuietBody, LossInv, LossBody
  <2>4. CASE LoseFrame \/ LoseReply
    <3>1. faults' = faults + 1
      BY <2>4 DEF LoseFrame, LoseReply, Fault
    <3> QED
      BY <2>2, <2>3, <2>4, <3>1, LossLink
  <2>5. CASE ~ (LoseFrame \/ LoseReply)
    <3>0. faults' = faults
      BY <2>2, <2>5
    <3>1. CASE ReadReady \/ ReadOk \/ HandshakeFails \/ RetryFrame \/ FrameRejected
               \/ BeginOrDataAcked \/ CommitAcked \/ ReadTrailer
      BY <2>2, <2>3, <3>0, <3>1, LossRead
    <3>2. CASE SendHello \/ SendFrame
      BY <2>3, <3>0, <3>2, LossSend
    <3>3. CASE ReceiveLine \/ ReceiveFrames \/ CancelOta \/ EndOta \/ UNCHANGED vars
      BY <2>2, <2>3, <3>0, <3>3, LossHost
    <3>4. CASE Device
      BY <2>2, <2>3, <3>0, <3>4, LossLink
    <3> QED
      BY <1>2, <2>2, <2>5, <3>1, <3>2, <3>3, <3>4, Zenon DEF Next, Uploader, Link
  <2> QED
    BY <2>4, <2>5
<1> QED
  BY <1>1, <1>2

-----------------------------------------------------------------------------
(* The theorems.                                                             *)

LEMMA InitInv == Init => IInv
<1> SUFFICES ASSUME Init PROVE IInv
  OBVIOUS
<1>1. TypeOK /\ HostInv
  BY InitTypes
<1>2. ToSet(<<>>) = {} /\ HellosFirst(<<>>)
  BY SetOfShort, HellosOf
<1>3. Answers = {} /\ ~ HelloPending
  BY <1>2 DEF Init, Answers, HelloPending
<1>4. ~ resetting
  BY Zenon DEF Init
<1>5. SentInv /\ AnswerInv
  BY <1>2, <1>3, <1>4 DEF Init, SentInv, AnswerInv
<1>6. QuietInv /\ LossInv
  BY <1>5 DEF Init, QuietInv, LossInv, HandshakeInv, ExchangeInv, LossTolerated
<1> QED
  BY <1>1, <1>6 DEF IInv

(* The inductive invariant: types, the uploader's place in the protocol and, *)
(* for an attempt that began on a quiet link, what its frames and lines are. *)
THEOREM Inductive == Spec => []IInv
<1>1. IInv /\ [Next]_vars => IInv'
  BY TypeStep, QuietStep, LossStep, Zenon DEF IInv
<1> QED
  BY InitInv, <1>1, PTL DEF Spec

(* Every variable of the uploader, the controller's queues, the link and the *)
(* device keeps its type; a frame is sent at most MaxRetries + 1 times.      *)
THEOREM TypeCorrect == Spec => []TypeOK
<1>1. IInv => TypeOK
  BY DEF IInv
<1> QED
  BY Inductive, <1>1, PTL

(* For every image, chunk size, number of retries, attempts and faults:      *)
(* while an attempt that began on a quiet link exchanges frames, the device  *)
(* holds what OtaUploader counts as acknowledged.                            *)
THEOREM ProgressDurable == Spec => []ProgressIsDurable
<1>1. IInv => ProgressIsDurable
  <2> SUFFICES ASSUME IInv, quiet, pc \in {"send", "wait"}
               PROVE  /\ next >= offset
                      /\ SubSeq(image, 1, offset) = SubSeq(Image(package), 1, offset)
    BY DEF ProgressIsDurable
  <2>1. offset <= next /\ Joined /\ next \in Nat /\ offset \in Nat
    BY DEF IInv, HostInv, QuietInv, AnswerInv, TypeOK
  <2>2. /\ package \in Packages /\ next <= ImageSize[package] /\ ImageSize[package] \in Nat
        /\ image = SubSeq(Image(package), 1, next)
    BY <2>1, Constants DEF Joined
  <2>3. Image(package) \in Seq(Byte) /\ Len(Image(package)) = ImageSize[package]
    BY <2>2, ImageFacts
  <2>4. SubSeq(SubSeq(Image(package), 1, next), 1, offset) = SubSeq(Image(package), 1, offset)
    BY <2>1, <2>2, <2>3
  <2> QED
    BY <2>1, <2>2, <2>4
<1> QED
  BY Inductive, <1>1, PTL

(* For every number of retries: an attempt that began on a quiet link does   *)
(* not fail in BEGIN or DATA while no more frames and replies were lost than *)
(* _exchange retries.                                                        *)
THEOREM LossesTolerated == Spec => []LossTolerated
<1>1. IInv => LossTolerated
  BY Zenon DEF IInv, LossInv, LossTolerated
<1> QED
  BY Inductive, <1>1, PTL

-----------------------------------------------------------------------------
(* The refinement.                                                           *)

(* What the device holds and what it has staged, as OtaSpec sees them.       *)
LEMMA HeldIs ==
  Joined /\ next \in Nat =>
    Held = IF next = 0 THEN Abstract!Nothing ELSE [package |-> package, bytes |-> next]
<1> SUFFICES ASSUME Joined, next \in Nat
             PROVE  Held = IF next = 0 THEN Abstract!Nothing
                           ELSE [package |-> package, bytes |-> next]
  OBVIOUS
<1>1. /\ package \in Packages /\ next <= ImageSize[package] /\ Len(image) = next
      /\ image = SubSeq(Image(package), 1, next) /\ ImageSize[package] \in Nat
  BY Constants DEF Joined
<1>2. /\ Image(package) \in Seq(Byte) /\ Len(Image(package)) = ImageSize[package]
      /\ \A i \in 1..ImageSize[package] : Image(package)[i] = <<package, i>>
  BY <1>1, ImageFacts
<1>3. image \in Seq(Byte)
  BY <1>1, <1>2
<1>4. CASE next = 0
  <2>1. image = <<>>
    BY <1>1, <1>3, <1>4
  <2> QED
    BY <1>4, <2>1 DEF Held, Abstract!Nothing
<1>5. CASE next # 0
  <2>1. image # <<>> /\ image[1] = <<package, 1>>
    <3>1. 1 \in 1..next /\ 1 \in 1..ImageSize[package]
      BY <1>1, <1>5
    <3>2. SubSeq(Image(package), 1, next)[1] = Image(package)[1]
      BY <1>1, <1>2, <3>1
    <3> QED
      <4>0. Len(image) = next /\ Len(<<>>) = 0
        BY <1>1
      <4>1. image # <<>>
        BY ONLY <1>5, <4>0, Zenon
      <4>2. image[1] = Image(package)[1] /\ Image(package)[1] = <<package, 1>>
        BY <1>1, <1>2, <3>1, <3>2
      <4> QED
        BY <4>1, <4>2
  <2>2. image[1][1] = package
    BY <2>1
  <2>3. PartOf(package, image)
    BY <1>1 DEF PartOf
  <2> QED
    BY <1>1, <1>5, <2>1, <2>2, <2>3 DEF Held
<1> QED
  BY <1>4, <1>5

LEMMA InstalledIs ==
  package \in Packages /\ staged = Image(package) => Installed = package
<1> SUFFICES ASSUME package \in Packages, staged = Image(package) PROVE Installed = package
  OBVIOUS
<1>1. /\ Image(package) \in Seq(Byte) /\ Len(Image(package)) = ImageSize[package]
      /\ \A i \in 1..ImageSize[package] : Image(package)[i] = <<package, i>>
      /\ ImageSize[package] \in Nat \ {0}
  BY ImageFacts, Constants
<1>2. staged # <<>> /\ staged[1] = <<package, 1>>
  BY <1>1
<1>3. staged[1][1] = package
  BY <1>2
<1> QED
  BY <1>2, <1>3 DEF Installed

LEMMA RefineInit == Init => Abstract!SpecInit
  BY DEF Init, Abstract!SpecInit, Abstract!Nothing, Held, Installed

LEMMA RefineStep ==
  IInv /\ IInv' /\ quiet /\ [Next]_vars => [Abstract!SpecNext]_(Abstract!specVars)
<1> SUFFICES ASSUME IInv, IInv', quiet, [Next]_vars
             PROVE  Abstract!SpecNext \/ UNCHANGED Abstract!specVars
  OBVIOUS
<1>0. /\ TypeOK /\ HostInv /\ QuietBody /\ next \in Nat /\ next' \in Nat
      /\ package \in Packages => package # NoPackage
  BY Constants DEF IInv, QuietInv, QuietBody, TypeOK
<1>i. /\ Joined /\ next \in Nat =>
           Held = IF next = 0 THEN Abstract!Nothing ELSE [package |-> package, bytes |-> next]
      /\ (Joined /\ next \in Nat)' =>
           (Held = IF next = 0 THEN Abstract!Nothing ELSE [package |-> package, bytes |-> next])'
  BY HeldIs, PTL
<1>j. /\ package \in Packages /\ staged = Image(package) => Installed = package
      /\ (package \in Packages /\ staged = Image(package))' => (Installed = package)'
  BY InstalledIs, PTL
<1>h. UNCHANGED image => UNCHANGED Held
  BY DEF Held, PartOf, Image
<1>s. UNCHANGED staged => UNCHANGED Installed
  BY DEF Installed, Image
<1>u. ASSUME UNCHANGED <<package, result, image, staged>> PROVE UNCHANGED Abstract!specVars
  BY <1>u, <1>h, <1>s DEF Abstract!specVars
<1>c. ASSUME NEW r \in {"staged", "failed", "cancelled"}, NEW why, Conclude(r, why),
             UNCHANGED <<image, staged>>, pc \notin {"idle", "done"},
             r = "staged" => pc = "trailer"
      PROVE  Abstract!SpecNext
  <2>1. package \in Packages /\ package # NoPackage /\ result = "none"
    BY <1>0, <1>c DEF HostInv
  <2>2. r = "staged" => Installed = package
    BY <1>0, <1>c, <1>j, <2>1 DEF QuietBody, AnswerInv
  <2>3. result' = r /\ package' = package
    BY <1>c DEF Conclude
  <2>4. Abstract!Conclude(r)
    BY <1>c, <1>h, <1>s, <2>1, <2>2, <2>3 DEF Abstract!Conclude
  <2> QED
    BY <2>4 DEF Abstract!SpecNext
<1>1. ASSUME NEW p \in Packages, StartOta(p) PROVE Abstract!SpecNext
  <2>1. Abstract!Attempt(p)
    BY <1>1, <1>h, <1>s DEF StartOta, deviceVars, Abstract!Attempt
  <2> QED
    BY <2>1 DEF Abstract!SpecNext
<1>2. CASE CancelOta \/ EndOta \/ ReceiveLine \/ ReceiveFrames \/ Link \/ UNCHANGED vars
  BY <1>2, <1>u DEF CancelOta, EndOta, ReceiveLine, ReceiveFrames, Link, LoseFrame, LoseReply, RepeatFrame,
     DamageFrame, BusyDevice, Answer, linkUnchanged, guiVars, deviceVars, vars
<1>3. CASE Uploader
  <2>0. UNCHANGED <<image, staged>>
    BY <1>3 DEF Uploader, SendHello, ReadReady, ReadOk, HandshakeFails, SendFrame, RetryFrame,
       FrameRejected, BeginOrDataAcked, CommitAcked, ReadTrailer, waitUnchanged, deviceVars
  <2>1. CASE \E why : Conclude("failed", why)
    <3>1. PICK why : Conclude("failed", why)
      BY <2>1
    <3>2. pc \notin {"idle", "done"}
      BY <1>3 DEF Uploader, SendHello, ReadReady, ReadOk, HandshakeFails, SendFrame, RetryFrame,
         FrameRejected, BeginOrDataAcked, CommitAcked, ReadTrailer
    <3> QED
      BY <2>0, <3>1, <3>2, <1>c
  <2>2. CASE Conclude("cancelled", "none") /\ pc \in {"hello", "send"}
    BY <2>0, <2>2, <1>c
  <2>3. CASE Conclude("staged", "none") /\ pc = "trailer"
    BY <2>0, <2>3, <1>c
  <2>4. CASE UNCHANGED <<package, result>>
    BY <2>0, <2>4, <1>u
  <2> QED
    BY <1>3, <2>1, <2>2, <2>3, <2>4 DEF Uploader, SendHello, ReadReady, ReadOk, HandshakeFails,
       SendFrame, RetryFrame, FrameRejected, BeginOrDataAcked, CommitAcked, ReadTrailer, Cancelled,
       Exchange, guiVars
<1>4. CASE Device
  <2>0. /\ UNCHANGED <<package, result, frame>> /\ up # <<>>
    BY <1>4 DEF Device, DeviceHello, DeviceBegin, DeviceCancel, DeviceCommit, DeviceData, Answer,
       guiVars, hostVars
  <2>1. package \in Packages
    BY <1>0, <2>0 DEF QuietBody, SentInv
  <2>2. CASE DeviceBegin \/ DeviceCancel
    BY <2>0, <2>2, <1>u DEF DeviceBegin, DeviceCancel, deviceVars
  <2>3. CASE DeviceHello
    <3>1. image' = <<>> /\ UNCHANGED staged
      BY <2>3 DEF DeviceHello
    <3>2. Held' = Abstract!Nothing
      BY <3>1 DEF Held, Abstract!Nothing
    <3>3. Abstract!Restart
      BY <2>0, <3>1, <3>2, <1>s DEF Abstract!Restart
    <3> QED
      BY <3>3 DEF Abstract!SpecNext
  <2>q. Head(up) \in ToSet(up) /\ Head(up) \in Frame /\ offset \in Nat
    <3>1. LinkTypes /\ offset \in Nat
      BY <1>0, TypeParts DEF HostTypes
    <3>2. Head(up) \in ToSet(up) /\ ToSet(up) \subseteq Frame
      BY <2>0, <3>1, QueueSets
    <3> QED
      BY <3>1, <3>2
  <2>4. CASE DeviceCommit
    <3>1. Head(up).type = "commit" /\ UNCHANGED image /\ staged' = image
      BY <2>4 DEF DeviceCommit
    <3>2. frame.type = "commit" /\ frame # Hello
      BY <1>0, <2>q, <3>1, FrameFacts DEF QuietBody, SentInv, DataFrame
    <3>3. Joined /\ offset <= next /\ offset = ImageSize[package]
      BY <1>0, <3>2, ExpectedFacts DEF QuietBody, AnswerInv
    <3>4. next = ImageSize[package] /\ ImageSize[package] \in Nat \ {0}
      BY <1>0, <2>1, <3>3, Constants DEF Joined
    <3>5. image = Image(package)
      BY <2>1, <3>3, <3>4, ImageFacts, SubSeqFull DEF Joined
    <3>6. (staged = Image(package))'
      BY <2>0, <3>1, <3>5 DEF Image
    <3>7. Installed' = package
      BY <2>0, <2>1, <3>6, <1>j
    <3>8. Held = [package |-> package, bytes |-> ImageSize[package]]
      BY <1>0, <3>3, <3>4, <1>i
    <3>9. Abstract!Install(package)
      BY <2>0, <3>1, <3>7, <3>8, <1>h DEF Abstract!Install
    <3> QED
      BY <2>1, <3>9 DEF Abstract!SpecNext
  <2>5. CASE DeviceData
    <3> DEFINE f == Head(up)
    <3>1. f.type = "data" /\ staged' = staged
      BY <2>5 DEF DeviceData
    <3>2. /\ f = DataFrame(package, f.offset) /\ f.offset < ImageSize[package]
          /\ frame # Hello /\ f.offset \in Nat
      BY <1>0, <2>q, <3>1, FrameFacts DEF QuietBody, SentInv, Frame
    <3>3. Joined
      BY <1>0, <3>2 DEF QuietBody, AnswerInv
    <3>4. f.data = Payload(package, f.offset)
      BY <2>1, <3>2, DataFacts
    <3>5. /\ Len(f.data) \in Nat \ {0} /\ f.offset + Len(f.data) <= ImageSize[package]
      BY <2>1, <3>2, <3>4, PayloadFacts
    <3>6. CASE f.offset = next
      <4>1. next' = next + Len(f.data)
        BY <2>5, <3>6 DEF DeviceData
      <4>2. quiet'
        BY <2>5 DEF DeviceData, Answer, guiVars
      <4>3. Joined'
        BY <2>0, <3>2, <4>2 DEF IInv, QuietInv, AnswerInv
      <4>4. Held' = [package |-> package, bytes |-> next'] /\ next' > next /\ next' <= ImageSize[package]
        BY <1>0, <2>0, <3>5, <3>6, <4>1, <4>3, <1>i
      <4>5. Held.package \in {package, NoPackage} /\ Held.bytes = next
        BY <1>0, <3>3, <1>i DEF Abstract!Nothing
      <4>6. next' \in (Held.bytes + 1)..ImageSize[package]
        BY <1>0, <2>1, <4>4, <4>5, Constants
      <4>7. Abstract!Store(package)
        BY <2>0, <3>1, <4>4, <4>5, <4>6, <1>s DEF Abstract!Store
      <4> QED
        BY <2>1, <4>7 DEF Abstract!SpecNext
    <3>7. CASE f.offset # next
      BY <2>0, <2>5, <3>1, <3>7, <1>u DEF DeviceData
    <3> QED
      BY <3>6, <3>7
  <2> QED
    BY <1>4, <2>2, <2>3, <2>4, <2>5 DEF Device
<1> QED
  BY <1>1, <1>2, <1>3, <1>4 DEF Next

(* For every image, chunk size, number of retries, attempts and faults of    *)
(* any kind: as long as each attempt begins on a quiet link, the upload      *)
(* implements OtaSpec.  The device only ever holds the first bytes of the    *)
(* package, stages nothing but a whole one, and OtaUploader reports success  *)
(* only for the package that is staged.                                      *)
THEOREM Refinement == Spec /\ []quiet => ImplementsOtaSpec
<1>1. Init => Abstract!SpecInit
  BY RefineInit
<1>2. IInv /\ IInv' /\ quiet /\ [Next]_vars => [Abstract!SpecNext]_(Abstract!specVars)
  BY RefineStep
<1> QED
  BY Inductive, <1>1, <1>2, PTL DEF Spec, ImplementsOtaSpec, Abstract!AbstractSpec
=============================================================================

------------------------------ MODULE OtaUpload ------------------------------
(***************************************************************************)
(* A firmware upload: OtaUploader (ota/uploader.py) in its thread, the     *)
(* AcquisitionController that carries its frames and replies, the GUI that *)
(* starts, cancels and tears down attempts, and the device on the other    *)
(* end as the repository's own simulator plays it (transport/fake.py).     *)
(*                                                                         *)
(* The link is a byte stream: it keeps the order but may lose a frame or a *)
(* reply, repeat a frame, damage one (the CRC32 then fails), or be slow,   *)
(* so that a timeout overtakes a reply; a busy device answers a DATA frame *)
(* it could store with NACK OFFSET.  SEQ is left out: the uploader never   *)
(* compares it.                                                            *)
(***************************************************************************)
EXTENDS Integers, Sequences, FiniteSets, SequencesExt

CONSTANTS
  Packages,    \* the packages, at most one attempt each
  MaxAttempts, \* bound on the attempts
  NoPackage,
  ImageSize,   \* bytes of each package's image
  DeviceMax,   \* MAX of the device's READY line
  DeviceChunk, \* CHUNK of that line
  FrameMax,    \* FRAME_MAX_PAYLOAD
  MaxRetries,  \* max_retries
  Faults,      \* the faults that may happen
  MaxFaults    \* bound on how often they do

ASSUME OtaAssumption ==
  /\ NoPackage \notin Packages
  /\ ImageSize \in [Packages -> Nat \ {0}] /\ FrameMax \in Nat \ {0}
  /\ DeviceMax \in Nat /\ DeviceChunk \in Nat
  /\ MaxRetries \in Nat /\ MaxFaults \in Nat /\ MaxAttempts \in Nat
  /\ Faults \subseteq {"loseFrame", "loseReply", "repeat", "damage", "busy", "slow"}

VARIABLES
  \* the GUI and OtaUploadWorker
  package,     \* the package being uploaded
  result,      \* how the attempt ended
  cause,       \* why it failed
  tried,       \* the packages attempted so far
  quiet,       \* the attempt began with nothing under way and no READY left in the queue
  cancelling,  \* the cancel event
  \* OtaUploader
  pc,          \* "idle", "hello", "ready", "ok", "send", "wait", "trailer", "done"
  frame,       \* the frame being exchanged
  offset,      \* bytes the device acknowledged
  tries,       \* transmissions of that frame
  \* AcquisitionController
  armed,       \* _ota_active
  resetting,   \* _ota_reset_pending
  replies,     \* _ota_replies
  up,          \* _ota_outbound and the bytes on the way to the device
  down,        \* reply lines on the way to the host
  faults,      \* faults so far
  benign,      \* none of them was more than a lost frame or reply, and no reply was late
  \* the device
  next,        \* _ota_next_offset
  image,       \* _ota_image
  staged       \* the image a COMMIT staged

guiVars    == <<package, result, cause, tried, quiet>>
hostVars   == <<pc, frame, offset, tries>>
deviceVars == <<next, image, staged>>
vars == <<guiVars, cancelling, hostVars, armed, resetting, replies, up, down, faults,
          benign, deviceVars>>

Image(p) == [i \in 1..ImageSize[p] |-> <<p, i>>]

\* min(FRAME_MAX_PAYLOAD, chunk) if chunk else FRAME_MAX_PAYLOAD
PayloadLimit == IF DeviceChunk = 0 \/ DeviceChunk > FrameMax THEN FrameMax ELSE DeviceChunk

Payload(p, off) ==
  SubSeq(Image(p), off + 1, IF off + PayloadLimit > ImageSize[p] THEN ImageSize[p]
                            ELSE off + PayloadLimit)

Hello           == [type |-> "hello", offset |-> 0, data |-> <<>>]
BeginFrame      == [type |-> "begin", offset |-> 0, data |-> <<>>]
DataFrame(p, o) == [type |-> "data", offset |-> o, data |-> Payload(p, o)]
CommitFrame(o)  == [type |-> "commit", offset |-> o, data |-> <<>>]
CancelFrame(o)  == [type |-> "cancel", offset |-> o, data |-> <<>>]

Ready     == [kind |-> "ready", next |-> 0]
Ok        == [kind |-> "ok", next |-> 0]
Ack(n)    == [kind |-> "ack", next |-> n]
OffsetNack(n) == [kind |-> "offset", next |-> n]
Nack      == [kind |-> "nack", next |-> 0]
Staged    == [kind |-> "staged", next |-> 0]

\* DeviceResponse.acknowledged: STAGED counts, with next_offset 0.
Acknowledged(line) == line.kind \in {"ack", "staged"}

-----------------------------------------------------------------------------
Init ==
  /\ package = NoPackage /\ result = "none" /\ cause = "none" /\ cancelling = FALSE
  /\ tried = {} /\ quiet = TRUE
  /\ pc = "idle" /\ frame = Hello /\ offset = 0 /\ tries = 0
  /\ armed = FALSE /\ resetting = FALSE
  /\ replies = <<>> /\ up = <<>> /\ down = <<>>
  /\ faults = 0 /\ benign = TRUE
  /\ next = 0 /\ image = <<>> /\ staged = <<>>

-----------------------------------------------------------------------------
(* The GUI.                                                                  *)

\* start_ota_for and start_ota.  The last attempt is over and nothing was staged.
StartOta(p) ==
  /\ pc = "idle" /\ result # "staged" /\ p \notin tried
  /\ Cardinality(tried) < MaxAttempts
  /\ package' = p /\ result' = "none" /\ cause' = "none" /\ tried' = tried \cup {p}
  /\ quiet' = (up = <<>> /\ down = <<>> /\ Ready \notin ToSet(replies))
  /\ cancelling' = FALSE
  /\ armed' = TRUE /\ resetting' = TRUE
  /\ pc' = "hello" /\ frame' = Hello /\ offset' = 0 /\ tries' = 0
  /\ UNCHANGED <<replies, up, down, faults, benign, deviceVars>>

CancelOta ==
  /\ pc # "idle" /\ ~ cancelling
  /\ cancelling' = TRUE
  /\ UNCHANGED <<guiVars, hostVars, armed, resetting, replies, up, down, faults, benign, deviceVars>>

\* The slot for staged, failed or cancelled runs in the GUI thread: end_ota.
EndOta ==
  /\ pc = "done"
  /\ armed' = FALSE /\ resetting' = FALSE
  /\ pc' = "idle"
  /\ UNCHANGED <<guiVars, cancelling, frame, offset, tries, replies, up, down, faults,
                 benign, deviceVars>>

-----------------------------------------------------------------------------
(* The uploader's thread.                                                    *)

Conclude(r, why) ==
  /\ result' = r /\ cause' = why /\ pc' = "done"
  /\ UNCHANGED <<package, tried, quiet, frame, offset, tries>>

Transmit(f) == up' = Append(up, f)

\* _check_cancelled: a CANCEL frame goes out and the upload is over.
Cancelled ==
  /\ cancelling
  /\ Transmit(CancelFrame(offset))
  /\ Conclude("cancelled", "none")
  /\ UNCHANGED replies

\* _handshake up to the first readline.
SendHello ==
  /\ pc = "hello"
  /\ \/ Cancelled
     \/ /\ ~ cancelling
        /\ Transmit(Hello) /\ pc' = "ready"
        /\ UNCHANGED <<guiVars, frame, offset, tries, replies>>
  /\ UNCHANGED <<cancelling, armed, resetting, down, faults, benign, deviceVars>>

\* A fault, counted, and noted when it is more than a loss.
Fault(kind) ==
  /\ kind \in Faults /\ faults < MaxFaults /\ faults' = faults + 1
  /\ benign' = (benign /\ kind \in {"loseFrame", "loseReply"})

\* readline returns the next line of the queue, or None at its timeout.
Read == replies # <<>> /\ replies' = Tail(replies) /\ UNCHANGED <<faults, benign>>

Line == Head(replies)

\* Mutant: readline blocks until a line arrives.
TimedOutMutant == FALSE /\ UNCHANGED <<replies, faults, benign>>

TimedOut ==
  /\ replies = <<>> /\ UNCHANGED replies
  /\ \/ up = <<>> /\ down = <<>> /\ UNCHANGED <<faults, benign>>
     \/ up \o down # <<>> /\ Fault("slow")

waitUnchanged == <<cancelling, armed, resetting, up, down, deviceVars>>

ReadReady ==
  /\ pc = "ready" /\ Read /\ Line = Ready
  /\ pc' = "ok"
  /\ UNCHANGED <<guiVars, frame, offset, tries, waitUnchanged>>

\* Mutant: the attempts of one frame are counted for the next as well.
ExchangeMutant(f, o) ==
  /\ frame' = f /\ offset' = o /\ UNCHANGED tries /\ pc' = "send"
  /\ UNCHANGED guiVars

\* The next frame, once the device has acknowledged o bytes.
Exchange(f, o) ==
  /\ frame' = f /\ offset' = o /\ tries' = 0 /\ pc' = "send"
  /\ UNCHANGED guiVars

ReadOk ==
  /\ pc = "ok" /\ Read /\ Line = Ok
  /\ \/ ImageSize[package] <= DeviceMax /\ Exchange(BeginFrame, 0)
     \/ ImageSize[package] > DeviceMax /\ Conclude("failed", "size")
  /\ UNCHANGED waitUnchanged

HandshakeFails ==
  /\ \/ pc = "ready" /\ (TimedOut \/ (Read /\ Line # Ready))
     \/ pc = "ok"    /\ (TimedOut \/ (Read /\ Line # Ok))
  /\ Conclude("failed", "handshake")
  /\ UNCHANGED waitUnchanged

\* _exchange: one transmission, unless the user cancelled.
SendFrame ==
  /\ pc = "send"
  /\ \/ Cancelled
     \/ /\ ~ cancelling
        /\ Transmit(frame) /\ tries' = tries + 1 /\ pc' = "wait"
        /\ UNCHANGED <<guiVars, frame, offset, replies>>
  /\ UNCHANGED <<cancelling, armed, resetting, down, faults, benign, deviceVars>>

\* Mutant: one retransmission too few.
RetryFrameMutant ==
  /\ pc = "wait"
  /\ TimedOut \/ (Read /\ Line = OffsetNack(frame.offset))
  /\ \/ /\ tries < MaxRetries
        /\ pc' = "send" /\ UNCHANGED <<guiVars, frame, offset, tries>>
     \/ tries >= MaxRetries /\ Conclude("failed", "timeout")
  /\ UNCHANGED waitUnchanged

\* No line in time, or NACK OFFSET at the frame's own offset: send it again.
RetryFrame ==
  /\ pc = "wait"
  /\ TimedOut \/ (Read /\ Line = OffsetNack(frame.offset))
  /\ \/ /\ tries <= MaxRetries
        /\ pc' = "send" /\ UNCHANGED <<guiVars, frame, offset, tries>>
     \/ tries > MaxRetries /\ Conclude("failed", "timeout")
  /\ UNCHANGED waitUnchanged

\* Any other NACK aborts, as does a line that is no reply to a frame.
FrameRejected ==
  /\ pc = "wait" /\ Read
  /\ ~ Acknowledged(Line) /\ Line # OffsetNack(frame.offset)
  /\ Conclude("failed", "rejected")
  /\ UNCHANGED waitUnchanged

\* The offset an acknowledgement of the frame must carry.
Expected == frame.offset + Len(frame.data)

\* Mutant: any acknowledgement advances the upload.
BeginOrDataAckedMutant ==
  /\ pc = "wait" /\ Read /\ Acknowledged(Line) /\ frame.type \in {"begin", "data"}
  /\ Exchange(IF Expected < ImageSize[package] THEN DataFrame(package, Expected)
              ELSE CommitFrame(Expected), Expected)
  /\ UNCHANGED waitUnchanged

BeginOrDataAcked ==
  /\ pc = "wait" /\ Read /\ Acknowledged(Line) /\ frame.type \in {"begin", "data"}
  /\ \/ /\ Line.next = Expected
        /\ Exchange(IF Expected < ImageSize[package] THEN DataFrame(package, Expected)
                    ELSE CommitFrame(Expected), Expected)
     \/ Line.next # Expected /\ Conclude("failed", "offset")
  /\ UNCHANGED waitUnchanged

CommitAcked ==
  /\ pc = "wait" /\ Read /\ Acknowledged(Line) /\ frame.type = "commit"
  /\ \/ /\ Line = Staged /\ pc' = "trailer"
        /\ UNCHANGED <<guiVars, frame, offset, tries>>
     \/ Line # Staged /\ Conclude("failed", "unstaged")
  /\ UNCHANGED waitUnchanged

\* The line after STAGED is read and ignored, whatever it is.
ReadTrailer ==
  /\ pc = "trailer" /\ (Read \/ TimedOut)
  /\ Conclude("staged", "none")
  /\ UNCHANGED waitUnchanged

Uploader == \/ SendHello \/ ReadReady \/ ReadOk \/ HandshakeFails \/ SendFrame
            \/ RetryFrame \/ FrameRejected \/ BeginOrDataAcked \/ CommitAcked
            \/ ReadTrailer

-----------------------------------------------------------------------------
(* The acquisition worker: a reply line leaves the byte stream.  The queue   *)
(* of an earlier attempt is drained only with the first chunk after          *)
(* start_ota; while no upload is armed the line goes to the SDF1 parser.     *)
ReceiveLine ==
  /\ down # <<>> /\ down' = Tail(down)
  /\ replies' = IF ~ armed THEN replies
                ELSE IF resetting THEN <<Head(down)>>
                ELSE Append(replies, Head(down))
  /\ resetting' = FALSE
  /\ UNCHANGED <<guiVars, cancelling, hostVars, armed, up, faults, benign, deviceVars>>

\* That first chunk may hold no reply line, only frames for the SDF1 parser.  A later one
\* changes nothing here.
ReceiveFrames ==
  /\ armed /\ resetting
  /\ replies' = <<>> /\ resetting' = FALSE
  /\ UNCHANGED <<guiVars, cancelling, hostVars, armed, up, down, faults, benign, deviceVars>>

-----------------------------------------------------------------------------
(* The device.                                                               *)

Answer(lines) ==
  /\ up # <<>> /\ up' = Tail(up)
  /\ down' = down \o lines
  /\ UNCHANGED <<guiVars, cancelling, hostVars, armed, resetting, replies>>

\* Mutant: a new session keeps the bytes of the one before.
DeviceHelloMutant ==
  /\ up # <<>> /\ Head(up).type = "hello"
  /\ Answer(<<Ready, Ok>>)
  /\ next' = 0
  /\ UNCHANGED <<image, staged, faults, benign>>

DeviceHello ==
  /\ up # <<>> /\ Head(up).type = "hello"
  /\ Answer(<<Ready, Ok>>)
  /\ next' = 0 /\ image' = <<>>
  /\ UNCHANGED <<staged, faults, benign>>

DeviceBegin ==
  /\ up # <<>> /\ Head(up).type = "begin"
  /\ Answer(<<Ack(0)>>)
  /\ UNCHANGED <<deviceVars, faults, benign>>

DeviceCancel ==
  /\ up # <<>> /\ Head(up).type = "cancel"
  /\ Answer(<<Ack(next)>>)
  /\ UNCHANGED <<deviceVars, faults, benign>>

DeviceCommit ==
  /\ up # <<>> /\ Head(up).type = "commit"
  /\ Answer(<<Staged, Ok>>)
  /\ staged' = image
  /\ UNCHANGED <<next, image, faults, benign>>

\* Contiguous data is stored; anything else is acknowledged as it stands.
DeviceData ==
  /\ up # <<>> /\ Head(up).type = "data"
  /\ LET f == Head(up) IN
       \/ /\ f.offset = next
          /\ image' = image \o f.data /\ next' = next + Len(f.data)
          /\ Answer(<<Ack(next + Len(f.data))>>)
       \/ /\ f.offset # next
          /\ UNCHANGED <<image, next>>
          /\ Answer(<<Ack(next)>>)
  /\ UNCHANGED <<staged, faults, benign>>

Device == DeviceHello \/ DeviceBegin \/ DeviceCancel \/ DeviceCommit \/ DeviceData

-----------------------------------------------------------------------------
(* Faults.                                                                   *)

linkUnchanged == <<guiVars, cancelling, hostVars, armed, resetting, replies, deviceVars>>

LoseFrame ==
  /\ Fault("loseFrame") /\ up # <<>> /\ up' = Tail(up)
  /\ UNCHANGED <<linkUnchanged, down>>

LoseReply ==
  /\ Fault("loseReply") /\ down # <<>> /\ down' = Tail(down)
  /\ UNCHANGED <<linkUnchanged, up>>

RepeatFrame ==
  /\ Fault("repeat") /\ up # <<>> /\ up' = <<Head(up)>> \o up
  /\ UNCHANGED <<linkUnchanged, down>>

\* The CRC32 of a damaged frame does not match: decode_frame fails.
DamageFrame ==
  /\ Fault("damage") /\ up # <<>> /\ Head(up).type # "hello"
  /\ Answer(<<Nack>>)
  /\ UNCHANGED deviceVars

BusyDevice ==
  /\ Fault("busy") /\ up # <<>> /\ Head(up).type = "data" /\ Head(up).offset = next
  /\ Answer(<<OffsetNack(next)>>)
  /\ UNCHANGED deviceVars

Link == LoseFrame \/ LoseReply \/ RepeatFrame \/ DamageFrame \/ BusyDevice

-----------------------------------------------------------------------------
Next == \/ \E p \in Packages : StartOta(p)
        \/ CancelOta \/ EndOta \/ Uploader \/ ReceiveLine \/ ReceiveFrames \/ Device \/ Link

Spec == Init /\ [][Next]_vars

(* The uploader's thread, the worker and the device keep running, and the    *)
(* GUI's event loop delivers the final signal.  Starting, cancelling and     *)
(* faults are not fair.                                                      *)
FairSpec ==
  /\ Spec
  /\ WF_vars(Uploader) /\ WF_vars(ReceiveLine) /\ WF_vars(Device) /\ WF_vars(EndOta)

-----------------------------------------------------------------------------
(* Properties.                                                               *)

FrameTypes == {"hello", "begin", "data", "commit", "cancel"}
LineKinds  == {"ready", "ok", "ack", "offset", "nack", "staged"}
Byte       == Packages \X (Nat \ {0})
Frame      == [type : FrameTypes, offset : Nat, data : Seq(Byte)]
ReplyLine  == [kind : LineKinds, next : Nat]

\* Every variable has its type.
TypeOK ==
  /\ package \in Packages \cup {NoPackage}
  /\ result \in {"none", "staged", "failed", "cancelled"}
  /\ cause \in {"none", "handshake", "size", "timeout", "rejected", "offset", "unstaged"}
  /\ pc \in {"idle", "hello", "ready", "ok", "send", "wait", "trailer", "done"}
  /\ frame \in Frame /\ offset \in Nat /\ tries \in 0..(MaxRetries + 1)
  /\ tried \subseteq Packages
  /\ quiet \in BOOLEAN /\ benign \in BOOLEAN /\ cancelling \in BOOLEAN /\ armed \in BOOLEAN /\ resetting \in BOOLEAN
  /\ replies \in Seq(ReplyLine) /\ down \in Seq(ReplyLine) /\ up \in Seq(Frame)
  /\ faults \in Nat /\ next \in Nat
  /\ image \in Seq(Byte) /\ staged \in Seq(Byte)

(* The progress reported to the user is durable, whatever the link loses,    *)
(* repeats, damages or delays: while the frames of an attempt that began on  *)
(* a quiet link are exchanged, the device holds at least the bytes the       *)
(* uploader counts as acknowledged.  Where the lines of earlier attempts are *)
(* under way, one of them can be taken for the acknowledgement of a frame    *)
(* that the device does not have yet.                                        *)
ProgressIsDurable ==
  quiet /\ pc \in {"send", "wait"} =>
    next >= offset /\ SubSeq(image, 1, offset) = SubSeq(Image(package), 1, offset)

(* An upload ends: retries are bounded and every wait has a timeout.         *)
UploadEnds == (pc = "hello") ~> (pc = "idle")

(* Losing frames or replies no more often than the uploader retries does not *)
(* fail a transfer that began on a quiet link: a BEGIN or DATA frame         *)
(* retransmitted after a lost acknowledgement is acknowledged again and not  *)
(* stored twice.  The handshake is not retried, an image larger than the     *)
(* device takes is not sent, and a STAGED line lost ahead of its OK fails    *)
(* the upload although the device staged the image.  An attempt that takes a *)
(* READY of an earlier one for its own reads the real READY as the answer to *)
(* BEGIN and fails although nothing was lost.                                *)
LossTolerated ==
  quiet /\ benign /\ faults <= MaxRetries /\ result = "failed" =>
    cause \in {"handshake", "size"} \/ frame.type = "commit"

-----------------------------------------------------------------------------
(* The refinement mapping: what the device holds is the first bytes of one   *)
(* package, and what it staged is a package.                                 *)

PartOf(p, bytes) ==
  Len(bytes) <= ImageSize[p] /\ bytes = SubSeq(Image(p), 1, Len(bytes))

Held ==
  IF image = <<>> THEN [package |-> NoPackage, bytes |-> 0]
  ELSE [package |-> image[1][1],
        bytes   |-> IF PartOf(image[1][1], image) THEN Len(image) ELSE -1]

Installed ==
  IF staged = <<>> THEN NoPackage
  ELSE IF staged = Image(staged[1][1]) THEN staged[1][1] ELSE staged

Abstract == INSTANCE OtaSpec WITH
              attempt <- package, outcome <- result, held <- Held, installed <- Installed

(* The upload implements the atomic update of OtaSpec: the frames, replies,  *)
(* retries and queues add up to storing a package front to back and to       *)
(* staging nothing but a whole one.                                          *)
ImplementsOtaSpec == Abstract!AbstractSpec

-----------------------------------------------------------------------------
(* The invariants the proofs rest on.  What an attempt that began on a quiet *)
(* link reads, once the queue was drained, answers its own frames.           *)

Answers == ToSet(down) \cup
           (IF pc \in {"ready", "ok", "send", "wait", "trailer"} /\ ~ resetting
            THEN ToSet(replies) ELSE {})

\* What the uploader is at, whatever the link does.
HostInv ==
  /\ pc # "idle" => armed
  /\ pc \notin {"idle", "done"} => package \in Packages /\ result = "none"
  /\ pc \in {"hello", "ready", "ok"} => frame = Hello
  /\ pc \in {"send", "wait"} => frame # Hello
  /\ pc = "send" => tries <= MaxRetries
  /\ pc = "trailer" => frame.type = "commit"
  /\ frame # Hello => package \in Packages
  /\ \/ frame \in {Hello, BeginFrame} /\ offset = 0
     \/ frame = DataFrame(package, offset) /\ offset < ImageSize[package]
     \/ frame = CommitFrame(offset) /\ offset = ImageSize[package]

\* The device has begun this session and holds the first bytes of its package.
Joined == /\ package \in Packages /\ next <= ImageSize[package]
          /\ Len(image) = next /\ image = SubSeq(Image(package), 1, next)

HelloPending == Hello \in ToSet(up)

HellosFirst(s) == \A i, j \in 1..Len(s) : i < j /\ s[j] = Hello => s[i] = Hello

\* The frames on the way to the device: HELLO first, DATA after the device has seen it.
SentInv ==
  /\ HellosFirst(up) /\ (up = <<>> \/ package \in Packages)
  /\ \A f \in ToSet(up) :
       \/ f = Hello \/ f.type = "cancel"
       \/ f = BeginFrame /\ frame # Hello
       \/ /\ f = DataFrame(package, f.offset) /\ f.offset < ImageSize[package]
          /\ frame \notin {Hello, BeginFrame}
       \/ f.type = "commit" /\ frame.type = "commit"

\* The lines on the way to the uploader: none is older than the last HELLO.
AnswerInv ==
  /\ resetting => Ready \notin ToSet(replies)
  /\ pc \in {"ok", "send", "wait", "trailer"} => ~ resetting
  /\ HelloPending => frame \in {Hello, BeginFrame} /\ Answers \subseteq {Ready, Ok}
  /\ offset <= next
  /\ frame # Hello \/ pc = "ok" \/ Ready \in ToSet(down) \cup ToSet(replies) => Joined
  /\ \A l \in Answers : /\ l.kind = "ack" => l.next <= next
                        /\ l.kind = "staged" => l = Staged /\ staged = Image(package)
  /\ pc = "trailer" => staged = Image(package)

\* No line of an earlier attempt will be read once the HELLO is answered.
Drained == resetting \/ replies = <<>>

QuietInv ==
  quiet => /\ pc = "hello" => Drained /\ up = <<>> /\ down = <<>>
           /\ SentInv /\ AnswerInv

\* While nothing but losses happens there is one frame or its answer under way, and every
\* transmission but the last was lost.
OkIsLast(s) == \A i \in 1..Len(s) : s[i] = Ok => i = Len(s)

HandshakeLines == /\ OkIsLast(replies) /\ OkIsLast(down)
                  /\ Ok \in ToSet(replies) => down = <<>>

Silent == up = <<>> /\ down = <<>> /\ replies = <<>>

HandshakeInv ==
  /\ pc = "ready" => \/ up = <<Hello>> /\ down = <<>> /\ Drained
                     \/ /\ up = <<>> /\ OkIsLast(down)
                        /\ resetting \/ HandshakeLines
                        /\ Ready \in Answers => next = 0
  /\ pc = "ok" => up = <<>> /\ HandshakeLines /\ next = 0

ExchangeInv ==
  pc \in {"send", "wait"} /\ frame.type # "commit" =>
    /\ next \in {offset, Expected} /\ (frame = BeginFrame => next = 0)
    /\ tries <= faults \/ (pc = "wait" /\ ~ Silent /\ tries <= faults + 1)
    /\ \/ Silent
       \/ pc = "wait" /\ up = <<frame>> /\ down = <<>> /\ replies = <<>>
       \/ /\ pc = "wait" /\ up = <<>> /\ Len(down) + Len(replies) = 1
          /\ ToSet(down) \cup ToSet(replies) = {Ack(Expected)} /\ next = Expected

LossInv == quiet /\ benign => HandshakeInv /\ ExchangeInv /\ LossTolerated

IInv == TypeOK /\ HostInv /\ QuietInv /\ LossInv
=============================================================================

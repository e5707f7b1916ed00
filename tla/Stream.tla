------------------------------- MODULE Stream -------------------------------
(***************************************************************************)
(* The receive path of one connection: the acquisition worker reads the    *)
(* byte stream in chunks (acquisition/controller.py), the demultiplexer    *)
(* takes the text replies of an OTA session out of it (ota/demux.py) and   *)
(* the StreamParser finds the SDF1 frames in the rest (protocol/sdf1.py).  *)
(* One step is one round of a scanning loop.                               *)
(*                                                                         *)
(* A byte is a symbol, written as a tuple: the two halves of the magic, a  *)
(* header with its type and payload length, text, a newline, and a CRC     *)
(* that names the content it was computed from.  The buffers hold          *)
(* positions of the input, so that every byte can be followed.             *)
(***************************************************************************)
EXTENDS Integers, Sequences, SequencesExt, FiniteSetsExt

CONSTANTS
  Scripts,   \* what the device may send: sequences of names of items
  MaxChunk,  \* bound on the bytes of one read
  MaxLine,   \* _DEFAULT_MAX_LINE
  MaxArms    \* bound on the OTA sessions

Magic      == << <<"S">>, <<"D">> >>
HeaderSize == 3
CrcSize    == 1
MaxPayload == 4
MaxFrame   == HeaderSize + MaxPayload + CrcSize

Frames  == {"data", "cli"}
Replies == {"reply", "ok"}
Clean   == Frames \cup Replies \cup {"text", "unknown"}
Items   == Clean \cup {"damaged", "truncated", "oversized", "mismatch", "noise", "half"}

ASSUME StreamAssumption ==
  /\ Scripts \subseteq Seq(Items)
  /\ MaxChunk \in Nat \ {0} /\ MaxLine \in Nat \ {0} /\ MaxArms \in Nat

VARIABLES
  script,    \* the items the device sends in this behaviour
  input,     \* their bytes, each with the number of its item
  pos,       \* the bytes read so far
  armed,     \* _ota_active
  resetting, \* _ota_reset_pending
  step,      \* the worker is in "read", StreamDemultiplexer.feed or StreamParser.feed
  pending,   \* the demultiplexer's _pending
  parts,     \* parser_parts of this feed
  buffer,    \* the parser's _buffer from its cursor on
  frames,    \* the frames decoded so far
  lines,     \* the lines put into _ota_replies so far
  \* history
  fed,       \* what the parser was fed
  dropped,   \* what a reset of the demultiplexer discarded
  since,     \* where the running OTA session began in the input
  aligned,   \* every OTA session began between two items
  arms       \* OTA sessions so far

inputVars == <<script, input>>
otaVars   == <<armed, resetting, arms>>
demuxVars == <<pending, parts, lines, dropped, since, aligned>>
parseVars == <<buffer, frames, fed>>
vars == <<inputVars, pos, step, otaVars, demuxVars, parseVars>>

-----------------------------------------------------------------------------
(* What the device sends.  Item k is a whole line, a whole frame, or what a  *)
(* fault of the link left of one.                                            *)

Header(type, n, k) == <<"header", type, n, k>>

FrameBytes(header, payload) ==
  LET content == Append(Magic, header) \o payload
  IN Append(content, <<"crc", content>>)

CliText == << <<"text">>, <<"newline">>, <<"OK">>, <<"newline">> >>

Bytes(item, k) ==
  CASE item = "data"      -> FrameBytes(Header("data", 1, k), << <<"text">> >>)
    [] item = "cli"       -> FrameBytes(Header("cli", 4, k), CliText)
    [] item = "unknown"   -> FrameBytes(Header("unknown", 0, k), <<>>)
    [] item = "reply"     -> << <<"+OTA:">>, <<"newline">> >>
    [] item = "ok"        -> << <<"OK">>, <<"newline">> >>
    [] item = "text"      -> << <<"text">>, <<"newline">> >>
    [] item = "damaged"   -> Append(Append(Magic, Header("cli", 4, k)) \o CliText, <<"crc", <<>> >>)
    [] item = "truncated" -> Append(Magic, Header("data", 2, k))
    [] item = "oversized" -> FrameBytes(Header("data", MaxPayload + 1, k), << <<"text">> >>)
    [] item = "mismatch"  -> FrameBytes(Header("mismatch", 2, k), << <<"OK">>, <<"newline">> >>)
    [] item = "noise"     -> << <<"text">>, <<"text">> >>
    [] item = "half"      -> << Magic[1] >>

Sent(s, k) ==
  LET b == Bytes(s[k], k) IN [i \in 1..Len(b) |-> [byte |-> b[i], item |-> k]]

\* What the first k items make.
UpTo(s) ==
  LET upTo[k \in 0..Len(s)] == IF k = 0 THEN <<>> ELSE upTo[k - 1] \o Sent(s, k)
  IN  upTo

Input(s) == UpTo(s)[Len(s)]

Init ==
  /\ script \in Scripts /\ input = Input(script)
  /\ pos = 0 /\ step = "read"
  /\ armed = FALSE /\ resetting = FALSE /\ arms = 0
  /\ pending = <<>> /\ parts = <<>> /\ lines = <<>> /\ dropped = {}
  /\ since = 0 /\ aligned = TRUE
  /\ buffer = <<>> /\ frames = <<>> /\ fed = <<>>

-----------------------------------------------------------------------------
(* The GUI.  The worker looks at the two flags only when it has read a       *)
(* chunk, so a change during a scan is one between two reads.                *)

StartOta ==
  /\ step = "read" /\ ~ armed /\ arms < MaxArms
  /\ armed' = TRUE /\ resetting' = TRUE /\ arms' = arms + 1
  /\ UNCHANGED <<inputVars, pos, step, demuxVars, parseVars>>

EndOta ==
  /\ step = "read" /\ armed
  /\ armed' = FALSE /\ resetting' = FALSE
  /\ UNCHANGED <<inputVars, pos, step, arms, demuxVars, parseVars>>

-----------------------------------------------------------------------------
(* The worker: run and _parse_chunk.                                         *)

Read(n) ==
  /\ step = "read" /\ pos + n <= Len(input)
  /\ pos' = pos + n

Chunk(n) == [i \in 1..n |-> pos + i]

Boundary == pos = 0 \/ input[pos].item # input[pos + 1].item

\* The first chunk of an OTA session resets the demultiplexer.
ReadReset(n) ==
  /\ armed /\ resetting /\ Read(n)
  /\ pending' = Chunk(n) /\ dropped' = dropped \cup ToSet(pending)
  /\ since' = pos /\ aligned' = (aligned /\ Boundary)
  /\ resetting' = FALSE /\ step' = "demux"
  /\ UNCHANGED <<inputVars, armed, arms, parts, lines, parseVars>>

ReadArmed(n) ==
  /\ armed /\ ~ resetting /\ Read(n)
  /\ pending' = pending \o Chunk(n) /\ step' = "demux"
  /\ UNCHANGED <<inputVars, otaVars, parts, lines, dropped, since, aligned, parseVars>>

\* StreamParser.feed appends to its buffer and scans it.
Feed(bytes) == buffer' = buffer \o bytes /\ fed' = fed \o bytes /\ UNCHANGED frames

\* Mutant: the residue of the OTA session comes after the new bytes.
ReadPlainMutant(n) ==
  /\ ~ armed /\ Read(n)
  /\ Feed(Chunk(n) \o pending) /\ pending' = <<>> /\ step' = "parse"
  /\ UNCHANGED <<inputVars, otaVars, parts, lines, dropped, since, aligned>>

\* Without an OTA session; the residue of the last one goes first.
ReadPlain(n) ==
  /\ ~ armed /\ Read(n)
  /\ Feed(pending \o Chunk(n)) /\ pending' = <<>> /\ step' = "parse"
  /\ UNCHANGED <<inputVars, otaVars, parts, lines, dropped, since, aligned>>

-----------------------------------------------------------------------------
(* StreamDemultiplexer.feed.                                                 *)

At(s, i)      == input[s[i]].byte
MagicAt(s, i) == Len(s) > i /\ At(s, i) = Magic[1] /\ At(s, i + 1) = Magic[2]
FrameSize(h)  == HeaderSize + h[3] + CrcSize

\* The length fields are in range; a byte that is no header has none.
LengthsFit(h) == h[1] = "header" /\ h[3] <= MaxPayload

\* Mutant: only a frame that is there as a whole is recognised.
StartsFrameMutant == Len(pending) >= MaxFrame /\ MagicAt(pending, 1)

StartsFrame == MagicAt(pending, 1)

Newlines == {i \in 1..Len(pending) : At(pending, i) = <<"newline">>}

Scanning == step = "demux" /\ UNCHANGED <<inputVars, pos, step, otaVars, dropped, since,
                                          aligned, parseVars>>

\* The first n pending bytes go to the parser.
Pass(n) ==
  /\ parts' = parts \o SubSeq(pending, 1, n)
  /\ pending' = SubSeq(pending, n + 1, Len(pending))
  /\ UNCHANGED lines

DemuxFrame ==
  /\ Scanning /\ StartsFrame /\ Len(pending) >= HeaderSize
  /\ LengthsFit(At(pending, 3)) /\ Len(pending) >= FrameSize(At(pending, 3))
  /\ Pass(FrameSize(At(pending, 3)))

DemuxResync ==
  /\ Scanning /\ StartsFrame /\ Len(pending) >= HeaderSize
  /\ ~ LengthsFit(At(pending, 3))
  /\ Pass(1)

\* A +OTA: line, or OK alone on its line.
IsReply(n) == At(pending, 1) = <<"+OTA:">> \/ (n = 2 /\ At(pending, 1) = <<"OK">>)

DemuxLine ==
  /\ Scanning /\ ~ StartsFrame /\ Newlines # {}
  /\ LET n == Min(Newlines) IN
       \/ ~ IsReply(n) /\ Pass(n)
       \/ /\ IsReply(n)
          /\ lines' = Append(lines, SubSeq(pending, 1, n))
          /\ pending' = SubSeq(pending, n + 1, Len(pending))
          /\ UNCHANGED parts

IsFramePrefix ==
  StartsFrame \/ (Len(pending) = 1 /\ At(pending, 1) = Magic[1])

\* Mutant: a line that never ends is held for good.
ResidueMutant == <<>>

\* _release_held_residue.  A partial frame never reaches _MAX_FRAME_HOLD.
Residue == IF ~ IsFramePrefix /\ Len(pending) > MaxLine THEN pending ELSE <<>>

\* A partial frame or line is held for the next read.
DemuxHold ==
  /\ step = "demux"
  /\ \/ /\ StartsFrame
        /\ Len(pending) >= HeaderSize => /\ LengthsFit(At(pending, 3))
                                         /\ Len(pending) < FrameSize(At(pending, 3))
     \/ ~ StartsFrame /\ Newlines = {}
  /\ Feed(parts \o Residue) /\ parts' = <<>>
  /\ pending' = IF Residue = <<>> THEN pending ELSE <<>>
  /\ step' = IF parts \o Residue = <<>> THEN "read" ELSE "parse"
  /\ UNCHANGED <<inputVars, pos, otaVars, lines, dropped, since, aligned>>

Demux == DemuxFrame \/ DemuxResync \/ DemuxLine \/ DemuxHold

-----------------------------------------------------------------------------
(* StreamParser.feed.                                                        *)

Magics == {i \in 1..Len(buffer) : MagicAt(buffer, i)}

Parsing == step = "parse" /\ UNCHANGED <<inputVars, pos, otaVars, demuxVars, fed>>

Advance(n) == buffer' = SubSeq(buffer, n + 1, Len(buffer))

\* What precedes the next magic is discarded.
ParserSkip ==
  /\ Parsing /\ Magics # {} /\ 1 \notin Magics
  /\ Advance(Min(Magics) - 1) /\ UNCHANGED <<step, frames>>

\* Without a magic all but the last bytes are: they may be the start of one.
ParserNoMagic ==
  /\ Parsing /\ Magics = {}
  /\ Advance(Max({0, Len(buffer) - (Len(Magic) - 1)}))
  /\ step' = "read" /\ UNCHANGED frames

AtMagic   == Parsing /\ 1 \in Magics
HeaderFit == LengthsFit(At(buffer, 3)) /\ At(buffer, 3)[2] # "mismatch"
Whole     == Len(buffer) >= FrameSize(At(buffer, 3))

\* A partial header, or a partial frame, waits for the next read.
ParserWait ==
  /\ AtMagic
  /\ Len(buffer) >= HeaderSize => HeaderFit /\ ~ Whole
  /\ step' = "read" /\ UNCHANGED <<buffer, frames>>

\* A header size that does not go with the version, or a length out of range.
ParserInvalid ==
  /\ AtMagic /\ Len(buffer) >= HeaderSize /\ ~ HeaderFit
  /\ Advance(1) /\ UNCHANGED <<step, frames>>

Candidate == SubSeq(buffer, 1, FrameSize(At(buffer, 3)))
CrcFits   == LET n == Len(Candidate) - CrcSize IN
  At(Candidate, n + 1) = <<"crc", [i \in 1..n |-> At(Candidate, i)]>>

\* Mutant: a frame with a wrong CRC is skipped as a whole.
ParserCrcErrorMutant ==
  /\ AtMagic /\ Len(buffer) >= HeaderSize /\ HeaderFit /\ Whole /\ ~ CrcFits
  /\ Advance(Len(Candidate)) /\ UNCHANGED <<step, frames>>

ParserCrcError ==
  /\ AtMagic /\ Len(buffer) >= HeaderSize /\ HeaderFit /\ Whole /\ ~ CrcFits
  /\ Advance(1) /\ UNCHANGED <<step, frames>>

\* A valid frame is consumed; one of an unknown version or type is not decoded.
ParserFrame ==
  /\ AtMagic /\ Len(buffer) >= HeaderSize /\ HeaderFit /\ Whole /\ CrcFits
  /\ Advance(Len(Candidate))
  /\ frames' = IF At(buffer, 3)[2] \in Frames THEN Append(frames, Candidate) ELSE frames
  /\ UNCHANGED step

Parser == \/ ParserSkip \/ ParserNoMagic \/ ParserWait \/ ParserInvalid
          \/ ParserCrcError \/ ParserFrame

-----------------------------------------------------------------------------
Next == \/ StartOta \/ EndOta
        \/ \E n \in 1..MaxChunk : ReadReset(n) \/ ReadArmed(n) \/ ReadPlain(n)
        \/ Demux \/ Parser

Spec == Init /\ [][Next]_vars

-----------------------------------------------------------------------------
(* Properties.                                                               *)

\* The bytes before item k, and where its own are.
Start(k)     == Len(UpTo(script)[k - 1])
Positions(k) == [j \in 1..Len(Bytes(script[k], k)) |-> Start(k) + j]

\* The bytes that go to the parser, and those that went into a line.
Passing == fed \o parts \o pending
Claimed == UNION {ToSet(lines[i]) : i \in 1..Len(lines)}

Increasing(s) == \A i \in 1..(Len(s) - 1) : s[i] < s[i + 1]

Index == 1..Len(input)

\* Every variable has its type, and what is held between two reads is bounded: less
\* than a frame in the parser, less than a frame or a line in the demultiplexer.
TypeOK ==
  /\ script \in Scripts /\ pos \in 0..Len(input) /\ since \in 0..Len(input)
  /\ armed \in BOOLEAN /\ resetting \in BOOLEAN /\ aligned \in BOOLEAN
  /\ step \in {"read", "demux", "parse"} /\ arms \in 0..MaxArms
  /\ pending \in Seq(Index) /\ parts \in Seq(Index) /\ buffer \in Seq(Index)
  /\ frames \in Seq(Seq(Index)) /\ lines \in Seq(Seq(Index))
  /\ fed \in Seq(Index) /\ dropped \subseteq Index
  /\ step = "read" => /\ Len(buffer) < MaxFrame
                      /\ Len(pending) <= IF IsFramePrefix THEN MaxFrame - 1 ELSE MaxLine

(* No byte is lost, repeated or reordered between the transport and the      *)
(* parser: each byte read was fed to the parser, is part of a reply line, is *)
(* held by the demultiplexer, or was in it when a new OTA session reset it;  *)
(* and the order is kept when sessions start and end between two chunks.     *)
BytesConserved ==
  /\ Increasing(Passing) /\ IsSuffix(buffer, fed)
  /\ ToSet(Passing) \cup Claimed \cup dropped = 1..pos
  /\ ToSet(Passing) \cap Claimed = {} /\ ToSet(Passing) \cap dropped = {}
  /\ Claimed \cap dropped = {}

FrameHeader(i) == frames[i][HeaderSize]

IsIntact(i) == LET k == input[FrameHeader(i)].item IN
  /\ script[k] \in Frames
  /\ [j \in 1..Len(frames[i]) |-> At(frames[i], j)] = Bytes(script[k], k)

Decoded(k) == \E i \in 1..Len(frames) : FrameHeader(i) = Positions(k)[HeaderSize]

(* The parser decodes the intact frames of what it is fed, byte for byte,    *)
(* each once and in order, however the stream is cut into chunks and         *)
(* whatever lies between them: resynchronisation never runs past the start   *)
(* of a frame.  The header tells which frame it is.                          *)
IntactFramesDecoded ==
  /\ \A i \in 1..Len(frames) : IsIntact(i)
  /\ \A i \in 1..(Len(frames) - 1) : FrameHeader(i) < FrameHeader(i + 1)
  /\ \A k \in 1..Len(script) :
       script[k] \in Frames /\ ToSet(Positions(k)) \subseteq ToSet(fed) \ ToSet(buffer) => Decoded(k)

(* On a clean link, and if the OTA sessions begin between two items, exactly *)
(* the device's replies become lines: none comes from the payload of a       *)
(* frame, and none that was read in the session is missing.                  *)
RepliesSeparated ==
  ToSet(script) \subseteq Clean /\ aligned =>
    /\ \A i \in 1..Len(lines) : LET k == input[lines[i][1]].item IN
         script[k] \in Replies /\ lines[i] = Positions(k)
    /\ armed /\ ~ resetting /\ step = "read" =>
         \A k \in 1..Len(script) :
           LET p == Positions(k) IN
             script[k] \in Replies /\ ToSet(p) \subseteq (since + 1)..pos
               => Contains(lines, p)

(***************************************************************************)
(* The inductive invariant behind the theorems of StreamProofs.            *)
(***************************************************************************)

\* What the demultiplexer passes on is fed when it is done, and a scan that has ended
\* leaves less than a frame or a line.
HoldInv ==
  /\ step # "demux" =>
       parts = <<>> /\ Len(pending) <= IF IsFramePrefix THEN MaxFrame - 1 ELSE MaxLine
  /\ step # "parse" => Len(buffer) < MaxFrame

\* Any two are in order, so that removing some in between leaves them so.
Sorted(s) == \A i, j \in 1..Len(s) : i < j => s[i] < s[j]

\* Where each byte read is.
ByteInv ==
  /\ Sorted(Passing) /\ IsSuffix(buffer, fed)
  /\ ToSet(Passing) \cup Claimed \cup dropped = 1..pos
  /\ ToSet(Passing) \cap Claimed = {} /\ ToSet(Passing) \cap dropped = {}
  /\ Claimed \cap dropped = {}

IInv == TypeOK /\ input = Input(script) /\ HoldInv /\ ByteInv

\* As far as the parser has been fed, no byte of item k is missing.
Unbroken(k) ==
  \A p \in ToSet(Positions(k)) : (\E q \in ToSet(fed) : p <= q) => p \in ToSet(fed)

(* What the parser has decoded lies before what it still holds; and of a     *)
(* frame that is coming in, it holds the first byte until it decodes it.     *)
FrameInv ==
  /\ \A i \in 1..Len(frames) :
       IsIntact(i) /\ FrameHeader(i) \in ToSet(fed) /\ \A p \in ToSet(buffer) : FrameHeader(i) < p
  /\ \A i, j \in 1..Len(frames) : i < j => FrameHeader(i) < FrameHeader(j)
  /\ \A k \in 1..Len(script) :
       script[k] \in Frames /\ Start(k) + 1 \in ToSet(fed) /\ Unbroken(k)
         => Start(k) + 1 \in ToSet(buffer) \/ Decoded(k)

\* The demultiplexer has dealt with the items before k and holds the bytes read of k
\* on: after a scan, fewer than item k has.
HoldsFrom(k) ==
  /\ since <= Start(k) /\ Start(k) + Len(pending) = pos
  /\ pending = [i \in 1..Len(pending) |-> Start(k) + i]
  /\ step # "demux" => pending = <<>> \/ Len(pending) < Len(Bytes(script[k], k))
  /\ \A m \in 1..(k - 1) : script[m] \in Replies /\ since <= Start(m) => Contains(lines, Positions(m))

(* On a clean link with aligned sessions the scan is always at the start of  *)
(* an item.                                                                  *)
ReplyInv ==
  /\ step = "demux" => armed /\ ~ resetting
  /\ ToSet(script) \subseteq Clean /\ aligned =>
       /\ \A i \in 1..Len(lines) : \E k \in 1..Len(script) :
            script[k] \in Replies /\ lines[i] = Positions(k)
       /\ armed /\ ~ resetting => \E k \in 1..(Len(script) + 1) : HoldsFrom(k)
=============================================================================

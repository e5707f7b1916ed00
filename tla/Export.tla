------------------------------- MODULE Export -------------------------------
(***************************************************************************)
(* The export of a device's SD archive over one connection: the GUI that   *)
(* starts, cancels, finalises and times out exports                        *)
(* (presentation/app_controller.py), the worker that mirrors the device's  *)
(* state from its CLI replies and routes ARCHIVE_EXPORT frames             *)
(* (acquisition/controller.py, protocol/control_state.py), and the device  *)
(* as the repository's simulator plays it (transport/fake.py).             *)
(*                                                                         *)
(* The link keeps the order of bytes.  The host knows the device only      *)
(* through the mirror, which lags behind by all that is in the two queues. *)
(* An export moves the archive: the device empties its ring when the last  *)
(* frame is sent.                                                          *)
(***************************************************************************)
EXTENDS Integers, Sequences, FiniteSets, SequencesExt

CONSTANTS
  Frames,      \* frames in the SD ring
  AutoRetries, \* _EXPORT_AUTO_RETRIES
  MaxExports,  \* bound on the archive files opened
  MaxQueue,    \* bound on what is under way when the host issues a command
  MaxLosses,   \* bound on the replies not sent and the recorders that fail
  None         \* Python's None

Exports == 1..MaxExports

ASSUME ExportAssumption ==
  /\ Frames \in Nat \ {0} /\ AutoRetries \in Nat
  /\ MaxExports \in Nat /\ MaxQueue \in Nat /\ MaxLosses \in Nat
  /\ None \notin Exports

VARIABLES
  \* the GUI's _ManagedSession
  recorder,   \* archive_recorder: the file being written
  since,      \* archive_start_revision
  retries,    \* archive_retries
  cancelling, \* archive_cancel_requested
  status,     \* the status in the metadata of each file
  file,       \* the frames in each file
  counted,    \* the attached recorder's bytes_written is not zero
  failed,     \* the files whose recorder has a _failure
  exports,    \* files opened so far
  disturbed,  \* history: an export was closed by a cancel, a timeout or a lost link
  alive,      \* the session exists
  \* the worker
  mirror,     \* FirmwareControlState
  commands,   \* commands on the way to the device
  down,       \* replies and frames on the way to the host
  losses,     \* replies lost so far
  \* the device
  device,     \* its state: "IDLE", "ACQUIRE" or "EXPORT"
  run,        \* history: the export whose command it executes
  sent,       \* frames of that export sent
  ring,       \* the SD ring holds frames
  moved       \* history: the export that emptied the ring

fileVars   == <<file, counted, failed>>
guiVars    == <<recorder, since, retries, cancelling, status, fileVars, exports,
                disturbed, alive>>
deviceVars == <<device, run, sent, ring, moved>>
vars == <<guiVars, mirror, commands, down, losses, deviceVars>>

Command(c)  == [kind |-> c, export |-> None]
ExportOf(k) == [kind |-> "export", export |-> k]
Line(l)     == [kind |-> l]
State(s)    == [kind |-> "state", acq |-> s]
FrameOf(f)  == [kind |-> "frame", frame |-> f]

Terminal == {"EMPTY", "COMPLETE", "ABORTED"}

\* FirmwareControlState() with the first AT+STATE? answered.
NewMirror == [phase |-> "NONE", revision |-> 0, acq |-> "IDLE", target |-> "NONE"]

-----------------------------------------------------------------------------
(* A session whose first AT+STATE? has been answered.                        *)
Init ==
  /\ recorder = None /\ since = 0 /\ retries = 0 /\ cancelling = FALSE /\ mirror = NewMirror
  /\ status = [k \in Exports |-> "none"] /\ file = [k \in Exports |-> <<>>]
  /\ counted = FALSE /\ failed = {}
  /\ exports = 0 /\ disturbed = FALSE /\ alive = TRUE
  /\ commands = <<>> /\ down = <<>> /\ losses = 0
  /\ device = "IDLE" /\ run = None /\ sent = 0 /\ ring \in BOOLEAN /\ moved = None

-----------------------------------------------------------------------------
(* The GUI.                                                                  *)

UserMay == alive /\ Len(commands) + Len(down) <= MaxQueue

Enqueue(cs) == commands' = commands \o cs

\* _start_archive_recording: a new file and the revision it counts from.
OpenArchive(k) ==
  /\ exports' = k /\ recorder' = k /\ counted' = FALSE /\ since' = mirror.revision
  /\ status' = [status EXCEPT ![k] = "in_progress"]
  /\ Enqueue(<<ExportOf(k)>>)

StartExport ==
  /\ UserMay /\ recorder = None /\ mirror.acq = "IDLE"
  /\ exports + AutoRetries < MaxExports
  /\ OpenArchive(exports + 1)
  /\ retries' = 0 /\ cancelling' = FALSE
  /\ UNCHANGED <<file, failed, disturbed, alive, mirror, down, losses, deviceVars>>

\* Mutant: the cancel does not ask for the state it waits for.
CancelExportMutant ==
  /\ UserMay /\ recorder # None /\ ~ cancelling
  /\ cancelling' = TRUE
  /\ Enqueue(<<Command("stop")>>)
  /\ UNCHANGED <<recorder, since, retries, status, fileVars, exports, disturbed, alive,
                 mirror, down, losses, deviceVars>>

CancelExport ==
  /\ UserMay /\ recorder # None /\ ~ cancelling
  /\ cancelling' = TRUE
  /\ Enqueue(<<Command("stop"), Command("query")>>)
  /\ UNCHANGED <<recorder, since, retries, status, fileVars, exports, disturbed, alive,
                 mirror, down, losses, deviceVars>>

Issue(c) ==
  /\ UserMay /\ Enqueue(<<Command(c)>>)
  /\ UNCHANGED <<guiVars, mirror, down, losses, deviceVars>>

ClearSd == recorder = None /\ mirror.acq = "IDLE" /\ Issue("clear")

\* start_acquisition_for and stop_acquisition_for look at no export.
StartAcquisition == Issue("start")
StopAcquisition  == Issue("stop")

\* The status timer skips a session with an archive recorder, REFRESH does not.
RequestStatus == Issue("query")

CancelConfirmed == cancelling /\ mirror.acq = "IDLE" /\ mirror.target = "NONE"

\* Mutant: the phase an earlier export left behind ends the new one.
FinishedMutant == mirror.phase \in Terminal

Finished == mirror.phase \in Terminal /\ mirror.revision > since

CloseArchive(s) ==
  status' = [status EXCEPT ![recorder] = s] /\ recorder' = None /\ counted' = FALSE

\* stop has drained the queue: bytes_written counts all that was written.
ZeroByteAbort == mirror.phase = "ABORTED" /\ file[recorder] = <<>> /\ ~ counted

\* Mutant: one automatic retry too many.
MayRetryMutant == retries <= AutoRetries /\ exports < MaxExports

\* archive_retries < _EXPORT_AUTO_RETRIES
MayRetry == retries < AutoRetries

\* _finalize_completed_export after a cancel the mirror confirms.
FinalizeCancelled ==
  /\ alive /\ recorder # None /\ CancelConfirmed
  /\ CloseArchive("ABORTED")
  /\ cancelling' = FALSE /\ disturbed' = TRUE
  /\ UNCHANGED <<since, retries, file, failed, exports, alive, mirror, commands, down, losses,
                 deviceVars>>

\* _finalize_completed_export in a terminal phase.
FinalizeExport ==
  /\ alive /\ recorder # None /\ ~ CancelConfirmed /\ Finished
  /\ ~ (ZeroByteAbort /\ MayRetry)
  /\ CloseArchive(mirror.phase) /\ cancelling' = FALSE
  /\ UNCHANGED <<since, retries, file, failed, exports, disturbed, alive, mirror, commands,
                 down, losses, deviceVars>>

\* _retry_export_after_abort, in the same handler.
RetryExport ==
  /\ alive /\ recorder # None /\ ~ CancelConfirmed /\ Finished
  /\ ZeroByteAbort /\ MayRetry
  /\ exports' = exports + 1 /\ recorder' = exports + 1 /\ counted' = FALSE
  /\ since' = mirror.revision
  /\ status' = [status EXCEPT ![recorder] = "ABORTED", ![exports + 1] = "in_progress"]
  /\ Enqueue(<<ExportOf(exports + 1)>>)
  /\ retries' = retries + 1 /\ cancelling' = FALSE
  /\ UNCHANGED <<file, failed, disturbed, alive, mirror, down, losses, deviceVars>>

\* Mutant: an export that has begun is never timed out.
WatchdogMutant ==
  /\ alive /\ recorder # None /\ ~ Finished
  /\ ~ counted /\ ~ cancelling /\ mirror.phase = "NONE"
  /\ CloseArchive("stalled") /\ disturbed' = TRUE
  /\ UNCHANGED <<since, retries, cancelling, file, failed, exports, alive, mirror, commands,
                 down, losses, deviceVars>>

\* _watchdog_stalled_export, ten seconds after the start: it reads the bytes the
\* writer has counted, not those submitted, and sends nothing to the device.
Watchdog ==
  /\ alive /\ recorder # None /\ ~ Finished
  /\ ~ counted /\ ~ cancelling /\ mirror.phase \notin Terminal
  /\ CloseArchive("stalled") /\ disturbed' = TRUE
  /\ UNCHANGED <<since, retries, cancelling, file, failed, exports, alive, mirror, commands,
                 down, losses, deviceVars>>

\* The session ends: _finalize_session_recorders, and its fields go with it.
LinkLost ==
  /\ alive /\ alive' = FALSE
  /\ \/ recorder = None /\ UNCHANGED <<recorder, status, counted, disturbed>>
     \/ recorder # None /\ CloseArchive("ABORTED") /\ disturbed' = TRUE
  /\ commands' = <<>> /\ down' = <<>>
  /\ since' = 0 /\ retries' = 0 /\ cancelling' = FALSE /\ mirror' = NewMirror
  /\ UNCHANGED <<file, failed, exports, losses, deviceVars>>

Gui == \/ StartExport \/ CancelExport \/ ClearSd \/ StartAcquisition
       \/ StopAcquisition \/ RequestStatus \/ LinkLost

Tick == FinalizeCancelled \/ FinalizeExport \/ RetryExport \/ Watchdog

-----------------------------------------------------------------------------
(* The worker, _handle_frame, and the thread that writes the file.           *)

Arrives == down # <<>> /\ down' = Tail(down)

\* Mutant: a cancel that was only requested already drops frames.
ReceiveFrameMutant ==
  /\ Arrives /\ Head(down).kind = "frame"
  /\ file' = IF recorder = None \/ recorder \in failed \/ cancelling THEN file
             ELSE [file EXCEPT ![recorder] = Append(@, Head(down).frame)]
  /\ UNCHANGED <<recorder, since, retries, cancelling, status, counted, failed,
                 exports, disturbed, alive, mirror, commands, losses, deviceVars>>

\* An archive frame goes to the attached recorder, or nowhere.
ReceiveFrame ==
  /\ Arrives /\ Head(down).kind = "frame"
  /\ file' = IF recorder = None \/ recorder \in failed THEN file
             ELSE [file EXCEPT ![recorder] = Append(@, Head(down).frame)]
  /\ UNCHANGED <<recorder, since, retries, cancelling, status, counted, failed,
                 exports, disturbed, alive, mirror, commands, losses, deviceVars>>

\* The writer thread counts the first chunk it has written.
WriterCounts ==
  /\ recorder # None /\ file[recorder] # <<>> /\ ~ counted /\ counted' = TRUE
  /\ UNCHANGED <<recorder, since, retries, cancelling, status, file, failed, exports,
                 disturbed, alive, mirror, commands, down, losses, deviceVars>>

\* The recorder fails, over its capacity or at the disk: the frames still queued may
\* be lost, and submit refuses the later ones.  Nothing else looks at the failure.
RecorderFails ==
  /\ recorder # None /\ recorder \notin failed
  /\ losses + Cardinality(failed) < MaxLosses
  /\ failed' = failed \cup {recorder}
  /\ \E n \in 0..Len(file[recorder]) : file' = [file EXCEPT ![recorder] = SubSeq(@, 1, n)]
  /\ UNCHANGED <<recorder, since, retries, cancelling, status, counted, exports,
                 disturbed, alive, mirror, commands, down, losses, deviceVars>>

Event(m, phase) == [m EXCEPT !.phase = phase, !.revision = @ + 1]

TargetOf(s) == IF s = "EXPORT" THEN "SET" ELSE "NONE"

\* updated_from_cli, as ControlState has it for all fields and lines, for the four fields
\* that exports depend on: any EXPORT_ line counts one revision.
UpdatedFromCli(m, l) ==
  CASE l.kind = "begin"   -> [Event(m, "IN_PROGRESS") EXCEPT !.target = "SET"]
    [] l.kind = "empty"   -> Event(m, "EMPTY")
    [] l.kind = "aborted" -> Event(m, "ABORTED")
    [] l.kind = "end"     -> [Event(m, "COMPLETE") EXCEPT !.acq = "IDLE", !.target = "NONE"]
    [] l.kind = "acquire" -> [m EXCEPT !.acq = "ACQUIRE"]
    [] l.kind = "state"   -> [m EXCEPT !.acq = l.acq, !.target = TargetOf(l.acq)]

ReceiveLine ==
  /\ Arrives /\ Head(down).kind # "frame"
  /\ mirror' = UpdatedFromCli(mirror, Head(down))
  /\ UNCHANGED <<guiVars, commands, losses, deviceVars>>

-----------------------------------------------------------------------------
(* The device.  Bare OK and ERROR replies change nothing and are left out.   *)

Take(c) == commands # <<>> /\ Head(commands).kind = c /\ commands' = Tail(commands)

\* A reply goes out, or there is no control buffer left for it.
Reply(l) ==
  \/ down' = Append(down, l) /\ UNCHANGED losses
  \/ losses + Cardinality(failed) < MaxLosses /\ losses' = losses + 1 /\ UNCHANGED down

deviceUnchanged == <<guiVars, mirror>>

DeviceExport ==
  /\ Take("export")
  /\ \/ /\ device = "IDLE" /\ ring
        /\ device' = "EXPORT" /\ run' = Head(commands).export /\ sent' = 0
        /\ Reply(Line("begin"))
     \/ /\ device = "IDLE" /\ ~ ring
        /\ Reply(Line("empty")) /\ UNCHANGED <<device, run, sent>>
     \/ device # "IDLE" /\ UNCHANGED <<device, run, sent, down, losses>>
  /\ UNCHANGED <<deviceUnchanged, ring, moved>>

Idle == device' = "IDLE" /\ run' = None /\ sent' = 0

\* STOP ends an acquisition or an export with a bare OK.
DeviceStop ==
  /\ Take("stop") /\ Idle
  /\ UNCHANGED <<deviceUnchanged, down, losses, ring, moved>>

DeviceStart ==
  /\ Take("start")
  /\ \/ device = "IDLE" /\ device' = "ACQUIRE" /\ Reply(Line("acquire"))
     \/ device # "IDLE" /\ UNCHANGED <<device, down, losses>>
  /\ UNCHANGED <<deviceUnchanged, run, sent, ring, moved>>

DeviceQuery ==
  /\ Take("query") /\ Reply(State(device))
  /\ UNCHANGED <<deviceUnchanged, deviceVars>>

DeviceClear ==
  /\ Take("clear") /\ ring' = (ring /\ device # "IDLE")
  /\ UNCHANGED <<deviceUnchanged, down, losses, device, run, sent, moved>>

DeviceSendFrame ==
  /\ alive /\ device = "EXPORT" /\ sent < Frames
  /\ sent' = sent + 1 /\ down' = Append(down, FrameOf(<<run, sent + 1>>))
  /\ UNCHANGED <<deviceUnchanged, commands, losses, device, run, ring, moved>>

\* _finish_export: the ring is empty and the device idle before END is sent.
DeviceFinish ==
  /\ alive /\ device = "EXPORT" /\ sent = Frames
  /\ Idle /\ ring' = FALSE /\ moved' = run
  /\ Reply(Line("end"))
  /\ UNCHANGED <<deviceUnchanged, commands>>

\* The device gives up an export: the ring keeps its frames.
DeviceAborts ==
  /\ alive /\ device = "EXPORT" /\ Idle
  /\ Reply(Line("aborted"))
  /\ UNCHANGED <<deviceUnchanged, commands, ring, moved>>

\* The commands the device knows.
WriteControl == DeviceExport \/ DeviceStop \/ DeviceStart \/ DeviceQuery \/ DeviceClear

Device == WriteControl \/ DeviceSendFrame \/ DeviceFinish

-----------------------------------------------------------------------------
Next == \/ Gui \/ Tick \/ ReceiveFrame \/ ReceiveLine \/ WriterCounts \/ RecorderFails
        \/ Device \/ DeviceAborts

Spec == Init /\ [][Next]_vars

(* The snapshot timer runs, the worker reads and the device executes its     *)
(* commands; users, aborts and lost links owe nothing.                       *)
FairSpec ==
  Spec /\ WF_vars(Tick) /\ WF_vars(ReceiveFrame \/ ReceiveLine) /\ WF_vars(WriterCounts)
       /\ WF_vars(Device)

-----------------------------------------------------------------------------
(* Properties.                                                               *)

Frame  == Exports \X (1..Frames)
Status == {"none", "in_progress", "stalled"} \cup Terminal
Item   == [kind : {"begin", "empty", "aborted", "end", "acquire"}]
          \cup [kind : {"state"}, acq : {"IDLE", "ACQUIRE", "EXPORT"}]
          \cup [kind : {"frame"}, frame : Frame]

Mirror == [phase : Terminal \cup {"NONE", "IN_PROGRESS"}, revision : Nat,
           acq : {"IDLE", "ACQUIRE", "EXPORT"}, target : {"NONE", "SET"}]
Commands == [kind : {"export", "stop", "start", "query", "clear"},
             export : Exports \cup {None}]

\* Every variable has its type, and an export is retried AutoRetries times at most.
TypeOK ==
  /\ recorder \in Exports \cup {None} /\ since \in Nat /\ retries \in 0..AutoRetries
  /\ cancelling \in BOOLEAN /\ counted \in BOOLEAN /\ failed \subseteq Exports
  /\ disturbed \in BOOLEAN /\ alive \in BOOLEAN
  /\ status \in [Exports -> Status] /\ file \in [Exports -> Seq(Frame)]
  /\ exports \in 0..MaxExports /\ losses \in 0..MaxLosses
  /\ mirror \in Mirror /\ commands \in Seq(Commands) /\ down \in Seq(Item)
  /\ device \in {"IDLE", "ACQUIRE", "EXPORT"} /\ run \in Exports \cup {None}
  /\ sent \in 0..Frames /\ ring \in BOOLEAN /\ moved \in Exports \cup {None}

\* The first n frames of the archive, as export k sends them, and all of them.
FirstFrames(k, n) == [i \in 1..n |-> <<k, i>>]
Archive(k) == FirstFrames(k, Frames)

\* The places in the queue d that hold a frame.
FramePlaces(d) == {j \in DOMAIN d : d[j].kind = "frame"}

\* What is on the way in d are the frames a to b of export k, each once and in order.
OnTheWay(d, k, a, b) ==
  /\ \A j \in FramePlaces(d) : \E i \in a..b : d[j].frame = <<k, i>>
  /\ \A i \in a..b : \E j \in FramePlaces(d) : d[j].frame = <<k, i>>
  /\ \A j, l \in FramePlaces(d) : j < l => d[j].frame[2] < d[l].frame[2]

\* Of the first n frames of export k some are in the file f, the others on the way to it.
Moving(f, d, k, n) ==
  Len(f) <= n /\ f = FirstFrames(k, Len(f)) /\ OnTheWay(d, k, Len(f) + 1, n)

(* A file whose metadata says complete holds the whole archive, in order and *)
(* once, over aborts, retries, acquisitions and lost replies, as long as no  *)
(* export before it was closed by a cancel or by the watchdog and the file   *)
(* carries no failure of its recorder.                                       *)
CompleteExportIsWhole ==
  ~ disturbed => \A k \in Exports \ failed :
                   status[k] = "COMPLETE" => file[k] = Archive(k)

(* The archive is moved, never lost: when an export has emptied the ring its *)
(* frames are in the local file or on the way to it, each once and in order, *)
(* unless the file carries a failure.                                        *)
UndisturbedMove ==
  moved \in Exports \ failed /\ ~ disturbed /\ alive => Moving(file[moved], down, moved, Frames)

(* A cancel is confirmed: STOP and the state query that follows it close the *)
(* export, unless a reply is lost or an acquisition starts before the timer  *)
(* has seen the idle device.                                                 *)
CancelEnds ==
  \A k \in Exports :
    (recorder = k /\ cancelling)
      ~> (recorder # k \/ ~ cancelling \/ losses > 0 \/ mirror.acq = "ACQUIRE")

(* An export that writes nothing is detached, unless the user cancels it or  *)
(* the phase shown is one an earlier export left behind.                     *)
StallIsDetected ==
  \A k \in Exports :
    (recorder = k /\ ~ counted /\ ~ cancelling /\ mirror.phase \notin Terminal)
      ~> (recorder # k \/ counted \/ cancelling)

(* What the host closes is over: unless it was disturbed, the device is not  *)
(* executing a closed export and no command that starts it is under way.     *)
ClosedExportIsOver ==
  ~ disturbed => \A k \in Exports :
    status[k] \notin {"none", "in_progress"} =>
      ~ (device = "EXPORT" /\ run = k) /\ ~ Contains(commands, ExportOf(k))

(* The archive is moved, never lost, whatever the user and the timers do: a  *)
(* frame that has left the ring was saved in some file or is on its way.     *)
ArchiveIsMoved ==
  moved # None /\ alive => \A i \in 1..Frames : \E r \in Exports :
    \/ \E j \in FramePlaces(down) : down[j].frame = <<r, i>>
    \/ \E k \in Exports : Contains(file[k], <<r, i>>)

-----------------------------------------------------------------------------
(* The inductive invariant.  TypeInv holds always, the rest until a cancel,  *)
(* a timeout or a lost link closes an export.                                *)

TypeInv ==
  /\ TypeOK
  /\ recorder # None => recorder = exports /\ exports + AutoRetries - retries <= MaxExports
  /\ device = "EXPORT" => run \in Exports
  /\ \A i \in DOMAIN commands : commands[i].kind = "export" => commands[i].export \in Exports

Traffic == {"begin", "empty", "aborted", "end", "frame"}
Last3   == {"empty", "aborted", "end"}

\* Nothing of an export is on the way to the host, or to the device.
NoTraffic(d) == \A j \in DOMAIN d : d[j].kind \notin Traffic
NoExport(c)  == \A i \in DOMAIN c : c[i].kind # "export"

\* The mirror has seen no end of the export since it was started.
NotOver == mirror.phase \in Terminal => mirror.revision = since

\* A command that starts an export starts the one of the recorder, and nothing of it
\* has happened yet.
PendingInv ==
  /\ \A i, j \in DOMAIN commands : commands[i].kind = "export" /\ commands[j].kind = "export" => i = j
  /\ \A i \in DOMAIN commands : commands[i].kind = "export" =>
       /\ recorder # None /\ commands[i].export = recorder /\ file[recorder] = <<>>
       /\ device # "EXPORT" /\ NoTraffic(down) /\ mirror.revision = since

\* The device executes the recorder's export.
RunningInv ==
  device = "EXPORT" =>
    /\ recorder # None /\ run = recorder /\ NoExport(commands) /\ NotOver /\ ring
    /\ \A j \in DOMAIN down : down[j].kind \notin Last3
    /\ recorder \notin failed => Moving(file[recorder], down, recorder, sent)

\* What is on the way belongs to the recorder's export; its end comes last.
DownInv ==
  /\ recorder = None => NoTraffic(down)
  /\ \A j \in FramePlaces(down) : down[j].frame[1] = recorder
  /\ \A j \in DOMAIN down : down[j].kind \in Last3 =>
       /\ NotOver /\ \A i \in DOMAIN down : i > j => down[i].kind \notin Traffic
       /\ down[j].kind = "end" => moved = recorder

\* An export that is over left nothing behind.
OverInv ==
  /\ mirror.revision >= since
  /\ recorder # None /\ Finished =>
       /\ NoTraffic(down) /\ NoExport(commands) /\ device # "EXPORT"
       /\ mirror.phase = "COMPLETE" => moved = recorder

\* The ring is emptied once.
MovedInv == moved # None =>
              ~ ring /\ (moved \notin failed => Moving(file[moved], down, moved, Frames))

StatusInv ==
  /\ recorder # None => status[recorder] = "in_progress"
  /\ \A k \in Exports : k > exports => status[k] = "none" /\ file[k] = <<>>

SessionInv == /\ PendingInv /\ RunningInv /\ DownInv /\ OverInv /\ MovedInv /\ StatusInv
              /\ CompleteExportIsWhole

IInv == TypeInv /\ (~ disturbed => SessionInv)
=============================================================================

----------------------------- MODULE OtaSession -----------------------------
(***************************************************************************)
(* A firmware update as the application runs it: the OtaDialog the user    *)
(* drives (presentation/ota_dialog.py), AppController's OTA operations and *)
(* the gates that keep other operations off the device meanwhile           *)
(* (presentation/app_controller.py), the uploader's thread, the Wi-Fi      *)
(* sessions it runs over and loses, and the device that resets once it has *)
(* staged the image.  OtaUpload has the protocol of the upload itself.     *)
(*                                                                         *)
(* The dialog is modal: what the user does in the main window happens      *)
(* while it is closed.  Threads post their signals to the event queue of   *)
(* the GUI thread, whose handlers are atomic.                              *)
(***************************************************************************)
EXTENDS OtaPackage, FiniteSets

CONSTANTS
  Files,      \* the files the user may choose, and
  Versions,   \* what the user may write into the version field
  Devices,    \* the devices behind the Wi-Fi gateway
  MaxLinks,   \* bound on the links they open
  MaxUploads, \* bound on the uploads started
  None        \* Python's None

Links == 1..MaxLinks

ASSUME OtaSessionAssumption ==
  /\ MaxLinks \in Nat /\ MaxUploads \in Nat /\ None \notin Devices /\ None \notin Links
  /\ None \notin [node : 0..MaxLinks, uuid : Devices \cup {None}]

VARIABLES
  \* the links and their sessions
  opened,    \* links opened so far
  device,    \* the device of each link
  up,        \* the links that work
  id,        \* the number of the node id a link has: gateway numbers restart at 1
  numbered,  \* node ids given out by the present listener
  live,      \* _sessions
  bound,     \* the sessions whose device is identified
  mirror,    \* a session's FirmwareControlState: "none" before the first, and then its
             \* ota_state, "unknown" until a reply says what it is
  active,    \* the sessions with ota_active
  awaiting,  \* the sessions with ota_awaiting_restart
  recording, \* _recording_active
  inbox,     \* the GUI thread's event queue
  \* OTA in the controller
  otaNode,   \* _ota_node_id
  context,   \* _ota_context: the node and the device it had then
  reconnect, \* _ota_reconnect
  worker,    \* the uploader's thread: "none", "data", "commit" or "ended"
  cancel,    \* the cancel event
  uploads,   \* uploads started
  \* the dialog
  showing,   \* it is open
  node,      \* _node_id
  uploading, \* _uploading
  waiting,   \* WAIT_RESTART was the last ota_state it got
  \* the devices
  machine,   \* "run", "ota" or "staged"
  answered,  \* STAGED is in the uploader's queue
  restarted, \* the devices that reset since they staged an image
  \* what happened
  carrier,   \* the link of the last upload
  succeeded, \* the links whose upload was staged
  alarmed,   \* the reset after such an upload was reported as an error
  disturbed, \* what happened beside the dialog during the upload: "hidden" if Esc hid it,
             \* "gated" and "ungated" if an operation got to the device that the
             \* controller checks for an upload, or does not
  stuck,     \* why nothing will end the upload the dialog shows, or "no"
  crashed    \* a running QThread was destroyed

linkVars    == <<opened, device, up, id, numbered, bound, mirror>>
sessionVars == <<live, active, awaiting, recording>>
otaVars     == <<otaNode, context, reconnect, worker, cancel, uploads>>
dialogVars  == <<showing, node, uploading, waiting>>
deviceVars  == <<machine, answered, restarted>>
history     == <<carrier, succeeded, alarmed, disturbed, stuck, crashed>>
vars == <<linkVars, sessionVars, inbox, otaVars, dialogVars, deviceVars, history>>

Init ==
  /\ opened = 0 /\ device = [l \in Links |-> None] /\ up = {}
  /\ id = [l \in Links |-> 0] /\ numbered = 0 /\ bound = {}
  /\ mirror = [l \in Links |-> "none"]
  /\ live = {} /\ active = {} /\ awaiting = {}
  /\ recording = FALSE /\ inbox = <<>>
  /\ otaNode = None /\ context = None /\ reconnect = None
  /\ worker = "none" /\ cancel = FALSE /\ uploads = 0
  /\ showing = FALSE /\ node = None /\ uploading = FALSE /\ waiting = FALSE
  /\ machine = [d \in Devices |-> "run"] /\ answered = FALSE /\ restarted = {}
  /\ carrier = None /\ succeeded = {} /\ alarmed = FALSE
  /\ disturbed = {} /\ stuck = "no" /\ crashed = FALSE

Post(events) == inbox' = inbox \o events
Event(kind, l) == [kind |-> kind, link |-> l]

\* The two signals of an acquisition worker that meets a dead link; the first says
\* here whether the device's reset took it down.
LossEvents(l, why) == <<Event(why, l), Event("finished", l)>>

\* _sessions.get(node_id)
SessionOf(n) == {l \in live : id[l] = n}

-----------------------------------------------------------------------------
(* Links and devices.                                                        *)

\* A device without a link opens one; the accept thread numbers it.
OpenLink(d) ==
  /\ ~ crashed /\ opened < MaxLinks /\ \A l \in up : device[l] # d
  /\ opened' = opened + 1 /\ numbered' = numbered + 1
  /\ device' = [device EXCEPT ![opened + 1] = d]
  /\ id' = [id EXCEPT ![opened + 1] = numbered + 1]
  /\ up' = up \cup {opened + 1}
  /\ Post(<<Event("accepted", opened + 1)>>)
  /\ UNCHANGED <<bound, mirror, sessionVars, otaVars, dialogVars, deviceVars, history>>

LinkDrops(l) ==
  /\ l \in up \cap live
  /\ up' = up \ {l} /\ Post(LossEvents(l, "lost"))
  /\ UNCHANGED <<opened, device, id, numbered, bound, mirror, sessionVars, otaVars,
                 dialogVars, deviceVars, history>>

\* The first reply of any kind makes a FirmwareControlState, which has an ota_state
\* only when an OTA line was among the replies.
Replied(l) == mirror' = [mirror EXCEPT ![l] = IF @ = "none" THEN "unknown" ELSE @]

\* The device is identified by a sensor frame, or by its reply to AT+UUID?.
BindIdentity(l) ==
  /\ l \in (live \cap up) \ bound
  /\ bound' = bound \cup {l}
  /\ Replied(l) \/ UNCHANGED mirror
  /\ UNCHANGED <<opened, device, up, id, numbered, sessionVars, inbox, otaVars,
                 dialogVars, deviceVars, history>>

\* Any other reply without an OTA line.
CliReply(l) ==
  /\ l \in live \cap up /\ Replied(l)
  /\ UNCHANGED <<opened, device, up, id, numbered, bound, sessionVars, inbox, otaVars,
                 dialogVars, deviceVars, history>>

\* The OTA line of a status reply.  _request_status leaves a session alone while it
\* uploads, but the reply to an earlier request, or to the console, may come then.
StatusReply(l) ==
  /\ l \in live \cap up
  /\ mirror' = [mirror EXCEPT ![l] = IF machine[device[l]] = "run" THEN "off" ELSE "on"]
  /\ UNCHANGED <<opened, device, up, id, numbered, bound, sessionVars, inbox, otaVars,
                 dialogVars, deviceVars, history>>

Target == device[carrier]

\* The device of the upload: it enters OTA, stages, and resets.
DeviceEntersOta ==
  /\ worker = "data" /\ carrier \in up /\ machine[Target] = "run"
  /\ machine' = [machine EXCEPT ![Target] = "ota"]
  /\ UNCHANGED <<linkVars, sessionVars, inbox, otaVars, dialogVars, answered, restarted,
                 history>>

DeviceStages ==
  /\ worker = "commit" /\ carrier \in up /\ machine[Target] = "ota"
  /\ machine' = [machine EXCEPT ![Target] = "staged"]
  /\ answered' \in BOOLEAN /\ restarted' = restarted \ {Target}
  /\ UNCHANGED <<linkVars, sessionVars, inbox, otaVars, dialogVars, history>>

DeviceGivesUp(d) ==
  /\ machine[d] = "ota" /\ (worker \in {"none", "ended"} \/ carrier \notin up)
  /\ machine' = [machine EXCEPT ![d] = "run"]
  /\ UNCHANGED <<linkVars, sessionVars, inbox, otaVars, dialogVars, answered, restarted,
                 history>>

\* The reset takes the link down, or the gateway keeps it.
DeviceResets(d) ==
  /\ machine[d] = "staged"
  /\ machine' = [machine EXCEPT ![d] = "run"] /\ restarted' = restarted \cup {d}
  /\ \/ UNCHANGED <<up, inbox>>
     \/ \E l \in up \cap live : /\ device[l] = d /\ up' = up \ {l}
                               /\ Post(LossEvents(l, "reset"))
  /\ UNCHANGED <<opened, device, id, numbered, bound, mirror, sessionVars, otaVars,
                 dialogVars, answered, history>>

-----------------------------------------------------------------------------
(* The uploader's thread.  Cancellation is polled before every frame, at     *)
(* most an ACK timeout apart while data is sent; COMMIT is waited for much   *)
(* longer than the GUI waits for the thread.                                 *)

workerUnchanged == <<linkVars, sessionVars, otaNode, context, reconnect, cancel, uploads,
                     dialogVars, machine, restarted, carrier, alarmed, disturbed, stuck,
                     crashed>>

WorkerCommits ==
  /\ worker = "data" /\ ~ cancel /\ carrier \in up /\ machine[Target] = "ota"
  /\ worker' = "commit"
  /\ UNCHANGED <<workerUnchanged, inbox, answered, succeeded>>

\* How the thread may end: the signals it emits last.
Endings ==
  CASE worker = "data"   -> {"failed"} \cup (IF cancel THEN {"cancelled"} ELSE {})
    [] worker = "commit" -> IF answered THEN {"staged"}
                            ELSE {"failed"} \cup (IF cancel THEN {"cancelled"} ELSE {})
    [] OTHER             -> {}

WorkerEnds ==
  /\ \E ending \in Endings :
       /\ Post(<<Event(ending, carrier)>>)
       /\ succeeded' = IF ending = "staged" THEN succeeded \cup {carrier} ELSE succeeded
  /\ worker' = "ended" /\ answered' = FALSE
  /\ UNCHANGED workerUnchanged

-----------------------------------------------------------------------------
(* The GUI thread: events.                                                   *)

NextEvent(kind) == inbox # <<>> /\ Head(inbox).kind = kind /\ inbox' = Tail(inbox)
Subject == Head(inbox).link

\* accept_gateway_client, or the drop of a client whose listener is gone (its link
\* is no longer up).
OnAccepted ==
  /\ NextEvent("accepted")
  /\ live' = live \cup (up \cap {Subject})
  /\ UNCHANGED <<linkVars, active, awaiting, recording, otaVars, dialogVars,
                 deviceVars, history>>

\* The update the loss of a link belongs to.
InFlight(l) == context # None /\ context.node = id[l]

OnWorkerFailed(why) ==
  /\ NextEvent(why)
  /\ LET reported == Subject \in live /\ ~ InFlight(Subject) /\ Subject \notin awaiting IN
       alarmed' = (alarmed \/ (reported /\ why = "reset" /\ Subject \in succeeded))
  /\ UNCHANGED <<linkVars, sessionVars, otaVars, dialogVars, deviceVars, carrier,
                 succeeded, disturbed, stuck, crashed>>

\* _on_thread_finished drops the session with all it knew; the callback of a session
\* that is gone changes nothing.
OnThreadFinished ==
  /\ NextEvent("finished")
  /\ live' = live \ {Subject} /\ bound' = bound \ {Subject}
  /\ active' = active \ {Subject} /\ awaiting' = awaiting \ {Subject}
  /\ mirror' = [mirror EXCEPT ![Subject] = "none"]
  /\ UNCHANGED <<opened, device, up, id, numbered, recording, otaVars, dialogVars,
                 deviceVars, history>>

\* ota_state reaches the dialog, which listens for its own node: WAIT_RESTART ends
\* the cancelling, and FAILED, CANCELLED, RECONNECTED and RECONNECT_TIMEOUT end the
\* upload.
ReportWaiting(n) ==
  waiting' = (waiting \/ (uploading /\ n = node)) /\ UNCHANGED <<showing, node, uploading>>

ReportEnd(n) ==
  /\ uploading' = (uploading /\ n # node) /\ waiting' = (waiting /\ n # node)
  /\ UNCHANGED <<showing, node>>

\* _teardown_ota_worker for a thread that has emitted its last signal.
TeardownEnded == worker' = "none" /\ cancel' = FALSE /\ disturbed' = {}

EndOta(n) == active' = active \ SessionOf(n)

\* Mutant: the context of the update is kept.
ClearContextMutant == otaNode' = None /\ UNCHANGED context

\* _clear_ota_context
ClearContext == otaNode' = None /\ context' = None

\* Mutant: the session does not remember that its device will reset.
OnOtaStagedMutant ==
  /\ NextEvent("staged")
  /\ EndOta(id[Subject]) /\ UNCHANGED awaiting
  /\ TeardownEnded
  /\ reconnect' = context
  /\ ReportWaiting(id[Subject])
  /\ UNCHANGED <<linkVars, live, recording, otaNode, context, uploads,
                 deviceVars, carrier, succeeded, alarmed, stuck, crashed>>

OnOtaStaged ==
  /\ NextEvent("staged")
  /\ EndOta(id[Subject]) /\ awaiting' = awaiting \cup SessionOf(id[Subject])
  /\ TeardownEnded
  /\ reconnect' = context                           \* _arm_ota_reconnect
  /\ ReportWaiting(id[Subject])
  /\ UNCHANGED <<linkVars, live, recording, otaNode, context, uploads,
                 deviceVars, carrier, succeeded, alarmed, stuck, crashed>>

\* Mutant: a failure is reported as an error only.
OnOtaEndedMutant(kind) ==
  /\ NextEvent(kind)
  /\ EndOta(id[Subject]) /\ TeardownEnded
  /\ ClearContext
  /\ UNCHANGED <<linkVars, live, awaiting, recording, reconnect,
                 uploads, dialogVars, deviceVars, carrier, succeeded, alarmed, stuck, crashed>>

\* _on_ota_failed and _on_ota_cancelled.
OnOtaEnded(kind) ==
  /\ NextEvent(kind)
  /\ EndOta(id[Subject]) /\ TeardownEnded
  /\ ClearContext
  /\ ReportEnd(id[Subject])
  /\ UNCHANGED <<linkVars, live, awaiting, recording, reconnect,
                 uploads, deviceVars, carrier, succeeded, alarmed, stuck, crashed>>

-----------------------------------------------------------------------------
(* The reconnect timer.                                                      *)

\* Mutant: any connected session is taken for the updated device.
IsBackMutant(l) == l \in live /\ mirror[l] \in {"unknown", "off"}

\* _poll_ota_reconnect: a session of the device, if it was known, that has replied
\* and whose ota_state, if it has one, is OFF.
IsBack(l) ==
  /\ l \in live /\ mirror[l] \in {"unknown", "off"}
  /\ reconnect.uuid # None => l \in bound /\ device[l] = reconnect.uuid

FinishReconnect ==
  /\ reconnect' = None /\ ClearContext
  /\ ReportEnd(reconnect.node)
  /\ restarted' = {}
  /\ UNCHANGED <<linkVars, sessionVars, inbox, worker, cancel, uploads, machine, answered,
                 history>>

Reconnected == reconnect # None /\ (\E l \in live : IsBack(l)) /\ FinishReconnect

ReconnectTimeout == reconnect # None /\ FinishReconnect

-----------------------------------------------------------------------------
(* The dialog.                                                               *)

UploadRuns == worker \in {"data", "commit"}

\* _emit_ota_availability, for the session of the node the user has selected.
OtaAvailable(l) == otaNode = None /\ l \in live

\* set_node binds the dialog to the node.
SetNode(n) == node' = n

\* open_dialog
OpenDialog(l) ==
  /\ ~ showing /\ OtaAvailable(l)
  /\ showing' = TRUE /\ SetNode(id[l])
  /\ UNCHANGED <<linkVars, sessionVars, inbox, otaVars, uploading, waiting,
                 deviceVars, history>>

\* load_package_summary: what becomes of a file the user chooses.  A package must be
\* called .ota, a bare image must not.
Mode(f) ==
  IF IsPackageImage(f.data) THEN IF LoadsPackage(f) THEN "ota" ELSE "rejected"
  ELSE IF ~ f.ota /\ Len(f.data) \in MinImage..MaxImage THEN "bin" ELSE "rejected"

\* _build_current_package, which fails for a version that build_package refuses.
CurrentPackage(f, v) ==
  CASE Mode(f) = "ota" -> f.data
    [] Mode(f) = "bin" /\ Packs(f.data, v) -> BuildPackage(f.data, v)
    [] OTHER -> <<>>

\* The user has chosen a file, and given a bare one a version, that make a package.
HasPackage == \E f \in Files, v \in Versions : CurrentPackage(f, v) # <<>>

\* The guards of start_ota_for for the session of the node.
MayStart(l) ==
  otaNode = None /\ ~ recording /\ mirror[l] # "none"

\* START UPLOAD is enabled, and _start gets as far as upload_requested.
PressStart == showing /\ ~ uploading /\ HasPackage /\ uploading' = TRUE

\* _start: start_ota_for starts the uploader's thread.
StartOta(l) ==
  /\ PressStart /\ l \in SessionOf(node) /\ MayStart(l) /\ uploads < MaxUploads
  /\ otaNode' = node /\ worker' = "data" /\ cancel' = FALSE /\ uploads' = uploads + 1
  /\ context' = [node |-> node, uuid |-> IF l \in bound THEN device[l] ELSE None]
  /\ active' = active \cup {l} /\ carrier' = l
  /\ restarted' = {}
  /\ UNCHANGED <<linkVars, live, awaiting, recording, inbox, reconnect,
                 showing, node, waiting, machine, answered, succeeded, alarmed, disturbed,
                 stuck, crashed>>

\* _start: start_ota_for refuses with an error and no ota_state; its reasons include
\* an SD that is not ready and an export that is running, which are not kept here.
StartRefused ==
  /\ PressStart /\ stuck' = "refused"
  /\ UNCHANGED <<linkVars, sessionVars, inbox, otaVars, showing, node, waiting,
                 deviceVars, carrier, succeeded, alarmed, disturbed, crashed>>

\* _cancel and cancel_ota_for: there is an event to set while there is a thread.
RequestCancel == cancel' = (cancel \/ (otaNode = node /\ worker # "none"))

CancelUpload ==
  /\ showing /\ uploading /\ ~ waiting
  /\ RequestCancel
  /\ UNCHANGED <<linkVars, sessionVars, inbox, otaNode, context, reconnect, worker, uploads,
                 dialogVars, deviceVars, history>>

\* closeEvent: closing during an upload cancels it.  Without one the node is dead,
\* since open_dialog sets it again.
CloseDialog ==
  /\ showing /\ showing' = FALSE
  /\ \/ uploading /\ RequestCancel /\ UNCHANGED node
     \/ ~ uploading /\ node' = None /\ UNCHANGED cancel
  /\ UNCHANGED <<linkVars, sessionVars, inbox, otaNode, context, reconnect, worker, uploads,
                 uploading, waiting, deviceVars, history>>

\* Esc: QDialog.reject, which OtaDialog leaves as it is, hides the dialog without a
\* closeEvent, and the upload goes on.
RejectDialog ==
  /\ showing /\ showing' = FALSE
  /\ node' = IF uploading THEN node ELSE None
  /\ disturbed' = IF UploadRuns THEN disturbed \cup {"hidden"} ELSE disturbed
  /\ UNCHANGED <<linkVars, sessionVars, inbox, otaVars, uploading, waiting, deviceVars,
                 carrier, succeeded, alarmed, stuck, crashed>>

-----------------------------------------------------------------------------
(* The main window, while the dialog is closed.                              *)

mainUnchanged == <<linkVars, live, active, awaiting, inbox, otaVars, dialogVars,
                   deviceVars, carrier, succeeded, alarmed, stuck, crashed>>

\* Mutant: a recording starts whatever the sessions do.
RecordingBlockedMutant == FALSE

\* set_recording looks at every session.
RecordingBlocked == active \cup awaiting # {}

SetRecording(enabled) ==
  /\ ~ showing /\ recording # enabled
  /\ enabled => live # {} /\ ~ RecordingBlocked
  /\ recording' = enabled
  /\ UNCHANGED <<disturbed, mainUnchanged>>

Disturbs(l, how) ==
  disturbed' = IF UploadRuns /\ l = carrier THEN disturbed \cup {how} ELSE disturbed

\* start_acquisition_for
StartAcquisition(l) ==
  /\ ~ showing /\ l \in live /\ l \notin active \cup awaiting
  /\ Disturbs(l, "gated")
  /\ UNCHANGED <<recording, mainUnchanged>>

\* start_export_for: the mirror must show a ready SD.
StartExport(l) ==
  /\ ~ showing /\ l \in live /\ l \notin active \cup awaiting /\ mirror[l] # "none"
  /\ Disturbs(l, "gated")
  /\ UNCHANGED <<recording, mainUnchanged>>

\* send_command_to and clear_sd_for have no OTA gate.
SendUngated(l) ==
  /\ ~ showing /\ l \in live
  /\ Disturbs(l, "ungated")
  /\ UNCHANGED <<recording, mainUnchanged>>

\* Neither have set_watermark_for and set_livestream_for, which the user has for the
\* selected node, whichever that is.
SetWatermark(l)  == SendUngated(l)
SetLivestream(l) == SendUngated(l)

\* disconnect_device.  The uploader sees its cancel event within the three seconds
\* the GUI waits, unless it waits for COMMIT: then the thread may outlive the wait
\* and is deleted while it runs, which ends the process.
DisconnectDevice ==
  /\ ~ showing
  /\ up' = {} /\ numbered' = 0 /\ bound' = {} /\ mirror' = [l \in Links |-> "none"]
  /\ live' = {} /\ active' = {} /\ awaiting' = {}
  /\ recording' = FALSE
  /\ ClearContext /\ reconnect' = None
  /\ worker' = "none" /\ cancel' = FALSE /\ disturbed' = {}
  /\ answered' = FALSE /\ restarted' = {}
  /\ \/ /\ worker \in {"none", "ended"}
        /\ UNCHANGED <<inbox, succeeded, crashed>>
     \/ \E ending \in Endings \cup {"cancelled"} :
          /\ worker \in {"data", "commit"} /\ (answered => ending = "staged")
          /\ Post(<<Event(ending, carrier)>>)
          /\ succeeded' = IF ending = "staged" THEN succeeded \cup {carrier} ELSE succeeded
          /\ UNCHANGED crashed
     \/ worker = "commit" /\ crashed' = TRUE /\ inbox' = <<>> /\ UNCHANGED succeeded
  /\ stuck' = IF uploading /\ ~ \E i \in DOMAIN inbox' : inbox'[i].kind \in {"failed", "cancelled"}
              THEN "abandoned" ELSE stuck
  /\ UNCHANGED <<opened, device, id, uploads, dialogVars, machine, carrier,
                 alarmed>>

-----------------------------------------------------------------------------
Events == \/ OnAccepted \/ OnWorkerFailed("lost") \/ OnWorkerFailed("reset") \/ OnThreadFinished \/ OnOtaStaged
          \/ OnOtaEnded("failed") \/ OnOtaEnded("cancelled")

Timers == Reconnected \/ ReconnectTimeout

Dialog == \/ StartRefused \/ CancelUpload \/ CloseDialog \/ RejectDialog
          \/ \E l \in Links : OpenDialog(l) \/ StartOta(l)

MainWindow ==
  \/ DisconnectDevice
  \/ \E enabled \in BOOLEAN : SetRecording(enabled)
  \/ \E l \in Links : \/ StartAcquisition(l) \/ StartExport(l) \/ SendUngated(l)
                    \/ SetWatermark(l) \/ SetLivestream(l)

Environment ==
  \/ \E d \in Devices : OpenLink(d) \/ DeviceGivesUp(d) \/ DeviceResets(d)
  \/ \E l \in Links : LinkDrops(l) \/ BindIdentity(l) \/ CliReply(l) \/ StatusReply(l)
  \/ DeviceEntersOta \/ DeviceStages

Next == Events \/ Timers \/ Dialog \/ MainWindow \/ Environment \/ WorkerCommits \/ WorkerEnds

Spec == Init /\ [][Next]_vars

(* The event loop delivers, the reconnect timer reaches its deadline, and    *)
(* the uploader's bounded retries come to an end.  Users, links and devices  *)
(* owe nothing.                                                              *)
FairSpec == Spec /\ WF_vars(Events) /\ WF_vars(Timers) /\ WF_vars(WorkerEnds)

-----------------------------------------------------------------------------
(* Properties.                                                               *)

Kinds    == {"accepted", "lost", "reset", "finished", "staged", "failed", "cancelled"}
NodeIds  == 0..MaxLinks
Contexts == [node : NodeIds, uuid : Devices \cup {None}] \cup {None}
Signals  == [kind : Kinds, link : Links]

\* Every variable has its type, and the uploader runs only for a node that OTA owns.
TypeOK ==
  /\ opened \in 0..MaxLinks /\ device \in [Links -> Devices \cup {None}]
  /\ up \subseteq Links /\ id \in [Links -> NodeIds] /\ numbered \in NodeIds
  /\ live \subseteq 1..opened /\ bound \subseteq Links
  /\ mirror \in [Links -> {"none", "unknown", "off", "on"}]
  /\ active \subseteq Links /\ awaiting \subseteq Links
  /\ recording \in BOOLEAN
  /\ inbox \in Seq(Signals)
  /\ otaNode \in NodeIds \cup {None} /\ context \in Contexts /\ reconnect \in Contexts
  /\ worker \in {"none", "data", "commit", "ended"} /\ cancel \in BOOLEAN
  /\ (otaNode = None <=> context = None) /\ (worker \in {"data", "commit"} => otaNode # None)
  /\ uploads \in 0..MaxUploads
  /\ showing \in BOOLEAN /\ node \in NodeIds \cup {None}
  /\ uploading \in BOOLEAN /\ waiting \in BOOLEAN
  /\ machine \in [Devices -> {"run", "ota", "staged"}] /\ answered \in BOOLEAN
  /\ restarted \subseteq Devices /\ carrier \in Links \cup {None}
  /\ succeeded \subseteq Links /\ {alarmed, crashed} \subseteq BOOLEAN
  /\ disturbed \subseteq {"hidden", "gated", "ungated"}
  /\ stuck \in {"no", "refused", "abandoned"}

(* The reset a successful update ends with is never reported as an error,    *)
(* whether it comes before the GUI has seen STAGED, while it waits for the   *)
(* device, or after the wait has ended too early or timed out.               *)
ExpectedResetIsSilent == ~ alarmed

(* Nothing gets between the frames of an upload: while it runs over a        *)
(* session no recording does, and START and an export never reach its device,*)
(* whatever links and devices do meanwhile.  CLEAR SD, the console and the   *)
(* live settings have no gate: only the modal dialog keeps them off, so they *)
(* meet an upload that was cancelled, as closeEvent promises, or one whose   *)
(* dialog Esc has hidden, which closeEvent does not see.                     *)
UploadIsExclusive ==
  /\ UploadRuns /\ carrier \in live => ~ recording
  /\ "gated" \notin disturbed
  /\ UploadRuns /\ "ungated" \in disturbed => cancel \/ "hidden" \in disturbed

(* RECONNECTED is about an update: its upload was staged, by the device that *)
(* has restarted since or is still to do so, and that is online and          *)
(* identified when its UUID was known at the start.  It has restarted unless *)
(* it is seen on the link of the upload, whose ota_state is the one of       *)
(* before, or on a new link whose replies say nothing of OTA yet, which      *)
(* _poll_ota_reconnect takes for OFF.                                        *)
ReconnectIsGenuine ==
  [][Reconnected =>
       /\ carrier \in succeeded
       /\ Target \in restarted \/ machine[Target] = "staged"
       /\ reconnect.uuid # None =>
            \E l \in live \cap bound :
              /\ device[l] = Target
              /\ Target \in restarted \/ l = carrier \/ mirror[l] = "unknown"]_vars

(* The dialog learns how an upload ended: it does not show one for ever,     *)
(* except when start_ota_for refused it or disconnect_device dropped it.     *)
UploadIsReported == uploading ~> (~ uploading \/ stuck # "no")

(* disconnect_device leaves no worker thread behind: the uploader's thread   *)
(* has ended when _teardown_ota_worker deletes it.                           *)
NoThreadLeftBehind == ~ crashed

-----------------------------------------------------------------------------
(* The inductive invariant.                                                  *)

\* The last signal of an uploader's thread.
LastSignals == {"staged", "failed", "cancelled"}

\* Types, and what is known of a link was written when it was opened.
TypeInv ==
  /\ TypeOK /\ numbered <= opened /\ up \subseteq 1..opened /\ succeeded \subseteq 1..opened
  /\ carrier # None => carrier \in 1..opened
  /\ \A l \in 1..opened : id[l] \in Links /\ device[l] \in Devices
  /\ \A i \in DOMAIN inbox : inbox[i].link \in 1..opened

\* The update OTA is busy with is the one of the last upload.
OwnerInv ==
  /\ worker # "none" => otaNode # None
  /\ otaNode # None => /\ carrier # None /\ otaNode = id[carrier] /\ context.node = otaNode
                       /\ context.uuid \in {None, device[carrier]}
  /\ answered => worker = "commit"
  /\ reconnect # None => worker = "none" /\ context = reconnect

\* The last signal of a thread is that of the last upload.  Either its thread is still to
\* be torn down, or disconnect_device has done so: then no session exists before the
\* signal is handled.
LastInv ==
  \A i \in DOMAIN inbox : inbox[i].kind \in LastSignals =>
    /\ inbox[i].link = carrier /\ reconnect = None
    /\ \A j \in DOMAIN inbox : inbox[j].kind \in LastSignals => j = i
    /\ \/ worker = "ended"
       \/ /\ worker = "none" /\ otaNode = None /\ live = {}
          /\ \A j \in DOMAIN inbox : j < i /\ inbox[j].kind = "accepted" => inbox[j].link \notin up

\* The session an upload runs over is active, and no other.
ActiveInv ==
  /\ active \subseteq live \cap {carrier}
  /\ active # {} => worker # "none" /\ ~ recording
  /\ UploadRuns /\ carrier \in live => carrier \in active
  /\ "gated" \notin disturbed

\* The dialog shows the upload that runs, and hides it no other way than with a cancel or
\* with Esc.
HiddenInv ==
  /\ worker = "none" => disturbed = {}
  /\ UploadRuns => /\ uploading /\ node = otaNode
                   /\ showing \/ cancel \/ "hidden" \in disturbed
                   /\ "ungated" \in disturbed => cancel \/ "hidden" \in disturbed

\* A link is accepted once and finished when it is down.  The session of a dead link
\* finishes before the next link of its device is accepted.
QueueInv ==
  /\ \A i \in DOMAIN inbox : inbox[i].kind = "accepted" =>
       /\ inbox[i].link \notin live \cup succeeded \cup {carrier}
       /\ \A j \in DOMAIN inbox : inbox[j] = inbox[i] => j = i
  /\ \A i \in DOMAIN inbox : inbox[i].kind = "finished" => inbox[i].link \notin up
  /\ \A l \in live \ up : \E i \in DOMAIN inbox :
       /\ inbox[i] = Event("finished", l)
       /\ \A j \in DOMAIN inbox :
            j < i /\ inbox[j].kind = "accepted" /\ inbox[j].link \in up
              => device[inbox[j].link] # device[l]

\* A device has one link that works and one session.
LinkInv ==
  /\ \A l, m \in up : device[l] = device[m] => l = m
  /\ \A l, m \in live : device[l] = device[m] => l = m
  /\ carrier \in up => carrier \in live

\* The session of a link whose upload was staged expects the reset, or will when the
\* signal is handled.
SilentInv ==
  /\ ~ alarmed
  /\ \A l \in (live \cap succeeded) \ awaiting :
       /\ l = carrier /\ worker = "ended"
       /\ \A i \in DOMAIN inbox : inbox[i].kind \notin {"failed", "cancelled"}

\* The device has staged the image, and restarted or not yet.
Staged == \/ answered \/ reconnect # None
          \/ worker = "ended" /\ \E i \in DOMAIN inbox : inbox[i].kind = "staged"

RestartInv ==
  /\ Staged => Target \in restarted \/ machine[Target] = "staged"
  /\ Staged /\ ~ answered => carrier \in succeeded

\* A mirror is that of a session, and a new link of the device says OFF after the reset only.
MirrorInv ==
  /\ \A l \in Links : mirror[l] # "none" => l \in live
  /\ Staged => \A l \in live \ {carrier} :
                 device[l] = Target /\ mirror[l] = "off" => Target \in restarted

IInv == /\ TypeInv /\ OwnerInv /\ LastInv /\ ActiveInv /\ HiddenInv /\ QueueInv /\ LinkInv
        /\ SilentInv /\ RestartInv /\ MirrorInv
=============================================================================

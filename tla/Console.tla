------------------------------- MODULE Console -------------------------------
(***************************************************************************)
(* The main window in front of the Wi-Fi sessions: the sidebar of nodes    *)
(* (connection_view.py), the node controls (main_window.py) and the        *)
(* archive page (archive_view.py), with what AppController tells them.     *)
(*                                                                         *)
(* The widgets and the controller live in the GUI thread and their signals *)
(* are calls, so a handler with all it emits is one step.  A modal dialog  *)
(* stops the user, and nothing else: timers, replies and lost links go on  *)
(* behind it.  Every listener numbers its nodes from 1 again.              *)
(***************************************************************************)
EXTENDS Integers, Sequences, FiniteSets, SequencesExt, FiniteSetsExt

CONSTANTS
  Devices,   \* the devices behind the gateways
  MaxNodes,  \* bound on the clients one listener accepts
  Rank,      \* the place of a node's id among the sorted ids
  MaxOps,    \* bound on what the user does
  None       \* Python's None

Nodes == 1..MaxNodes
Files == 1..MaxOps

ASSUME ConsoleAssumption ==
  /\ MaxNodes \in Nat /\ MaxOps \in Nat
  /\ Rank \in Seq(Nat) /\ IsInjective(Rank) /\ Len(Rank) = MaxNodes
  /\ None \notin Nodes /\ None \notin Devices

VARIABLES
  ops,         \* what the user did so far
  \* AppController
  sessions,    \* the nodes of _sessions, oldest first
  state,       \* NodeSessionManager: "absent", "connected" or "reconnecting"
  bound,       \* the nodes whose UUID it knows
  device,      \* the device behind each node
  accepted,    \* the clients of this listener
  target,      \* _selected_node_id
  exporting,   \* the sessions with an archive_recorder
  \* MainWindow and NodeSidebar
  connected,   \* _connected
  highlight,   \* the sidebar's _selected_node_id
  \* ArchiveView
  records,     \* the nodes in record_table
  row,         \* its current row, 0 for none
  exportNode,  \* _export_node_id
  cancelOn,    \* cancel_button is enabled
  files,       \* the archives on disk, a later one with a higher number
  library,     \* the archives in library_table
  libraryRow,  \* its current row, 0 for none
  erased,      \* the devices whose SD ring was cleared or is being moved
  dialog       \* the question that is open

sessionVars == <<sessions, state, bound, device, accepted, target, exporting>>
recordVars  == <<records, row, exportNode, cancelOn>>
libraryVars == <<files, library, libraryRow>>
vars == <<ops, sessionVars, connected, highlight, recordVars, libraryVars, erased, dialog>>

Init ==
  /\ ops = 0 /\ sessions = <<>> /\ state = [n \in Nodes |-> "absent"] /\ bound = {}
  /\ device = [n \in Nodes |-> None] /\ accepted = 0 /\ target = None /\ exporting = {}
  /\ connected = FALSE /\ highlight = None
  /\ records = <<>> /\ row = 0 /\ exportNode = None /\ cancelOn = FALSE
  /\ files = {} /\ library = <<>> /\ libraryRow = 0 /\ dialog = None /\ erased = {}

-----------------------------------------------------------------------------
(* What the window does with what the controller tells it.                   *)

Online(st) == {n \in Nodes : st[n] = "connected"}

\* NodeSidebar.set_nodes: the highlight stays on a node that is online, or goes to
\* the first one that is.
SetNodes(previous, st) ==
  IF previous \in Online(st) THEN previous
  ELSE IF Online(st) = {} THEN None
  ELSE CHOOSE n \in Online(st) : \A k \in Online(st) : Rank[n] <= Rank[k]

\* NodeSidebar.set_selected_node
SetSelectedNode(n, st) == IF n \in Online(st) THEN n ELSE None

\* MainWindow.set_connected
SetConnected(up) == connected' = up

\* MainWindow.set_nodes: _node_available.
NodeAvailable == Online(state) # {}

\* MainWindow._refresh_node_controls
NodeReady == connected /\ NodeAvailable

\* A table that loses rows keeps its current row if it can.
Kept(r, table) == Min({r, Len(table)})

\* scan_exports: newest first.
ScanExports(disk) == SetToSortSeq(disk, >)

\* ArchiveView.refresh_library
RefreshLibrary == library' = ScanExports(files') /\ libraryRow' = Kept(libraryRow, library')

-----------------------------------------------------------------------------
(* The links.                                                                *)

\* accept_gateway_client and _add_session.  The first node is selected before the
\* sidebar knows it, and shown by the nodes_changed that follows.
GatewayConnects(d) ==
  LET n == accepted + 1 IN
  /\ connected /\ accepted < MaxNodes /\ accepted' = n
  /\ IF state[n] # "absent"  \* add_session raises
     THEN UNCHANGED <<sessions, state, bound, device, target, highlight>>
     ELSE /\ sessions' = Append(sessions, n) /\ state' = [state EXCEPT ![n] = "connected"]
          /\ bound' = bound \ {n} /\ device' = [device EXCEPT ![n] = d]
          /\ target' = IF target = None THEN n ELSE target
          /\ highlight' = SetNodes(IF target = None THEN SetSelectedNode(n, state) ELSE highlight, state')
  /\ UNCHANGED <<ops, exporting, connected, recordVars, libraryVars, erased, dialog>>

Twins(n) == {k \in bound : k # n /\ device[k] = device[n]}

\* _consume_identity_updates for a device that is not online yet: its old nodes go.
BindIdentity(n) ==
  /\ n \in Online(state) \ bound /\ Twins(n) \cap Online(state) = {}
  /\ state' = [k \in Nodes |-> IF k \in Twins(n) THEN "absent" ELSE state[k]]
  /\ bound' = (bound \ Twins(n)) \cup {n}
  /\ highlight' = SetNodes(highlight, state')
  /\ UNCHANGED <<ops, sessions, device, accepted, target, exporting, connected, recordVars,
                 libraryVars, erased, dialog>>

\* Mutant: the sidebar is not told of the new target.
TellTargetMutant(shown, st) == shown

\* selected_node_changed, after an automatic fail-over.
TellTarget(shown, st) == IF target' = target THEN shown ELSE SetSelectedNode(target', st)

\* _on_thread_finished: the link is lost or was refused as a duplicate.
LinkLost(n) ==
  /\ n \in Online(state)
  /\ \E i \in DOMAIN sessions : sessions[i] = n /\ sessions' = RemoveAt(sessions, i)
  /\ state' = [state EXCEPT ![n] = "reconnecting"]
  /\ exporting' = exporting \ {n}
  /\ target' = IF target # n THEN target ELSE IF sessions' = <<>> THEN None ELSE Head(sessions')
  /\ highlight' = TellTarget(SetNodes(highlight, state'), state')
  /\ UNCHANGED <<ops, bound, device, accepted, connected,
                 recordVars, libraryVars, erased, dialog>>

-----------------------------------------------------------------------------
(* The user at the toolbar and the sidebar.                                  *)

UserActs == dialog = None /\ ops < MaxOps /\ ops' = ops + 1

StartServer ==
  /\ UserActs /\ ~ connected /\ SetConnected(TRUE) /\ accepted' = 0
  /\ UNCHANGED <<sessions, state, bound, device, target, exporting, highlight, recordVars,
                 libraryVars, erased, dialog>>

\* disconnect_device: reconnecting nodes stay in the index.
DisconnectDevice ==
  /\ UserActs /\ connected /\ SetConnected(FALSE)
  /\ sessions' = <<>> /\ exporting' = {} /\ target' = None
  /\ state' = [n \in Nodes |-> IF state[n] = "connected" THEN "absent" ELSE state[n]]
  /\ bound' = bound \ Online(state)
  /\ highlight' = SetNodes(highlight, state')
  /\ UNCHANGED <<device, accepted, recordVars, libraryVars, erased, dialog>>

\* A click on an online node: select_node, which shows its snapshot.
SelectNode(n) ==
  /\ UserActs /\ n \in Online(state) /\ n # target
  /\ target' = n /\ highlight' = SetSelectedNode(n, state)
  /\ UNCHANGED <<sessions, state, bound, device, accepted, exporting, connected, recordVars,
                 libraryVars, erased, dialog>>

\* remove_offline_node
RemoveOfflineNode(n) ==
  /\ UserActs /\ state[n] = "reconnecting"
  /\ state' = [state EXCEPT ![n] = "absent"] /\ bound' = bound \ {n}
  /\ highlight' = SetNodes(highlight, state')
  /\ UNCHANGED <<sessions, device, accepted, target, exporting, connected, recordVars,
                 libraryVars, erased, dialog>>

-----------------------------------------------------------------------------
(* The archive page.                                                         *)

\* active_export_node
ActiveExport ==
  LET active == SelectSeq(sessions, LAMBDA n : n \in exporting)
  IN  IF active = <<>> THEN None ELSE Head(active)

\* _selected_record_node and _select_record_node: the selection follows its node, or
\* stays in its row.
FollowNode(r, old, new) ==
  IF r # 0 /\ Contains(new, old[r]) THEN CHOOSE k \in DOMAIN new : new[k] = old[r] ELSE Kept(r, new)

\* sd_records: one record per session.
SdRecords == sessions

Poll ==
  /\ records' = SdRecords /\ row' = FollowNode(row, records, SdRecords)
  /\ exportNode' = ActiveExport
  /\ cancelOn' = IF exportNode' = exportNode THEN cancelOn ELSE exportNode' # None
  /\ files' = files
  /\ IF exportNode' = None /\ exportNode # None THEN RefreshLibrary
     ELSE UNCHANGED <<library, libraryRow>>
  /\ UNCHANGED <<ops, sessionVars, connected, highlight, erased, dialog>>

\* Mutant: the button goes off, and the page still believes in the export.
ProgressOverMutant == cancelOn' = FALSE /\ UNCHANGED exportNode

ProgressOver == cancelOn' = FALSE /\ exportNode' = None

\* export_finished and on_export_finished, for any node.
ExportFinished(n) ==
  /\ n \in exporting /\ exporting' = exporting \ {n}
  /\ ProgressOver /\ files' = files /\ RefreshLibrary
  /\ UNCHANGED <<ops, sessions, state, bound, device, accepted, target, connected,
                 highlight, records, row, erased, dialog>>

SelectRecord(r) ==
  /\ UserActs /\ r \in DOMAIN records /\ row' = r
  /\ UNCHANGED <<sessionVars, connected, highlight, records, exportNode,
                 cancelOn, libraryVars, erased, dialog>>

SelectFile(r) ==
  /\ UserActs /\ r \in DOMAIN library /\ libraryRow' = r
  /\ UNCHANGED <<sessionVars, connected, highlight, recordVars, files,
                 library, erased, dialog>>

SelectedNode == IF row = 0 THEN None ELSE records[row]
SelectedFile == IF libraryRow = 0 THEN None ELSE library[libraryRow]
Selected(kind) == IF kind = "delete" THEN SelectedFile ELSE SelectedNode

\* What the user means by the selection: the file, or the device that the node is
\* connected to.
Subject(kind, it) ==
  IF kind = "delete" THEN it ELSE IF it \in Online(state) THEN device[it] ELSE None

\* _confirm_export, _confirm_clear and _delete_selected_export, up to the question.
Ask(kind) ==
  /\ UserActs /\ Selected(kind) # None
  /\ dialog' = [kind |-> kind, it |-> Selected(kind), subject |-> Subject(kind, Selected(kind))]
  /\ UNCHANGED <<sessionVars, connected, highlight, recordVars, libraryVars, erased>>

\* Mutant: the selection is read when the question was answered.
ConfirmedMutant == IF Selected(dialog.kind) = None THEN dialog.it ELSE Selected(dialog.kind)

\* The selection that was read before the question.
Confirmed == dialog.it

\* start_export_for: the file is made when the export starts.
StartExport(n) ==
  /\ n \in (bound \cap Range(sessions)) \ exporting
  /\ exporting' = exporting \cup {n} /\ files' = files \cup {Max({0} \cup files) + 1}
  /\ erased' = erased \cup {device[n]} /\ UNCHANGED <<library, libraryRow>>

\* clear_sd_for
ClearSd(n) ==
  /\ n \in Range(sessions) \ exporting /\ erased' = erased \cup {device[n]}
  /\ UNCHANGED <<exporting, libraryVars>>

\* delete_export, and the table again.
DeleteExport(f) ==
  /\ f \in files /\ files' = files \ {f} /\ RefreshLibrary
  /\ UNCHANGED <<exporting, erased>>

\* The node or the file is gone, or it does not fit the node's state: an error.
Refused(kind, it) ==
  /\ \/ kind = "export" /\ it \notin (bound \cap Range(sessions)) \ exporting
     \/ kind = "clear" /\ it \notin Range(sessions) \ exporting
     \/ kind = "delete" /\ it \notin files
  /\ UNCHANGED <<exporting, erased, libraryVars>>

AnswerYes ==
  /\ dialog # None /\ dialog' = None
  /\ \/ dialog.kind = "export" /\ StartExport(Confirmed)
     \/ dialog.kind = "clear" /\ ClearSd(Confirmed)
     \/ dialog.kind = "delete" /\ DeleteExport(Confirmed)
     \/ Refused(dialog.kind, Confirmed)
  /\ UNCHANGED <<ops, sessions, state, bound, device, accepted, target, connected,
                 highlight, recordVars>>

AnswerNo ==
  /\ dialog # None /\ dialog' = None
  /\ UNCHANGED <<ops, sessionVars, connected, highlight, recordVars, libraryVars, erased>>

-----------------------------------------------------------------------------
Links == \E n \in Nodes : BindIdentity(n) \/ LinkLost(n)

User ==
  \/ StartServer \/ DisconnectDevice \/ AnswerYes \/ AnswerNo
  \/ \E n \in Nodes : SelectNode(n) \/ RemoveOfflineNode(n)
  \/ \E r \in Nodes : SelectRecord(r)
  \/ \E r \in Files : SelectFile(r)
  \/ \E kind \in {"export", "clear", "delete"} : Ask(kind)

Next ==
  \/ Links \/ User \/ Poll
  \/ \E d \in Devices : GatewayConnects(d)
  \/ \E n \in Nodes : ExportFinished(n)

Spec == Init /\ [][Next]_vars

\* The poll timer of the archive page runs.
FairSpec == Spec /\ WF_vars(Poll)

-----------------------------------------------------------------------------
\* The node the sidebar highlights is the one commands are routed to, and node
\* commands can be given exactly when there is one: through fail-over, reconnects
\* under another id, removals, and listeners that use the ids again (UI-01,
\* _on_thread_finished, NodeSidebar.set_nodes, _refresh_node_controls).
HighlightIsTarget == highlight = target /\ (NodeReady <=> target # None)

\* An export, a CLEAR SD or a deletion reaches the device or the file that was
\* selected when the question was asked, whatever the tables show when it is
\* answered, if the node was connected then (_confirm_export, _confirm_clear,
\* _delete_selected_export).
OnlyConfirmed ==
  [][/\ \A d \in erased' \ erased : dialog.subject \in {None, d}
     /\ \A f \in files \ files' : dialog.subject = f]_vars

(* The invariants behind the two: the controller, its index and the sidebar  *)
(* agree on what is online, a listener's ids are given out in order, and the *)
(* node of an open question is still the device it was asked about.          *)
NodeStates == {"absent", "connected", "reconnecting"}

TypeInv ==
  /\ sessions \in Seq(Nodes) /\ state \in [Nodes -> NodeStates] /\ bound \subseteq Nodes
  /\ device \in [Nodes -> Devices \cup {None}] /\ accepted \in 0..MaxNodes
  /\ target \in Nodes \cup {None} /\ connected \in BOOLEAN

SessionInv ==
  /\ IsInjective(sessions) /\ Range(sessions) = Online(state)
  /\ Online(state) \subseteq 1..accepted
  /\ ~ connected => Online(state) = {}

TargetInv ==
  /\ highlight = target
  /\ IF Online(state) = {} THEN target = None ELSE target \in Online(state)

DialogInv ==
  dialog # None =>
    IF dialog.kind = "delete" THEN dialog.subject = dialog.it
    ELSE dialog.subject # None =>
           dialog.it \in 1..accepted /\ device[dialog.it] = dialog.subject

IInv == TypeInv /\ SessionInv /\ TargetInv /\ DialogInv

\* CANCEL can be pressed in the end exactly while something is exported, and for a
\* node that exports: when one of two exports finishes, when its link is lost, and
\* when a session under the same id exports anew (poll, on_export_finished).
CancelSettles == []<>(cancelOn = (exporting # {}) /\ (cancelOn => exportNode \in exporting))
=============================================================================

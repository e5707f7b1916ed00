------------------------------ MODULE Sessions ------------------------------
(***************************************************************************)
(* The connections of the application: the GatewayListener and its accept  *)
(* thread (transport/gateway.py), one acquisition thread per connection,   *)
(* the index of nodes (acquisition/sessions.py) and the GUI thread that    *)
(* owns the sessions (presentation/app_controller.py).                     *)
(*                                                                         *)
(* The accept thread and the acquisition threads talk to the GUI through   *)
(* the event queue of the GUI thread; the handlers of that thread are      *)
(* atomic.  A connection's closed transport makes its thread end.          *)
(***************************************************************************)
EXTENDS Integers, Sequences, FiniteSets, Functions

CONSTANTS
  Ports,         \* the CDC ports
  Devices,       \* the UUIDs of the devices
  MaxClients,    \* GatewayListener's maximum_clients
  MaxSessions,   \* NodeSessionManager's maximum_sessions
  MaxConns,      \* bound on the connections opened or accepted
  MaxListeners,  \* bound on the listeners created
  None           \* Python's None

Conns     == 1..MaxConns
Listeners == 1..MaxListeners
CdcId(p)  == <<"cdc", p>>
WifiId(n) == <<"wifi", n>>
NodeIds   == {CdcId(p) : p \in Ports} \cup {WifiId(n) : n \in Conns}

ASSUME SessionsAssumption ==
  /\ MaxClients \in Nat \ {0} /\ MaxSessions \in Nat \ {0}
  /\ MaxConns \in Nat /\ MaxListeners \in Nat
  /\ None \notin Conns /\ None \notin Listeners
  /\ None \notin NodeIds /\ None \notin Devices

VARIABLES
  \* the Wi-Fi server
  listener,  \* _gateway_listener
  accepting, \* the accept thread runs
  started,   \* the listeners created so far
  slots,     \* _active_connections of each listener
  numbered,  \* connection numbers each listener has given out
  \* the connections
  opened,    \* the connections opened so far
  conn,      \* the node id and the listener of each
  open,      \* those whose transport is open
  thread,    \* the acquisition thread: "none", "running" or "ended"
  known,     \* the connections whose _device_uuid is set
  reported,  \* the UUID in _identity_updates
  inbox,     \* the GUI thread's event queue
  \* the GUI
  sessions,  \* _sessions: the connection of each node id
  selected,  \* _selected_node_id
  state,     \* NodeSessionManager: the state of a node, or "absent"
  uuid       \* NodeSessionManager: the device bound to a node

serverVars == <<listener, accepting, started, slots, numbered>>
connVars   == <<opened, conn, open, thread, known, reported>>
guiVars    == <<sessions, selected, state, uuid>>
vars == <<serverVars, connVars, inbox, guiVars>>

Event == [kind : {"accepted", "finished"}, conn : Conns]

-----------------------------------------------------------------------------
Init ==
  /\ listener = None /\ accepting = FALSE /\ started = 0
  /\ slots = [l \in Listeners |-> {}] /\ numbered = [l \in Listeners |-> 0]
  /\ opened = 0 /\ conn = [c \in Conns |-> None] /\ open = {}
  /\ thread = [c \in Conns |-> "none"] /\ known = {}
  /\ reported = [c \in Conns |-> None]
  /\ inbox = <<>>
  /\ sessions = [n \in NodeIds |-> None] /\ selected = None
  /\ state = [n \in NodeIds |-> "absent"] /\ uuid = [n \in NodeIds |-> None]

Live == {n \in NodeIds : sessions[n] # None}

-----------------------------------------------------------------------------
(* The accept thread.                                                        *)

\* The transports: open, and close, which is harmless when it is repeated.
OpenTransport(c)   == open' = open \cup {c}
CloseTransports(C) == open' = open \ C

NewConnection(id, l) ==
  /\ opened < MaxConns /\ opened' = opened + 1
  /\ conn' = [conn EXCEPT ![opened + 1] = [id |-> id, listener |-> l]]

\* Mutant: one client too many fits.
AcceptClientMutant ==
  /\ accepting /\ Cardinality(slots[listener]) <= MaxClients
  /\ LET n == numbered[listener] + 1 IN
       /\ NewConnection(WifiId(n), listener)
       /\ numbered' = [numbered EXCEPT ![listener] = n]
       /\ slots' = [slots EXCEPT ![listener] = @ \cup {WifiId(n)}]
  /\ OpenTransport(opened + 1)
  /\ inbox' = Append(inbox, [kind |-> "accepted", conn |-> opened + 1])
  /\ UNCHANGED <<listener, accepting, started, thread, known, reported, guiVars>>

\* GatewayListener.accept for a client that fits, and the client_accepted signal.
\* A client beyond maximum_clients is closed at once and changes nothing.
AcceptClient ==
  /\ accepting /\ Cardinality(slots[listener]) < MaxClients
  /\ LET n == numbered[listener] + 1 IN
       /\ NewConnection(WifiId(n), listener)
       /\ numbered' = [numbered EXCEPT ![listener] = n]
       /\ slots' = [slots EXCEPT ![listener] = @ \cup {WifiId(n)}]
  /\ OpenTransport(opened + 1)
  /\ inbox' = Append(inbox, [kind |-> "accepted", conn |-> opened + 1])
  /\ UNCHANGED <<listener, accepting, started, thread, known, reported, guiVars>>

\* An OSError ends GatewayAcceptWorker.run; the listener stays where it is.
AcceptFails ==
  /\ accepting /\ accepting' = FALSE
  /\ UNCHANGED <<listener, started, slots, numbered, connVars, inbox, guiVars>>

-----------------------------------------------------------------------------
(* The acquisition thread of connection c.                                   *)

\* _observe_identity: the first frame that carries the device's UUID.
ObserveIdentity(c, d) ==
  /\ thread[c] = "running" /\ c \in open /\ c \notin known
  /\ known' = known \cup {c} /\ reported' = [reported EXCEPT ![c] = d]
  /\ UNCHANGED <<serverVars, opened, conn, open, thread, inbox, guiVars>>

\* The run of AcquisitionWorker ends with an error of its transport, which it closes.
WorkerEnds(c) ==
  /\ thread[c] = "running"
  /\ thread' = [thread EXCEPT ![c] = "ended"] /\ CloseTransports({c})
  /\ inbox' = Append(inbox, [kind |-> "finished", conn |-> c])
  /\ UNCHANGED <<serverVars, opened, conn, known, reported, guiVars>>

\* read: the gateway is gone or silent for too long, the port is unplugged, or the
\* GUI has closed the transport.
GatewayGone(c) == c \in open /\ conn[c].listener # None /\ WorkerEnds(c)
PortGone(c)    == c \in open /\ conn[c].listener = None /\ WorkerEnds(c)
MeetsClosed(c) == c \notin open /\ WorkerEnds(c)

-----------------------------------------------------------------------------
(* NodeSessionManager.                                                       *)

Connected == {n \in NodeIds : state[n] = "connected"}

\* add_session raises for a full index and for an id that is still known.
Registers(id) == Cardinality(Connected) < MaxSessions /\ state[id] = "absent"

\* mark_reconnecting and mark_offline
Mark(n, st) == state' = [state EXCEPT ![n] = st]

\* remove
Remove(N) ==
  /\ state' = [n \in NodeIds |-> IF n \in N THEN "absent" ELSE state[n]]
  /\ uuid'  = [n \in NodeIds |-> IF n \in N THEN None ELSE uuid[n]]

-----------------------------------------------------------------------------
(* The GUI thread.                                                           *)

IsWifiServerRunning == accepting

\* GatewayListener.start.  An address it cannot listen on changes nothing.
Listen == started < MaxListeners /\ started' = started + 1 /\ listener' = started + 1

\* start_wifi_server: after an accept thread that failed the new listener takes
\* the place of the old one.
StartWifiServer ==
  /\ Live = {} /\ ~ IsWifiServerRunning
  /\ Listen /\ accepting' = TRUE
  /\ UNCHANGED <<slots, numbered, connVars, inbox, guiVars>>

\* _add_session for connection c, whose id the index accepts.
AddSession(c, id) ==
  /\ Registers(id)
  /\ state' = [state EXCEPT ![id] = "connected"]
  /\ sessions' = [sessions EXCEPT ![id] = c]
  /\ thread' = [thread EXCEPT ![c] = "running"]
  /\ selected' = IF selected = None THEN id ELSE selected
  /\ UNCHANGED uuid

\* connect_device.  If the index refuses the id the port is closed again.
ConnectDevice(p) ==
  /\ ~ IsWifiServerRunning /\ Live = {}
  /\ NewConnection(CdcId(p), None)
  /\ AddSession(opened + 1, CdcId(p))
  /\ OpenTransport(opened + 1)
  /\ UNCHANGED <<serverVars, known, reported, inbox>>

Release(l, id) ==
  slots' = [k \in Listeners |-> IF k = l THEN slots[k] \ {id} ELSE slots[k]]

\* _release_gateway_client: at the listener of the moment, if there is one.
ReleaseGatewayClient(id) == Release(listener, id)

NextEvent(kind) == inbox # <<>> /\ Head(inbox).kind = kind /\ inbox' = Tail(inbox)

HasCdc == \E p \in Ports : sessions[CdcId(p)] # None

\* _accept_gateway_envelope: the listener that accepted the client is gone.
StaleEnvelope ==
  /\ NextEvent("accepted")
  /\ LET c == conn[Head(inbox).conn] IN
       /\ c.listener # listener
       /\ Release(c.listener, c.id)
       /\ CloseTransports({Head(inbox).conn})
  /\ UNCHANGED <<listener, accepting, started, numbered, opened, conn,
                 thread, known, reported, guiVars>>

\* Mutant: a client the index refuses keeps its slot.
RefuseClientMutant ==
  /\ NextEvent("accepted")
  /\ LET c == conn[Head(inbox).conn] IN
       /\ c.listener = listener /\ (HasCdc \/ ~ Registers(c.id))
       /\ CloseTransports({Head(inbox).conn})
  /\ UNCHANGED <<serverVars, opened, conn, thread, known, reported, guiVars>>

\* accept_gateway_client beside a CDC session, or with an id the index refuses.
RefuseClient ==
  /\ NextEvent("accepted")
  /\ LET c == conn[Head(inbox).conn] IN
       /\ c.listener = listener /\ (HasCdc \/ ~ Registers(c.id))
       /\ ReleaseGatewayClient(c.id)
       /\ CloseTransports({Head(inbox).conn})
  /\ UNCHANGED <<listener, accepting, started, numbered, opened, conn,
                 thread, known, reported, guiVars>>

AcceptGatewayClient ==
  /\ NextEvent("accepted")
  /\ LET c == conn[Head(inbox).conn] IN
       c.listener = listener /\ ~ HasCdc /\ AddSession(Head(inbox).conn, c.id)
  /\ UNCHANGED <<serverVars, opened, conn, open, known, reported>>

\* drain_identity_updates of connection c
DrainIdentityUpdates(c) == reported' = [reported EXCEPT ![c] = None]

SameDevice(n, d) == {m \in NodeIds \ {n} : state[m] # "absent" /\ uuid[m] = d}

\* Mutant: an online duplicate is replaced like a stale entry.
BindIdentityMutant(n) ==
  /\ sessions[n] # None /\ reported[sessions[n]] # None
  /\ LET d == reported[sessions[n]]
         stale == SameDevice(n, d) \ Connected IN
       /\ state' = [m \in NodeIds |-> IF m \in stale THEN "absent" ELSE state[m]]
       /\ uuid'  = [m \in NodeIds |-> IF m \in stale THEN None
                                      ELSE IF m = n THEN d ELSE uuid[m]]
  /\ DrainIdentityUpdates(sessions[n])
  /\ UNCHANGED <<serverVars, opened, conn, open, thread, known, inbox, sessions,
                 selected>>

\* _consume_identity_updates: bind_identity replaces what is left of earlier
\* connections of the device.
BindIdentity(n) ==
  /\ sessions[n] # None /\ reported[sessions[n]] # None
  /\ LET d == reported[sessions[n]] IN
       /\ SameDevice(n, d) \cap Connected = {}
       /\ state' = [m \in NodeIds |-> IF m \in SameDevice(n, d) THEN "absent"
                                      ELSE state[m]]
       /\ uuid'  = [m \in NodeIds |-> IF m \in SameDevice(n, d) THEN None
                                      ELSE IF m = n THEN d ELSE uuid[m]]
  /\ DrainIdentityUpdates(sessions[n])
  /\ UNCHANGED <<serverVars, opened, conn, open, thread, known, inbox, sessions,
                 selected>>

\* Mutant: the duplicate is reported and its link left alone.
RejectDuplicateMutant(n) ==
  /\ sessions[n] # None /\ reported[sessions[n]] # None
  /\ SameDevice(n, reported[sessions[n]]) \cap Connected # {}
  /\ DrainIdentityUpdates(sessions[n])
  /\ UNCHANGED <<serverVars, opened, conn, open, thread, known, inbox, guiVars>>

\* _consume_identity_updates: the device is online on another connection.
RejectDuplicate(n) ==
  /\ sessions[n] # None /\ reported[sessions[n]] # None
  /\ SameDevice(n, reported[sessions[n]]) \cap Connected # {}
  /\ DrainIdentityUpdates(sessions[n])
  /\ CloseTransports({sessions[n]})
  /\ UNCHANGED <<serverVars, opened, conn, thread, known, inbox, guiVars>>

\* Mutant: any session under the node id is taken for the one that finished.
IsExpectedMutant(c) == sessions[conn[c].id] # None

\* The guard of the finished callback: its session is still registered.
IsExpected(c) == sessions[conn[c].id] = c

\* The selection moves from a lost node to a session that is left, or to none.
FailOver(n) ==
  \/ selected # n /\ UNCHANGED selected
  \/ selected = n /\ Live = {n} /\ selected' = None
  \/ selected = n /\ selected' \in Live \ {n}

\* _on_thread_finished: the slot is released and the node stays in the index.
ThreadFinished ==
  /\ NextEvent("finished")
  /\ LET c == Head(inbox).conn
         n == conn[c].id IN
       /\ IsExpected(c)
       /\ sessions' = [sessions EXCEPT ![n] = None]
       /\ \/ conn[c].listener = None /\ Mark(n, "offline") /\ UNCHANGED slots
          \/ conn[c].listener # None /\ Mark(n, "reconnecting") /\ ReleaseGatewayClient(n)
       /\ FailOver(n)
  /\ UNCHANGED <<listener, accepting, started, numbered, connVars, uuid>>

\* The callback of a session that was disconnected in the meantime.
StaleFinished ==
  /\ NextEvent("finished") /\ ~ IsExpected(Head(inbox).conn)
  /\ UNCHANGED <<serverVars, connVars, guiVars>>

SelectNode(n) ==
  /\ sessions[n] # None /\ selected # n
  /\ selected' = n
  /\ UNCHANGED <<serverVars, connVars, inbox, sessions, state, uuid>>

RemoveOfflineNode(n) ==
  /\ sessions[n] = None /\ n[1] = "wifi" /\ state[n] \in {"reconnecting", "offline"}
  /\ Remove({n})
  /\ UNCHANGED <<serverVars, connVars, inbox, sessions, selected>>

\* GatewayListener.close: what it accepted stays open.
CloseListener == listener' = None

StopWifiResources == CloseListener /\ accepting' = FALSE

\* Mutant: the sessions end but their nodes stay in the index.
DisconnectDeviceMutant ==
  /\ Live # {}
  /\ StopWifiResources
  /\ CloseTransports(Range(sessions))
  /\ sessions' = [n \in NodeIds |-> None] /\ selected' = None
  /\ UNCHANGED <<started, slots, numbered, opened, conn, thread, known, reported, inbox,
                 state, uuid>>

\* disconnect_device.  A thread ends when it meets its closed transport, within
\* the three seconds the GUI waits or after them.
DisconnectDevice ==
  /\ Live # {}
  /\ StopWifiResources
  /\ CloseTransports(Range(sessions))
  /\ Remove(Live)
  /\ sessions' = [n \in NodeIds |-> None] /\ selected' = None
  /\ UNCHANGED <<started, slots, numbered, opened, conn, thread, known, reported, inbox>>

\* stop_wifi_server without sessions; with sessions it is disconnect_device.
StopWifiServer ==
  /\ Live = {} /\ listener # None
  /\ StopWifiResources
  /\ UNCHANGED <<started, slots, numbered, connVars, inbox, guiVars>>

-----------------------------------------------------------------------------
Events == \/ StaleEnvelope \/ RefuseClient \/ AcceptGatewayClient
          \/ ThreadFinished \/ StaleFinished

\* _publish_snapshots; a session's export is finalised there too, which is Export's.
Timer == \E n \in NodeIds : BindIdentity(n) \/ RejectDuplicate(n)

User == \/ StartWifiServer \/ StopWifiServer \/ DisconnectDevice
        \/ \E p \in Ports : ConnectDevice(p)
        \/ \E n \in NodeIds : SelectNode(n) \/ RemoveOfflineNode(n)

Link == \/ AcceptClient \/ AcceptFails
        \/ \E c \in Conns : GatewayGone(c) \/ PortGone(c) \/ MeetsClosed(c)
                             \/ \E d \in Devices : ObserveIdentity(c, d)

Next == Events \/ Timer \/ User \/ Link

Spec == Init /\ [][Next]_vars

(* Qt delivers every queued event and the snapshot timer runs while there    *)
(* are sessions; a thread whose transport is closed ends.  Users and links   *)
(* owe nothing.                                                              *)
FairSpec ==
  /\ Spec
  /\ WF_vars(Events) /\ WF_vars(Timer)
  /\ \A c \in Conns : WF_vars(MeetsClosed(c))

-----------------------------------------------------------------------------
(* Properties.                                                               *)

States == {"absent", "connected", "reconnecting", "offline"}

\* The connections of the sessions and of the clients queued for the GUI.
Queued == {e.conn : e \in {f \in Range(inbox) : f.kind = "accepted"}}
Owned  == (Range(sessions) \ {None}) \cup Queued

\* Every variable has its type, and no listener holds more than its clients.
TypeOK ==
  /\ listener \in Listeners \cup {None} /\ accepting \in BOOLEAN
  /\ started \in 0..MaxListeners
  /\ slots \in [Listeners -> SUBSET NodeIds] /\ numbered \in [Listeners -> 0..MaxConns]
  /\ \A l \in Listeners : Cardinality(slots[l]) <= MaxClients
  /\ opened \in 0..MaxConns /\ open \subseteq Conns
  /\ conn \in [Conns -> [id : NodeIds, listener : Listeners \cup {None}] \cup {None}]
  /\ thread \in [Conns -> {"none", "running", "ended"}]
  /\ known \subseteq Conns /\ reported \in [Conns -> Devices \cup {None}]
  /\ inbox \in Seq(Event)
  /\ sessions \in [NodeIds -> Conns \cup {None}] /\ selected \in NodeIds \cup {None}
  /\ state \in [NodeIds -> States] /\ uuid \in [NodeIds -> Devices \cup {None}]

(* The inventory the user sees is the set of sessions that exist: a node is  *)
(* shown connected exactly while the GUI owns a session under its id, over   *)
(* stops, lost links, refused clients and late callbacks; and commands have  *)
(* one of them for a target exactly while there is one.                      *)
IndexMatchesSessions ==
  /\ Connected = Live
  /\ IF Live = {} THEN selected = None ELSE selected \in Live

(* Links are exclusive: of two links that report the same UUID only one is   *)
(* bound to it, although both were accepted before either was identified;    *)
(* and beside a CDC session there is no other session and no accept thread.  *)
LinksAreExclusive ==
  /\ \A m, n \in Connected : m # n /\ uuid[m] # None => uuid[m] # uuid[n]
  /\ HasCdc => Cardinality(Live) = 1 /\ ~ accepting

(* Nothing leaks: a slot of the running listener is held exactly by its      *)
(* sessions and by the clients still queued for the GUI, and an open         *)
(* transport belongs to one of those.                                        *)
ResourcesAreOwned ==
  /\ open \subseteq Owned
  /\ listener # None =>
       slots[listener] = {conn[c].id : c \in {d \in Owned : conn[d].listener = listener}}

(* A session is never dropped while its link is healthy: a late callback of  *)
(* an earlier session under the same node id does not remove it.             *)
HealthySessionsStay ==
  [][\A n \in NodeIds : sessions[n] \in open /\ sessions[n] \in open' =>
       sessions'[n] = sessions[n]]_vars

(* The inventory settles: a session whose transport was closed is cleared,   *)
(* and a link that reports its device is bound to it or dropped, so that the *)
(* second link of a device that is online does not stay.                     *)
SessionsSettle ==
  \A c \in Conns :
    []<>(c \in Range(sessions) =>
           c \in open /\ (c \in known => uuid[conn[c].id] # None))

(* A port that was lost can be opened again: with no session and no server   *)
(* the index does not refuse its id.                                         *)
LostPortCanBeReopened ==
  Live = {} /\ ~ accepting => \A p \in Ports : Registers(CdcId(p))

-----------------------------------------------------------------------------
(* The inductive invariant behind TypeOK, IndexMatchesSessions,              *)
(* LinksAreExclusive and ResourcesAreOwned.                                  *)

ConnRecord == [id : NodeIds, listener : Listeners \cup {None}]

\* Listeners are numbered in turn; what is yet to come holds nothing.
ServerInv ==
  /\ accepting => listener # None
  /\ listener # None => listener <= started
  /\ \A l \in Listeners : /\ IsFiniteSet(slots[l]) /\ numbered[l] <= opened
                          /\ l > started => slots[l] = {}

\* A connection of a port has no listener; a client has one of its listener's
\* numbers, and has it alone.
ConnInv ==
  /\ open \subseteq 1..opened
  /\ \A c \in 1..opened :
       /\ conn[c] \in ConnRecord
       /\ IF conn[c].listener = None THEN \E p \in Ports : conn[c].id = CdcId(p)
          ELSE /\ conn[c].listener <= started
               /\ \E k \in 1..numbered[conn[c].listener] : conn[c].id = WifiId(k)
  /\ \A c, d \in 1..opened :
       conn[c].listener # None /\ conn[c].listener = conn[d].listener /\ conn[c].id = conn[d].id
         => c = d

\* A thread is started for a session and ends before its transport is given up.
ThreadInv ==
  /\ \A c \in Conns : thread[c] # "none" => c \in 1..opened
  /\ \A c \in Conns : thread[c] = "ended" => c \notin open

\* A client is announced once, and a thread has ended before its callback.
InboxInv ==
  /\ \A i \in DOMAIN inbox :
       LET c == inbox[i].conn IN
         IF inbox[i].kind = "accepted"
         THEN c \in 1..opened /\ thread[c] = "none" /\ conn[c].listener # None
         ELSE thread[c] = "ended"
  /\ \A i, j \in DOMAIN inbox :
       inbox[i].kind = "accepted" /\ inbox[j].kind = "accepted" /\ inbox[i].conn = inbox[j].conn
         => i = j

\* A session has its own node id, a thread and the listener of the moment.
SessionInv ==
  \A n \in Live :
    /\ sessions[n] \in 1..opened /\ thread[sessions[n]] # "none"
    /\ conn[sessions[n]].id = n
    /\ conn[sessions[n]].listener \in {None, listener}

\* What is not in the index has no device, and a CDC session is alone.
ExclusiveInv ==
  /\ \A n \in NodeIds : state[n] = "absent" => uuid[n] = None
  /\ \A m, n \in Connected : m # n /\ uuid[m] # None => uuid[m] # uuid[n]
  /\ \A p \in Ports : CdcId(p) \in Live => Live = {CdcId(p)} /\ ~ accepting

IInv == /\ TypeOK /\ ServerInv /\ ConnInv /\ ThreadInv /\ InboxInv /\ SessionInv
        /\ IndexMatchesSessions /\ ExclusiveInv /\ ResourcesAreOwned
=============================================================================

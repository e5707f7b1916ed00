-------------------------- MODULE OtaSessionProofs --------------------------
(***************************************************************************)
(* Proofs about OtaSession: the gates keep what they guard off a device    *)
(* during its upload, the reset a staged update ends with is expected, and *)
(* a device that is reported as back is the one that was updated, which    *)
(* has staged its image.  The order of the GUI thread's event queue        *)
(* carries the argument: the session of a dead link finishes before the    *)
(* next link of its device is accepted, and the last signal of an upload   *)
(* comes before the sessions opened after it.                              *)
(***************************************************************************)
EXTENDS OtaSession, TLAPS

LEMMA Bounds ==
  /\ MaxLinks \in Nat /\ MaxUploads \in Nat /\ None \notin Devices /\ None \notin Links
  /\ Links \subseteq Nat \ {0} /\ Links \subseteq NodeIds /\ Links = 1..MaxLinks
  /\ \A c \in [node : NodeIds, uuid : Devices \cup {None}] : c # None
  BY OtaSessionAssumption DEF Links, NodeIds

-----------------------------------------------------------------------------
(* The event queue.                                                          *)

LEMMA EventFacts ==
  \A k \in Kinds, l \in Links : Event(k, l) \in Signals /\ Event(k, l).kind = k /\ Event(k, l).link = l
  BY DEF Event, Signals

LEMMA SignalFacts ==
  ASSUME NEW e \in Signals
  PROVE  e.kind \in Kinds /\ e.link \in Links /\ e = Event(e.kind, e.link)
  BY DEF Event, Signals

(* The next event is handled: the others move up by one.                     *)
LEMMA Delivered ==
  ASSUME inbox \in Seq(Signals), NEW k, NextEvent(k)
  PROVE  /\ inbox' \in Seq(Signals) /\ 1 \in DOMAIN inbox
         /\ inbox[1] \in Signals /\ inbox[1].kind = k /\ Subject = inbox[1].link
         /\ \A i \in DOMAIN inbox' : /\ i \in Nat \ {0} /\ i + 1 \in DOMAIN inbox
                                     /\ inbox'[i] = inbox[i + 1]
         /\ \A i \in DOMAIN inbox : /\ i \in Nat \ {0}
                                    /\ i # 1 => i - 1 \in DOMAIN inbox' /\ inbox'[i - 1] = inbox[i]
<1>1. inbox # <<>> /\ inbox' = Tail(inbox) /\ Head(inbox).kind = k
  BY DEF NextEvent
<1>2. /\ inbox' \in Seq(Signals) /\ Len(inbox) \in Nat \ {0}
      /\ DOMAIN inbox = 1..Len(inbox) /\ DOMAIN inbox' = 1..(Len(inbox) - 1)
      /\ Head(inbox) = inbox[1] /\ 1 \in DOMAIN inbox /\ inbox[1] \in Signals
      /\ \A i \in DOMAIN inbox' : inbox'[i] = inbox[i + 1]
  BY <1>1
<1>3. ASSUME NEW i \in DOMAIN inbox, i # 1 PROVE i - 1 \in DOMAIN inbox' /\ inbox'[i - 1] = inbox[i]
  <2>1. i - 1 \in DOMAIN inbox' /\ (i - 1) + 1 = i
    BY <1>2, <1>3
  <2> QED BY <1>2, <2>1
<1> QED BY <1>1, <1>2, <1>3 DEF Subject

(* One event more.                                                           *)
LEMMA PostedOne ==
  ASSUME inbox \in Seq(Signals), NEW x \in Signals, Post(<<x>>)
  PROVE  /\ inbox' \in Seq(Signals) /\ Len(inbox) \in Nat
         /\ DOMAIN inbox = 1..Len(inbox) /\ DOMAIN inbox' = 1..(Len(inbox) + 1)
         /\ \A i \in DOMAIN inbox : inbox'[i] = inbox[i]
         /\ inbox'[Len(inbox) + 1] = x
<1>1. inbox' = inbox \o <<x>> /\ <<x>> \in Seq(Signals)
  BY DEF Post
<1> QED BY <1>1

(* Two events more.                                                          *)
LEMMA PostedTwo ==
  ASSUME inbox \in Seq(Signals), NEW x \in Signals, NEW y \in Signals, Post(<<x, y>>)
  PROVE  /\ inbox' \in Seq(Signals) /\ Len(inbox) \in Nat
         /\ DOMAIN inbox = 1..Len(inbox) /\ DOMAIN inbox' = 1..(Len(inbox) + 2)
         /\ \A i \in DOMAIN inbox : inbox'[i] = inbox[i]
         /\ inbox'[Len(inbox) + 1] = x /\ inbox'[Len(inbox) + 2] = y
<1>1. inbox' = inbox \o <<x, y>> /\ <<x, y>> \in Seq(Signals)
  BY DEF Post
<1> QED BY <1>1

-----------------------------------------------------------------------------
(* Types.                                                                    *)

LEMMA InitType == Init => TypeInv
<1> SUFFICES ASSUME Init PROVE TypeInv
  OBVIOUS
<1>1. /\ cancel \in BOOLEAN /\ recording \in BOOLEAN /\ showing \in BOOLEAN /\ uploading \in BOOLEAN
      /\ waiting \in BOOLEAN /\ answered \in BOOLEAN /\ {alarmed, crashed} \subseteq BOOLEAN
  BY Zenon DEF Init
<1>2. /\ opened \in 0..MaxLinks /\ numbered \in NodeIds /\ uploads \in 0..MaxUploads /\ numbered <= opened
      /\ id \in [Links -> NodeIds] /\ device \in [Links -> Devices \cup {None}]
      /\ mirror \in [Links -> {"none", "unknown", "off", "on"}] /\ machine \in [Devices -> {"run", "ota", "staged"}]
  BY Bounds DEF Init, NodeIds
<1>3. inbox \in Seq(Signals) /\ DOMAIN inbox = {} /\ 1..opened = {}
  BY DEF Init
<1>4. /\ up \subseteq Links /\ live \subseteq 1..opened /\ bound \subseteq Links /\ active \subseteq Links
      /\ awaiting \subseteq Links /\ restarted \subseteq Devices /\ succeeded \subseteq Links
      /\ otaNode = None /\ context = None /\ reconnect = None /\ node = None /\ carrier = None
      /\ worker = "none" /\ stuck = "no" /\ up \subseteq 1..opened /\ succeeded \subseteq 1..opened
      /\ disturbed = {}
  BY DEF Init
<1>5. TypeOK
  BY <1>1, <1>2, <1>3, <1>4 DEF TypeOK, Contexts
<1> QED BY <1>2, <1>3, <1>4, <1>5 DEF TypeInv

(* The carrier of an upload that runs is a link that was opened.             *)
LEMMA Carrier ==
  ASSUME TypeInv, OwnerInv, worker # "none"
  PROVE  /\ carrier \in Links /\ carrier \in 1..opened /\ carrier # None
         /\ otaNode # None /\ otaNode = id[carrier] /\ context # None
  BY Bounds DEF TypeInv, TypeOK, OwnerInv

LEMMA EndingsAreLast == Endings \subseteq LastSignals /\ LastSignals \subseteq Kinds
  BY DEF Endings, LastSignals, Kinds

LEMMA NextType ==
  ASSUME TypeInv, OwnerInv, [Next]_vars
  PROVE  TypeInv'
<1> USE DEF TypeInv, TypeOK, vars, linkVars, sessionVars, otaVars, dialogVars, deviceVars, history
<1>0. /\ inbox \in Seq(Signals) /\ live \subseteq 1..opened /\ 1..opened \subseteq Links /\ opened \in Nat
      /\ mirror \in [Links -> {"none", "unknown", "off", "on"}] /\ machine \in [Devices -> {"run", "ota", "staged"}]
  BY Bounds
<1>1. ASSUME NEW k, NextEvent(k)
      PROVE  /\ inbox' \in Seq(Signals) /\ Subject \in 1..opened
             /\ \A i \in DOMAIN inbox' : inbox'[i].link \in 1..opened
  <2>1. /\ inbox' \in Seq(Signals) /\ 1 \in DOMAIN inbox /\ Subject = inbox[1].link
        /\ \A i \in DOMAIN inbox' : i + 1 \in DOMAIN inbox /\ inbox'[i] = inbox[i + 1]
    BY <1>0, <1>1, Delivered
  <2>2. \A i \in DOMAIN inbox : inbox[i].link \in 1..opened
    OBVIOUS
  <2> QED BY ONLY <2>1, <2>2, Zenon
<1>2. ASSUME NEW k \in Kinds, NEW l \in 1..opened', opened' \in opened..MaxLinks, Post(<<Event(k, l)>>)
      PROVE  /\ inbox' \in Seq(Signals)
             /\ \A i \in DOMAIN inbox' : inbox'[i].link \in 1..opened'
  <2>1. Event(k, l) \in Signals /\ Event(k, l).link = l
    BY <1>2, Bounds, EventFacts
  <2>2. 1..opened \subseteq 1..opened'
    BY <1>0, <1>2
  <2>3. /\ inbox' \in Seq(Signals) /\ DOMAIN inbox = 1..Len(inbox) /\ DOMAIN inbox' = 1..(Len(inbox) + 1)
        /\ \A i \in DOMAIN inbox : inbox'[i] = inbox[i]
        /\ inbox'[Len(inbox) + 1] = Event(k, l) /\ Len(inbox) \in Nat
    BY <1>0, <1>2, <2>1, PostedOne
  <2>4. ASSUME NEW i \in DOMAIN inbox' PROVE inbox'[i].link \in 1..opened'
    <3>1. i \in DOMAIN inbox \/ i = Len(inbox) + 1
      BY <2>3
    <3>2. CASE i \in DOMAIN inbox
      BY <2>2, <2>3, <3>2
    <3>3. CASE i = Len(inbox) + 1
      BY <1>2, <2>1, <2>3, <3>3
    <3> QED BY <3>1, <3>2, <3>3
  <2> QED BY <2>3, <2>4
<1>3. ASSUME NEW k \in Kinds, NEW l \in 1..opened, Post(LossEvents(l, k))
      PROVE  /\ inbox' \in Seq(Signals)
             /\ \A i \in DOMAIN inbox' : inbox'[i].link \in 1..opened
  <2>1. /\ Event(k, l) \in Signals /\ Event(k, l).link = l
        /\ Event("finished", l) \in Signals /\ Event("finished", l).link = l
    BY <1>0, <1>3, EventFacts DEF Kinds
  <2>2. Post(<<Event(k, l), Event("finished", l)>>)
    BY <1>3 DEF LossEvents
  <2> QED BY <1>0, <2>1, <2>2, PostedTwo
<1>4. ASSUME NEW d \in Devices, OpenLink(d) PROVE TypeInv'
  <2>1. /\ opened' = opened + 1 /\ opened' \in 1..MaxLinks /\ opened + 1 \in Links /\ opened + 1 \in 1..opened'
        /\ numbered' = numbered + 1 /\ numbered' \in NodeIds /\ numbered' \in Links /\ numbered' <= opened'
        /\ 1..opened \subseteq 1..opened' /\ 1..opened' = 1..opened \cup {opened + 1}
        /\ opened' \in opened..MaxLinks /\ opened + 1 \notin 1..opened
    <3>1. opened' = opened + 1 /\ numbered' = numbered + 1 /\ opened < MaxLinks
      BY <1>4 DEF OpenLink
    <3>2. opened \in Nat /\ numbered \in Nat /\ numbered <= opened /\ MaxLinks \in Nat
      BY Bounds DEF NodeIds
    <3> QED BY ONLY <3>1, <3>2 DEF Links, NodeIds
  <2>2. /\ inbox' \in Seq(Signals)
        /\ \A i \in DOMAIN inbox' : inbox'[i].link \in 1..opened'
    BY <1>2, <1>4, <2>1 DEF OpenLink, Kinds
  <2>3. /\ device' \in [Links -> Devices \cup {None}] /\ id' \in [Links -> NodeIds]
        /\ \A l \in 1..opened' : id'[l] \in Links /\ device'[l] \in Devices
    <3>1. /\ device' = [device EXCEPT ![opened + 1] = d] /\ id' = [id EXCEPT ![opened + 1] = numbered + 1]
      BY <1>4 DEF OpenLink
    <3>2. /\ device'[opened + 1] = d /\ id'[opened + 1] = numbered + 1
          /\ \A l \in 1..opened : device'[l] = device[l] /\ id'[l] = id[l]
      BY <1>0, <2>1, <3>1
    <3>3. device' \in [Links -> Devices \cup {None}] /\ id' \in [Links -> NodeIds]
      BY <2>1, <3>1, Bounds
    <3> QED BY <1>4, <2>1, <3>2, <3>3
  <2>4. up' \subseteq Links /\ up' \subseteq 1..opened'
    BY <1>4, <2>1 DEF OpenLink
  <2>5. UNCHANGED <<bound, mirror, sessionVars, otaVars, dialogVars, deviceVars, history>>
    BY <1>4 DEF OpenLink
  <2>6. /\ live' \subseteq 1..opened' /\ succeeded' \subseteq 1..opened'
        /\ carrier' # None => carrier' \in 1..opened'
    BY <2>1, <2>5
  <2>7. opened' \in 0..MaxLinks
    BY <2>1
  <2>8. TypeOK'
    <3>1. numbered' \in NodeIds
      BY <2>1
    <3>2. {alarmed', crashed'} \subseteq BOOLEAN /\ disturbed' \subseteq {"hidden", "gated", "ungated"}
      BY <2>5
    <3> QED BY ONLY TypeInv, <2>2, <2>3, <2>4, <2>5, <2>6, <2>7, <3>1, <3>2
  <2> QED BY <2>1, <2>2, <2>3, <2>4, <2>6, <2>8
<1>5. ASSUME NEW l \in Links, LinkDrops(l) PROVE TypeInv'
  <2>1. /\ inbox' \in Seq(Signals) /\ \A i \in DOMAIN inbox' : inbox'[i].link \in 1..opened
    BY <1>0, <1>3, <1>5 DEF LinkDrops, Kinds
  <2>2. /\ up' \subseteq up
        /\ UNCHANGED <<opened, device, id, numbered, bound, mirror, sessionVars, otaVars,
                       dialogVars, deviceVars, history>>
    BY ONLY <1>5 DEF LinkDrops
  <2>3. up' \subseteq Links /\ up' \subseteq 1..opened
    BY <2>2
  <2>4. TypeOK'
    BY <2>1, <2>2, <2>3
  <2> QED BY <2>1, <2>2, <2>3, <2>4
<1>6. ASSUME NEW l \in Links, BindIdentity(l) PROVE TypeInv'
  <2>1. mirror' \in [Links -> {"none", "unknown", "off", "on"}]
    BY <1>0, <1>6 DEF BindIdentity, Replied
  <2>2. bound' = bound \cup {l} /\ bound \subseteq Links
    BY <1>6 DEF BindIdentity
  <2>3. bound' \subseteq Links
    BY ONLY <2>2, l \in Links
  <2>4. UNCHANGED <<opened, device, up, id, numbered, sessionVars, inbox, otaVars,
                    dialogVars, deviceVars, history>>
    BY ONLY <1>6, Zenon DEF BindIdentity
  <2> QED BY <2>1, <2>3, <2>4
<1>7. ASSUME NEW l \in Links, CliReply(l) \/ StatusReply(l) PROVE TypeInv'
  <2>1. mirror' \in [Links -> {"none", "unknown", "off", "on"}]
    BY <1>0, <1>7 DEF CliReply, StatusReply, Replied
  <2>2. UNCHANGED <<opened, device, up, id, numbered, bound, sessionVars, inbox, otaVars,
                    dialogVars, deviceVars, history>>
    BY ONLY <1>7, Zenon DEF CliReply, StatusReply
  <2> QED BY <2>1, <2>2
<1>8. CASE DeviceEntersOta
  <2>1. machine' \in [Devices -> {"run", "ota", "staged"}]
    BY <1>0, <1>8 DEF DeviceEntersOta
  <2> QED BY <1>8, <2>1 DEF DeviceEntersOta
<1>9. CASE DeviceStages
  <2>1. machine' \in [Devices -> {"run", "ota", "staged"}]
    BY <1>0, <1>9 DEF DeviceStages
  <2> QED BY <1>9, <2>1 DEF DeviceStages
<1>10. ASSUME NEW d \in Devices, DeviceGivesUp(d) PROVE TypeInv'
  <2>1. machine' \in [Devices -> {"run", "ota", "staged"}]
    BY <1>0, <1>10 DEF DeviceGivesUp
  <2> QED BY <1>10, <2>1 DEF DeviceGivesUp
<1>11. ASSUME NEW d \in Devices, DeviceResets(d) PROVE TypeInv'
  <2>1. machine' \in [Devices -> {"run", "ota", "staged"}]
    BY <1>0, <1>11 DEF DeviceResets
  <2>2. /\ inbox' \in Seq(Signals) /\ \A i \in DOMAIN inbox' : inbox'[i].link \in 1..opened
        /\ up' \subseteq Links /\ up' \subseteq 1..opened
    BY <1>0, <1>3, <1>11 DEF DeviceResets, Kinds
  <2>3. /\ UNCHANGED <<opened, device, id, numbered, bound, mirror, sessionVars, otaVars,
                       dialogVars, answered, history>>
        /\ restarted' = restarted \cup {d}
    BY ONLY <1>11 DEF DeviceResets
  <2>4. TypeOK'
    BY <2>1, <2>2, <2>3
  <2> QED BY <2>1, <2>2, <2>3, <2>4
<1>12. CASE WorkerCommits
  BY <1>12 DEF WorkerCommits, workerUnchanged
<1>13. CASE WorkerEnds
  <2>1. PICK e \in Endings : /\ Post(<<Event(e, carrier)>>)
                             /\ succeeded' = IF e = "staged" THEN succeeded \cup {carrier} ELSE succeeded
    BY <1>13 DEF WorkerEnds
  <2>2. worker # "none"
    BY <2>1 DEF Endings
  <2>3. e \in Kinds /\ carrier \in 1..opened /\ opened' = opened
    BY <1>13, <2>1, <2>2, EndingsAreLast, Carrier DEF WorkerEnds, workerUnchanged
  <2>4. /\ inbox' \in Seq(Signals) /\ \A i \in DOMAIN inbox' : inbox'[i].link \in 1..opened
    BY <1>0, <1>2, <2>1, <2>3
  <2>5. succeeded' \subseteq Links /\ succeeded' \subseteq 1..opened
    BY <1>0, <2>1, <2>3
  <2>6. answered' \in BOOLEAN
    BY <1>13, Zenon DEF WorkerEnds
  <2> QED BY <1>13, <2>4, <2>5, <2>6 DEF WorkerEnds, workerUnchanged
<1>14. CASE OnAccepted
  <2>1. /\ inbox' \in Seq(Signals) /\ Subject \in 1..opened
        /\ \A i \in DOMAIN inbox' : inbox'[i].link \in 1..opened
    BY <1>1, <1>14 DEF OnAccepted
  <2> QED BY <1>14, <2>1 DEF OnAccepted
<1>15. ASSUME NEW k, OnWorkerFailed(k) PROVE TypeInv'
  <2>1. /\ inbox' \in Seq(Signals) /\ \A i \in DOMAIN inbox' : inbox'[i].link \in 1..opened
    BY <1>1, <1>15 DEF OnWorkerFailed
  <2>2. {alarmed', crashed'} \subseteq BOOLEAN /\ disturbed' = disturbed
    BY <1>15, Zenon DEF OnWorkerFailed
  <2> QED BY <1>15, <2>1, <2>2 DEF OnWorkerFailed
<1>16. CASE OnThreadFinished
  <2>1. /\ inbox' \in Seq(Signals) /\ \A i \in DOMAIN inbox' : inbox'[i].link \in 1..opened
    BY <1>1, <1>16 DEF OnThreadFinished
  <2>2. mirror' \in [Links -> {"none", "unknown", "off", "on"}]
    BY <1>0, <1>16 DEF OnThreadFinished
  <2>3. live' \subseteq 1..opened /\ bound' \subseteq Links /\ active' \subseteq Links /\ awaiting' \subseteq Links
    BY <1>16 DEF OnThreadFinished
  <2>4. UNCHANGED <<opened, device, up, id, numbered, recording, otaVars, dialogVars, deviceVars, history>>
    BY <1>16 DEF OnThreadFinished
  <2> QED BY <2>1, <2>2, <2>3, <2>4
<1>17. CASE OnOtaStaged
  <2>1. /\ inbox' \in Seq(Signals) /\ \A i \in DOMAIN inbox' : inbox'[i].link \in 1..opened
    BY <1>1, <1>17 DEF OnOtaStaged
  <2>2. /\ cancel' \in BOOLEAN /\ {alarmed', crashed'} \subseteq BOOLEAN /\ waiting' \in BOOLEAN
        /\ uploading' \in BOOLEAN /\ showing' \in BOOLEAN /\ node' = node
    BY <1>17, Zenon DEF OnOtaStaged, TeardownEnded, ReportWaiting
  <2>3. active' \subseteq Links /\ awaiting' \subseteq Links /\ worker' = "none" /\ disturbed' = {}
    BY <1>0, <1>17 DEF OnOtaStaged, EndOta, SessionOf, TeardownEnded
  <2> QED BY <1>17, <2>1, <2>2, <2>3 DEF OnOtaStaged
<1>18. ASSUME NEW k, OnOtaEnded(k) PROVE TypeInv'
  <2>1. /\ inbox' \in Seq(Signals) /\ \A i \in DOMAIN inbox' : inbox'[i].link \in 1..opened
    BY <1>1, <1>18 DEF OnOtaEnded
  <2>2. /\ cancel' \in BOOLEAN /\ {alarmed', crashed'} \subseteq BOOLEAN /\ waiting' \in BOOLEAN
        /\ uploading' \in BOOLEAN /\ showing' \in BOOLEAN /\ node' = node
    BY <1>18, Zenon DEF OnOtaEnded, TeardownEnded, ReportEnd
  <2>3. /\ active' \subseteq Links /\ worker' = "none" /\ otaNode' = None /\ context' = None
        /\ disturbed' = {}
    BY <1>0, <1>18 DEF OnOtaEnded, EndOta, SessionOf, TeardownEnded, ClearContext
  <2> QED BY <1>18, <2>1, <2>2, <2>3 DEF OnOtaEnded, Contexts
<1>19. CASE reconnect # None /\ FinishReconnect
  <2>1. waiting' \in BOOLEAN /\ uploading' \in BOOLEAN /\ showing' \in BOOLEAN /\ node' = node
    BY <1>19, Zenon DEF FinishReconnect, ReportEnd
  <2>2. worker = "none" /\ otaNode' = None /\ context' = None /\ reconnect' = None
    BY <1>19 DEF FinishReconnect, ClearContext, OwnerInv
  <2> QED BY <1>19, <2>1, <2>2 DEF FinishReconnect, Contexts
<1>20. ASSUME NEW l \in Links, OpenDialog(l) PROVE TypeInv'
  <2>1. showing' \in BOOLEAN /\ node' = id[l]
    BY <1>20, Zenon DEF OpenDialog, SetNode
  <2>2. node' \in NodeIds
    BY <2>1
  <2> QED BY <1>20, <2>1, <2>2 DEF OpenDialog
<1>21. ASSUME NEW l \in Links, StartOta(l) PROVE TypeInv'
  <2>1. /\ l \in 1..opened /\ id[l] = node /\ node \in Links /\ node # None /\ node \in NodeIds
        /\ device[l] \in Devices
    BY <1>0, <1>21, Bounds DEF StartOta, SessionOf
  <2>2. context' \in [node : NodeIds, uuid : Devices \cup {None}] /\ context' # None
    BY <1>21, <2>1, Bounds DEF StartOta
  <2>3. cancel' \in BOOLEAN /\ uploading' \in BOOLEAN
    BY <1>21, Zenon DEF StartOta, PressStart
  <2>4. uploads' \in 0..MaxUploads
    BY <1>21, Bounds DEF StartOta
  <2> QED BY <1>21, <2>1, <2>2, <2>3, <2>4 DEF StartOta, Contexts
<1>22. CASE StartRefused
  <2>1. uploading' \in BOOLEAN
    BY <1>22, Zenon DEF StartRefused, PressStart
  <2> QED BY <1>22, <2>1 DEF StartRefused
<1>23. CASE CancelUpload
  <2>1. cancel' \in BOOLEAN
    BY <1>23, Zenon DEF CancelUpload, RequestCancel
  <2> QED BY <1>23, <2>1 DEF CancelUpload
<1>24. CASE CloseDialog \/ RejectDialog
  <2>1. cancel' \in BOOLEAN /\ showing' \in BOOLEAN /\ node' \in {node, None}
    BY <1>24, Zenon DEF CloseDialog, RejectDialog, RequestCancel
  <2>2. UNCHANGED <<linkVars, sessionVars, inbox, otaNode, context, reconnect, worker, uploads,
                    uploading, waiting, deviceVars, carrier, succeeded, alarmed, stuck, crashed>>
    BY ONLY <1>24, Zenon DEF CloseDialog, RejectDialog, otaVars, history
  <2>3. disturbed' \subseteq {"hidden", "gated", "ungated"}
    BY <1>24 DEF CloseDialog, RejectDialog
  <2> QED BY <2>1, <2>2, <2>3
<1>25. ASSUME UNCHANGED mainUnchanged, recording' \in BOOLEAN, disturbed' \subseteq {"hidden", "gated", "ungated"}
       PROVE  TypeInv'
  BY <1>25 DEF mainUnchanged
<1>26. ASSUME NEW e \in BOOLEAN, SetRecording(e) PROVE TypeInv'
  <2>1. recording' \in BOOLEAN /\ disturbed' = disturbed /\ UNCHANGED mainUnchanged
    BY <1>26, Zenon DEF SetRecording
  <2> QED BY <1>25, <2>1
<1>27. ASSUME NEW l \in Links, StartAcquisition(l) \/ StartExport(l) \/ SendUngated(l) PROVE TypeInv'
  <2>1. recording' = recording /\ UNCHANGED mainUnchanged
    BY <1>27, Zenon DEF StartAcquisition, StartExport, SendUngated
  <2>2. disturbed' \subseteq {"hidden", "gated", "ungated"}
    BY <1>27 DEF StartAcquisition, StartExport, SendUngated, Disturbs
  <2> QED BY <1>25, <2>1, <2>2
<1>28. CASE DisconnectDevice
  <2>1. /\ inbox' \in Seq(Signals) /\ \A i \in DOMAIN inbox' : inbox'[i].link \in 1..opened
        /\ succeeded' \subseteq Links /\ succeeded' \subseteq 1..opened
    <3>0. opened' = opened
      BY <1>28 DEF DisconnectDevice
    <3>1. CASE UNCHANGED <<inbox, succeeded, crashed>>
      BY <1>0, <3>1
    <3>2. CASE worker = "commit" /\ crashed' = TRUE /\ inbox' = <<>> /\ UNCHANGED succeeded
      BY <3>2
    <3>3. ASSUME NEW e \in Endings \cup {"cancelled"}, worker \in {"data", "commit"},
                 Post(<<Event(e, carrier)>>),
                 succeeded' = IF e = "staged" THEN succeeded \cup {carrier} ELSE succeeded
          PROVE  /\ inbox' \in Seq(Signals) /\ \A i \in DOMAIN inbox' : inbox'[i].link \in 1..opened
                 /\ succeeded' \subseteq Links /\ succeeded' \subseteq 1..opened
      <4>1. e \in Kinds /\ carrier \in 1..opened
        BY <3>3, EndingsAreLast, Carrier DEF LastSignals
      <4> QED BY <1>0, <1>2, <3>0, <3>3, <4>1
    <3> QED BY <1>28, <3>1, <3>2, <3>3 DEF DisconnectDevice
  <2>2. /\ recording' \in BOOLEAN /\ cancel' \in BOOLEAN /\ answered' \in BOOLEAN
        /\ {alarmed', crashed'} \subseteq BOOLEAN
    BY <1>28, Zenon DEF DisconnectDevice
  <2>3. mirror' \in [Links -> {"none", "unknown", "off", "on"}] /\ numbered' \in NodeIds /\ numbered' <= opened
    BY <1>0, <1>28, Bounds DEF DisconnectDevice, NodeIds
  <2>4. stuck' \in {"no", "refused", "abandoned"} /\ otaNode' = None /\ context' = None /\ disturbed' = {}
    BY <1>28 DEF DisconnectDevice, ClearContext
  <2> QED BY <1>28, <2>1, <2>2, <2>3, <2>4 DEF DisconnectDevice, Contexts
<1>29. CASE UNCHANGED vars
  BY <1>29
<1> QED
  BY <1>4, <1>5, <1>6, <1>7, <1>8, <1>9, <1>10, <1>11, <1>12, <1>13, <1>14, <1>15, <1>16, <1>17, <1>18,
     <1>19, <1>20, <1>21, <1>22, <1>23, <1>24, <1>26, <1>27, <1>28, <1>29
  DEF Next, Events, Timers, Dialog, MainWindow, Environment, Reconnected, ReconnectTimeout,
      SetWatermark, SetLivestream

-----------------------------------------------------------------------------
(* What no step changes, and what the last signal of an upload finds.        *)

\* A link keeps the number and the device it was opened with.
LEMMA LinksKept ==
  ASSUME TypeInv, [Next]_vars
  PROVE  \A l \in 1..opened : id'[l] = id[l] /\ device'[l] = device[l]
<1>1. ASSUME NEW d \in Devices, OpenLink(d) PROVE \A l \in 1..opened : id'[l] = id[l] /\ device'[l] = device[l]
  <2>1. /\ device' = [device EXCEPT ![opened + 1] = d] /\ id' = [id EXCEPT ![opened + 1] = numbered + 1]
    BY <1>1 DEF OpenLink
  <2>2. \A l \in 1..opened : l # opened + 1 /\ l \in Links
    BY Bounds DEF TypeInv, TypeOK
  <2> QED BY <2>1, <2>2 DEF TypeInv, TypeOK
<1>2. CASE UNCHANGED <<id, device>>
  BY <1>2
<1>3. UNCHANGED <<id, device>> \/ \E d \in Devices : OpenLink(d)
  BY DEF Next, Events, Timers, Dialog, MainWindow, Environment, Reconnected, ReconnectTimeout, SetWatermark,
     SetLivestream, OnAccepted, OnWorkerFailed, OnThreadFinished, OnOtaStaged, OnOtaEnded, FinishReconnect,
     OpenDialog, StartOta, StartRefused, CancelUpload, CloseDialog, RejectDialog, SetRecording, StartAcquisition,
     StartExport, SendUngated, DisconnectDevice, LinkDrops, BindIdentity, CliReply, StatusReply, DeviceEntersOta,
     DeviceStages, DeviceGivesUp, DeviceResets, WorkerCommits, WorkerEnds, workerUnchanged, mainUnchanged,
     linkVars, vars
<1> QED BY <1>1, <1>2, <1>3

LEMMA LastHandled ==
  ASSUME TypeInv, LastInv, NEW k \in LastSignals, NextEvent(k)
  PROVE  /\ Subject = carrier /\ carrier \in 1..opened /\ reconnect = None
         /\ worker = "ended" \/ (worker = "none" /\ otaNode = None /\ live = {})
         /\ \A i \in DOMAIN inbox' : inbox'[i].kind \notin LastSignals
         /\ \A i \in DOMAIN inbox : i # 1 => inbox[i].kind \notin LastSignals
<1>1. /\ 1 \in DOMAIN inbox /\ inbox[1].kind = k /\ Subject = inbox[1].link
      /\ \A i \in DOMAIN inbox' : /\ i \in Nat \ {0} /\ i + 1 \in DOMAIN inbox
                                  /\ inbox'[i] = inbox[i + 1]
  BY Delivered DEF TypeInv, TypeOK
<1>2. \A i \in DOMAIN inbox : i # 1 => inbox[i].kind \notin LastSignals
  BY <1>1 DEF LastInv
<1>3. \A i \in DOMAIN inbox' : i + 1 # 1
  BY <1>1
<1> QED BY <1>1, <1>2, <1>3 DEF LastInv, TypeInv

-----------------------------------------------------------------------------
(* The owner of the update.                                                  *)

LEMMA NextOwner ==
  ASSUME IInv, [Next]_vars
  PROVE  OwnerInv'
<1> USE DEF otaVars, deviceVars, history, linkVars
<1>0. TypeInv /\ OwnerInv /\ LastInv
  BY DEF IInv
<1>1. /\ carrier # None => carrier \in 1..opened
      /\ \A l \in 1..opened : id'[l] = id[l] /\ device'[l] = device[l]
  BY <1>0, LinksKept DEF TypeInv
<1>2. ASSUME UNCHANGED <<worker, otaNode, carrier, context, answered, reconnect>> PROVE OwnerInv'
  BY <1>0, <1>1, <1>2 DEF OwnerInv
<1>3. CASE DeviceStages
  BY <1>0, <1>1, <1>3 DEF DeviceStages, OwnerInv
<1>4. CASE WorkerCommits
  BY <1>0, <1>1, <1>4 DEF WorkerCommits, workerUnchanged, OwnerInv, TypeInv, TypeOK
<1>5. CASE WorkerEnds
  <2>1. worker # "none" /\ worker' = "ended" /\ ~ answered'
    BY <1>5, Zenon DEF WorkerEnds, Endings
  <2> QED BY <1>0, <1>1, <1>5, <2>1 DEF WorkerEnds, workerUnchanged, OwnerInv
<1>6. CASE OnOtaStaged
  <2>1. reconnect = None /\ worker \in {"ended", "none"}
    BY <1>0, <1>6, LastHandled DEF OnOtaStaged, LastSignals
  <2> QED BY <1>0, <1>1, <1>6, <2>1 DEF OnOtaStaged, TeardownEnded, OwnerInv
<1>7. ASSUME NEW k \in LastSignals, OnOtaEnded(k) PROVE OwnerInv'
  <2>1. reconnect = None /\ worker \in {"ended", "none"}
    BY <1>0, <1>7, LastHandled DEF OnOtaEnded
  <2> QED BY <1>0, <1>7, <2>1 DEF OnOtaEnded, TeardownEnded, ClearContext, OwnerInv
<1>8. CASE reconnect # None /\ FinishReconnect
  BY <1>0, <1>8 DEF FinishReconnect, ClearContext, OwnerInv
<1>9. ASSUME NEW l \in Links, StartOta(l) PROVE OwnerInv'
  <2>1. /\ l \in 1..opened /\ id[l] = node /\ device[l] \in Devices /\ l # None
    BY <1>0, <1>9, Bounds DEF StartOta, SessionOf, TypeInv, TypeOK
  <2>2. reconnect = None /\ ~ answered
    BY <1>0, <1>9 DEF StartOta, MayStart, OwnerInv, TypeInv, TypeOK
  <2>3. /\ otaNode' = node /\ worker' = "data" /\ carrier' = l /\ answered' = answered /\ reconnect' = reconnect
        /\ context' = [node |-> node, uuid |-> IF l \in bound THEN device[l] ELSE None]
    BY <1>9 DEF StartOta
  <2>4. context'.node = node /\ context'.uuid \in {None, device[l]}
    BY <2>3
  <2>5. id'[l] = node /\ device'[l] = device[l] /\ reconnect' = None /\ ~ answered'
    BY <1>1, <2>1, <2>2, <2>3
  <2>6. otaNode' = node /\ carrier' = l /\ worker' = "data" /\ node # None
    BY <1>0, <2>1, <2>3, Bounds DEF TypeInv
  <2> QED BY <2>1, <2>4, <2>5, <2>6 DEF OwnerInv
<1>10. CASE DisconnectDevice
  BY <1>10 DEF DisconnectDevice, ClearContext, OwnerInv
<1>11. ASSUME NEW d \in Devices, OpenLink(d) \/ DeviceGivesUp(d) \/ DeviceResets(d) PROVE OwnerInv'
  BY <1>2, <1>11 DEF OpenLink, DeviceGivesUp, DeviceResets
<1>12. ASSUME NEW l \in Links, LinkDrops(l) \/ BindIdentity(l) \/ CliReply(l) \/ StatusReply(l) \/ OpenDialog(l) PROVE OwnerInv'
  BY <1>2, <1>12 DEF LinkDrops, BindIdentity, CliReply, StatusReply, OpenDialog
<1>13. ASSUME NEW l \in Links, StartAcquisition(l) \/ StartExport(l) \/ SendUngated(l) PROVE OwnerInv'
  BY <1>2, <1>13 DEF StartAcquisition, StartExport, SendUngated, mainUnchanged
<1>14. ASSUME NEW e \in BOOLEAN, SetRecording(e) PROVE OwnerInv'
  BY <1>2, <1>14 DEF SetRecording, mainUnchanged
<1>15. CASE DeviceEntersOta \/ OnAccepted \/ OnThreadFinished \/ StartRefused \/ CancelUpload \/ CloseDialog \/ RejectDialog
  BY <1>2, <1>15 DEF DeviceEntersOta, OnAccepted, OnThreadFinished, StartRefused, CancelUpload, CloseDialog, RejectDialog
<1>16. ASSUME NEW k, OnWorkerFailed(k) PROVE OwnerInv'
  BY <1>2, <1>16 DEF OnWorkerFailed
<1>17. CASE UNCHANGED vars
  BY <1>2, <1>17 DEF vars
<1> QED
  BY <1>3, <1>4, <1>5, <1>6, <1>7, <1>8, <1>9, <1>10, <1>11, <1>12, <1>13, <1>14, <1>15, <1>16, <1>17
  DEF Next, Events, Timers, Dialog, MainWindow, Environment, Reconnected, ReconnectTimeout, SetWatermark,
      SetLivestream, LastSignals

-----------------------------------------------------------------------------
(* The session of the upload.                                                *)

LEMMA NextActive ==
  ASSUME IInv, [Next]_vars
  PROVE  ActiveInv'
<1> USE DEF linkVars, sessionVars, otaVars, dialogVars, deviceVars, history
<1>0. TypeInv /\ OwnerInv /\ LastInv /\ ActiveInv /\ QueueInv
  BY DEF IInv
<1>1. ASSUME UNCHANGED <<active, carrier, worker, recording, disturbed, live>> PROVE ActiveInv'
  BY <1>0, <1>1 DEF ActiveInv, UploadRuns
<1>2. CASE WorkerCommits
  BY <1>0, <1>2 DEF WorkerCommits, workerUnchanged, ActiveInv, UploadRuns
<1>3. CASE WorkerEnds
  BY <1>0, <1>3 DEF WorkerEnds, workerUnchanged, ActiveInv, UploadRuns
<1>4. CASE OnThreadFinished
  BY <1>0, <1>4 DEF OnThreadFinished, ActiveInv, UploadRuns
<1>5. ASSUME NEW k \in LastSignals, NextEvent(k), EndOta(id[Subject]), TeardownEnded,
             UNCHANGED <<live, carrier>>
      PROVE  ActiveInv'
  <2>1. Subject = carrier
    BY <1>0, <1>5, LastHandled
  <2>2. active' = {}
    BY <1>0, <1>5, <2>1 DEF EndOta, SessionOf, ActiveInv
  <2> QED BY <1>5, <2>2 DEF TeardownEnded, ActiveInv, UploadRuns
<1>6. CASE OnOtaStaged
  BY <1>5, <1>6 DEF OnOtaStaged, LastSignals
<1>7. ASSUME NEW k \in LastSignals, OnOtaEnded(k) PROVE ActiveInv'
  BY <1>5, <1>7 DEF OnOtaEnded
<1>8. CASE reconnect # None /\ FinishReconnect
  BY <1>1, <1>8 DEF FinishReconnect
<1>9. ASSUME NEW l \in Links, StartOta(l) PROVE ActiveInv'
  <2>1. active = {} /\ "gated" \notin disturbed
    BY <1>0, <1>9 DEF StartOta, MayStart, OwnerInv, ActiveInv
  <2> QED BY <1>9, <2>1 DEF StartOta, PressStart, SessionOf, MayStart, ActiveInv
<1>10. CASE DisconnectDevice
  BY <1>10 DEF DisconnectDevice, ActiveInv
<1>11. CASE StartRefused \/ CancelUpload \/ CloseDialog \/ RejectDialog
  <2>1. CASE RejectDialog
    BY <1>0, <2>1 DEF RejectDialog, ActiveInv, UploadRuns
  <2> QED BY <1>1, <1>11, <2>1 DEF StartRefused, CancelUpload, CloseDialog
<1>12. CASE OnAccepted
  <2>1. /\ live' = live \cup (up \cap {Subject}) /\ NextEvent("accepted")
        /\ UNCHANGED <<active, carrier, worker, recording, disturbed>>
    BY <1>12 DEF OnAccepted
  <2>2. Subject # carrier
    BY <1>0, <2>1, Delivered DEF QueueInv, TypeInv, TypeOK
  <2> QED BY <1>0, <2>1, <2>2 DEF ActiveInv, UploadRuns
<1>13. ASSUME NEW e \in BOOLEAN, SetRecording(e) PROVE ActiveInv'
  BY <1>0, <1>13 DEF SetRecording, RecordingBlocked, mainUnchanged, ActiveInv, UploadRuns
<1>14. ASSUME NEW l \in Links, SendUngated(l) PROVE ActiveInv'
  BY <1>0, <1>14 DEF SendUngated, Disturbs, mainUnchanged, ActiveInv, UploadRuns
<1>15. ASSUME NEW l \in Links, StartAcquisition(l) \/ StartExport(l) PROVE ActiveInv'
  <2>1. /\ l \in live \ active /\ Disturbs(l, "gated")
        /\ UNCHANGED <<active, carrier, worker, recording, live>>
    BY <1>15 DEF StartAcquisition, StartExport, mainUnchanged
  <2>2. disturbed' = disturbed
    BY <1>0, <2>1 DEF Disturbs, ActiveInv
  <2> QED BY <1>1, <2>1, <2>2
<1>16. ASSUME NEW l \in Links, OpenDialog(l) PROVE ActiveInv'
  BY <1>1, <1>16 DEF OpenDialog
<1>17. ASSUME NEW d \in Devices, OpenLink(d) \/ DeviceGivesUp(d) \/ DeviceResets(d) PROVE ActiveInv'
  BY <1>1, <1>17 DEF OpenLink, DeviceGivesUp, DeviceResets
<1>18. ASSUME NEW l \in Links, LinkDrops(l) \/ BindIdentity(l) \/ CliReply(l) \/ StatusReply(l) PROVE ActiveInv'
  BY <1>1, <1>18 DEF LinkDrops, BindIdentity, CliReply, StatusReply
<1>19. CASE DeviceEntersOta \/ DeviceStages
  BY <1>1, <1>19 DEF DeviceEntersOta, DeviceStages
<1>20. ASSUME NEW k, OnWorkerFailed(k) PROVE ActiveInv'
  BY <1>1, <1>20 DEF OnWorkerFailed
<1>21. CASE UNCHANGED vars
  BY <1>1, <1>21 DEF vars
<1> QED
  BY <1>2, <1>3, <1>4, <1>6, <1>7, <1>8, <1>9, <1>10, <1>11, <1>12, <1>13, <1>14, <1>15, <1>16, <1>17,
     <1>18, <1>19, <1>20, <1>21
  DEF Next, Events, Timers, Dialog, MainWindow, Environment, Reconnected, ReconnectTimeout, SetWatermark,
      SetLivestream, LastSignals

-----------------------------------------------------------------------------
(* The dialog of the upload.                                                 *)

LEMMA NextHidden ==
  ASSUME IInv, [Next]_vars
  PROVE  HiddenInv'
<1> USE DEF linkVars, sessionVars, otaVars, dialogVars, deviceVars, history
<1>0. TypeInv /\ OwnerInv /\ LastInv /\ HiddenInv /\ inbox \in Seq(Signals)
  BY DEF IInv, TypeInv, TypeOK
<1>1. ASSUME UNCHANGED <<worker, uploading, node, otaNode, showing, cancel, disturbed>> PROVE HiddenInv'
  BY <1>0, <1>1 DEF HiddenInv, UploadRuns
<1>2. ASSUME worker' \notin {"data", "commit"}, worker' = "none" => disturbed' = {} PROVE HiddenInv'
  BY <1>2 DEF HiddenInv, UploadRuns
<1>3. CASE WorkerCommits
  BY <1>0, <1>3 DEF WorkerCommits, workerUnchanged, HiddenInv, UploadRuns
<1>4. CASE WorkerEnds
  BY <1>2, <1>4 DEF WorkerEnds
<1>5. CASE OnOtaStaged
  BY <1>2, <1>5 DEF OnOtaStaged, TeardownEnded
<1>6. ASSUME NEW k \in LastSignals, OnOtaEnded(k) PROVE HiddenInv'
  BY <1>2, <1>6 DEF OnOtaEnded, TeardownEnded
<1>7. CASE reconnect # None /\ FinishReconnect
  <2>1. worker' = "none" /\ disturbed' = {}
    BY <1>0, <1>7 DEF FinishReconnect, OwnerInv, HiddenInv
  <2> QED BY <1>2, <2>1
<1>8. ASSUME NEW l \in Links, StartOta(l) PROVE HiddenInv'
  <2>1. uploading' /\ showing' /\ node' = otaNode' /\ worker' = "data" /\ disturbed' = {}
    BY <1>0, <1>8 DEF StartOta, PressStart, MayStart, OwnerInv, HiddenInv
  <2> QED BY <2>1 DEF HiddenInv
<1>9. CASE DisconnectDevice
  BY <1>2, <1>9 DEF DisconnectDevice
<1>10. CASE StartRefused
  BY <1>0, <1>10 DEF StartRefused, PressStart, HiddenInv, UploadRuns
<1>11. CASE CancelUpload
  BY <1>0, <1>11 DEF CancelUpload, RequestCancel, HiddenInv, UploadRuns
<1>12. CASE CloseDialog
  BY <1>0, <1>12 DEF CloseDialog, RequestCancel, HiddenInv, UploadRuns
<1>13. CASE RejectDialog
  BY <1>0, <1>13 DEF RejectDialog, HiddenInv, UploadRuns
<1>14. ASSUME NEW l \in Links, SendUngated(l) PROVE HiddenInv'
  BY <1>0, <1>14 DEF SendUngated, Disturbs, mainUnchanged, HiddenInv, UploadRuns
<1>15. ASSUME NEW l \in Links, StartAcquisition(l) \/ StartExport(l) PROVE HiddenInv'
  BY <1>0, <1>15 DEF StartAcquisition, StartExport, Disturbs, mainUnchanged, HiddenInv, UploadRuns
<1>16. ASSUME NEW l \in Links, OpenDialog(l) PROVE HiddenInv'
  <2>1. worker' = "none" /\ disturbed' = {}
    BY <1>0, <1>16 DEF OpenDialog, OtaAvailable, OwnerInv, HiddenInv
  <2> QED BY <1>2, <2>1
<1>17. ASSUME NEW e \in BOOLEAN, SetRecording(e) PROVE HiddenInv'
  BY <1>1, <1>17 DEF SetRecording, mainUnchanged
<1>18. ASSUME NEW d \in Devices, OpenLink(d) \/ DeviceGivesUp(d) \/ DeviceResets(d) PROVE HiddenInv'
  BY <1>1, <1>18 DEF OpenLink, DeviceGivesUp, DeviceResets
<1>19. ASSUME NEW l \in Links, LinkDrops(l) \/ BindIdentity(l) \/ CliReply(l) \/ StatusReply(l) PROVE HiddenInv'
  BY <1>1, <1>19 DEF LinkDrops, BindIdentity, CliReply, StatusReply
<1>20. CASE DeviceEntersOta \/ DeviceStages
  BY <1>1, <1>20 DEF DeviceEntersOta, DeviceStages
<1>21. CASE OnAccepted \/ OnThreadFinished
  BY <1>1, <1>21 DEF OnAccepted, OnThreadFinished
<1>22. ASSUME NEW k, OnWorkerFailed(k) PROVE HiddenInv'
  BY <1>1, <1>22 DEF OnWorkerFailed
<1>23. CASE UNCHANGED vars
  BY <1>1, <1>23 DEF vars
<1> QED
  BY <1>3, <1>4, <1>5, <1>6, <1>7, <1>8, <1>9, <1>10, <1>11, <1>12, <1>13, <1>14, <1>15, <1>16, <1>17,
     <1>18, <1>19, <1>20, <1>21, <1>22, <1>23
  DEF Next, Events, Timers, Dialog, MainWindow, Environment, Reconnected, ReconnectTimeout, SetWatermark,
      SetLivestream, LastSignals

-----------------------------------------------------------------------------
(* The event queue and the sessions.                                         *)

\* An event is handled: an accepted link that works becomes a session, a finished
\* session is dropped.
LEMMA QueueTaken ==
  ASSUME TypeInv, QueueInv, NEW k, NextEvent(k), UNCHANGED <<up, device, succeeded, carrier>>,
         live' \subseteq live \cup (up \cap {Subject}), k # "accepted" => live' \subseteq live,
         k = "finished" => Subject \notin live'
  PROVE  QueueInv'
<1>1. /\ inbox' \in Seq(Signals) /\ 1 \in DOMAIN inbox /\ inbox[1] \in Signals
      /\ inbox[1].kind = k /\ Subject = inbox[1].link
      /\ \A i \in DOMAIN inbox' : /\ i \in Nat \ {0} /\ i + 1 \in DOMAIN inbox
                                  /\ inbox'[i] = inbox[i + 1]
      /\ \A i \in DOMAIN inbox : /\ i \in Nat \ {0}
                                 /\ i # 1 => i - 1 \in DOMAIN inbox' /\ inbox'[i - 1] = inbox[i]
  BY Delivered DEF TypeInv, TypeOK
<1>2. ASSUME NEW i \in DOMAIN inbox', inbox'[i].kind = "accepted"
      PROVE  /\ inbox'[i].link \notin live' \cup succeeded' \cup {carrier'}
             /\ \A j \in DOMAIN inbox' : inbox'[j] = inbox'[i] => j = i
  <2>1. /\ inbox[i + 1].kind = "accepted" /\ i + 1 \in DOMAIN inbox /\ i + 1 # 1 /\ i \in Nat
        /\ inbox[i + 1].link \notin live \cup succeeded \cup {carrier}
        /\ \A j \in DOMAIN inbox : inbox[j] = inbox[i + 1] => j = i + 1
    BY <1>1, <1>2 DEF QueueInv
  <2>2. k = "accepted" => inbox'[i].link # Subject
    <3>1. SUFFICES ASSUME k = "accepted", inbox'[i].link = Subject PROVE FALSE
      OBVIOUS
    <3>2. inbox[i + 1] \in Signals
      BY <2>1 DEF TypeInv, TypeOK
    <3>3. inbox[i + 1] = inbox[1]
      BY <1>1, <2>1, <3>1, <3>2, SignalFacts
    <3> QED BY <1>1, <2>1, <3>3
  <2>3. ASSUME NEW j \in DOMAIN inbox', inbox'[j] = inbox'[i] PROVE j = i
    <3>1. j + 1 = i + 1 /\ j \in Nat
      BY <1>1, <2>1, <2>3
    <3> QED BY <2>1, <3>1
  <2> QED BY <1>1, <2>1, <2>2, <2>3
<1>3. \A i \in DOMAIN inbox' : inbox'[i].kind = "finished" => inbox'[i].link \notin up'
  BY <1>1 DEF QueueInv
<1>4. ASSUME NEW l \in live' \ up'
      PROVE  \E i \in DOMAIN inbox' :
               /\ inbox'[i] = Event("finished", l)
               /\ \A j \in DOMAIN inbox' :
                    j < i /\ inbox'[j].kind = "accepted" /\ inbox'[j].link \in up'
                      => device'[inbox'[j].link] # device'[l]
  <2>1. l \in live \ up
    BY <1>4
  <2>2. PICK i \in DOMAIN inbox :
               /\ inbox[i] = Event("finished", l)
               /\ \A j \in DOMAIN inbox :
                    j < i /\ inbox[j].kind = "accepted" /\ inbox[j].link \in up
                      => device[inbox[j].link] # device[l]
    BY <2>1 DEF QueueInv
  <2>3. i # 1
    BY <1>1, <2>2 DEF Event
  <2>4. i - 1 \in DOMAIN inbox' /\ inbox'[i - 1] = inbox[i] /\ i \in Nat
    BY <1>1, <2>3
  <2>5. ASSUME NEW j \in DOMAIN inbox', j < i - 1 PROVE j + 1 < i /\ j + 1 \in DOMAIN inbox /\ inbox'[j] = inbox[j + 1]
    BY <1>1, <2>4, <2>5
  <2> QED BY <2>2, <2>4, <2>5
<1> QED BY <1>2, <1>3, <1>4 DEF QueueInv

\* An uploader's thread posts its last signal.
LEMMA QueuePosted ==
  ASSUME TypeInv, QueueInv, NEW x \in Signals, x.kind \notin {"accepted", "finished"}, Post(<<x>>),
         UNCHANGED <<up, device, live, carrier>>, succeeded' \subseteq succeeded \cup {carrier}
  PROVE  QueueInv'
<1>1. /\ Len(inbox) \in Nat
      /\ DOMAIN inbox = 1..Len(inbox) /\ DOMAIN inbox' = 1..(Len(inbox) + 1)
      /\ \A i \in DOMAIN inbox : inbox'[i] = inbox[i]
      /\ inbox'[Len(inbox) + 1] = x
  BY PostedOne DEF TypeInv, TypeOK
<1>2. \A i \in DOMAIN inbox' : inbox'[i].kind \in {"accepted", "finished"} => i \in DOMAIN inbox /\ inbox'[i] = inbox[i]
  BY <1>1
<1>3. DOMAIN inbox \subseteq DOMAIN inbox'
  BY <1>1
<1>4. ASSUME NEW i \in DOMAIN inbox', inbox'[i].kind = "accepted"
      PROVE  /\ inbox'[i].link \notin live' \cup succeeded' \cup {carrier'}
             /\ \A j \in DOMAIN inbox' : inbox'[j] = inbox'[i] => j = i
  BY <1>2, <1>4 DEF QueueInv
<1>5. ASSUME NEW l \in live' \ up'
      PROVE  \E i \in DOMAIN inbox' :
               /\ inbox'[i] = Event("finished", l)
               /\ \A j \in DOMAIN inbox' :
                    j < i /\ inbox'[j].kind = "accepted" /\ inbox'[j].link \in up'
                      => device'[inbox'[j].link] # device'[l]
  BY <1>1, <1>2, <1>3 DEF QueueInv
<1> QED BY <1>2, <1>4, <1>5 DEF QueueInv

\* The worker of a session meets the dead link.
LEMMA QueueLoss ==
  ASSUME TypeInv, QueueInv, LinkInv, NEW l \in up \cap live, NEW k \in {"lost", "reset"},
         up' = up \ {l}, Post(LossEvents(l, k)), UNCHANGED <<device, live, carrier, succeeded>>
  PROVE  QueueInv'
<1>0. /\ Event(k, l) \in Signals /\ Event(k, l).kind = k
      /\ Event("finished", l) \in Signals /\ Event("finished", l).kind = "finished"
      /\ Event("finished", l).link = l
  BY EventFacts DEF TypeInv, TypeOK, Kinds
<1>1. /\ Len(inbox) \in Nat
      /\ DOMAIN inbox = 1..Len(inbox) /\ DOMAIN inbox' = 1..(Len(inbox) + 2)
      /\ \A i \in DOMAIN inbox : inbox'[i] = inbox[i]
      /\ inbox'[Len(inbox) + 1] = Event(k, l) /\ inbox'[Len(inbox) + 2] = Event("finished", l)
  BY <1>0, PostedTwo DEF TypeInv, TypeOK, LossEvents
<1>2. \A i \in DOMAIN inbox' : i \in DOMAIN inbox \/ i = Len(inbox) + 1 \/ i = Len(inbox) + 2
  BY <1>1
<1>3. \A i \in DOMAIN inbox' : inbox'[i].kind = "accepted" => i \in DOMAIN inbox /\ inbox'[i] = inbox[i]
  BY <1>0, <1>1, <1>2
<1>4. ASSUME NEW i \in DOMAIN inbox', inbox'[i].kind = "accepted"
      PROVE  /\ inbox'[i].link \notin live' \cup succeeded' \cup {carrier'}
             /\ \A j \in DOMAIN inbox' : inbox'[j] = inbox'[i] => j = i
  BY <1>3, <1>4 DEF QueueInv
<1>5. ASSUME NEW i \in DOMAIN inbox', inbox'[i].kind = "finished" PROVE inbox'[i].link \notin up'
  <2>1. CASE i \in DOMAIN inbox
    BY <1>1, <1>5, <2>1 DEF QueueInv
  <2>2. CASE i = Len(inbox) + 1
    BY <1>0, <1>1, <1>5, <2>2
  <2>3. CASE i = Len(inbox) + 2
    BY <1>0, <1>1, <2>3
  <2> QED BY <1>2, <2>1, <2>2, <2>3
<1>6. ASSUME NEW m \in live' \ up'
      PROVE  \E i \in DOMAIN inbox' :
               /\ inbox'[i] = Event("finished", m)
               /\ \A j \in DOMAIN inbox' :
                    j < i /\ inbox'[j].kind = "accepted" /\ inbox'[j].link \in up'
                      => device'[inbox'[j].link] # device'[m]
  <2>1. CASE m = l
    <3>1. Len(inbox) + 2 \in DOMAIN inbox' /\ inbox'[Len(inbox) + 2] = Event("finished", m)
      BY <1>1, <2>1
    <3>2. ASSUME NEW j \in DOMAIN inbox', inbox'[j].kind = "accepted", inbox'[j].link \in up'
          PROVE  device'[inbox'[j].link] # device'[m]
      BY <1>3, <2>1, <3>2 DEF LinkInv
    <3> QED BY <3>1, <3>2
  <2>2. CASE m # l
    <3>1. PICK i \in DOMAIN inbox :
               /\ inbox[i] = Event("finished", m)
               /\ \A j \in DOMAIN inbox :
                    j < i /\ inbox[j].kind = "accepted" /\ inbox[j].link \in up
                      => device[inbox[j].link] # device[m]
      BY <1>6, <2>2 DEF QueueInv
    <3>2. i \in DOMAIN inbox' /\ inbox'[i] = inbox[i]
      BY <1>1
    <3> QED BY <1>3, <3>1, <3>2
  <2> QED BY <2>1, <2>2
<1> QED BY <1>4, <1>5, <1>6 DEF QueueInv

\* A device opens a link.
LEMMA QueueOpen ==
  ASSUME TypeInv, QueueInv, NEW d \in Devices, OpenLink(d)
  PROVE  QueueInv'
<1> USE DEF sessionVars, otaVars, history
<1>0. /\ opened + 1 \in Links /\ opened + 1 \notin 1..opened /\ opened \in Nat
      /\ \A l \in 1..opened : l \in Links /\ l # opened + 1
  BY Bounds DEF OpenLink, TypeInv, TypeOK, Links
<1>1. /\ up' = up \cup {opened + 1} /\ UNCHANGED <<live, succeeded, carrier>>
      /\ device' = [device EXCEPT ![opened + 1] = d] /\ Post(<<Event("accepted", opened + 1)>>)
  BY DEF OpenLink
<1>2. /\ Event("accepted", opened + 1) \in Signals /\ Event("accepted", opened + 1).kind = "accepted"
      /\ Event("accepted", opened + 1).link = opened + 1
  BY <1>0, EventFacts DEF Kinds
<1>3. /\ Len(inbox) \in Nat
      /\ DOMAIN inbox = 1..Len(inbox) /\ DOMAIN inbox' = 1..(Len(inbox) + 1)
      /\ \A i \in DOMAIN inbox : inbox'[i] = inbox[i]
      /\ inbox'[Len(inbox) + 1] = Event("accepted", opened + 1)
  BY <1>1, <1>2, PostedOne DEF TypeInv, TypeOK
<1>4. /\ \A i \in DOMAIN inbox' : i \in DOMAIN inbox \/ i = Len(inbox) + 1
      /\ DOMAIN inbox \subseteq DOMAIN inbox'
      /\ \A i \in DOMAIN inbox : inbox[i].link \in 1..opened /\ i < Len(inbox) + 1
  BY <1>3 DEF TypeInv
<1>5. \A l \in 1..opened : device'[l] = device[l] /\ (l \in up' <=> l \in up)
  BY <1>0, <1>1 DEF TypeInv, TypeOK
<1>6. live \subseteq 1..opened /\ succeeded \subseteq 1..opened /\ opened + 1 # carrier
  BY <1>0, Bounds DEF TypeInv, TypeOK
<1>7. ASSUME NEW i \in DOMAIN inbox', inbox'[i].kind = "accepted"
      PROVE  /\ inbox'[i].link \notin live' \cup succeeded' \cup {carrier'}
             /\ \A j \in DOMAIN inbox' : inbox'[j] = inbox'[i] => j = i
  <2>1. CASE i \in DOMAIN inbox
    <3>1. ASSUME NEW j \in DOMAIN inbox', inbox'[j] = inbox'[i] PROVE j \in DOMAIN inbox
      BY <1>0, <1>2, <1>3, <1>4, <2>1, <3>1
    <3> QED BY <1>1, <1>3, <1>7, <2>1, <3>1 DEF QueueInv
  <2>2. CASE i = Len(inbox) + 1
    <3>1. ASSUME NEW j \in DOMAIN inbox', inbox'[j] = inbox'[i] PROVE j = i
      BY <1>0, <1>2, <1>3, <1>4, <2>2, <3>1
    <3> QED BY <1>0, <1>1, <1>2, <1>3, <1>6, <2>2, <3>1
  <2> QED BY <1>4, <2>1, <2>2
<1>8. ASSUME NEW i \in DOMAIN inbox', inbox'[i].kind = "finished" PROVE inbox'[i].link \notin up'
  <2>1. i \in DOMAIN inbox
    BY <1>2, <1>3, <1>4, <1>8
  <2> QED BY <1>3, <1>4, <1>5, <1>8, <2>1 DEF QueueInv
<1>9. ASSUME NEW l \in live' \ up'
      PROVE  \E i \in DOMAIN inbox' :
               /\ inbox'[i] = Event("finished", l)
               /\ \A j \in DOMAIN inbox' :
                    j < i /\ inbox'[j].kind = "accepted" /\ inbox'[j].link \in up'
                      => device'[inbox'[j].link] # device'[l]
  <2>1. l \in live \ up /\ l \in 1..opened
    BY <1>1, <1>6, <1>9
  <2>2. PICK i \in DOMAIN inbox :
               /\ inbox[i] = Event("finished", l)
               /\ \A j \in DOMAIN inbox :
                    j < i /\ inbox[j].kind = "accepted" /\ inbox[j].link \in up
                      => device[inbox[j].link] # device[l]
    BY <2>1 DEF QueueInv
  <2>3. i \in DOMAIN inbox' /\ inbox'[i] = inbox[i]
    BY <1>3, <1>4
  <2>4. ASSUME NEW j \in DOMAIN inbox', j < i PROVE j \in DOMAIN inbox
    BY <1>3, <2>4
  <2>5. ASSUME NEW j \in DOMAIN inbox', j < i, inbox'[j].kind = "accepted", inbox'[j].link \in up'
        PROVE  device'[inbox'[j].link] # device'[l]
    <3>1. /\ j \in DOMAIN inbox /\ inbox'[j] = inbox[j] /\ inbox[j].link \in 1..opened
      BY <1>3, <1>4, <2>4, <2>5
    <3> QED BY <1>5, <2>1, <2>2, <2>5, <3>1
  <2> QED BY <2>2, <2>3, <2>5
<1> QED BY <1>7, <1>8, <1>9 DEF QueueInv

\* disconnect_device: no session is left, and no link works.
LEMMA QueueDisconnect ==
  ASSUME TypeInv, OwnerInv, QueueInv, DisconnectDevice
  PROVE  QueueInv'
<1> USE DEF linkVars, sessionVars, otaVars, history
<1>0. up' = {} /\ live' = {} /\ UNCHANGED <<carrier, device>>
  BY DEF DisconnectDevice
<1>1. ASSUME succeeded' \subseteq succeeded \cup {carrier},
             \A i \in DOMAIN inbox' : inbox'[i].kind = "accepted" => i \in DOMAIN inbox /\ inbox'[i] = inbox[i]
      PROVE  QueueInv'
  BY <1>0, <1>1 DEF QueueInv
<1>2. CASE UNCHANGED <<inbox, succeeded, crashed>>
  BY <1>1, <1>2
<1>3. CASE inbox' = <<>> /\ UNCHANGED succeeded
  BY <1>1, <1>3
<1>4. ASSUME NEW e \in Endings \cup {"cancelled"}, worker \in {"data", "commit"}, Post(<<Event(e, carrier)>>),
             succeeded' = IF e = "staged" THEN succeeded \cup {carrier} ELSE succeeded
      PROVE  QueueInv'
  <2>1. e \in LastSignals /\ e \in Kinds /\ carrier \in Links
    BY <1>4, EndingsAreLast, Carrier DEF LastSignals
  <2>2. Event(e, carrier) \in Signals /\ Event(e, carrier).kind # "accepted"
    BY <2>1, EventFacts DEF LastSignals
  <2>3. /\ DOMAIN inbox = 1..Len(inbox) /\ DOMAIN inbox' = 1..(Len(inbox) + 1) /\ Len(inbox) \in Nat
        /\ \A i \in DOMAIN inbox : inbox'[i] = inbox[i]
        /\ inbox'[Len(inbox) + 1] = Event(e, carrier)
    BY <1>4, <2>2, PostedOne DEF TypeInv, TypeOK
  <2>4. \A i \in DOMAIN inbox' : inbox'[i].kind = "accepted" => i \in DOMAIN inbox /\ inbox'[i] = inbox[i]
    BY <2>2, <2>3
  <2> QED BY <1>1, <1>4, <2>4
<1> QED BY <1>2, <1>3, <1>4 DEF DisconnectDevice

LEMMA NextQueue ==
  ASSUME IInv, [Next]_vars
  PROVE  QueueInv'
<1> USE DEF linkVars, sessionVars, otaVars, dialogVars, deviceVars, history
<1>0. TypeInv /\ OwnerInv /\ QueueInv /\ LinkInv
  BY DEF IInv
<1>1. ASSUME UNCHANGED <<inbox, up, device, live, succeeded, carrier>> PROVE QueueInv'
  BY <1>0, <1>1 DEF QueueInv
<1>2. CASE OnAccepted
  BY <1>0, <1>2, QueueTaken DEF OnAccepted
<1>3. ASSUME NEW k \in {"lost", "reset"}, OnWorkerFailed(k) PROVE QueueInv'
  BY <1>0, <1>3, QueueTaken DEF OnWorkerFailed
<1>4. CASE OnThreadFinished
  BY <1>0, <1>4, QueueTaken DEF OnThreadFinished
<1>5. CASE OnOtaStaged
  BY <1>0, <1>5, QueueTaken DEF OnOtaStaged
<1>6. ASSUME NEW k \in LastSignals, OnOtaEnded(k) PROVE QueueInv'
  BY <1>0, <1>6, QueueTaken DEF OnOtaEnded, LastSignals
<1>7. CASE WorkerEnds
  <2>1. PICK e \in Endings : /\ Post(<<Event(e, carrier)>>)
                             /\ succeeded' = IF e = "staged" THEN succeeded \cup {carrier} ELSE succeeded
    BY <1>7 DEF WorkerEnds
  <2>2. worker # "none"
    BY <2>1 DEF Endings
  <2>3. e \in LastSignals /\ e \in Kinds /\ carrier \in Links
    BY <1>0, <2>2, EndingsAreLast, Carrier
  <2>4. Event(e, carrier) \in Signals /\ Event(e, carrier).kind \notin {"accepted", "finished"}
    BY <2>3, EventFacts DEF LastSignals
  <2>5. UNCHANGED <<up, device, live, carrier>> /\ succeeded' \subseteq succeeded \cup {carrier}
    BY <1>7, <2>1 DEF WorkerEnds, workerUnchanged
  <2> QED BY <1>0, <2>1, <2>4, <2>5, QueuePosted
<1>8. ASSUME NEW l \in Links, LinkDrops(l) PROVE QueueInv'
  BY <1>0, <1>8, QueueLoss DEF LinkDrops
<1>9. ASSUME NEW d \in Devices, DeviceResets(d) PROVE QueueInv'
  <2>1. CASE UNCHANGED <<up, inbox>>
    BY <1>1, <1>9, <2>1 DEF DeviceResets
  <2>2. ASSUME NEW l \in up \cap live, up' = up \ {l}, Post(LossEvents(l, "reset")) PROVE QueueInv'
    BY <1>0, <1>9, <2>2, QueueLoss DEF DeviceResets
  <2> QED BY <1>9, <2>1, <2>2 DEF DeviceResets
<1>10. ASSUME NEW d \in Devices, OpenLink(d) PROVE QueueInv'
  BY <1>0, <1>10, QueueOpen
<1>11. CASE DisconnectDevice
  BY <1>0, <1>11, QueueDisconnect
<1>12. ASSUME NEW l \in Links, StartOta(l) PROVE QueueInv'
  <2>1. l \in live /\ carrier' = l /\ UNCHANGED <<inbox, up, device, live, succeeded>>
    BY <1>12 DEF StartOta, SessionOf
  <2> QED BY <1>0, <2>1 DEF QueueInv
<1>13. ASSUME NEW l \in Links,
              \/ BindIdentity(l) \/ CliReply(l) \/ StatusReply(l) \/ OpenDialog(l)
              \/ StartAcquisition(l) \/ StartExport(l) \/ SendUngated(l)
       PROVE  QueueInv'
  BY <1>1, <1>13 DEF BindIdentity, CliReply, StatusReply, OpenDialog, StartAcquisition, StartExport, SendUngated,
                     mainUnchanged
<1>14. ASSUME NEW e \in BOOLEAN, SetRecording(e) PROVE QueueInv'
  BY <1>1, <1>14 DEF SetRecording, mainUnchanged
<1>15. ASSUME NEW d \in Devices, DeviceGivesUp(d) PROVE QueueInv'
  BY <1>1, <1>15 DEF DeviceGivesUp
<1>16. CASE DeviceEntersOta \/ DeviceStages \/ StartRefused \/ CancelUpload \/ CloseDialog \/ RejectDialog
  BY <1>1, <1>16 DEF DeviceEntersOta, DeviceStages, StartRefused, CancelUpload, CloseDialog, RejectDialog
<1>17. CASE WorkerCommits
  BY <1>1, <1>17 DEF WorkerCommits, workerUnchanged
<1>18. CASE reconnect # None /\ FinishReconnect
  BY <1>1, <1>18 DEF FinishReconnect
<1>19. CASE UNCHANGED vars
  BY <1>1, <1>19 DEF vars
<1> QED
  BY <1>2, <1>3, <1>4, <1>5, <1>6, <1>7, <1>8, <1>9, <1>10, <1>11, <1>12, <1>13, <1>14, <1>15, <1>16,
     <1>17, <1>18, <1>19
  DEF Next, Events, Timers, Dialog, MainWindow, Environment, Reconnected, ReconnectTimeout, SetWatermark,
      SetLivestream, LastSignals

-----------------------------------------------------------------------------
(* One working link and one session for each device.                         *)

LEMMA NextLink ==
  ASSUME IInv, [Next]_vars
  PROVE  LinkInv'
<1> USE DEF linkVars, sessionVars, otaVars, dialogVars, deviceVars, history
<1>0. TypeInv /\ OwnerInv /\ QueueInv /\ LinkInv /\ LastInv
  BY DEF IInv
<1>1. ASSUME UNCHANGED <<device, live, carrier>>, up' \subseteq up PROVE LinkInv'
  BY <1>0, <1>1 DEF LinkInv
<1>2. CASE OnAccepted
  <2>1. /\ live' = live \cup (up \cap {Subject}) /\ UNCHANGED <<up, device, carrier>>
        /\ NextEvent("accepted")
    BY <1>2 DEF OnAccepted
  <2>2. 1 \in DOMAIN inbox /\ inbox[1].kind = "accepted" /\ Subject = inbox[1].link
        /\ \A i \in DOMAIN inbox : i \in Nat \ {0}
    BY <1>0, <2>1, Delivered DEF TypeInv, TypeOK
  <2>3. ASSUME NEW l \in live, Subject \in up, device[l] = device[Subject] PROVE l = Subject
    <3>1. CASE l \in up
      BY <1>0, <2>3, <3>1 DEF LinkInv
    <3>2. CASE l \notin up
      <4>1. PICK i \in DOMAIN inbox :
               /\ inbox[i] = Event("finished", l)
               /\ \A j \in DOMAIN inbox :
                    j < i /\ inbox[j].kind = "accepted" /\ inbox[j].link \in up
                      => device[inbox[j].link] # device[l]
        BY <1>0, <3>2 DEF QueueInv
      <4>2. i # 1
        BY <2>2, <4>1 DEF Event
      <4>3. 1 < i
        BY <2>2, <4>2
      <4> QED BY <2>2, <2>3, <4>1, <4>3
    <3> QED BY <3>1, <3>2
  <2> QED BY <1>0, <2>1, <2>3 DEF LinkInv
<1>3. CASE OnThreadFinished
  <2>1. live' = live \ {Subject} /\ UNCHANGED <<up, device, carrier>> /\ NextEvent("finished")
    BY <1>3 DEF OnThreadFinished
  <2>2. Subject \notin up
    BY <1>0, <2>1, Delivered DEF QueueInv, TypeInv, TypeOK
  <2> QED BY <1>0, <2>1, <2>2 DEF LinkInv
<1>4. ASSUME NEW d \in Devices, OpenLink(d) PROVE LinkInv'
  <2>1. /\ device' = [device EXCEPT ![opened + 1] = d] /\ up' = up \cup {opened + 1}
        /\ UNCHANGED <<live, carrier>> /\ \A l \in up : device[l] # d
        /\ opened < MaxLinks
    BY <1>4 DEF OpenLink
  <2>2. /\ opened + 1 \in Links /\ up \subseteq 1..opened /\ live \subseteq 1..opened /\ carrier # opened + 1
        /\ \A l \in 1..opened : l \in Links /\ l # opened + 1
        /\ device \in [Links -> Devices \cup {None}]
    BY <1>0, <2>1, Bounds DEF TypeInv, TypeOK
  <2>3. device'[opened + 1] = d /\ \A l \in 1..opened : device'[l] = device[l]
    BY <2>1, <2>2
  <2> QED BY <1>0, <2>1, <2>2, <2>3 DEF LinkInv
<1>5. ASSUME NEW l \in Links, CliReply(l) \/ StatusReply(l) PROVE LinkInv'
  BY <1>1, <1>5 DEF CliReply, StatusReply
<1>6. ASSUME NEW l \in Links, StartOta(l) PROVE LinkInv'
  <2>1. l \in live /\ carrier' = l /\ UNCHANGED <<up, live, device>>
    BY <1>6 DEF StartOta, SessionOf
  <2> QED BY <1>0, <2>1 DEF LinkInv
<1>7. CASE DisconnectDevice
  BY <1>7 DEF DisconnectDevice, LinkInv
<1>8. ASSUME NEW d \in Devices, DeviceGivesUp(d) \/ DeviceResets(d) PROVE LinkInv'
  BY <1>1, <1>8 DEF DeviceGivesUp, DeviceResets
<1>9. ASSUME NEW l \in Links,
             \/ LinkDrops(l) \/ BindIdentity(l) \/ OpenDialog(l)
             \/ StartAcquisition(l) \/ StartExport(l) \/ SendUngated(l)
      PROVE  LinkInv'
  BY <1>1, <1>9 DEF LinkDrops, BindIdentity, OpenDialog, StartAcquisition, StartExport, SendUngated,
                    mainUnchanged
<1>10. ASSUME NEW e \in BOOLEAN, SetRecording(e) PROVE LinkInv'
  BY <1>1, <1>10 DEF SetRecording, mainUnchanged
<1>11. CASE DeviceEntersOta \/ DeviceStages \/ StartRefused \/ CancelUpload \/ CloseDialog \/ RejectDialog \/ OnOtaStaged
  BY <1>1, <1>11 DEF DeviceEntersOta, DeviceStages, StartRefused, CancelUpload, CloseDialog, RejectDialog, OnOtaStaged
<1>12. CASE WorkerCommits \/ WorkerEnds
  BY <1>1, <1>12 DEF WorkerCommits, WorkerEnds, workerUnchanged
<1>13. ASSUME NEW k, OnWorkerFailed(k) \/ OnOtaEnded(k) PROVE LinkInv'
  BY <1>1, <1>13 DEF OnWorkerFailed, OnOtaEnded
<1>14. CASE reconnect # None /\ FinishReconnect
  BY <1>1, <1>14 DEF FinishReconnect
<1>15. CASE UNCHANGED vars
  BY <1>1, <1>15 DEF vars
<1> QED
  BY <1>2, <1>3, <1>4, <1>5, <1>6, <1>7, <1>8, <1>9, <1>10, <1>11, <1>12, <1>13, <1>14, <1>15
  DEF Next, Events, Timers, Dialog, MainWindow, Environment, Reconnected, ReconnectTimeout, SetWatermark,
      SetLivestream

-----------------------------------------------------------------------------
(* The last signal of an upload.                                             *)

\* Other events are posted behind it.
LEMMA LastPosted ==
  ASSUME LastInv,
         \A i \in DOMAIN inbox : i \in DOMAIN inbox' /\ inbox'[i] = inbox[i],
         \A i \in DOMAIN inbox' \ DOMAIN inbox : inbox'[i].kind \notin LastSignals,
         \A i \in DOMAIN inbox, j \in DOMAIN inbox' : j < i => j \in DOMAIN inbox,
         UNCHANGED <<carrier, reconnect, worker, otaNode, live>>,
         \A i \in DOMAIN inbox : inbox[i].link \in up' => inbox[i].link \in up
  PROVE  LastInv'
<1> SUFFICES ASSUME NEW i \in DOMAIN inbox', inbox'[i].kind \in LastSignals
             PROVE  /\ inbox'[i].link = carrier' /\ reconnect' = None
                    /\ \A j \in DOMAIN inbox' : inbox'[j].kind \in LastSignals => j = i
                    /\ \/ worker' = "ended"
                       \/ /\ worker' = "none" /\ otaNode' = None /\ live' = {}
                          /\ \A j \in DOMAIN inbox' :
                               j < i /\ inbox'[j].kind = "accepted" => inbox'[j].link \notin up'
  BY DEF LastInv
<1>1. /\ i \in DOMAIN inbox /\ inbox[i].kind \in LastSignals
      /\ \A j \in DOMAIN inbox' : inbox'[j].kind \in LastSignals => j \in DOMAIN inbox
  OBVIOUS
<1>2. /\ inbox[i].link = carrier /\ reconnect = None
      /\ \A j \in DOMAIN inbox : inbox[j].kind \in LastSignals => j = i
      /\ \/ worker = "ended"
         \/ /\ worker = "none" /\ otaNode = None /\ live = {}
            /\ \A j \in DOMAIN inbox : j < i /\ inbox[j].kind = "accepted" => inbox[j].link \notin up
  BY <1>1 DEF LastInv
<1>3. ASSUME worker = "none", NEW j \in DOMAIN inbox', j < i, inbox'[j].kind = "accepted"
      PROVE  inbox'[j].link \notin up'
  <2>1. j \in DOMAIN inbox /\ inbox'[j] = inbox[j]
    BY <1>1, <1>3
  <2> QED BY <1>2, <1>3, <2>1
<1> QED BY <1>1, <1>2, <1>3

\* An event before it is handled.
LEMMA LastTaken ==
  ASSUME TypeInv, LastInv, NEW k \in Kinds \ LastSignals, NextEvent(k),
         UNCHANGED <<carrier, reconnect, worker, otaNode, up>>,
         live' \subseteq live \cup (up \cap {Subject}), k # "accepted" => live' \subseteq live
  PROVE  LastInv'
<1>1. /\ 1 \in DOMAIN inbox /\ inbox[1].kind = k /\ Subject = inbox[1].link
      /\ \A i \in DOMAIN inbox' : /\ i \in Nat \ {0} /\ i + 1 \in DOMAIN inbox
                                  /\ inbox'[i] = inbox[i + 1]
  BY Delivered DEF TypeInv, TypeOK
<1> SUFFICES ASSUME NEW i \in DOMAIN inbox', inbox'[i].kind \in LastSignals
             PROVE  /\ inbox'[i].link = carrier' /\ reconnect' = None
                    /\ \A j \in DOMAIN inbox' : inbox'[j].kind \in LastSignals => j = i
                    /\ \/ worker' = "ended"
                       \/ /\ worker' = "none" /\ otaNode' = None /\ live' = {}
                          /\ \A j \in DOMAIN inbox' :
                               j < i /\ inbox'[j].kind = "accepted" => inbox'[j].link \notin up'
  BY DEF LastInv
<1>2. i \in Nat /\ i + 1 \in DOMAIN inbox /\ inbox'[i] = inbox[i + 1] /\ 1 < i + 1
  BY <1>1
<1>3. /\ inbox[i + 1].link = carrier /\ reconnect = None
      /\ \A j \in DOMAIN inbox : inbox[j].kind \in LastSignals => j = i + 1
      /\ \/ worker = "ended"
         \/ /\ worker = "none" /\ otaNode = None /\ live = {}
            /\ \A j \in DOMAIN inbox : j < i + 1 /\ inbox[j].kind = "accepted" => inbox[j].link \notin up
  BY <1>2 DEF LastInv
<1>4. ASSUME NEW j \in DOMAIN inbox', inbox'[j].kind \in LastSignals PROVE j = i
  <2>1. j \in Nat /\ j + 1 = i + 1
    BY <1>1, <1>3, <1>4
  <2> QED BY <1>2, <2>1
<1>5. ASSUME worker = "none", NEW j \in DOMAIN inbox', j < i, inbox'[j].kind = "accepted"
      PROVE  inbox'[j].link \notin up'
  <2>1. j + 1 \in DOMAIN inbox /\ inbox'[j] = inbox[j + 1] /\ j + 1 < i + 1
    BY <1>1, <1>2, <1>5
  <2> QED BY <1>3, <1>5, <2>1
<1>6. ASSUME worker = "none" PROVE live' = {}
  BY <1>1, <1>2, <1>3, <1>6
<1> QED BY <1>2, <1>3, <1>4, <1>5, <1>6

LEMMA NextLast ==
  ASSUME IInv, [Next]_vars
  PROVE  LastInv'
<1> USE DEF linkVars, sessionVars, otaVars, dialogVars, deviceVars, history
<1>0. /\ TypeInv /\ OwnerInv /\ LastInv /\ inbox \in Seq(Signals)
      /\ \A i \in DOMAIN inbox : inbox[i].link \in 1..opened
  BY DEF IInv, TypeInv, TypeOK
<1>1. ASSUME UNCHANGED <<inbox, up, live, carrier, reconnect, worker, otaNode>> PROVE LastInv'
  BY <1>0, <1>1 DEF LastInv
<1>2. CASE OnAccepted
  BY <1>0, <1>2, LastTaken DEF OnAccepted, Kinds, LastSignals
<1>3. ASSUME NEW k \in {"lost", "reset"}, OnWorkerFailed(k) PROVE LastInv'
  BY <1>0, <1>3, LastTaken DEF OnWorkerFailed, Kinds, LastSignals
<1>4. CASE OnThreadFinished
  BY <1>0, <1>4, LastTaken DEF OnThreadFinished, Kinds, LastSignals
<1>5. ASSUME \A i \in DOMAIN inbox' : inbox'[i].kind \notin LastSignals PROVE LastInv'
  BY <1>5 DEF LastInv
<1>6. CASE OnOtaStaged
  BY <1>0, <1>5, <1>6, LastHandled DEF OnOtaStaged, LastSignals
<1>7. ASSUME NEW k \in LastSignals, OnOtaEnded(k) PROVE LastInv'
  BY <1>0, <1>5, <1>7, LastHandled DEF OnOtaEnded
<1>8. ASSUME NEW e \in LastSignals, Post(<<Event(e, carrier)>>), worker \in {"data", "commit"}, carrier' = carrier,
             \/ worker' = "ended" /\ reconnect' = reconnect
             \/ worker' = "none" /\ reconnect' = None /\ otaNode' = None /\ live' = {} /\ up' = {}
      PROVE  LastInv'
  <2>1. /\ \A i \in DOMAIN inbox : inbox[i].kind \notin LastSignals
        /\ reconnect' = None
    BY <1>0, <1>8 DEF LastInv, OwnerInv
  <2>2. /\ Event(e, carrier) \in Signals /\ Event(e, carrier).link = carrier
    BY <1>0, <1>8, EndingsAreLast, Carrier, EventFacts
  <2>3. /\ DOMAIN inbox = 1..Len(inbox) /\ DOMAIN inbox' = 1..(Len(inbox) + 1) /\ Len(inbox) \in Nat
        /\ \A i \in DOMAIN inbox : inbox'[i] = inbox[i]
        /\ inbox'[Len(inbox) + 1] = Event(e, carrier)
    BY <1>0, <1>8, <2>2, PostedOne
  <2>4. \A i \in DOMAIN inbox' : inbox'[i].kind \in LastSignals => i = Len(inbox) + 1
    BY <2>1, <2>3
  <2>5. \A i \in DOMAIN inbox' : inbox'[i].kind \in LastSignals => inbox'[i].link = carrier
    BY <2>2, <2>3, <2>4
  <2> QED BY <1>8, <2>1, <2>4, <2>5 DEF LastInv
<1>9. CASE WorkerEnds
  <2>1. PICK e \in Endings : Post(<<Event(e, carrier)>>)
    BY <1>9 DEF WorkerEnds
  <2>2. worker \in {"data", "commit"} /\ e \in LastSignals
    BY <2>1, EndingsAreLast DEF Endings
  <2> QED BY <1>8, <1>9, <2>1, <2>2 DEF WorkerEnds, workerUnchanged
<1>10. CASE WorkerCommits
  <2>1. /\ \A i \in DOMAIN inbox : inbox[i].kind \notin LastSignals
        /\ inbox' = inbox
    BY <1>0, <1>10 DEF LastInv, WorkerCommits
  <2> QED BY <1>5, <2>1
<1>11. ASSUME NEW l \in up \cap live, NEW k \in {"lost", "reset"}, up' = up \ {l}, Post(LossEvents(l, k)),
              UNCHANGED <<live, carrier, reconnect, worker, otaNode>>
       PROVE  LastInv'
  <2>1. /\ Event(k, l) \in Signals /\ Event(k, l).kind = k
        /\ Event("finished", l) \in Signals /\ Event("finished", l).kind = "finished"
    BY <1>0, EventFacts DEF TypeInv, TypeOK, Kinds
  <2>2. /\ DOMAIN inbox = 1..Len(inbox) /\ DOMAIN inbox' = 1..(Len(inbox) + 2) /\ Len(inbox) \in Nat
        /\ \A i \in DOMAIN inbox : inbox'[i] = inbox[i]
        /\ inbox'[Len(inbox) + 1] = Event(k, l) /\ inbox'[Len(inbox) + 2] = Event("finished", l)
    BY <1>0, <1>11, <2>1, PostedTwo DEF LossEvents
  <2>3. ASSUME NEW i \in DOMAIN inbox' \ DOMAIN inbox PROVE inbox'[i].kind \notin LastSignals
    <3>1. i = Len(inbox) + 1 \/ i = Len(inbox) + 2
      BY <2>2, <2>3
    <3> QED BY <2>1, <2>2, <3>1 DEF LastSignals
  <2>4. /\ \A i \in DOMAIN inbox : i \in DOMAIN inbox' /\ inbox'[i] = inbox[i]
        /\ \A i \in DOMAIN inbox, j \in DOMAIN inbox' : j < i => j \in DOMAIN inbox
    BY <2>2
  <2> QED BY <1>0, <1>11, <2>3, <2>4, LastPosted
<1>12. ASSUME NEW l \in Links, LinkDrops(l) PROVE LastInv'
  BY <1>11, <1>12 DEF LinkDrops
<1>13. ASSUME NEW d \in Devices, DeviceResets(d) PROVE LastInv'
  <2>1. CASE UNCHANGED <<up, inbox>>
    BY <1>1, <1>13, <2>1 DEF DeviceResets
  <2>2. ASSUME NEW l \in up \cap live, up' = up \ {l}, Post(LossEvents(l, "reset")) PROVE LastInv'
    BY <1>11, <1>13, <2>2 DEF DeviceResets
  <2> QED BY <1>13, <2>1, <2>2 DEF DeviceResets
<1>14. ASSUME NEW d \in Devices, OpenLink(d) PROVE LastInv'
  <2>1. /\ up' = up \cup {opened + 1} /\ UNCHANGED <<live, carrier, reconnect, worker, otaNode>>
        /\ Post(<<Event("accepted", opened + 1)>>) /\ opened + 1 \in Links /\ opened \in Nat
    BY <1>0, <1>14, Bounds DEF OpenLink, TypeInv, TypeOK
  <2>2. Event("accepted", opened + 1) \in Signals /\ Event("accepted", opened + 1).kind = "accepted"
    BY <2>1, EventFacts DEF Kinds
  <2>3. /\ DOMAIN inbox = 1..Len(inbox) /\ DOMAIN inbox' = 1..(Len(inbox) + 1) /\ Len(inbox) \in Nat
        /\ \A i \in DOMAIN inbox : inbox'[i] = inbox[i]
        /\ inbox'[Len(inbox) + 1] = Event("accepted", opened + 1)
    BY <1>0, <2>1, <2>2, PostedOne
  <2>4. /\ \A i \in DOMAIN inbox : i \in DOMAIN inbox' /\ inbox'[i] = inbox[i]
        /\ \A i \in DOMAIN inbox, j \in DOMAIN inbox' : j < i => j \in DOMAIN inbox
        /\ \A i \in DOMAIN inbox' \ DOMAIN inbox : i = Len(inbox) + 1
    BY <2>3
  <2>5. \A i \in DOMAIN inbox' \ DOMAIN inbox : inbox'[i].kind \notin LastSignals
    BY <2>2, <2>3, <2>4 DEF LastSignals
  <2>6. \A i \in DOMAIN inbox : inbox[i].link \in up' => inbox[i].link \in up
    BY <1>0, <2>1
  <2> QED BY <1>0, <2>1, <2>4, <2>5, <2>6, LastPosted
<1>15. CASE DisconnectDevice
  <2>1. /\ reconnect' = None /\ worker' = "none" /\ otaNode' = None /\ live' = {} /\ up' = {} /\ carrier' = carrier
    BY <1>15 DEF DisconnectDevice, ClearContext
  <2>2. CASE inbox' = inbox
    BY <1>0, <2>1, <2>2 DEF LastInv
  <2>3. CASE inbox' = <<>>
    BY <1>5, <2>3
  <2>4. ASSUME NEW e \in Endings \cup {"cancelled"}, worker \in {"data", "commit"}, Post(<<Event(e, carrier)>>)
        PROVE  LastInv'
    BY <1>8, <2>1, <2>4, EndingsAreLast DEF LastSignals
  <2> QED BY <1>15, <2>2, <2>3, <2>4 DEF DisconnectDevice
<1>16. ASSUME NEW l \in Links, StartOta(l) PROVE LastInv'
  <2>1. worker = "none" /\ l \in live /\ inbox' = inbox
    BY <1>0, <1>16 DEF StartOta, MayStart, SessionOf, OwnerInv
  <2>2. \A i \in DOMAIN inbox : inbox[i].kind \notin LastSignals
    BY <1>0, <2>1 DEF LastInv
  <2> QED BY <1>5, <2>1, <2>2
<1>17. CASE reconnect # None /\ FinishReconnect
  <2>1. inbox' = inbox /\ \A i \in DOMAIN inbox : inbox[i].kind \notin LastSignals
    BY <1>0, <1>17 DEF FinishReconnect, LastInv
  <2> QED BY <1>5, <2>1
<1>18. ASSUME NEW l \in Links,
              \/ BindIdentity(l) \/ CliReply(l) \/ StatusReply(l) \/ OpenDialog(l)
              \/ StartAcquisition(l) \/ StartExport(l) \/ SendUngated(l)
       PROVE  LastInv'
  BY <1>1, <1>18 DEF BindIdentity, CliReply, StatusReply, OpenDialog, StartAcquisition, StartExport, SendUngated,
                     mainUnchanged
<1>19. ASSUME NEW e \in BOOLEAN, SetRecording(e) PROVE LastInv'
  BY <1>1, <1>19 DEF SetRecording, mainUnchanged
<1>20. ASSUME NEW d \in Devices, DeviceGivesUp(d) PROVE LastInv'
  BY <1>1, <1>20 DEF DeviceGivesUp
<1>21. CASE DeviceEntersOta \/ DeviceStages \/ StartRefused \/ CancelUpload \/ CloseDialog \/ RejectDialog
  BY <1>1, <1>21 DEF DeviceEntersOta, DeviceStages, StartRefused, CancelUpload, CloseDialog, RejectDialog
<1>22. CASE UNCHANGED vars
  BY <1>1, <1>22 DEF vars
<1> QED
  BY <1>2, <1>3, <1>4, <1>6, <1>7, <1>9, <1>10, <1>12, <1>13, <1>14, <1>15, <1>16, <1>17, <1>18, <1>19,
     <1>20, <1>21, <1>22
  DEF Next, Events, Timers, Dialog, MainWindow, Environment, Reconnected, ReconnectTimeout, SetWatermark,
      SetLivestream, LastSignals

-----------------------------------------------------------------------------
(* The reset of an updated device is expected.                               *)

LEMMA NextSilent ==
  ASSUME IInv, [Next]_vars
  PROVE  SilentInv'
<1> USE DEF linkVars, sessionVars, otaVars, dialogVars, deviceVars, history
<1>0. /\ TypeInv /\ OwnerInv /\ LastInv /\ QueueInv /\ SilentInv /\ inbox \in Seq(Signals)
  BY DEF IInv, TypeInv, TypeOK
<1>1. ASSUME UNCHANGED <<alarmed, succeeded, carrier, worker>>,
             (live' \cap succeeded) \ awaiting' \subseteq (live \cap succeeded) \ awaiting,
             \A i \in DOMAIN inbox' : inbox'[i].kind \in {"failed", "cancelled"} =>
               \E j \in DOMAIN inbox : inbox[j] = inbox'[i]
      PROVE  SilentInv'
  BY <1>0, <1>1 DEF SilentInv
<1>2. ASSUME ~ alarmed', (live' \cap succeeded') \ awaiting' = {} PROVE SilentInv'
  BY <1>2 DEF SilentInv
<1>3. ASSUME NEW k, NextEvent(k)
      PROVE  /\ 1 \in DOMAIN inbox /\ inbox[1].kind = k /\ Subject = inbox[1].link
             /\ \A i \in DOMAIN inbox' : \E j \in DOMAIN inbox : inbox[j] = inbox'[i]
  BY <1>0, <1>3, Delivered
<1>4. CASE OnAccepted
  <2>1. NextEvent("accepted") /\ live' = live \cup (up \cap {Subject})
        /\ UNCHANGED <<alarmed, succeeded, carrier, worker, awaiting>>
    BY <1>4 DEF OnAccepted
  <2>2. Subject \notin succeeded
    BY <1>0, <1>3, <2>1 DEF QueueInv
  <2> QED BY <1>1, <1>3, <2>1, <2>2
<1>5. ASSUME NEW k, OnWorkerFailed(k) PROVE SilentInv'
  <2>1. /\ NextEvent(k) /\ UNCHANGED <<succeeded, carrier, worker, live, awaiting>>
        /\ alarmed' => alarmed \/ (Subject \in live /\ ~ InFlight(Subject) /\ Subject \notin awaiting
                                   /\ Subject \in succeeded)
    BY <1>5, Zenon DEF OnWorkerFailed
  <2>2. ASSUME Subject \in (live \cap succeeded) \ awaiting PROVE InFlight(Subject)
    <3>1. Subject = carrier /\ worker = "ended"
      BY <1>0, <2>2 DEF SilentInv
    <3>2. context # None /\ context.node = id[carrier]
      BY <1>0, <3>1, Carrier DEF OwnerInv
    <3> QED BY <3>1, <3>2 DEF InFlight
  <2>3. ~ alarmed'
    BY <1>0, <2>1, <2>2 DEF SilentInv
  <2> QED BY <1>0, <1>3, <2>1, <2>3 DEF SilentInv
<1>6. CASE OnThreadFinished
  <2>1. /\ NextEvent("finished") /\ UNCHANGED <<alarmed, succeeded, carrier, worker>>
        /\ live' = live \ {Subject} /\ awaiting' = awaiting \ {Subject}
    BY <1>6 DEF OnThreadFinished
  <2> QED BY <1>1, <1>3, <2>1
<1>7. CASE OnOtaStaged
  <2>1. Subject = carrier
    BY <1>0, <1>7, LastHandled DEF OnOtaStaged, LastSignals
  <2>2. /\ UNCHANGED <<alarmed, succeeded, live>>
        /\ awaiting' = awaiting \cup {l \in live : id[l] = id[carrier]}
    BY <1>7, <2>1 DEF OnOtaStaged, SessionOf
  <2>3. (live' \cap succeeded') \ awaiting' = {}
    BY <1>0, <2>2 DEF SilentInv
  <2> QED BY <1>0, <1>2, <2>2, <2>3 DEF SilentInv
<1>8. ASSUME NEW k \in {"failed", "cancelled"}, OnOtaEnded(k) PROVE SilentInv'
  <2>1. NextEvent(k) /\ UNCHANGED <<alarmed, succeeded, live, awaiting>>
    BY <1>8 DEF OnOtaEnded
  <2>2. (live \cap succeeded) \ awaiting = {}
    BY <1>0, <1>3, <2>1 DEF SilentInv
  <2> QED BY <1>0, <1>2, <2>1, <2>2 DEF SilentInv
<1>9. ASSUME worker # "ended" PROVE (live \cap succeeded) \ awaiting = {} /\ ~ alarmed
  BY <1>0, <1>9 DEF SilentInv
<1>10. CASE WorkerEnds
  <2>1. PICK e \in Endings : /\ Post(<<Event(e, carrier)>>)
                             /\ succeeded' = IF e = "staged" THEN succeeded \cup {carrier} ELSE succeeded
    BY <1>10 DEF WorkerEnds
  <2>2. worker \in {"data", "commit"} /\ e \in LastSignals
    BY <2>1, EndingsAreLast DEF Endings
  <2>3. worker' = "ended" /\ UNCHANGED <<alarmed, live, awaiting, carrier>>
    BY <1>10 DEF WorkerEnds, workerUnchanged
  <2>4. CASE e # "staged"
    BY <1>2, <1>9, <2>1, <2>2, <2>3, <2>4
  <2>5. CASE e = "staged"
    <3>1. \A i \in DOMAIN inbox : inbox[i].kind \notin LastSignals
      BY <1>0, <2>2 DEF LastInv
    <3>2. Event(e, carrier) \in Signals /\ Event(e, carrier).kind = "staged"
      BY <1>0, <2>2, <2>5, EndingsAreLast, Carrier, EventFacts
    <3>3. /\ DOMAIN inbox = 1..Len(inbox) /\ DOMAIN inbox' = 1..(Len(inbox) + 1) /\ Len(inbox) \in Nat
          /\ \A i \in DOMAIN inbox : inbox'[i] = inbox[i]
          /\ inbox'[Len(inbox) + 1] = Event(e, carrier)
      BY <1>0, <2>1, <3>2, PostedOne
    <3>4. ASSUME NEW i \in DOMAIN inbox' PROVE inbox'[i].kind \notin {"failed", "cancelled"}
      <4>1. i \in DOMAIN inbox \/ i = Len(inbox) + 1
        BY <3>3
      <4> QED BY <3>1, <3>2, <3>3, <4>1 DEF LastSignals
    <3>5. (live' \cap succeeded') \ awaiting' \subseteq {carrier'} /\ ~ alarmed'
      BY <1>9, <2>1, <2>2, <2>3
    <3> QED BY <2>3, <3>4, <3>5 DEF SilentInv
  <2> QED BY <2>4, <2>5
<1>11. CASE WorkerCommits
  <2>1. worker = "data" /\ UNCHANGED <<alarmed, live, awaiting, succeeded>>
    BY <1>11 DEF WorkerCommits, workerUnchanged
  <2> QED BY <1>2, <1>9, <2>1
<1>12. ASSUME NEW l \in Links, StartOta(l) PROVE SilentInv'
  <2>1. worker = "none" /\ UNCHANGED <<alarmed, live, awaiting, succeeded>>
    BY <1>0, <1>12 DEF StartOta, MayStart, OwnerInv
  <2> QED BY <1>2, <1>9, <2>1
<1>13. CASE DisconnectDevice
  BY <1>0, <1>2, <1>13 DEF DisconnectDevice, SilentInv
<1>14. ASSUME NEW l \in up \cap live, NEW k \in {"lost", "reset"}, Post(LossEvents(l, k)),
              UNCHANGED <<alarmed, succeeded, carrier, worker, live, awaiting>>
       PROVE  SilentInv'
  <2>1. /\ Event(k, l) \in Signals /\ Event(k, l).kind = k
        /\ Event("finished", l) \in Signals /\ Event("finished", l).kind = "finished"
    BY <1>0, EventFacts DEF TypeInv, TypeOK, Kinds
  <2>2. /\ DOMAIN inbox = 1..Len(inbox) /\ DOMAIN inbox' = 1..(Len(inbox) + 2) /\ Len(inbox) \in Nat
        /\ \A i \in DOMAIN inbox : inbox'[i] = inbox[i]
        /\ inbox'[Len(inbox) + 1] = Event(k, l) /\ inbox'[Len(inbox) + 2] = Event("finished", l)
    BY <1>0, <1>14, <2>1, PostedTwo DEF LossEvents
  <2>3. ASSUME NEW i \in DOMAIN inbox', inbox'[i].kind \in {"failed", "cancelled"}
        PROVE  \E j \in DOMAIN inbox : inbox[j] = inbox'[i]
    <3>1. i \in DOMAIN inbox \/ i = Len(inbox) + 1 \/ i = Len(inbox) + 2
      BY <2>2
    <3> QED BY <2>1, <2>2, <2>3, <3>1
  <2> QED BY <1>1, <1>14, <2>3
<1>15. ASSUME NEW l \in Links, LinkDrops(l) PROVE SilentInv'
  BY <1>14, <1>15 DEF LinkDrops
<1>16. ASSUME NEW d \in Devices, DeviceResets(d) PROVE SilentInv'
  <2>1. CASE UNCHANGED <<up, inbox>>
    BY <1>1, <1>16, <2>1 DEF DeviceResets
  <2>2. ASSUME NEW l \in up \cap live, Post(LossEvents(l, "reset")) PROVE SilentInv'
    BY <1>14, <1>16, <2>2 DEF DeviceResets
  <2> QED BY <1>16, <2>1, <2>2 DEF DeviceResets
<1>17. ASSUME NEW d \in Devices, OpenLink(d) PROVE SilentInv'
  <2>1. /\ UNCHANGED <<alarmed, succeeded, carrier, worker, live, awaiting>>
        /\ Post(<<Event("accepted", opened + 1)>>) /\ opened + 1 \in Links
    BY <1>0, <1>17, Bounds DEF OpenLink, TypeInv, TypeOK
  <2>2. Event("accepted", opened + 1) \in Signals /\ Event("accepted", opened + 1).kind = "accepted"
    BY <2>1, EventFacts DEF Kinds
  <2>3. /\ DOMAIN inbox = 1..Len(inbox) /\ DOMAIN inbox' = 1..(Len(inbox) + 1) /\ Len(inbox) \in Nat
        /\ \A i \in DOMAIN inbox : inbox'[i] = inbox[i]
        /\ inbox'[Len(inbox) + 1] = Event("accepted", opened + 1)
    BY <1>0, <2>1, <2>2, PostedOne
  <2>4. ASSUME NEW i \in DOMAIN inbox', inbox'[i].kind \in {"failed", "cancelled"}
        PROVE  \E j \in DOMAIN inbox : inbox[j] = inbox'[i]
    <3>1. i \in DOMAIN inbox \/ i = Len(inbox) + 1
      BY <2>3
    <3> QED BY <2>2, <2>3, <2>4, <3>1
  <2> QED BY <1>1, <2>1, <2>4
<1>18. ASSUME UNCHANGED <<alarmed, succeeded, carrier, worker, live, awaiting, inbox>> PROVE SilentInv'
  BY <1>1, <1>18
<1>19. ASSUME NEW l \in Links,
              \/ BindIdentity(l) \/ CliReply(l) \/ StatusReply(l) \/ OpenDialog(l)
              \/ StartAcquisition(l) \/ StartExport(l) \/ SendUngated(l)
       PROVE  SilentInv'
  BY <1>18, <1>19 DEF BindIdentity, CliReply, StatusReply, OpenDialog, StartAcquisition, StartExport, SendUngated,
                      mainUnchanged
<1>20. ASSUME NEW e \in BOOLEAN, SetRecording(e) PROVE SilentInv'
  BY <1>18, <1>20 DEF SetRecording, mainUnchanged
<1>21. ASSUME NEW d \in Devices, DeviceGivesUp(d) PROVE SilentInv'
  BY <1>18, <1>21 DEF DeviceGivesUp
<1>22. CASE DeviceEntersOta \/ DeviceStages \/ StartRefused \/ CancelUpload \/ CloseDialog \/ RejectDialog
  BY <1>18, <1>22 DEF DeviceEntersOta, DeviceStages, StartRefused, CancelUpload, CloseDialog, RejectDialog
<1>23. CASE reconnect # None /\ FinishReconnect
  BY <1>18, <1>23 DEF FinishReconnect
<1>24. CASE UNCHANGED vars
  BY <1>18, <1>24 DEF vars
<1> QED
  BY <1>4, <1>5, <1>6, <1>7, <1>8, <1>10, <1>11, <1>12, <1>13, <1>15, <1>16, <1>17, <1>19, <1>20, <1>21,
     <1>22, <1>23, <1>24
  DEF Next, Events, Timers, Dialog, MainWindow, Environment, Reconnected, ReconnectTimeout, SetWatermark,
      SetLivestream

-----------------------------------------------------------------------------
(* The device that is reported as back.                                      *)

\* The update that has staged, or waits for its device, has a carrier.
LEMMA StagedCarrier ==
  ASSUME TypeInv, OwnerInv, Staged
  PROVE  carrier \in 1..opened /\ Target \in Devices
<1>1. worker # "none" \/ reconnect # None
  BY DEF Staged, OwnerInv
<1>2. otaNode # None
  BY <1>1 DEF OwnerInv, TypeInv, TypeOK
<1> QED BY <1>2 DEF OwnerInv, TypeInv, Target

\* No event says that a thread has staged: the update is not staged by this step.
LEMMA NotStaged ==
  ASSUME UNCHANGED <<answered, reconnect, worker>>,
         \A i \in DOMAIN inbox' : inbox'[i].kind = "staged" => \E j \in DOMAIN inbox : inbox[j].kind = "staged"
  PROVE  Staged' => Staged
  BY DEF Staged

\* An update that has staged after a step had done so before, and what is known of it is
\* still so.
Keeps ==
  /\ Staged /\ carrier' = carrier /\ restarted \subseteq restarted' /\ succeeded \subseteq succeeded'
  /\ machine[Target] = "staged" => machine'[Target] = "staged" \/ Target \in restarted'
  /\ carrier \in succeeded' \/ answered' \/ ~ answered

LEMMA StagedStep ==
  ASSUME IInv, [Next]_vars, Staged'
  PROVE  Keeps \/ DeviceStages
<1> USE DEF linkVars, sessionVars, otaVars, dialogVars, deviceVars, history
<1>0. /\ TypeInv /\ OwnerInv /\ LastInv /\ LinkInv /\ RestartInv /\ inbox \in Seq(Signals)
      /\ machine \in [Devices -> {"run", "ota", "staged"}]
      /\ live \subseteq 1..opened /\ 1..opened \subseteq Links
  <2>1. /\ TypeInv /\ OwnerInv /\ LastInv /\ LinkInv /\ RestartInv
    BY ONLY IInv DEF IInv
  <2>2. /\ inbox \in Seq(Signals) /\ machine \in [Devices -> {"run", "ota", "staged"}]
        /\ live \subseteq 1..opened
    BY ONLY <2>1 DEF TypeInv, TypeOK
  <2>3. 1..opened \subseteq Links
    BY ONLY <2>1, Bounds DEF TypeInv, TypeOK
  <2> QED BY ONLY <2>1, <2>2, <2>3
<1>2. ASSUME Staged' => Staged, carrier' = carrier, restarted \subseteq restarted', succeeded \subseteq succeeded',
             machine[Target] = "staged" => machine'[Target] = "staged" \/ Target \in restarted',
             carrier \in succeeded' \/ answered' \/ ~ answered
      PROVE  Keeps
  BY <1>2 DEF Keeps
<1>3. ASSUME ~ Staged' PROVE Keeps
  BY <1>3
<1>4. ASSUME NEW k, NextEvent(k)
      PROVE  /\ 1 \in DOMAIN inbox /\ inbox[1].kind = k /\ Subject = inbox[1].link
             /\ \A i \in DOMAIN inbox' : \E j \in DOMAIN inbox : inbox[j] = inbox'[i]
  BY <1>0, <1>4, Delivered
<1>5. CASE OnAccepted
  <2>1. /\ UNCHANGED <<answered, reconnect, worker, carrier, restarted, machine, succeeded>>
        /\ NextEvent("accepted")
    BY <1>5 DEF OnAccepted
  <2>2. Staged' => Staged
    BY <1>4, <2>1, NotStaged
  <2> QED BY <1>2, <2>1, <2>2
<1>6. ASSUME NEW k, OnWorkerFailed(k) PROVE Keeps
  <2>1. /\ UNCHANGED <<answered, reconnect, worker, carrier, restarted, machine, succeeded>>
        /\ NextEvent(k)
    BY <1>6 DEF OnWorkerFailed
  <2>2. Staged' => Staged
    BY <1>4, <2>1, NotStaged
  <2> QED BY <1>0, <1>2, <2>1, <2>2
<1>7. CASE OnThreadFinished
  <2>1. /\ UNCHANGED <<answered, reconnect, worker, carrier, restarted, machine, succeeded>>
        /\ NextEvent("finished")
    BY <1>7 DEF OnThreadFinished
  <2>2. Staged' => Staged
    BY <1>4, <2>1, NotStaged
  <2> QED BY <1>0, <1>2, <2>1, <2>2
<1>8. CASE OnOtaStaged
  <2>1. /\ NextEvent("staged") /\ UNCHANGED <<answered, carrier, restarted, machine, succeeded>>
        /\ worker' = "none" /\ reconnect' = context
    BY <1>8 DEF OnOtaStaged, TeardownEnded
  <2>2. 1 \in DOMAIN inbox /\ inbox[1].kind = "staged"
    BY <1>4, <2>1
  <2>3. reconnect' # None => Staged
    <3>1. SUFFICES ASSUME context # None PROVE Staged
      BY <2>1
    <3>2. worker = "ended"
      BY <1>0, <2>1, <3>1, LastHandled DEF LastSignals, TypeInv, TypeOK
    <3> QED BY <2>2, <3>2 DEF Staged
  <2>4. Staged' => Staged
    BY <2>1, <2>3 DEF Staged
  <2> QED BY <1>0, <1>2, <2>1, <2>4
<1>9. ASSUME NEW k \in LastSignals, OnOtaEnded(k) PROVE Keeps
  <2>1. /\ reconnect = None /\ worker \in {"ended", "none"}
        /\ worker' = "none" /\ UNCHANGED <<reconnect, answered>>
    BY <1>0, <1>9, LastHandled DEF OnOtaEnded, TeardownEnded
  <2>2. ~ Staged'
    BY <1>0, <2>1 DEF Staged, OwnerInv
  <2> QED BY <1>3, <2>2
<1>10. CASE WorkerEnds
  <2>1. PICK e \in Endings : /\ Post(<<Event(e, carrier)>>)
                             /\ succeeded' = IF e = "staged" THEN succeeded \cup {carrier} ELSE succeeded
    BY <1>10 DEF WorkerEnds
  <2>2. worker \in {"data", "commit"} /\ e \in LastSignals /\ (e = "staged" => answered)
    BY <2>1, EndingsAreLast DEF Endings
  <2>3. /\ worker' = "ended" /\ ~ answered'
        /\ UNCHANGED <<reconnect, carrier, restarted, machine>>
    BY <1>10, Zenon DEF WorkerEnds, workerUnchanged
  <2>4. CASE e = "staged"
    BY <1>0, <1>2, <2>1, <2>2, <2>3, <2>4 DEF Staged
  <2>5. CASE e # "staged"
    <3>1. \A i \in DOMAIN inbox : inbox[i].kind \notin LastSignals
      BY <1>0, <2>2 DEF LastInv
    <3>2. Event(e, carrier) \in Signals /\ Event(e, carrier).kind = e
      BY <1>0, <2>2, EndingsAreLast, Carrier, EventFacts
    <3>3. /\ DOMAIN inbox = 1..Len(inbox) /\ DOMAIN inbox' = 1..(Len(inbox) + 1) /\ Len(inbox) \in Nat
          /\ \A i \in DOMAIN inbox : inbox'[i] = inbox[i]
          /\ inbox'[Len(inbox) + 1] = Event(e, carrier)
      BY <1>0, <2>1, <3>2, PostedOne
    <3>4. ASSUME NEW i \in DOMAIN inbox' PROVE inbox'[i].kind # "staged"
      <4>1. i \in DOMAIN inbox \/ i = Len(inbox) + 1
        BY <3>3
      <4> QED BY <2>5, <3>1, <3>2, <3>3, <4>1 DEF LastSignals
    <3>5. reconnect' = None
      BY <1>0, <2>2, <2>3 DEF OwnerInv
    <3>6. ~ Staged'
      BY <2>3, <3>4, <3>5 DEF Staged
    <3> QED BY <1>3, <3>6
  <2> QED BY <2>4, <2>5
<1>11. CASE WorkerCommits
  <2>1. worker = "data" /\ worker' = "commit" /\ UNCHANGED <<reconnect, answered>>
    BY <1>11 DEF WorkerCommits, workerUnchanged
  <2>2. ~ Staged'
    BY <1>0, <2>1 DEF Staged, OwnerInv
  <2> QED BY <1>3, <2>2
<1>12. ASSUME NEW l \in Links, StartOta(l) PROVE Keeps
  <2>1. worker' = "data" /\ UNCHANGED <<reconnect, answered>> /\ otaNode = None /\ worker = "none"
    BY <1>0, <1>12 DEF StartOta, MayStart, OwnerInv
  <2>2. ~ Staged'
    BY <1>0, <2>1 DEF Staged, OwnerInv, TypeInv, TypeOK
  <2> QED BY <1>3, <2>2
<1>13. CASE DisconnectDevice
  <2>1. ~ Staged'
    BY <1>13, Zenon DEF DisconnectDevice, Staged
  <2> QED BY <1>3, <2>1
<1>14. CASE reconnect # None /\ FinishReconnect
  <2>1. reconnect' = None /\ worker' = "none" /\ ~ answered'
    BY <1>0, <1>14, Zenon DEF FinishReconnect, OwnerInv
  <2>2. ~ Staged'
    BY <2>1 DEF Staged
  <2> QED BY <1>3, <2>2
<1>15. CASE DeviceEntersOta
  <2>1. machine[Target] = "run" /\ UNCHANGED <<inbox, reconnect, answered, worker, carrier, restarted, succeeded>>
    BY <1>15 DEF DeviceEntersOta
  <2>2. Staged' => Staged
    BY <2>1, NotStaged
  <2> QED BY <1>0, <1>2, <2>1, <2>2
<1>17. ASSUME NEW d \in Devices, DeviceGivesUp(d) PROVE Keeps
  <2>1. /\ machine[d] = "ota" /\ machine' = [machine EXCEPT ![d] = "run"]
        /\ UNCHANGED <<inbox, reconnect, answered, worker, carrier, restarted, succeeded>>
    BY <1>17 DEF DeviceGivesUp
  <2>2. Staged' => Staged
    BY <2>1, NotStaged
  <2>3. machine[Target] = "staged" => machine'[Target] = "staged"
    BY <1>0, <2>1
  <2> QED BY <1>0, <1>2, <2>1, <2>2, <2>3
<1>18. ASSUME NEW l \in up \cap live, NEW k \in {"lost", "reset"}, Post(LossEvents(l, k)),
              UNCHANGED <<answered, reconnect, worker>>
       PROVE  Staged' => Staged
  <2>1. /\ Event(k, l) \in Signals /\ Event(k, l).kind = k
        /\ Event("finished", l) \in Signals /\ Event("finished", l).kind = "finished"
    BY <1>0, EventFacts DEF TypeInv, TypeOK, Kinds
  <2>2. /\ DOMAIN inbox = 1..Len(inbox) /\ DOMAIN inbox' = 1..(Len(inbox) + 2) /\ Len(inbox) \in Nat
        /\ \A i \in DOMAIN inbox : inbox'[i] = inbox[i]
        /\ inbox'[Len(inbox) + 1] = Event(k, l) /\ inbox'[Len(inbox) + 2] = Event("finished", l)
    BY <1>0, <1>18, <2>1, PostedTwo DEF LossEvents
  <2>3. ASSUME NEW i \in DOMAIN inbox', inbox'[i].kind = "staged"
        PROVE  \E j \in DOMAIN inbox : inbox[j].kind = "staged"
    <3>1. i \in DOMAIN inbox \/ i = Len(inbox) + 1 \/ i = Len(inbox) + 2
      BY <2>2
    <3> QED BY <2>1, <2>2, <2>3, <3>1
  <2> QED BY <1>18, <2>3, NotStaged
<1>19. ASSUME NEW l \in Links, LinkDrops(l) PROVE Keeps
  <2>1. /\ Staged' => Staged
        /\ UNCHANGED <<answered, carrier, restarted, machine, succeeded>>
    BY <1>18, <1>19 DEF LinkDrops
  <2> QED BY <1>0, <1>2, <2>1
<1>20. ASSUME NEW d \in Devices, DeviceResets(d) PROVE Keeps
  <2>1. /\ machine' = [machine EXCEPT ![d] = "run"] /\ restarted' = restarted \cup {d}
        /\ UNCHANGED <<answered, reconnect, worker, carrier, succeeded>>
    BY <1>20 DEF DeviceResets
  <2>2. Staged' => Staged
    <3>1. CASE UNCHANGED <<up, inbox>>
      BY <2>1, <3>1, NotStaged
    <3>2. ASSUME NEW l \in up \cap live, Post(LossEvents(l, "reset")) PROVE Staged' => Staged
      BY <1>18, <2>1, <3>2
    <3> QED BY <1>20, <3>1, <3>2 DEF DeviceResets
  <2>3. machine[Target] = "staged" => machine'[Target] = "staged" \/ Target \in restarted'
    BY <1>0, <2>1
  <2> QED BY <1>0, <1>2, <2>1, <2>2, <2>3
<1>21. ASSUME NEW d \in Devices, OpenLink(d) PROVE Keeps
  <2>1. /\ UNCHANGED <<answered, reconnect, worker, carrier, restarted, machine, succeeded>>
        /\ Post(<<Event("accepted", opened + 1)>>) /\ opened + 1 \in Links
    BY <1>0, <1>21, Bounds DEF OpenLink, TypeInv, TypeOK
  <2>2. Event("accepted", opened + 1) \in Signals /\ Event("accepted", opened + 1).kind = "accepted"
    BY <2>1, EventFacts DEF Kinds
  <2>3. /\ DOMAIN inbox = 1..Len(inbox) /\ DOMAIN inbox' = 1..(Len(inbox) + 1) /\ Len(inbox) \in Nat
        /\ \A i \in DOMAIN inbox : inbox'[i] = inbox[i]
        /\ inbox'[Len(inbox) + 1] = Event("accepted", opened + 1)
    BY <1>0, <2>1, <2>2, PostedOne
  <2>4. ASSUME NEW i \in DOMAIN inbox', inbox'[i].kind = "staged"
        PROVE  \E j \in DOMAIN inbox : inbox[j].kind = "staged"
    <3>1. i \in DOMAIN inbox \/ i = Len(inbox) + 1
      BY <2>3
    <3> QED BY <2>2, <2>3, <2>4, <3>1
  <2>5. Staged' => Staged
    BY <2>1, <2>4, NotStaged
  <2> QED BY <1>0, <1>2, <2>1, <2>5
<1>23. ASSUME UNCHANGED <<inbox, answered, reconnect, worker, carrier, restarted, machine, succeeded>>
       PROVE  Keeps
  BY <1>0, <1>2, <1>23, NotStaged
<1>24. ASSUME NEW l \in Links,
              \/ BindIdentity(l) \/ CliReply(l) \/ StatusReply(l) \/ OpenDialog(l)
              \/ StartAcquisition(l) \/ StartExport(l) \/ SendUngated(l)
       PROVE  Keeps
  BY <1>23, <1>24 DEF BindIdentity, CliReply, StatusReply, OpenDialog, StartAcquisition, StartExport, SendUngated,
                      mainUnchanged
<1>25. ASSUME NEW e \in BOOLEAN, SetRecording(e) PROVE Keeps
  BY <1>23, <1>25 DEF SetRecording, mainUnchanged
<1>26. CASE StartRefused \/ CancelUpload \/ CloseDialog \/ RejectDialog
  BY <1>23, <1>26 DEF StartRefused, CancelUpload, CloseDialog, RejectDialog
<1>27. CASE UNCHANGED vars
  BY <1>23, <1>27 DEF vars
<1> QED
  BY <1>5, <1>6, <1>7, <1>8, <1>9, <1>10, <1>11, <1>12, <1>13, <1>14, <1>15, <1>17, <1>19, <1>20,
     <1>21, <1>24, <1>25, <1>26, <1>27
  DEF Next, Events, Timers, Dialog, MainWindow, Environment, Reconnected, ReconnectTimeout, SetWatermark,
      SetLivestream, LastSignals

LEMMA NextRestart ==
  ASSUME IInv, [Next]_vars
  PROVE  RestartInv'
<1>0. /\ TypeInv /\ OwnerInv /\ LinkInv /\ RestartInv
      /\ machine \in [Devices -> {"run", "ota", "staged"}]
  BY DEF IInv, TypeInv, TypeOK
<1>1. \A l \in 1..opened : device'[l] = device[l]
  BY <1>0, LinksKept
<1> SUFFICES ASSUME Staged'
             PROVE  /\ Target' \in restarted' \/ machine'[Target'] = "staged"
                    /\ ~ answered' => carrier' \in succeeded'
  BY DEF RestartInv
<1>2. CASE Keeps
  <2>1. Staged /\ carrier \in 1..opened /\ Target' = Target
    BY <1>0, <1>1, <1>2, StagedCarrier DEF Target, Keeps
  <2>2. Target \in restarted \/ machine[Target] = "staged"
    BY <1>0, <2>1 DEF RestartInv
  <2>3. ~ answered => carrier \in succeeded
    BY <1>0, <2>1 DEF RestartInv
  <2> QED BY <1>2, <2>1, <2>2, <2>3 DEF Keeps
<1>3. CASE DeviceStages
  <2>1. /\ worker = "commit" /\ machine' = [machine EXCEPT ![Target] = "staged"]
        /\ UNCHANGED <<inbox, carrier, reconnect, worker, device>>
    BY <1>3 DEF DeviceStages, linkVars, otaVars, history
  <2>2. Target \in Devices /\ reconnect = None
    BY <1>0, <2>1, Carrier DEF TypeInv, OwnerInv, Target
  <2>3. Target' = Target /\ machine'[Target] = "staged"
    BY <1>0, <2>1, <2>2 DEF Target
  <2>4. answered'
    BY <2>1, <2>2 DEF Staged
  <2> QED BY <2>3, <2>4
<1> QED BY <1>2, <1>3, StagedStep

\* A reply is met by a session, and says OFF only while its device runs.
MirrorStep ==
  /\ \A l \in Links : mirror'[l] # "none" => l \in live'
  /\ \A l \in live' : mirror'[l] = "off" => l \in live /\ (mirror[l] = "off" \/ machine[device[l]] = "run")

LEMMA NextMirrorStep ==
  ASSUME IInv, [Next]_vars
  PROVE  MirrorStep
<1> USE DEF linkVars, sessionVars, otaVars, dialogVars, deviceVars, history
<1>0. /\ \A l \in Links : mirror[l] # "none" => l \in live
      /\ mirror \in [Links -> {"none", "unknown", "off", "on"}]
      /\ live \subseteq 1..opened /\ 1..opened \subseteq Links
  BY Bounds DEF IInv, MirrorInv, TypeInv, TypeOK
<1>1. ASSUME UNCHANGED <<mirror, live>> PROVE MirrorStep
  BY <1>0, <1>1 DEF MirrorStep
<1>2. CASE OnAccepted
  <2>1. UNCHANGED mirror /\ live \subseteq live' /\ live' \subseteq live \cup up
    BY <1>2 DEF OnAccepted
  <2>2. up \subseteq Links
    BY DEF IInv, TypeInv, TypeOK
  <2> QED BY <1>0, <2>1, <2>2 DEF MirrorStep
<1>3. CASE OnThreadFinished
  BY <1>0, <1>3 DEF OnThreadFinished, MirrorStep
<1>4. CASE DisconnectDevice
  BY <1>0, <1>4, Zenon DEF DisconnectDevice, MirrorStep
<1>5. ASSUME NEW l \in Links, l \in live, Replied(l), UNCHANGED live PROVE MirrorStep
  BY <1>0, <1>5 DEF Replied, MirrorStep
<1>6. ASSUME NEW l \in Links, BindIdentity(l) \/ CliReply(l) PROVE MirrorStep
  BY <1>1, <1>5, <1>6 DEF BindIdentity, CliReply
<1>7. ASSUME NEW l \in Links, StatusReply(l) PROVE MirrorStep
  BY <1>0, <1>7 DEF StatusReply, MirrorStep
<1>8. \/ UNCHANGED <<mirror, live>> \/ OnAccepted \/ OnThreadFinished \/ DisconnectDevice
      \/ \E l \in Links : BindIdentity(l) \/ CliReply(l) \/ StatusReply(l)
  BY DEF Next, Events, Timers, Dialog, MainWindow, Environment, Reconnected, ReconnectTimeout, SetWatermark,
     SetLivestream, OnWorkerFailed, OnOtaStaged, OnOtaEnded, FinishReconnect,
     OpenDialog, StartOta, StartRefused, CancelUpload, CloseDialog, RejectDialog, SetRecording, StartAcquisition,
     StartExport, SendUngated, LinkDrops, OpenLink, DeviceEntersOta,
     DeviceStages, DeviceGivesUp, DeviceResets, WorkerCommits, WorkerEnds, workerUnchanged, mainUnchanged, vars
<1> QED BY <1>1, <1>2, <1>3, <1>4, <1>6, <1>7, <1>8

LEMMA NextMirror ==
  ASSUME IInv, [Next]_vars
  PROVE  MirrorInv'
<1>0. /\ TypeInv /\ OwnerInv /\ LinkInv /\ RestartInv /\ MirrorInv
      /\ live \subseteq 1..opened
  BY DEF IInv, TypeInv, TypeOK
<1>1. \A l \in 1..opened : device'[l] = device[l]
  BY <1>0, LinksKept
<1>2. MirrorStep
  BY NextMirrorStep
<1> SUFFICES ASSUME Staged', NEW l \in live' \ {carrier'}, device'[l] = Target', mirror'[l] = "off"
             PROVE  Target' \in restarted'
  BY <1>2 DEF MirrorInv, MirrorStep
<1>3. l \in live /\ device'[l] = device[l] /\ (mirror[l] = "off" \/ machine[device[l]] = "run")
  BY <1>0, <1>1, <1>2 DEF MirrorStep
<1>4. CASE Keeps
  <2>1. Staged /\ carrier \in 1..opened /\ Target' = Target
    BY <1>0, <1>1, <1>4, StagedCarrier DEF Target, Keeps
  <2>2. l # carrier /\ device[l] = Target
    BY <1>3, <1>4, <2>1 DEF Keeps
  <2>3. Target \in restarted
    BY <1>0, <1>3, <2>1, <2>2 DEF MirrorInv, RestartInv
  <2> QED BY <1>4, <2>1, <2>3 DEF Keeps
<1>5. CASE DeviceStages
  <2>1. carrier \in up /\ UNCHANGED <<carrier, device>>
    BY <1>5 DEF DeviceStages, linkVars, history
  <2>2. carrier \in live /\ l # carrier /\ device[l] = device[carrier]
    BY <1>0, <1>3, <2>1 DEF LinkInv, Target
  <2> QED BY <1>0, <1>3, <2>2 DEF LinkInv
<1> QED BY <1>4, <1>5, StagedStep

-----------------------------------------------------------------------------
(* The theorems.                                                             *)

LEMMA InitInductive == Init => IInv
<1> SUFFICES ASSUME Init PROVE IInv
  OBVIOUS
<1>1. TypeInv
  BY InitType
<1>2. /\ inbox = <<>> /\ DOMAIN inbox = {} /\ live = {} /\ up = {} /\ active = {} /\ reconnect = None /\ otaNode = None
      /\ worker = "none" /\ carrier = None /\ ~ answered /\ ~ alarmed /\ disturbed = {}
      /\ mirror = [l \in Links |-> "none"]
  BY DEF Init
<1>3. OwnerInv /\ LastInv /\ ActiveInv /\ HiddenInv /\ QueueInv
  BY <1>2 DEF OwnerInv, LastInv, ActiveInv, HiddenInv, UploadRuns, QueueInv
<1>4. LinkInv /\ SilentInv /\ RestartInv /\ MirrorInv
  BY <1>2 DEF LinkInv, SilentInv, RestartInv, MirrorInv, Staged
<1> QED BY <1>1, <1>3, <1>4 DEF IInv

(* What the handlers of the GUI thread rely on, in every state they can      *)
(* meet: events are handled in the order they were posted, an update has one *)
(* owner, a device one session.                                              *)
THEOREM Inductive == Spec => []IInv
<1>1. Init => IInv
  BY InitInductive
<1>2. IInv /\ [Next]_vars => IInv'
  <2> SUFFICES ASSUME IInv, [Next]_vars PROVE IInv'
    OBVIOUS
  <2>1. TypeInv'
    BY NextType DEF IInv
  <2> QED BY <2>1, NextOwner, NextLast, NextActive, NextHidden, NextQueue, NextLink, NextSilent, NextRestart,
            NextMirror
     DEF IInv
<1> QED BY <1>1, <1>2, PTL DEF Spec

(* Every variable keeps its type, and the uploader's thread runs only for    *)
(* the node start_ota_for gave the update to.                                *)
THEOREM TypeCorrect == Spec => []TypeOK
<1>1. IInv => TypeOK
  BY DEF IInv, TypeInv
<1> QED BY <1>1, Inductive, PTL

(* _on_worker_failed never reports the reset of a device that has staged its *)
(* image, whichever of STAGED, the loss and the reconnect timer comes first. *)
THEOREM ResetIsExpected == Spec => []ExpectedResetIsSilent
<1>1. IInv => ExpectedResetIsSilent
  BY DEF IInv, SilentInv, ExpectedResetIsSilent
<1> QED BY <1>1, Inductive, PTL

(* The gates of the main window keep a recording, START and an export off    *)
(* the device of an upload, also when the dialog was hidden with Esc, which  *)
(* leaves the upload running, and what has no gate meets an upload only      *)
(* after a cancel or after that.                                             *)
THEOREM UploadHasTheDevice == Spec => []UploadIsExclusive
<1>1. IInv => UploadIsExclusive
  BY DEF IInv, ActiveInv, HiddenInv, UploadIsExclusive
<1> QED BY <1>1, Inductive, PTL

(* _poll_ota_reconnect reports RECONNECTED only for an update whose upload   *)
(* was staged, and that by a session of the updated device when its UUID was *)
(* known.  It has waited for the device to restart if that session has a new *)
(* link and has said OFF.                                                    *)
THEOREM ReportedDeviceIsBack == Spec => ReconnectIsGenuine
<1> DEFINE Seen == \E l \in live \cap bound :
                     /\ device[l] = Target
                     /\ Target \in restarted \/ l = carrier \/ mirror[l] = "unknown"
<1>1. IInv /\ [Next]_vars =>
        [Reconnected =>
           /\ carrier \in succeeded
           /\ Target \in restarted \/ machine[Target] = "staged"
           /\ reconnect.uuid # None => Seen]_vars
  <2> SUFFICES ASSUME IInv, Reconnected
               PROVE  /\ carrier \in succeeded
                      /\ Target \in restarted \/ machine[Target] = "staged"
                      /\ reconnect.uuid # None => Seen
    OBVIOUS
  <2>1. reconnect # None /\ context = reconnect /\ otaNode # None /\ ~ answered
    BY DEF Reconnected, IInv, OwnerInv, TypeInv, TypeOK
  <2>2. carrier \in succeeded /\ (Target \in restarted \/ machine[Target] = "staged")
    BY <2>1 DEF IInv, RestartInv, Staged
  <2>3. ASSUME reconnect.uuid # None PROVE Seen
    <3>1. PICK l \in live : l \in bound /\ device[l] = reconnect.uuid /\ mirror[l] \in {"unknown", "off"}
      BY <2>3 DEF Reconnected, IsBack
    <3>2. reconnect.uuid = Target
      BY <2>1, <2>3 DEF IInv, OwnerInv, Target
    <3>3. mirror[l] = "off" /\ l # carrier => Target \in restarted
      BY <2>1, <3>1, <3>2 DEF IInv, MirrorInv, Staged
    <3> QED BY <3>1, <3>2, <3>3
  <2> QED BY <2>2, <2>3
<1> QED BY <1>1, Inductive, PTL DEF Spec, ReconnectIsGenuine
=============================================================================

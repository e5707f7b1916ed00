--------------------------- MODULE SessionsProofs ---------------------------
(***************************************************************************)
(* The sessions, their index and their slots agree for every set of ports  *)
(* and devices and every limit on clients, sessions and connections.       *)
(***************************************************************************)
EXTENDS Sessions, SequenceTheorems, FiniteSetTheorems, TLAPS

LEMMA Bounds ==
  /\ MaxClients \in Nat \ {0} /\ MaxConns \in Nat /\ MaxListeners \in Nat
  /\ None \notin Conns /\ None \notin Listeners /\ None \notin NodeIds /\ None \notin Devices
BY SessionsAssumption

\* The ids of ports and clients are different.
LEMMA Ids ==
  /\ \A p \in Ports : CdcId(p) \in NodeIds
  /\ \A k \in Conns : WifiId(k) \in NodeIds
  /\ \A p, k : CdcId(p) # WifiId(k)
  /\ \A k, m : WifiId(k) = WifiId(m) => k = m
  /\ \A p, q : CdcId(p) = CdcId(q) => p = q
BY DEF NodeIds, CdcId, WifiId

-----------------------------------------------------------------------------
(* The event queue.                                                          *)

LEMMA EventType ==
  ASSUME NEW e \in Event PROVE e.kind \in {"accepted", "finished"} /\ e.conn \in Conns
BY DEF Event

LEMMA QueuedMembers ==
  ASSUME NEW c
  PROVE  c \in Queued <=> \E i \in DOMAIN inbox : inbox[i].kind = "accepted" /\ inbox[i].conn = c
BY DEF Queued, Range

LEMMA QueuedMembersNext ==
  ASSUME NEW c
  PROVE  c \in Queued' <=> \E i \in DOMAIN inbox' : inbox'[i].kind = "accepted" /\ inbox'[i].conn = c
BY DEF Queued, Range

\* The queue after its first event is taken: a client that was announced is no
\* longer queued.
LEMMA TakeEvent ==
  ASSUME inbox \in Seq(Event), InboxInv, inbox # <<>>, inbox' = Tail(inbox),
         UNCHANGED <<conn, opened>>,
         \A c \in Queued' : thread'[c] = thread[c],
         \A c \in Conns : thread[c] = "ended" => thread'[c] = "ended"
  PROVE  /\ inbox' \in Seq(Event) /\ InboxInv'
         /\ Head(inbox).kind = "accepted" =>
              /\ Queued' = Queued \ {Head(inbox).conn} /\ Head(inbox).conn \in Queued
         /\ Head(inbox).kind # "accepted" => Queued' = Queued
<1>1. /\ inbox' \in Seq(Event) /\ Len(inbox) \in Nat \ {0} /\ Len(inbox') = Len(inbox) - 1
      /\ DOMAIN inbox = 1..Len(inbox) /\ DOMAIN inbox' = 1..(Len(inbox) - 1)
      /\ \A i \in DOMAIN inbox' : i + 1 \in DOMAIN inbox /\ inbox'[i] = inbox[i + 1]
      /\ Head(inbox) = inbox[1] /\ 1 \in DOMAIN inbox
  OBVIOUS
<1>2. \A i \in DOMAIN inbox : inbox[i] \in Event
  BY <1>1
<1>3. ASSUME NEW i \in DOMAIN inbox, i # 1 PROVE i - 1 \in DOMAIN inbox' /\ inbox'[i - 1] = inbox[i]
  <2>1. i - 1 \in DOMAIN inbox' /\ (i - 1) + 1 = i
    BY <1>1, <1>3
  <2> QED
    BY <1>1, <2>1
<1>4. ASSUME NEW c, c \in Queued' PROVE c \in Queued
  <2>1. PICK i \in DOMAIN inbox' : inbox'[i].kind = "accepted" /\ inbox'[i].conn = c
    BY <1>4, QueuedMembersNext
  <2>2. i + 1 \in DOMAIN inbox /\ inbox[i + 1] = inbox'[i]
    BY <1>1
  <2> QED
    BY <2>1, <2>2, QueuedMembers
<1>5. ASSUME NEW c, c \in Queued, Head(inbox).kind = "accepted" => c # Head(inbox).conn
      PROVE  c \in Queued'
  <2>1. PICK i \in DOMAIN inbox : inbox[i].kind = "accepted" /\ inbox[i].conn = c
    BY <1>5, QueuedMembers
  <2>2. i # 1
    <3>1. SUFFICES ASSUME i = 1 PROVE FALSE
      OBVIOUS
    <3>2. Head(inbox).kind = "accepted" /\ Head(inbox).conn = c
      BY <1>1, <2>1, <3>1
    <3> QED
      BY <1>5, <3>2
  <2>3. i - 1 \in DOMAIN inbox' /\ inbox'[i - 1].kind = "accepted" /\ inbox'[i - 1].conn = c
    BY <1>3, <2>1, <2>2
  <2> QED
    BY <2>3, QueuedMembersNext
<1>6. ASSUME Head(inbox).kind = "accepted"
      PROVE  Head(inbox).conn \in Queued /\ Head(inbox).conn \notin Queued'
  <2>1. Head(inbox).conn \in Queued
    BY <1>1, <1>6, QueuedMembers
  <2>2. ASSUME NEW i \in DOMAIN inbox', inbox'[i].kind = "accepted", inbox'[i].conn = Head(inbox).conn
        PROVE  FALSE
    <3>1. i + 1 = 1
      BY <1>1, <1>6, <2>2 DEF InboxInv
    <3> QED
      BY <1>1, <3>1
  <2> QED
    BY <2>1, <2>2, QueuedMembersNext
<1>7. InboxInv'
  <2>1. ASSUME NEW i \in DOMAIN inbox'
        PROVE  IF inbox'[i].kind = "accepted"
               THEN /\ inbox'[i].conn \in 1..opened' /\ thread'[inbox'[i].conn] = "none"
                    /\ conn'[inbox'[i].conn].listener # None
               ELSE thread'[inbox'[i].conn] = "ended"
    <3>1. inbox'[i] = inbox[i + 1] /\ i + 1 \in DOMAIN inbox /\ inbox'[i].conn \in Conns
      BY <1>1, <1>2, EventType
    <3>2. CASE inbox'[i].kind = "accepted"
      <4>1. thread'[inbox'[i].conn] = thread[inbox'[i].conn]
        BY <3>2, QueuedMembersNext
      <4> QED
        BY <3>1, <3>2, <4>1 DEF InboxInv
    <3>3. CASE inbox'[i].kind # "accepted"
      BY <3>1, <3>3 DEF InboxInv
    <3> QED
      BY <3>2, <3>3
  <2>2. ASSUME NEW i \in DOMAIN inbox', NEW j \in DOMAIN inbox',
               inbox'[i].kind = "accepted", inbox'[j].kind = "accepted", inbox'[i].conn = inbox'[j].conn
        PROVE  i = j
    <3>1. i + 1 = j + 1
      BY <1>1, <2>2 DEF InboxInv
    <3> QED
      BY <1>1, <3>1
  <2> QED
    BY <2>1, <2>2 DEF InboxInv
<1> QED
  BY <1>1, <1>4, <1>5, <1>6, <1>7

\* The queue after an event is posted.
LEMMA PostEvent ==
  ASSUME inbox \in Seq(Event), NEW e \in Event, inbox' = Append(inbox, e)
  PROVE  /\ inbox' \in Seq(Event) /\ Len(inbox) \in Nat
         /\ DOMAIN inbox = 1..Len(inbox) /\ DOMAIN inbox' = 1..(Len(inbox) + 1)
         /\ \A i \in DOMAIN inbox : inbox'[i] = inbox[i]
         /\ inbox'[Len(inbox) + 1] = e
         /\ Queued' = Queued \cup (IF e.kind = "accepted" THEN {e.conn} ELSE {})
<1>1. /\ inbox' \in Seq(Event) /\ Len(inbox) \in Nat
      /\ DOMAIN inbox = 1..Len(inbox) /\ DOMAIN inbox' = 1..(Len(inbox) + 1)
      /\ \A i \in DOMAIN inbox : inbox'[i] = inbox[i]
      /\ inbox'[Len(inbox) + 1] = e
  OBVIOUS
<1>2. ASSUME NEW c, c \in Queued PROVE c \in Queued'
  BY <1>1, <1>2, QueuedMembers, QueuedMembersNext
<1>3. e.kind = "accepted" => e.conn \in Queued'
  BY <1>1, QueuedMembersNext
<1>4. ASSUME NEW c, c \in Queued', ~ (e.kind = "accepted" /\ e.conn = c) PROVE c \in Queued
  <2>1. PICK i \in DOMAIN inbox' : inbox'[i].kind = "accepted" /\ inbox'[i].conn = c
    BY <1>4, QueuedMembersNext
  <2>2. i \in DOMAIN inbox
    BY <1>1, <1>4, <2>1
  <2> QED
    BY <1>1, <2>1, <2>2, QueuedMembers
<1> QED
  BY <1>1, <1>2, <1>3, <1>4

\* The queue is not touched.
LEMMA SameQueue == ASSUME UNCHANGED inbox PROVE Queued' = Queued
BY DEF Queued

-----------------------------------------------------------------------------
(* Owners.                                                                   *)

LEMMA OwnedMembers ==
  ASSUME sessions \in [NodeIds -> Conns \cup {None}], NEW c
  PROVE  c \in Owned <=> c \in Queued \/ \E n \in Live : sessions[n] = c
BY DEF Owned, Range, Live

LEMMA OwnedMembersNext ==
  ASSUME sessions' \in [NodeIds -> Conns \cup {None}], NEW c
  PROVE  c \in Owned' <=> c \in Queued' \/ \E n \in Live' : sessions'[n] = c
BY DEF Owned, Range, Live

\* What is owned is a connection that was opened.
LEMMA OwnedOpened ==
  ASSUME TypeOK, InboxInv, SessionInv, NEW c \in Owned
  PROVE  c \in 1..opened
<1>1. CASE c \in Queued
  BY <1>1, QueuedMembers DEF InboxInv
<1>2. CASE \E n \in Live : sessions[n] = c
  BY <1>2 DEF SessionInv
<1> QED
  BY <1>1, <1>2, OwnedMembers DEF TypeOK

\* Slots are only given back.
LEMMA ReleaseKeeps ==
  ASSUME TypeOK, ServerInv, NEW l, NEW id, Release(l, id)
  PROVE  /\ slots' \in [Listeners -> SUBSET NodeIds]
         /\ \A k \in Listeners : /\ slots'[k] = IF k = l THEN slots[k] \ {id} ELSE slots[k]
                                 /\ IsFiniteSet(slots'[k]) /\ Cardinality(slots'[k]) <= MaxClients
                                 /\ k > started => slots'[k] = {}
<1>1. \A k \in Listeners : slots'[k] = IF k = l THEN slots[k] \ {id} ELSE slots[k]
  BY DEF Release
<1>2. slots' \in [Listeners -> SUBSET NodeIds]
  BY DEF Release, TypeOK
<1>3. ASSUME NEW k \in Listeners
      PROVE  IsFiniteSet(slots'[k]) /\ Cardinality(slots'[k]) <= MaxClients
  <2>1. IsFiniteSet(slots[k]) /\ slots'[k] \subseteq slots[k]
    BY <1>1 DEF ServerInv
  <2>2. /\ IsFiniteSet(slots'[k]) /\ Cardinality(slots'[k]) <= Cardinality(slots[k])
        /\ Cardinality(slots[k]) \in Nat /\ Cardinality(slots'[k]) \in Nat
    BY <2>1, FS_Subset, FS_CardinalityType
  <2>3. Cardinality(slots[k]) <= MaxClients
    BY DEF TypeOK
  <2> QED
    BY <2>2, <2>3, Bounds
<1>4. \A k \in Listeners : k > started => slots'[k] = {}
  BY <1>1 DEF ServerInv
<1> QED
  BY <1>1, <1>2, <1>3, <1>4

-----------------------------------------------------------------------------
(* What a step leaves alone keeps its part of the invariant.                 *)

LEMMA SameServer ==
  ASSUME ServerInv, UNCHANGED <<accepting, listener, started, slots, numbered, opened>>
  PROVE  ServerInv'
BY DEF ServerInv

LEMMA SameConns ==
  ASSUME ConnInv, UNCHANGED <<opened, conn, started, numbered>>, open' \subseteq open
  PROVE  ConnInv'
BY DEF ConnInv

LEMMA SameThreads ==
  ASSUME ThreadInv, UNCHANGED <<opened, thread>>, open' \subseteq open
  PROVE  ThreadInv'
BY DEF ThreadInv

LEMMA SameInbox ==
  ASSUME InboxInv, UNCHANGED <<inbox, opened, thread, conn>>
  PROVE  InboxInv'
BY DEF InboxInv

LEMMA SameSessions ==
  ASSUME SessionInv, UNCHANGED <<sessions, opened, thread, conn, listener>>
  PROVE  SessionInv'
BY DEF SessionInv, Live

LEMMA SameIndex ==
  ASSUME IndexMatchesSessions, UNCHANGED <<state, sessions, selected>>
  PROVE  IndexMatchesSessions'
BY DEF IndexMatchesSessions, Live, Connected

LEMMA SameExclusive ==
  ASSUME ExclusiveInv, UNCHANGED <<state, uuid, sessions>>, accepting' => accepting
  PROVE  ExclusiveInv'
BY DEF ExclusiveInv, Live, Connected

\* The owners of the slots and transports when some transports are closed.
LEMMA SameOwners ==
  ASSUME ResourcesAreOwned, UNCHANGED <<sessions, listener, slots, conn>>, open' \subseteq open,
         Queued' = Queued
  PROVE  ResourcesAreOwned'
<1>1. Owned' = Owned
  BY DEF Owned, Range
<1> QED
  BY <1>1 DEF ResourcesAreOwned

LEMMA Parts ==
  ASSUME IInv
  PROVE  /\ TypeOK /\ ServerInv /\ ConnInv /\ ThreadInv /\ InboxInv /\ SessionInv
         /\ IndexMatchesSessions /\ ExclusiveInv /\ ResourcesAreOwned
BY DEF IInv

-----------------------------------------------------------------------------
(* The accept thread.                                                        *)

LEMMA AcceptClientKeeps == ASSUME IInv, AcceptClient PROVE IInv'
<1> DEFINE n == numbered[listener] + 1
           c == opened + 1
           e == [kind |-> "accepted", conn |-> c]
<1>0. /\ TypeOK /\ ServerInv /\ ConnInv /\ ThreadInv /\ InboxInv /\ SessionInv
      /\ IndexMatchesSessions /\ ExclusiveInv /\ ResourcesAreOwned
  BY Parts
<1>1. /\ accepting /\ Cardinality(slots[listener]) < MaxClients /\ opened < MaxConns
      /\ opened' = c /\ conn' = [conn EXCEPT ![c] = [id |-> WifiId(n), listener |-> listener]]
      /\ numbered' = [numbered EXCEPT ![listener] = n]
      /\ slots' = [slots EXCEPT ![listener] = @ \cup {WifiId(n)}]
      /\ open' = open \cup {c} /\ inbox' = Append(inbox, e)
      /\ UNCHANGED <<listener, accepting, started, thread, known, reported>>
      /\ UNCHANGED <<sessions, selected, state, uuid>>
  BY DEF AcceptClient, NewConnection, OpenTransport, guiVars
<1>2. /\ listener \in Listeners /\ listener <= started /\ started \in Nat
      /\ opened \in Nat /\ c \in Conns /\ c \notin 1..opened
      /\ numbered[listener] \in Nat /\ n \in Conns /\ n <= c
      /\ n \in Nat /\ n > numbered[listener] /\ c \in Nat /\ c <= MaxConns
  <2>1. listener \in Listeners /\ listener <= started /\ started \in 0..MaxListeners
    BY <1>0, <1>1 DEF TypeOK, ServerInv
  <2>2. numbered[listener] \in 0..MaxConns /\ numbered[listener] <= opened /\ opened \in 0..MaxConns
    BY <1>0, <2>1 DEF TypeOK, ServerInv
  <2> QED
    BY <1>1, <2>1, <2>2, Bounds DEF Conns
<1>3. WifiId(n) \in NodeIds /\ e \in Event /\ e.kind = "accepted" /\ e.conn = c
  BY <1>2, Ids DEF Event
<1> HIDE DEF n, c, e
<1>4. /\ conn'[c] = [id |-> WifiId(n), listener |-> listener]
      /\ \A d \in 1..opened : conn'[d] = conn[d] /\ d \in Conns
      /\ 1..opened' = 1..opened \cup {c}
  <2>1. conn'[c] = [id |-> WifiId(n), listener |-> listener] /\ \A d \in Conns : d # c => conn'[d] = conn[d]
    BY <1>0, <1>1, <1>2 DEF TypeOK
  <2>2. \A d \in 1..opened : d \in Conns /\ d # c
    BY <1>0, <1>2, Bounds DEF TypeOK, Conns
  <2>3. 1..opened' = 1..opened \cup {c}
    BY <1>1, <1>2 DEF c
  <2> QED
    BY <2>1, <2>2, <2>3
<1>5. /\ inbox' \in Seq(Event) /\ Len(inbox) \in Nat
      /\ DOMAIN inbox = 1..Len(inbox) /\ DOMAIN inbox' = 1..(Len(inbox) + 1)
      /\ \A i \in DOMAIN inbox : inbox'[i] = inbox[i] /\ inbox[i] \in Event
      /\ inbox'[Len(inbox) + 1] = e
      /\ Queued' = Queued \cup {c}
  BY <1>0, <1>1, <1>3, PostEvent DEF TypeOK
<1>6. /\ \A l \in Listeners : slots'[l] = IF l = listener THEN slots[l] \cup {WifiId(n)} ELSE slots[l]
      /\ \A l \in Listeners : l # listener => numbered'[l] = numbered[l]
      /\ numbered'[listener] = n
  BY <1>0, <1>1, <1>2 DEF TypeOK
<1>7. \A l \in Listeners : IsFiniteSet(slots'[l]) /\ Cardinality(slots'[l]) <= MaxClients
  <2>1. IsFiniteSet(slots[listener]) /\ Cardinality(slots[listener]) \in Nat
    BY <1>0, <1>2, FS_CardinalityType DEF ServerInv
  <2>2. /\ IsFiniteSet(slots'[listener])
        /\ Cardinality(slots'[listener]) \in {Cardinality(slots[listener]), Cardinality(slots[listener]) + 1}
    <3>1. slots'[listener] = slots[listener] \cup {WifiId(n)}
      BY <1>2, <1>6
    <3> QED
      BY <2>1, <3>1, FS_AddElement
  <2>3. Cardinality(slots'[listener]) <= MaxClients
    BY <1>1, <2>1, <2>2, Bounds
  <2> QED
    BY <1>0, <1>6, <2>2, <2>3 DEF TypeOK, ServerInv
<1>8. TypeOK'
  <2>1. slots' \in [Listeners -> SUBSET NodeIds]
    BY <1>0, <1>1, <1>3 DEF TypeOK
  <2>2. numbered' \in [Listeners -> 0..MaxConns]
    BY <1>0, <1>1, <1>2 DEF TypeOK, Conns
  <2>3. conn' \in [Conns -> ConnRecord \cup {None}]
    BY <1>0, <1>1, <1>2, <1>3 DEF TypeOK, ConnRecord
  <2>4. opened' \in 0..MaxConns /\ open' \subseteq Conns
    BY <1>0, <1>1, <1>2, Bounds DEF TypeOK
  <2> QED
    BY <1>0, <1>1, <1>5, <1>7, <2>1, <2>2, <2>3, <2>4 DEF TypeOK, ConnRecord
<1>9. ServerInv'
  <2>1. \A l \in Listeners : numbered'[l] <= opened'
    BY <1>0, <1>1, <1>2, <1>6 DEF ServerInv, TypeOK, c, n
  <2>2. \A l \in Listeners : l > started' => slots'[l] = {}
    BY <1>0, <1>1, <1>2, <1>6 DEF ServerInv, Listeners
  <2> QED
    BY <1>0, <1>1, <1>2, <1>7, <2>1, <2>2 DEF ServerInv
<1>10. ConnInv'
  <2>1. open' \subseteq 1..opened'
    BY <1>0, <1>1, <1>4 DEF ConnInv
  <2>2. ASSUME NEW d \in 1..opened'
        PROVE  /\ conn'[d] \in ConnRecord
               /\ IF conn'[d].listener = None THEN \E p \in Ports : conn'[d].id = CdcId(p)
                  ELSE /\ conn'[d].listener <= started'
                       /\ \E k \in 1..numbered'[conn'[d].listener] : conn'[d].id = WifiId(k)
    <3>1. CASE d = c
      <4>1. n \in 1..numbered'[listener]
        BY <1>2, <1>6
      <4> QED
        BY <1>1, <1>2, <1>3, <1>4, <3>1, <4>1, Bounds DEF ConnRecord
    <3>2. CASE d \in 1..opened
      <4>1. conn'[d] = conn[d] /\ conn[d] \in ConnRecord
        BY <1>0, <1>4, <3>2 DEF ConnInv
      <4>2. CASE conn[d].listener = None
        BY <1>0, <3>2, <4>1, <4>2 DEF ConnInv
      <4>3. CASE conn[d].listener # None
        <5>1. conn[d].listener \in Listeners /\ conn[d].listener <= started
          BY <1>0, <3>2, <4>1, <4>3 DEF ConnInv, ConnRecord
        <5>2. PICK k \in 1..numbered[conn[d].listener] : conn[d].id = WifiId(k)
          BY <1>0, <3>2, <4>3 DEF ConnInv
        <5>3. numbered[conn[d].listener] \in Nat /\ numbered'[conn[d].listener] \in Nat
          <6>1. numbered \in [Listeners -> 0..MaxConns] /\ numbered' \in [Listeners -> 0..MaxConns]
            BY <1>0, <1>8 DEF TypeOK
          <6> QED
            BY ONLY <5>1, <6>1, Bounds
        <5>4. k \in 1..numbered'[conn[d].listener]
          BY <1>2, <1>6, <5>1, <5>2, <5>3
        <5> QED
          BY <1>1, <4>1, <4>3, <5>1, <5>2, <5>4
      <4> QED
        BY <4>2, <4>3
    <3> QED
      BY <1>4, <3>1, <3>2
  <2>3. ASSUME NEW d \in 1..opened, conn[d].listener = listener PROVE conn[d].id # WifiId(n)
    <3>1. PICK k \in 1..numbered[listener] : conn[d].id = WifiId(k)
      BY <1>0, <1>2, <2>3, Bounds DEF ConnInv
    <3>2. k # n
      BY <1>2, <3>1 DEF n
    <3> QED
      BY <3>1, <3>2, Ids
  <2>4. ASSUME NEW d \in 1..opened', NEW b \in 1..opened', conn'[d].listener # None,
               conn'[d].listener = conn'[b].listener, conn'[d].id = conn'[b].id
        PROVE  d = b
    <3>1. CASE d \in 1..opened /\ b \in 1..opened
      BY <1>0, <1>4, <2>4, <3>1 DEF ConnInv
    <3>2. CASE d = c /\ b \in 1..opened
      BY <1>4, <2>3, <2>4, <3>2
    <3>3. CASE d \in 1..opened /\ b = c
      BY <1>4, <2>3, <2>4, <3>3
    <3> QED
      BY <1>4, <3>1, <3>2, <3>3
  <2> QED
    BY <2>1, <2>2, <2>4 DEF ConnInv
<1>11. thread[c] = "none"
  BY <1>0, <1>2 DEF ThreadInv, TypeOK
<1>12. ThreadInv'
  BY <1>0, <1>1, <1>2, <1>4, <1>11 DEF ThreadInv
<1>13. InboxInv'
  <2>1. \A i \in DOMAIN inbox : inbox[i].kind = "accepted" => inbox[i].conn \in 1..opened
    BY <1>0 DEF InboxInv
  <2>2. ASSUME NEW i \in DOMAIN inbox'
        PROVE  IF inbox'[i].kind = "accepted"
               THEN /\ inbox'[i].conn \in 1..opened' /\ thread'[inbox'[i].conn] = "none"
                    /\ conn'[inbox'[i].conn].listener # None
               ELSE thread'[inbox'[i].conn] = "ended"
    <3>1. CASE i \in DOMAIN inbox
      BY <1>0, <1>1, <1>4, <1>5, <2>1, <3>1 DEF InboxInv
    <3>2. CASE i = Len(inbox) + 1
      BY <1>1, <1>2, <1>3, <1>4, <1>5, <1>11, <3>2, Bounds
    <3> QED
      BY <1>5, <3>1, <3>2
  <2>3. ASSUME NEW i \in DOMAIN inbox', NEW j \in DOMAIN inbox',
               inbox'[i].kind = "accepted", inbox'[j].kind = "accepted", inbox'[i].conn = inbox'[j].conn
        PROVE  i = j
    <3>1. CASE i \in DOMAIN inbox /\ j \in DOMAIN inbox
      BY <1>0, <1>5, <2>3, <3>1 DEF InboxInv
    <3>2. CASE i = Len(inbox) + 1 /\ j \in DOMAIN inbox
      BY <1>2, <1>3, <1>5, <2>1, <2>3, <3>2
    <3>3. CASE i \in DOMAIN inbox /\ j = Len(inbox) + 1
      BY <1>2, <1>3, <1>5, <2>1, <2>3, <3>3
    <3> QED
      BY <1>5, <3>1, <3>2, <3>3
  <2> QED
    BY <2>2, <2>3 DEF InboxInv
<1>14. SessionInv'
  BY <1>0, <1>1, <1>4 DEF SessionInv, Live
<1>15. ResourcesAreOwned'
  <2>1. Owned' = Owned \cup {c}
    <3>1. Range(sessions)' = Range(sessions) /\ c # None
      BY <1>1, <1>2, Bounds
    <3> QED
      BY <1>5, <3>1 DEF Owned
  <2>2. \A d \in Owned : d \in 1..opened
    BY <1>0, OwnedOpened
  <2>3. slots'[listener] = {conn'[d].id : d \in {b \in Owned' : conn'[b].listener = listener}}
    <3>0. /\ slots[listener] = {conn[d].id : d \in {b \in Owned : conn[b].listener = listener}}
          /\ slots'[listener] = slots[listener] \cup {WifiId(n)}
      BY <1>0, <1>2, <1>6, Bounds DEF ResourcesAreOwned
    <3>1. ASSUME NEW d \in Owned', conn'[d].listener = listener PROVE conn'[d].id \in slots'[listener]
      <4>1. CASE d = c
        BY <1>4, <3>0, <4>1
      <4>2. CASE d \in Owned
        BY <1>4, <2>2, <3>0, <3>1, <4>2
      <4> QED
        BY <2>1, <4>1, <4>2
    <3>2. ASSUME NEW x \in slots'[listener]
          PROVE  \E d \in Owned' : conn'[d].listener = listener /\ conn'[d].id = x
      <4>1. CASE x = WifiId(n)
        BY <1>4, <2>1, <4>1
      <4>2. CASE x \in slots[listener]
        <5>1. PICK d \in Owned : conn[d].listener = listener /\ conn[d].id = x
          BY <3>0, <4>2
        <5> QED
          BY <1>4, <2>1, <2>2, <5>1
      <4> QED
        BY <3>0, <4>1, <4>2
    <3> QED
      BY <3>1, <3>2
  <2> QED
    BY <1>0, <1>1, <2>1, <2>3 DEF ResourcesAreOwned
<1> QED
  BY <1>0, <1>1, <1>8, <1>9, <1>10, <1>12, <1>13, <1>14, <1>15, SameIndex, SameExclusive DEF IInv

LEMMA AcceptFailsKeeps == ASSUME IInv, AcceptFails PROVE IInv'
<1>0. /\ TypeOK /\ ServerInv /\ ConnInv /\ ThreadInv /\ InboxInv /\ SessionInv
      /\ IndexMatchesSessions /\ ExclusiveInv /\ ResourcesAreOwned
  BY Parts
<1>1. /\ accepting' = FALSE /\ UNCHANGED <<listener, started, slots, numbered, inbox>>
      /\ UNCHANGED <<opened, conn, open, thread, known, reported>>
      /\ UNCHANGED <<sessions, selected, state, uuid>>
  BY DEF AcceptFails, connVars, guiVars
<1>2. TypeOK'
  BY <1>0, <1>1 DEF TypeOK
<1>3. ServerInv'
  BY <1>0, <1>1 DEF ServerInv
<1> QED
  BY <1>0, <1>1, <1>2, <1>3, SameConns, SameThreads, SameInbox, SameSessions, SameIndex,
     SameExclusive, SameQueue, SameOwners DEF IInv

-----------------------------------------------------------------------------
(* The acquisition threads.                                                  *)

LEMMA ObserveKeeps ==
  ASSUME IInv, NEW c \in Conns, NEW d \in Devices, ObserveIdentity(c, d) PROVE IInv'
<1>0. /\ TypeOK /\ ServerInv /\ ConnInv /\ ThreadInv /\ InboxInv /\ SessionInv
      /\ IndexMatchesSessions /\ ExclusiveInv /\ ResourcesAreOwned
  BY Parts
<1>1. /\ known' = known \cup {c} /\ reported' = [reported EXCEPT ![c] = d]
      /\ UNCHANGED <<listener, accepting, started, slots, numbered, opened, conn, open, thread, inbox>>
      /\ UNCHANGED <<sessions, selected, state, uuid>>
  BY DEF ObserveIdentity, serverVars, guiVars
<1>2. TypeOK'
  BY <1>0, <1>1 DEF TypeOK
<1> QED
  BY <1>0, <1>1, <1>2, SameServer, SameConns, SameThreads, SameInbox, SameSessions, SameIndex,
     SameExclusive, SameQueue, SameOwners DEF IInv

\* Whatever ends a run, the transport is closed before the callback is queued.
LEMMA WorkerEndsKeeps == ASSUME IInv, NEW c \in Conns, WorkerEnds(c) PROVE IInv'
<1> DEFINE e == [kind |-> "finished", conn |-> c]
<1>0. /\ TypeOK /\ ServerInv /\ ConnInv /\ ThreadInv /\ InboxInv /\ SessionInv
      /\ IndexMatchesSessions /\ ExclusiveInv /\ ResourcesAreOwned
  BY Parts
<1>1. /\ thread[c] = "running" /\ thread' = [thread EXCEPT ![c] = "ended"] /\ open' = open \ {c}
      /\ inbox' = Append(inbox, e)
      /\ UNCHANGED <<listener, accepting, started, slots, numbered, opened, conn, known, reported>>
      /\ UNCHANGED <<sessions, selected, state, uuid>>
  BY DEF WorkerEnds, CloseTransports, serverVars, guiVars
<1>2. e \in Event /\ e.kind # "accepted" /\ e.conn = c
  BY DEF Event
<1> HIDE DEF e
<1>3. /\ inbox' \in Seq(Event) /\ Len(inbox) \in Nat
      /\ DOMAIN inbox = 1..Len(inbox) /\ DOMAIN inbox' = 1..(Len(inbox) + 1)
      /\ \A i \in DOMAIN inbox : inbox'[i] = inbox[i]
      /\ inbox'[Len(inbox) + 1] = e
      /\ Queued' = Queued
  BY <1>0, <1>1, <1>2, PostEvent DEF TypeOK
<1>4. \A d \in Conns : thread'[d] = IF d = c THEN "ended" ELSE thread[d]
  BY <1>0, <1>1 DEF TypeOK
<1>5. TypeOK'
  BY <1>0, <1>1, <1>3 DEF TypeOK
<1>6. ThreadInv'
  BY <1>0, <1>1, <1>4 DEF ThreadInv
<1>7. InboxInv'
  <2>1. ASSUME NEW i \in DOMAIN inbox'
        PROVE  IF inbox'[i].kind = "accepted"
               THEN /\ inbox'[i].conn \in 1..opened' /\ thread'[inbox'[i].conn] = "none"
                    /\ conn'[inbox'[i].conn].listener # None
               ELSE thread'[inbox'[i].conn] = "ended"
    <3>1. CASE i \in DOMAIN inbox
      <4>1. inbox'[i] = inbox[i] /\ inbox[i] \in Event /\ inbox[i].conn \in Conns
        BY <1>0, <1>3, <3>1, EventType DEF TypeOK
      <4> QED
        BY <1>0, <1>1, <1>4, <3>1, <4>1 DEF InboxInv
    <3>2. CASE i = Len(inbox) + 1
      BY <1>2, <1>3, <1>4, <3>2
    <3> QED
      BY <1>3, <3>1, <3>2
  <2>2. ASSUME NEW i \in DOMAIN inbox', NEW j \in DOMAIN inbox',
               inbox'[i].kind = "accepted", inbox'[j].kind = "accepted", inbox'[i].conn = inbox'[j].conn
        PROVE  i = j
    <3>1. i \in DOMAIN inbox /\ j \in DOMAIN inbox
      BY <1>2, <1>3, <2>2
    <3> QED
      BY <1>0, <1>3, <2>2, <3>1 DEF InboxInv
  <2> QED
    BY <2>1, <2>2 DEF InboxInv
<1>8. SessionInv'
  BY <1>0, <1>1, <1>4 DEF SessionInv, Live, TypeOK
<1> QED
  BY <1>0, <1>1, <1>3, <1>5, <1>6, <1>7, <1>8, SameServer, SameConns, SameIndex, SameExclusive,
     SameOwners DEF IInv

-----------------------------------------------------------------------------
(* The user and the timer.                                                   *)

LEMMA StartWifiServerKeeps == ASSUME IInv, StartWifiServer PROVE IInv'
<1>0. /\ TypeOK /\ ServerInv /\ ConnInv /\ ThreadInv /\ InboxInv /\ SessionInv
      /\ IndexMatchesSessions /\ ExclusiveInv /\ ResourcesAreOwned
  BY Parts
<1>1. /\ Live = {} /\ started < MaxListeners /\ started' = started + 1 /\ listener' = started + 1
      /\ accepting' = TRUE
      /\ UNCHANGED <<slots, numbered, inbox>>
      /\ UNCHANGED <<opened, conn, open, thread, known, reported>>
      /\ UNCHANGED <<sessions, selected, state, uuid>>
  BY DEF StartWifiServer, Listen, connVars, guiVars
<1>2. started \in Nat /\ started + 1 \in Listeners /\ started' \in 0..MaxListeners
  BY <1>0, <1>1, Bounds DEF TypeOK, Listeners
<1>3. TypeOK'
  BY <1>0, <1>1, <1>2 DEF TypeOK
<1>4. ServerInv'
  BY <1>0, <1>1, <1>2, Bounds DEF ServerInv, Listeners
<1>5. ConnInv'
  <2>1. ASSUME NEW c \in 1..opened, conn[c].listener # None PROVE conn[c].listener <= started'
    <3>1. conn[c].listener \in Listeners /\ conn[c].listener <= started
      BY <1>0, <2>1 DEF ConnInv, ConnRecord
    <3> QED
      BY <1>1, <1>2, <3>1, Bounds DEF Listeners
  <2> QED
    BY <1>0, <1>1, <2>1 DEF ConnInv
<1>6. Live' = {}
  BY <1>1 DEF Live
<1>7. SessionInv' /\ ExclusiveInv'
  <2>1. Connected' = Connected
    BY <1>1 DEF Connected
  <2> QED
    BY <1>0, <1>1, <1>6, <2>1 DEF SessionInv, ExclusiveInv
<1>8. ResourcesAreOwned'
  <2>1. Owned' = Owned
    BY <1>1 DEF Owned, Queued, Range
  <2>2. ASSUME NEW c \in Owned PROVE conn[c].listener # started + 1
    <3>1. c \in 1..opened
      BY <1>0, OwnedOpened
    <3>2. CASE conn[c].listener = None
      BY <1>2, <3>2, Bounds
    <3>3. CASE conn[c].listener # None
      BY <1>0, <1>2, <3>1, <3>3 DEF ConnInv
    <3> QED
      BY <3>2, <3>3
  <2>3. slots[started + 1] = {}
    BY <1>0, <1>2 DEF ServerInv
  <2>4. {conn'[c].id : c \in {d \in Owned' : conn'[d].listener = listener'}} = {}
    BY <1>1, <2>1, <2>2
  <2> QED
    BY <1>0, <1>1, <2>1, <2>3, <2>4 DEF ResourcesAreOwned
<1> QED
  BY <1>0, <1>1, <1>3, <1>4, <1>5, <1>7, <1>8, SameThreads, SameInbox, SameIndex DEF IInv

LEMMA StopWifiServerKeeps == ASSUME IInv, StopWifiServer PROVE IInv'
<1>0. /\ TypeOK /\ ServerInv /\ ConnInv /\ ThreadInv /\ InboxInv /\ SessionInv
      /\ IndexMatchesSessions /\ ExclusiveInv /\ ResourcesAreOwned
  BY Parts
<1>1. /\ Live = {} /\ listener' = None /\ accepting' = FALSE
      /\ UNCHANGED <<started, slots, numbered, inbox>>
      /\ UNCHANGED <<opened, conn, open, thread, known, reported>>
      /\ UNCHANGED <<sessions, selected, state, uuid>>
  BY DEF StopWifiServer, StopWifiResources, CloseListener, connVars, guiVars
<1>2. TypeOK'
  BY <1>0, <1>1 DEF TypeOK
<1>3. ServerInv'
  BY <1>0, <1>1 DEF ServerInv
<1>4. SessionInv'
  BY <1>1 DEF SessionInv, Live
<1>5. ResourcesAreOwned'
  <2>1. Owned' = Owned
    BY <1>1 DEF Owned, Queued, Range
  <2> QED
    BY <1>0, <1>1, <2>1 DEF ResourcesAreOwned
<1> QED
  BY <1>0, <1>1, <1>2, <1>3, <1>4, <1>5, SameConns, SameThreads, SameInbox, SameIndex, SameExclusive
  DEF IInv

LEMMA SelectNodeKeeps == ASSUME IInv, NEW n \in NodeIds, SelectNode(n) PROVE IInv'
<1>0. /\ TypeOK /\ ServerInv /\ ConnInv /\ ThreadInv /\ InboxInv /\ SessionInv
      /\ IndexMatchesSessions /\ ExclusiveInv /\ ResourcesAreOwned
  BY Parts
<1>1. /\ sessions[n] # None /\ selected' = n
      /\ UNCHANGED <<listener, accepting, started, slots, numbered, inbox>>
      /\ UNCHANGED <<opened, conn, open, thread, known, reported>>
      /\ UNCHANGED <<sessions, state, uuid>>
  BY DEF SelectNode, serverVars, connVars
<1>2. TypeOK'
  BY <1>0, <1>1 DEF TypeOK
<1>3. IndexMatchesSessions'
  BY <1>0, <1>1 DEF IndexMatchesSessions, Live, Connected
<1> QED
  BY <1>0, <1>1, <1>2, <1>3, SameServer, SameConns, SameThreads, SameInbox, SameSessions,
     SameExclusive, SameQueue, SameOwners DEF IInv

LEMMA RejectDuplicateKeeps == ASSUME IInv, NEW n \in NodeIds, RejectDuplicate(n) PROVE IInv'
<1>0. /\ TypeOK /\ ServerInv /\ ConnInv /\ ThreadInv /\ InboxInv /\ SessionInv
      /\ IndexMatchesSessions /\ ExclusiveInv /\ ResourcesAreOwned
  BY Parts
<1>1. /\ reported' = [reported EXCEPT ![sessions[n]] = None] /\ open' = open \ {sessions[n]}
      /\ UNCHANGED <<listener, accepting, started, slots, numbered, inbox>>
      /\ UNCHANGED <<opened, conn, thread, known>>
      /\ UNCHANGED <<sessions, selected, state, uuid>>
  BY DEF RejectDuplicate, DrainIdentityUpdates, CloseTransports, serverVars, guiVars
<1>2. TypeOK'
  BY <1>0, <1>1 DEF TypeOK
<1> QED
  BY <1>0, <1>1, <1>2, SameServer, SameConns, SameThreads, SameInbox, SameSessions, SameIndex,
     SameExclusive, SameQueue, SameOwners DEF IInv

\* The online duplicate is excluded by the guard, so only stale entries go.
LEMMA BindIdentityKeeps == ASSUME IInv, NEW n \in NodeIds, BindIdentity(n) PROVE IInv'
<1> DEFINE d == reported[sessions[n]]
<1>0. /\ TypeOK /\ ServerInv /\ ConnInv /\ ThreadInv /\ InboxInv /\ SessionInv
      /\ IndexMatchesSessions /\ ExclusiveInv /\ ResourcesAreOwned
  BY Parts
<1>1. /\ sessions[n] # None /\ d # None /\ SameDevice(n, d) \cap Connected = {}
      /\ state' = [m \in NodeIds |-> IF m \in SameDevice(n, d) THEN "absent" ELSE state[m]]
      /\ uuid'  = [m \in NodeIds |-> IF m \in SameDevice(n, d) THEN None
                                     ELSE IF m = n THEN d ELSE uuid[m]]
      /\ reported' = [reported EXCEPT ![sessions[n]] = None]
      /\ UNCHANGED <<listener, accepting, started, slots, numbered, inbox>>
      /\ UNCHANGED <<opened, conn, open, thread, known>>
      /\ UNCHANGED <<sessions, selected>>
  BY DEF BindIdentity, DrainIdentityUpdates, serverVars
<1>2. d \in Devices /\ sessions[n] \in Conns
  BY <1>0, <1>1 DEF TypeOK
<1> HIDE DEF d
<1>3. TypeOK'
  <2>1. reported' \in [Conns -> Devices \cup {None}]
    BY <1>0, <1>1 DEF TypeOK
  <2>2. state' \in [NodeIds -> States] /\ uuid' \in [NodeIds -> Devices \cup {None}]
    BY <1>0, <1>1, <1>2 DEF TypeOK, States
  <2> QED
    BY <1>0, <1>1, <2>1, <2>2 DEF TypeOK
<1>4. Connected' = Connected
  BY <1>0, <1>1 DEF Connected
<1>5. Live' = Live /\ n \in Connected
  BY <1>0, <1>1 DEF Live, IndexMatchesSessions
<1>6. IndexMatchesSessions'
  BY <1>0, <1>1, <1>4, <1>5 DEF IndexMatchesSessions
<1>7. ExclusiveInv'
  <2>1. \A m \in NodeIds : state'[m] = "absent" => uuid'[m] = None
    BY <1>0, <1>1, <1>5 DEF ExclusiveInv, Connected
  <2>2. ASSUME NEW m \in Connected, m # n PROVE uuid'[m] = uuid[m] /\ uuid[m] # d
    BY <1>1, <2>2 DEF SameDevice, Connected
  <2>3. uuid'[n] = d
    BY <1>1 DEF SameDevice
  <2>4. ASSUME NEW m \in Connected', NEW k \in Connected', m # k, uuid'[m] # None
        PROVE  uuid'[m] # uuid'[k]
    <3>1. CASE m # n /\ k # n
      BY <1>0, <1>4, <2>2, <2>4, <3>1 DEF ExclusiveInv
    <3>2. CASE m = n \/ k = n
      BY <1>4, <2>2, <2>3, <2>4, <3>2
    <3> QED
      BY <3>1, <3>2
  <2> QED
    BY <1>0, <1>1, <1>5, <2>1, <2>4 DEF ExclusiveInv
<1> QED
  BY <1>0, <1>1, <1>3, <1>6, <1>7, SameServer, SameConns, SameThreads, SameInbox, SameSessions,
     SameQueue, SameOwners DEF IInv

LEMMA RemoveOfflineKeeps == ASSUME IInv, NEW n \in NodeIds, RemoveOfflineNode(n) PROVE IInv'
<1>0. /\ TypeOK /\ ServerInv /\ ConnInv /\ ThreadInv /\ InboxInv /\ SessionInv
      /\ IndexMatchesSessions /\ ExclusiveInv /\ ResourcesAreOwned
  BY Parts
<1>1. /\ state[n] \in {"reconnecting", "offline"}
      /\ state' = [m \in NodeIds |-> IF m \in {n} THEN "absent" ELSE state[m]]
      /\ uuid'  = [m \in NodeIds |-> IF m \in {n} THEN None ELSE uuid[m]]
      /\ UNCHANGED <<listener, accepting, started, slots, numbered, inbox>>
      /\ UNCHANGED <<opened, conn, open, thread, known, reported>>
      /\ UNCHANGED <<sessions, selected>>
  BY DEF RemoveOfflineNode, Remove, serverVars, connVars
<1>2. TypeOK'
  <2>1. state' \in [NodeIds -> States] /\ uuid' \in [NodeIds -> Devices \cup {None}]
    BY <1>0, <1>1 DEF TypeOK, States
  <2> QED
    BY <1>0, <1>1, <2>1 DEF TypeOK
<1>3. Connected' = Connected /\ Live' = Live
  BY <1>1 DEF Connected, Live
<1>4. IndexMatchesSessions'
  BY <1>0, <1>1, <1>3 DEF IndexMatchesSessions
<1>5. ExclusiveInv'
  <2>1. \A m \in Connected : uuid'[m] = uuid[m]
    BY <1>1 DEF Connected
  <2> QED
    BY <1>0, <1>1, <1>3, <2>1 DEF ExclusiveInv
<1> QED
  BY <1>0, <1>1, <1>2, <1>4, <1>5, SameServer, SameConns, SameThreads, SameInbox, SameSessions,
     SameQueue, SameOwners DEF IInv

LEMMA DisconnectKeeps == ASSUME IInv, DisconnectDevice PROVE IInv'
<1>0. /\ TypeOK /\ ServerInv /\ ConnInv /\ ThreadInv /\ InboxInv /\ SessionInv
      /\ IndexMatchesSessions /\ ExclusiveInv /\ ResourcesAreOwned
  BY Parts
<1>1. /\ listener' = None /\ accepting' = FALSE /\ open' = open \ Range(sessions)
      /\ state' = [m \in NodeIds |-> IF m \in Live THEN "absent" ELSE state[m]]
      /\ uuid'  = [m \in NodeIds |-> IF m \in Live THEN None ELSE uuid[m]]
      /\ sessions' = [n \in NodeIds |-> None] /\ selected' = None
      /\ UNCHANGED <<started, slots, numbered, opened, conn, thread, known, reported, inbox>>
  BY DEF DisconnectDevice, StopWifiResources, CloseListener, CloseTransports, Remove
<1>2. TypeOK'
  <2>1. state' \in [NodeIds -> States] /\ uuid' \in [NodeIds -> Devices \cup {None}]
    BY <1>0, <1>1 DEF TypeOK, States
  <2>2. sessions' \in [NodeIds -> Conns \cup {None}] /\ open' \subseteq Conns
    BY <1>0, <1>1 DEF TypeOK
  <2> QED
    BY <1>0, <1>1, <2>1, <2>2 DEF TypeOK
<1>3. ServerInv'
  BY <1>0, <1>1 DEF ServerInv
<1>4. Live' = {} /\ Connected' = {}
  BY <1>0, <1>1 DEF Live, Connected, IndexMatchesSessions
<1>5. SessionInv' /\ IndexMatchesSessions' /\ ExclusiveInv'
  BY <1>0, <1>1, <1>4 DEF SessionInv, IndexMatchesSessions, ExclusiveInv
<1>6. ResourcesAreOwned'
  <2>1. \A c \in open' : c \in Owned /\ c \notin Range(sessions)
    BY <1>0, <1>1 DEF ResourcesAreOwned
  <2>2. \A c \in open' : c \in Queued'
    BY <1>1, <2>1, SameQueue DEF Owned
  <2> QED
    BY <1>1, <2>2 DEF ResourcesAreOwned, Owned
<1> QED
  BY <1>0, <1>1, <1>2, <1>3, <1>5, <1>6, SameConns, SameThreads, SameInbox DEF IInv

\* connect_device: there is no other session, and the port's link gets a number that
\* nothing refers to yet.
LEMMA ConnectDeviceKeeps == ASSUME IInv, NEW p \in Ports, ConnectDevice(p) PROVE IInv'
<1> DEFINE c == opened + 1
           id == CdcId(p)
<1>0. /\ TypeOK /\ ServerInv /\ ConnInv /\ ThreadInv /\ InboxInv /\ SessionInv
      /\ IndexMatchesSessions /\ ExclusiveInv /\ ResourcesAreOwned
  BY Parts
<1>1. /\ ~ accepting /\ Live = {} /\ opened < MaxConns /\ opened' = c
      /\ conn' = [conn EXCEPT ![c] = [id |-> id, listener |-> None]]
      /\ state[id] = "absent" /\ state' = [state EXCEPT ![id] = "connected"]
      /\ sessions' = [sessions EXCEPT ![id] = c] /\ thread' = [thread EXCEPT ![c] = "running"]
      /\ selected' = IF selected = None THEN id ELSE selected
      /\ open' = open \cup {c}
      /\ UNCHANGED <<listener, accepting, started, slots, numbered, known, reported, inbox, uuid>>
  BY DEF ConnectDevice, IsWifiServerRunning, NewConnection, AddSession, Registers, OpenTransport, serverVars
<1>2. opened \in Nat /\ c \in Nat /\ c \in Conns /\ c \notin 1..opened /\ c > opened /\ id \in NodeIds /\ c # None
  BY <1>0, <1>1, Bounds, Ids DEF TypeOK, Conns
<1>3. 1..opened' = 1..opened \cup {c} /\ \A d \in 1..opened : d \in Conns /\ d # c
  BY <1>0, <1>1, <1>2, Bounds DEF TypeOK, Conns
<1> HIDE DEF c, id
<1>4. /\ conn'[c] = [id |-> id, listener |-> None] /\ thread'[c] = "running"
      /\ \A d \in Conns : d # c => conn'[d] = conn[d] /\ thread'[d] = thread[d]
      /\ sessions'[id] = c /\ \A m \in NodeIds : m # id => sessions'[m] = None
  BY <1>0, <1>1, <1>2 DEF TypeOK, Live
<1>5. Live' = {id} /\ Connected' = {id} /\ selected = None
  <2>1. Live' = {id}
    BY <1>2, <1>4 DEF Live
  <2>2. Connected = {} /\ selected = None
    BY <1>0, <1>1 DEF IndexMatchesSessions
  <2>3. Connected' = {id}
    BY <1>0, <1>1, <1>2, <2>2 DEF Connected, TypeOK
  <2> QED
    BY <2>1, <2>2, <2>3
<1>6. TypeOK'
  <2>1. conn' \in [Conns -> ConnRecord \cup {None}]
    BY <1>0, <1>1, <1>2 DEF TypeOK, ConnRecord
  <2>2. state' \in [NodeIds -> States] /\ sessions' \in [NodeIds -> Conns \cup {None}]
    BY <1>0, <1>1, <1>2 DEF TypeOK, States
  <2>3. thread' \in [Conns -> {"none", "running", "ended"}] /\ open' \subseteq Conns
    BY <1>0, <1>1, <1>2 DEF TypeOK
  <2>4. opened' \in 0..MaxConns
    BY <1>0, <1>1, <1>2, Bounds DEF TypeOK, c
  <2> QED
    BY <1>0, <1>1, <1>2, <2>1, <2>2, <2>3, <2>4 DEF TypeOK, ConnRecord
<1>7. ServerInv'
  <2>1. \A l \in Listeners : numbered[l] <= opened'
    BY <1>0, <1>1, <1>2 DEF ServerInv, TypeOK
  <2> QED
    BY <1>0, <1>1, <2>1 DEF ServerInv
<1>8. ConnInv'
  <2>1. open' \subseteq 1..opened'
    BY <1>0, <1>1, <1>3 DEF ConnInv
  <2>2. conn'[c] \in ConnRecord /\ conn'[c].listener = None /\ conn'[c].id = CdcId(p)
    BY <1>2, <1>4 DEF ConnRecord, id
  <2>3. \A d \in 1..opened : conn'[d] = conn[d]
    BY <1>3, <1>4
  <2> QED
    BY <1>0, <1>1, <1>3, <2>1, <2>2, <2>3 DEF ConnInv
<1>9. ThreadInv'
  BY <1>0, <1>1, <1>2, <1>3, <1>4 DEF ThreadInv
<1>10. InboxInv'
  <2>1. ASSUME NEW i \in DOMAIN inbox
        PROVE  IF inbox[i].kind = "accepted"
               THEN /\ inbox[i].conn \in 1..opened' /\ thread'[inbox[i].conn] = "none"
                    /\ conn'[inbox[i].conn].listener # None
               ELSE thread'[inbox[i].conn] = "ended"
    <3>1. inbox[i] \in Event /\ inbox[i].conn \in Conns
      BY <1>0, EventType DEF TypeOK
    <3>2. inbox[i].conn \in 1..opened
      BY <1>0, <3>1 DEF InboxInv, ThreadInv
    <3> QED
      BY <1>0, <1>3, <1>4, <3>1, <3>2 DEF InboxInv
  <2> QED
    BY <1>0, <1>1, <2>1 DEF InboxInv
<1>11. SessionInv'
  BY <1>3, <1>4, <1>5 DEF SessionInv
<1>12. IndexMatchesSessions'
  BY <1>1, <1>5 DEF IndexMatchesSessions
<1>13. ExclusiveInv'
  <2>1. \A n \in NodeIds : state'[n] = "absent" => state[n] = "absent"
    BY <1>0, <1>1 DEF TypeOK
  <2>2. \A q \in Ports : CdcId(q) \in Live' => Live' = {CdcId(q)}
    BY <1>5
  <2> QED
    BY <1>0, <1>1, <1>5, <2>1, <2>2 DEF ExclusiveInv
<1>14. ResourcesAreOwned'
  <2>1. Queued' = Queued
    BY <1>1, SameQueue
  <2>2. \A d : d \in Owned' <=> d = c \/ d \in Queued
    BY <1>4, <1>5, <1>6, <2>1, OwnedMembersNext DEF TypeOK
  <2>3. \A d : d \in Owned <=> d \in Queued
    BY <1>0, <1>1, OwnedMembers DEF TypeOK
  <2>4. \A d \in Queued : conn'[d] = conn[d]
    BY <1>0, <1>3, <1>4, <2>3, OwnedOpened
  <2>5. ASSUME listener # None
        PROVE  {d \in Owned' : conn'[d].listener = listener} = {d \in Owned : conn[d].listener = listener}
    BY <1>4, <2>2, <2>3, <2>4, <2>5
  <2>6. ASSUME listener # None
        PROVE  {conn'[d].id : d \in {b \in Owned' : conn'[b].listener = listener}}
                 = {conn[d].id : d \in {b \in Owned : conn[b].listener = listener}}
    BY <2>3, <2>4, <2>5, <2>6
  <2> QED
    BY <1>0, <1>1, <2>2, <2>3, <2>6 DEF ResourcesAreOwned
<1> QED
  BY <1>6, <1>7, <1>8, <1>9, <1>10, <1>11, <1>12, <1>13, <1>14 DEF IInv

-----------------------------------------------------------------------------
(* The events.                                                               *)

\* A connection that is given up gives back the slot it has, and no other has it.
LEMMA DropOwner ==
  ASSUME IInv, NEW h \in Owned, Owned' = Owned \ {h}, open' \subseteq open, h \notin open',
         UNCHANGED <<conn, listener>>,
         \A k \in Listeners :
           slots'[k] = IF k = conn[h].listener THEN slots[k] \ {conn[h].id} ELSE slots[k]
  PROVE  ResourcesAreOwned'
<1>0. TypeOK /\ ConnInv /\ InboxInv /\ SessionInv /\ ResourcesAreOwned
  BY Parts
<1>1. open' \subseteq Owned'
  BY <1>0 DEF ResourcesAreOwned
<1>2. ASSUME listener # None
      PROVE  slots'[listener] = {conn[c].id : c \in {d \in Owned' : conn[d].listener = listener}}
  <2>1. /\ listener \in Listeners
        /\ slots[listener] = {conn[c].id : c \in {d \in Owned : conn[d].listener = listener}}
    BY <1>0, <1>2 DEF TypeOK, ResourcesAreOwned
  <2>2. ASSUME NEW d \in Owned, d # h, conn[d].listener = listener, conn[h].listener = listener
        PROVE  conn[d].id # conn[h].id
    <3>1. d \in 1..opened /\ h \in 1..opened
      BY <1>0, OwnedOpened
    <3> QED
      BY <1>0, <1>2, <2>2, <3>1 DEF ConnInv
  <2>3. CASE conn[h].listener # listener
    BY <2>1, <2>3
  <2>4. CASE conn[h].listener = listener
    <3>1. slots'[listener] = slots[listener] \ {conn[h].id}
      BY <2>1, <2>4
    <3>2. ASSUME NEW x \in slots'[listener]
          PROVE  \E d \in Owned' : conn[d].listener = listener /\ conn[d].id = x
      BY <2>1, <3>1, <3>2
    <3>3. ASSUME NEW d \in Owned', conn[d].listener = listener PROVE conn[d].id \in slots'[listener]
      BY <2>1, <2>2, <2>4, <3>1, <3>3
    <3> QED
      BY <3>2, <3>3
  <2> QED
    BY <2>3, <2>4
<1> QED
  BY <1>1, <1>2 DEF ResourcesAreOwned

\* A client that is announced is owned by the queue and by no session.
LEMMA AnnouncedClient ==
  ASSUME IInv, NextEvent("accepted")
  PROVE  LET h == Head(inbox).conn IN
         /\ h \in Conns /\ h \in 1..opened /\ thread[h] = "none" /\ conn[h] \in ConnRecord
         /\ conn[h].listener # None /\ (\E k : conn[h].id = WifiId(k))
         /\ h \in Queued /\ \A n \in Live : sessions[n] # h
<1> DEFINE h == Head(inbox).conn
<1>0. TypeOK /\ ConnInv /\ InboxInv /\ SessionInv
  BY Parts
<1>1. inbox # <<>> /\ Head(inbox).kind = "accepted"
  BY DEF NextEvent
<1>2. 1 \in DOMAIN inbox /\ inbox[1] = Head(inbox) /\ Head(inbox) \in Event
  BY <1>0, <1>1 DEF TypeOK
<1>3. h \in Conns /\ h \in 1..opened /\ thread[h] = "none" /\ conn[h].listener # None
  BY <1>0, <1>1, <1>2, EventType DEF InboxInv
<1>4. conn[h] \in ConnRecord /\ \E k : conn[h].id = WifiId(k)
  BY <1>0, <1>3 DEF ConnInv
<1>5. h \in Queued
  BY <1>1, <1>2, QueuedMembers
<1>6. \A n \in Live : sessions[n] # h
  BY <1>0, <1>3 DEF SessionInv
<1> QED
  BY <1>3, <1>4, <1>5, <1>6

\* A client that is turned away, with its slot given back to its listener.
LEMMA TurnedAway ==
  ASSUME IInv, NextEvent("accepted"),
         Release(conn[Head(inbox).conn].listener, conn[Head(inbox).conn].id),
         open' = open \ {Head(inbox).conn},
         UNCHANGED <<listener, accepting, started, numbered, opened, conn, thread, known, reported>>,
         UNCHANGED <<sessions, selected, state, uuid>>
  PROVE  IInv'
<1> DEFINE h == Head(inbox).conn
<1>0. /\ TypeOK /\ ServerInv /\ ConnInv /\ ThreadInv /\ InboxInv /\ SessionInv
      /\ IndexMatchesSessions /\ ExclusiveInv /\ ResourcesAreOwned
  BY Parts
<1>1. inbox # <<>> /\ Head(inbox).kind = "accepted" /\ inbox' = Tail(inbox)
  BY DEF NextEvent
<1>2. h \in Queued /\ \A n \in Live : sessions[n] # h
  BY AnnouncedClient
<1>3. inbox' \in Seq(Event) /\ InboxInv' /\ Queued' = Queued \ {h}
  BY <1>0, <1>1, TakeEvent DEF TypeOK
<1>4. /\ slots' \in [Listeners -> SUBSET NodeIds]
      /\ \A k \in Listeners :
           slots'[k] = IF k = conn[h].listener THEN slots[k] \ {conn[h].id} ELSE slots[k]
      /\ \A k \in Listeners : /\ IsFiniteSet(slots'[k]) /\ Cardinality(slots'[k]) <= MaxClients
                              /\ k > started => slots'[k] = {}
  BY <1>0, ReleaseKeeps
<1> HIDE DEF h
<1>5. TypeOK'
  BY <1>0, <1>3, <1>4 DEF TypeOK
<1>6. ServerInv'
  BY <1>0, <1>4 DEF ServerInv
<1>7. Owned' = Owned \ {h} /\ h \in Owned
  <2>1. Live' = Live
    BY DEF Live
  <2>2. \A c : c \in Owned' <=> c \in Owned /\ c # h
    BY <1>0, <1>2, <1>3, <1>5, <2>1, OwnedMembers, OwnedMembersNext DEF TypeOK
  <2> QED
    BY <1>0, <1>2, <2>2, OwnedMembers DEF TypeOK
<1>8. ResourcesAreOwned'
  BY <1>4, <1>7, DropOwner DEF h
<1> QED
  BY <1>0, <1>3, <1>5, <1>6, <1>8, SameConns, SameThreads, SameSessions, SameIndex, SameExclusive DEF IInv

LEMMA StaleEnvelopeKeeps == ASSUME IInv, StaleEnvelope PROVE IInv'
BY TurnedAway DEF StaleEnvelope, CloseTransports, guiVars

LEMMA RefuseClientKeeps == ASSUME IInv, RefuseClient PROVE IInv'
BY TurnedAway DEF RefuseClient, ReleaseGatewayClient, CloseTransports, guiVars

\* The client's link passes from the queue to its session.
LEMMA AcceptGatewayKeeps == ASSUME IInv, AcceptGatewayClient PROVE IInv'
<1> DEFINE h == Head(inbox).conn
           id == conn[h].id
<1>0. /\ TypeOK /\ ServerInv /\ ConnInv /\ ThreadInv /\ InboxInv /\ SessionInv
      /\ IndexMatchesSessions /\ ExclusiveInv /\ ResourcesAreOwned
  BY Parts
<1>1. /\ NextEvent("accepted") /\ conn[h].listener = listener /\ ~ HasCdc /\ state[id] = "absent"
      /\ state' = [state EXCEPT ![id] = "connected"] /\ sessions' = [sessions EXCEPT ![id] = h]
      /\ thread' = [thread EXCEPT ![h] = "running"]
      /\ selected' = IF selected = None THEN id ELSE selected
      /\ UNCHANGED <<listener, accepting, started, slots, numbered>>
      /\ UNCHANGED <<opened, conn, open, known, reported, uuid>>
  BY DEF AcceptGatewayClient, AddSession, Registers, serverVars
<1>2. inbox # <<>> /\ Head(inbox).kind = "accepted" /\ inbox' = Tail(inbox)
  BY <1>1 DEF NextEvent
<1>3. /\ h \in Conns /\ h \in 1..opened /\ thread[h] = "none" /\ conn[h] \in ConnRecord
      /\ h \in Queued /\ \A n \in Live : sessions[n] # h
  BY <1>1, AnnouncedClient
<1>4. PICK k : id = WifiId(k)
  BY <1>1, AnnouncedClient
<1>5. id \in NodeIds /\ h # None /\ id # None
  BY <1>3, Bounds DEF ConnRecord
<1>6. h \notin Queued'
  <2>1. ASSUME h \in Queued' PROVE FALSE
    <3>1. PICK i \in DOMAIN inbox' : inbox'[i].kind = "accepted" /\ inbox'[i].conn = h
      BY <2>1, QueuedMembersNext
    <3>2. /\ i + 1 \in DOMAIN inbox /\ inbox'[i] = inbox[i + 1] /\ 1 \in DOMAIN inbox
          /\ inbox[1] = Head(inbox) /\ i + 1 # 1
      BY <1>0, <1>2 DEF TypeOK
    <3> QED
      BY <1>0, <1>2, <3>1, <3>2 DEF InboxInv
  <2> QED
    BY <2>1
<1>7. \A c \in Conns : thread'[c] = IF c = h THEN "running" ELSE thread[c]
  BY <1>0, <1>1 DEF TypeOK
<1>8. inbox' \in Seq(Event) /\ InboxInv' /\ Queued' = Queued \ {h}
  <2>1. \A c \in Queued' : c \in Conns
    <3> SUFFICES ASSUME NEW c \in Queued' PROVE c \in Conns
      OBVIOUS
    <3>1. PICK i \in DOMAIN inbox' : inbox'[i].conn = c
      BY QueuedMembersNext
    <3>2. inbox' \in Seq(Event)
      BY <1>0, <1>2 DEF TypeOK
    <3> QED
      BY <3>1, <3>2, EventType
  <2>2. \A c \in Queued' : thread'[c] = thread[c]
    BY <1>6, <1>7, <2>1
  <2>3. \A c \in Conns : thread[c] = "ended" => thread'[c] = "ended"
    BY <1>3, <1>7
  <2> QED
    BY <1>0, <1>1, <1>2, <2>2, <2>3, TakeEvent DEF TypeOK
<1> HIDE DEF h, id
<1>9. id \notin Connected /\ id \notin Live /\ sessions[id] = None
  BY <1>0, <1>1, <1>5 DEF Connected, IndexMatchesSessions, Live
<1>10. /\ \A m \in NodeIds : sessions'[m] = IF m = id THEN h ELSE sessions[m]
       /\ \A m \in NodeIds : state'[m] = IF m = id THEN "connected" ELSE state[m]
  BY <1>0, <1>1 DEF TypeOK
<1>11. Live' = Live \cup {id} /\ Connected' = Connected \cup {id}
  BY <1>5, <1>10 DEF Live, Connected
<1>12. TypeOK'
  <2>1. state' \in [NodeIds -> States] /\ sessions' \in [NodeIds -> Conns \cup {None}]
    BY <1>0, <1>1, <1>3 DEF TypeOK, States
  <2>2. thread' \in [Conns -> {"none", "running", "ended"}]
    BY <1>0, <1>1 DEF TypeOK
  <2> QED
    BY <1>0, <1>1, <1>5, <1>8, <2>1, <2>2 DEF TypeOK
<1>13. ThreadInv'
  BY <1>0, <1>1, <1>3, <1>7 DEF ThreadInv
<1>14. SessionInv'
  <2>1. ASSUME NEW n \in Live'
        PROVE  /\ sessions'[n] \in 1..opened' /\ thread'[sessions'[n]] # "none"
               /\ conn'[sessions'[n]].id = n /\ conn'[sessions'[n]].listener \in {None, listener'}
    <3>1. CASE n = id
      BY <1>1, <1>3, <1>5, <1>7, <1>10, <3>1 DEF id
    <3>2. CASE n # id
      <4>1. n \in Live /\ n \in NodeIds /\ sessions'[n] = sessions[n]
        BY <1>10, <1>11, <3>2 DEF Live
      <4>2. sessions[n] \in Conns
        BY <1>0, <4>1 DEF Live, TypeOK
      <4> QED
        BY <1>0, <1>1, <1>7, <4>1, <4>2 DEF SessionInv
    <3> QED
      BY <3>1, <3>2
  <2> QED
    BY <2>1 DEF SessionInv
<1>15. IndexMatchesSessions'
  BY <1>0, <1>1, <1>5, <1>11, Bounds DEF IndexMatchesSessions, Live
<1>16. ExclusiveInv'
  <2>1. uuid[id] = None
    BY <1>0, <1>1, <1>5 DEF ExclusiveInv
  <2>2. \A n \in NodeIds : state'[n] = "absent" => uuid'[n] = None
    BY <1>0, <1>1, <1>10 DEF ExclusiveInv
  <2>3. \A m, n \in Connected' : m # n /\ uuid'[m] # None => uuid'[m] # uuid'[n]
    BY <1>0, <1>1, <1>11, <2>1 DEF ExclusiveInv
  <2>4. \A p \in Ports : CdcId(p) \notin Live'
    BY <1>1, <1>4, <1>11, Ids DEF HasCdc, Live
  <2> QED
    BY <2>2, <2>3, <2>4 DEF ExclusiveInv
<1>17. ResourcesAreOwned'
  <2>1. ASSUME NEW c PROVE c \in Owned' <=> c \in Owned
    <3>1. (\E n \in Live' : sessions'[n] = c) <=> c = h \/ \E n \in Live : sessions[n] = c
      BY <1>5, <1>9, <1>10, <1>11 DEF Live
    <3> QED
      BY <1>0, <1>3, <1>8, <1>12, <3>1, OwnedMembers, OwnedMembersNext DEF TypeOK
  <2>2. Owned' = Owned
    BY <2>1
  <2> QED
    BY <1>0, <1>1, <2>2 DEF ResourcesAreOwned
<1> QED
  BY <1>0, <1>1, <1>8, <1>12, <1>13, <1>14, <1>15, <1>16, <1>17, SameServer, SameConns DEF IInv

\* The callback of the session that is registered: its transport was closed before.
LEMMA ThreadFinishedKeeps == ASSUME IInv, ThreadFinished PROVE IInv'
<1> DEFINE h == Head(inbox).conn
           n == conn[h].id
<1>0. /\ TypeOK /\ ServerInv /\ ConnInv /\ ThreadInv /\ InboxInv /\ SessionInv
      /\ IndexMatchesSessions /\ ExclusiveInv /\ ResourcesAreOwned
  BY Parts
<1>1. /\ NextEvent("finished") /\ sessions[n] = h /\ sessions' = [sessions EXCEPT ![n] = None]
      /\ \/ conn[h].listener = None /\ state' = [state EXCEPT ![n] = "offline"] /\ UNCHANGED slots
         \/ /\ conn[h].listener # None /\ state' = [state EXCEPT ![n] = "reconnecting"]
            /\ Release(listener, n)
      /\ FailOver(n)
      /\ UNCHANGED <<listener, accepting, started, numbered, uuid>>
      /\ UNCHANGED <<opened, conn, open, thread, known, reported>>
  BY DEF ThreadFinished, IsExpected, Mark, ReleaseGatewayClient, connVars
<1>2. inbox # <<>> /\ Head(inbox).kind # "accepted" /\ inbox' = Tail(inbox)
  BY <1>1 DEF NextEvent
<1>3. h \in Conns /\ thread[h] = "ended"
  <2>1. 1 \in DOMAIN inbox /\ inbox[1] = Head(inbox) /\ Head(inbox) \in Event
    BY <1>0, <1>2 DEF TypeOK
  <2> QED
    BY <1>0, <1>2, <2>1, EventType DEF InboxInv
<1>4. h \in 1..opened /\ h \notin open /\ conn[h] \in ConnRecord /\ n \in NodeIds /\ h # None
  BY <1>0, <1>3, Bounds DEF ThreadInv, ConnInv, ConnRecord
<1>5. inbox' \in Seq(Event) /\ InboxInv' /\ Queued' = Queued
  BY <1>0, <1>1, <1>2, TakeEvent DEF TypeOK
<1> HIDE DEF h, n
<1>6. n \in Live /\ conn[h].listener \in {None, listener} /\ conn[h].id = n
  BY <1>0, <1>1, <1>4 DEF Live, SessionInv, n
<1>7. /\ \A m \in NodeIds : sessions'[m] = IF m = n THEN None ELSE sessions[m]
      /\ \A m \in NodeIds : m # n => state'[m] = state[m]
      /\ state'[n] \in {"offline", "reconnecting"}
  BY <1>0, <1>1, <1>4 DEF TypeOK
<1>8. Live' = Live \ {n} /\ Connected' = Connected \ {n}
  BY <1>7 DEF Live, Connected
<1>9. selected' \in NodeIds \cup {None} /\ IndexMatchesSessions'
  <2>1. selected \in Live /\ Connected = Live
    BY <1>0, <1>6 DEF IndexMatchesSessions
  <2>2. CASE selected # n /\ selected' = selected
    BY <1>8, <2>1, <2>2 DEF IndexMatchesSessions, Live
  <2>3. CASE Live = {n} /\ selected' = None
    BY <1>8, <2>1, <2>3 DEF IndexMatchesSessions
  <2>4. CASE selected' \in Live \ {n}
    BY <1>8, <2>1, <2>4 DEF IndexMatchesSessions, Live
  <2> QED
    BY <1>1, <2>2, <2>3, <2>4 DEF FailOver
<1>10. /\ slots' \in [Listeners -> SUBSET NodeIds]
       /\ \A k \in Listeners : slots'[k] = IF k = conn[h].listener THEN slots[k] \ {n} ELSE slots[k]
       /\ \A k \in Listeners : /\ IsFiniteSet(slots'[k]) /\ Cardinality(slots'[k]) <= MaxClients
                               /\ k > started => slots'[k] = {}
  <2>1. CASE conn[h].listener = None
    BY <1>0, <1>1, <2>1, Bounds DEF TypeOK, ServerInv
  <2>2. CASE conn[h].listener = listener /\ Release(listener, n)
    BY <1>0, <2>2, ReleaseKeeps
  <2> QED
    BY <1>1, <1>6, <2>1, <2>2
<1>11. TypeOK'
  <2>1. state' \in [NodeIds -> States] /\ sessions' \in [NodeIds -> Conns \cup {None}]
    BY <1>0, <1>1 DEF TypeOK, States
  <2> QED
    BY <1>0, <1>1, <1>5, <1>9, <1>10, <2>1 DEF TypeOK
<1>12. ServerInv'
  BY <1>0, <1>1, <1>10 DEF ServerInv
<1>13. SessionInv'
  BY <1>0, <1>1, <1>7, <1>8 DEF SessionInv, Live
<1>14. ExclusiveInv'
  <2>1. \A m \in NodeIds : state'[m] = "absent" => state[m] = "absent"
    BY <1>7
  <2>2. ASSUME NEW p \in Ports, CdcId(p) \in Live' PROVE FALSE
    <3>1. Live = {CdcId(p)}
      BY <1>0, <1>8, <2>2 DEF ExclusiveInv
    <3> QED
      BY <1>6, <1>8, <2>2, <3>1
  <2> QED
    BY <1>0, <1>1, <1>8, <2>1, <2>2 DEF ExclusiveInv
<1>15. ResourcesAreOwned'
  <2>1. h \notin Queued
    <3>1. ASSUME NEW i \in DOMAIN inbox, inbox[i].kind = "accepted" PROVE inbox[i].conn # h
      BY <1>0, <1>3, <3>1 DEF InboxInv
    <3> QED
      BY <3>1, QueuedMembers
  <2>2. \A m \in Live : sessions[m] = h => m = n
    BY <1>0, <1>6 DEF SessionInv
  <2>3. ASSUME NEW c PROVE c \in Owned' <=> c \in Owned /\ c # h
    <3>1. (\E m \in Live' : sessions'[m] = c) <=> c # h /\ \E m \in Live : sessions[m] = c
      BY <1>1, <1>7, <1>8, <2>2 DEF Live
    <3> QED
      BY <1>0, <1>5, <1>11, <2>1, <3>1, OwnedMembers, OwnedMembersNext DEF TypeOK
  <2>4. Owned' = Owned \ {h} /\ h \in Owned
    BY <1>0, <1>1, <1>6, <2>3, OwnedMembers DEF TypeOK
  <2> QED
    BY <1>1, <1>4, <1>6, <1>10, <2>4, DropOwner
<1> QED
  BY <1>0, <1>1, <1>5, <1>9, <1>11, <1>12, <1>13, <1>14, <1>15, SameConns, SameThreads DEF IInv

LEMMA StaleFinishedKeeps == ASSUME IInv, StaleFinished PROVE IInv'
<1>0. /\ TypeOK /\ ServerInv /\ ConnInv /\ ThreadInv /\ InboxInv /\ SessionInv
      /\ IndexMatchesSessions /\ ExclusiveInv /\ ResourcesAreOwned
  BY Parts
<1>1. /\ inbox # <<>> /\ Head(inbox).kind # "accepted" /\ inbox' = Tail(inbox)
      /\ UNCHANGED <<listener, accepting, started, slots, numbered>>
      /\ UNCHANGED <<opened, conn, open, thread, known, reported>>
      /\ UNCHANGED <<sessions, selected, state, uuid>>
  BY DEF StaleFinished, NextEvent, serverVars, connVars, guiVars
<1>2. inbox' \in Seq(Event) /\ InboxInv' /\ Queued' = Queued
  BY <1>0, <1>1, TakeEvent DEF TypeOK
<1>3. TypeOK'
  BY <1>0, <1>1, <1>2 DEF TypeOK
<1> QED
  BY <1>0, <1>1, <1>2, <1>3, SameServer, SameConns, SameThreads, SameSessions, SameIndex,
     SameExclusive, SameOwners DEF IInv

-----------------------------------------------------------------------------
LEMMA InitIInv == Init => IInv
<1> SUFFICES ASSUME Init PROVE IInv
  OBVIOUS
<1>1. /\ listener = None /\ accepting = FALSE /\ started = 0
      /\ slots = [l \in Listeners |-> {}] /\ numbered = [l \in Listeners |-> 0]
      /\ opened = 0 /\ conn = [c \in Conns |-> None] /\ open = {}
      /\ thread = [c \in Conns |-> "none"] /\ known = {} /\ reported = [c \in Conns |-> None]
  BY DEF Init
<1>2. /\ inbox = <<>> /\ sessions = [n \in NodeIds |-> None] /\ selected = None
      /\ state = [n \in NodeIds |-> "absent"] /\ uuid = [n \in NodeIds |-> None]
  BY DEF Init
<1>3. inbox \in Seq(Event) /\ DOMAIN inbox = {}
  BY <1>2
<1>4. Live = {} /\ Connected = {}
  BY <1>2 DEF Live, Connected
<1>5. TypeOK
  <2>1. \A l \in Listeners : Cardinality(slots[l]) <= MaxClients
    BY <1>1, FS_EmptySet, Bounds
  <2>2. /\ slots \in [Listeners -> SUBSET NodeIds] /\ numbered \in [Listeners -> 0..MaxConns]
        /\ started \in 0..MaxListeners /\ opened \in 0..MaxConns
    BY <1>1, Bounds
  <2>3. /\ conn \in [Conns -> [id : NodeIds, listener : Listeners \cup {None}] \cup {None}]
        /\ thread \in [Conns -> {"none", "running", "ended"}] /\ reported \in [Conns -> Devices \cup {None}]
    BY <1>1
  <2>4. /\ sessions \in [NodeIds -> Conns \cup {None}] /\ state \in [NodeIds -> States]
        /\ uuid \in [NodeIds -> Devices \cup {None}]
    BY <1>2 DEF States
  <2> QED
    BY <1>1, <1>2, <1>3, <2>1, <2>2, <2>3, <2>4 DEF TypeOK
<1>6. ServerInv /\ ConnInv /\ ThreadInv
  BY <1>1, FS_EmptySet DEF ServerInv, ConnInv, ThreadInv
<1>7. InboxInv /\ SessionInv
  BY <1>3, <1>4 DEF InboxInv, SessionInv
<1>8. IndexMatchesSessions /\ ExclusiveInv
  BY <1>2, <1>4 DEF IndexMatchesSessions, ExclusiveInv
<1>9. ResourcesAreOwned
  BY <1>1 DEF ResourcesAreOwned
<1> QED
  BY <1>5, <1>6, <1>7, <1>8, <1>9 DEF IInv

LEMMA StutterKeeps == ASSUME IInv, UNCHANGED vars PROVE IInv'
<1>0. /\ TypeOK /\ ServerInv /\ ConnInv /\ ThreadInv /\ InboxInv /\ SessionInv
      /\ IndexMatchesSessions /\ ExclusiveInv /\ ResourcesAreOwned
  BY Parts
<1>1. /\ UNCHANGED <<listener, accepting, started, slots, numbered, inbox>>
      /\ UNCHANGED <<opened, conn, open, thread, known, reported>>
      /\ UNCHANGED <<sessions, selected, state, uuid>>
  BY DEF vars, serverVars, connVars, guiVars
<1>2. TypeOK'
  BY <1>0, <1>1 DEF TypeOK
<1> QED
  BY <1>0, <1>1, <1>2, SameServer, SameConns, SameThreads, SameInbox, SameSessions, SameIndex,
     SameExclusive, SameQueue, SameOwners DEF IInv

LEMMA NextIInv == IInv /\ [Next]_vars => IInv'
<1> SUFFICES ASSUME IInv, [Next]_vars PROVE IInv'
  OBVIOUS
<1>1. CASE Events
  BY <1>1, StaleEnvelopeKeeps, RefuseClientKeeps, AcceptGatewayKeeps, ThreadFinishedKeeps,
     StaleFinishedKeeps DEF Events
<1>2. CASE Timer
  BY <1>2, BindIdentityKeeps, RejectDuplicateKeeps DEF Timer
<1>3. CASE User
  BY <1>3, StartWifiServerKeeps, StopWifiServerKeeps, DisconnectKeeps, ConnectDeviceKeeps,
     SelectNodeKeeps, RemoveOfflineKeeps DEF User
<1>4. CASE Link
  BY <1>4, AcceptClientKeeps, AcceptFailsKeeps, WorkerEndsKeeps, ObserveKeeps
  DEF Link, GatewayGone, PortGone, MeetsClosed
<1>5. CASE UNCHANGED vars
  BY <1>5, StutterKeeps
<1> QED
  BY <1>1, <1>2, <1>3, <1>4, <1>5 DEF Next

LEMMA InvariantHolds == Spec => []IInv
BY InitIInv, NextIInv, PTL DEF Spec

-----------------------------------------------------------------------------
(* The theorems.                                                             *)

\* Every variable keeps its type, and no listener ever holds more clients than
\* maximum_clients.
THEOREM TypeCorrect == Spec => []TypeOK
<1>1. IInv => TypeOK
  BY DEF IInv
<1> QED
  BY <1>1, InvariantHolds, PTL

\* The inventory is the set of sessions, and the target is one of them, for every
\* interleaving of callbacks, refused clients and stops (_add_session,
\* _on_thread_finished, disconnect_device, NodeSessionManager).
THEOREM InventoryIsExact == Spec => []IndexMatchesSessions
<1>1. IInv => IndexMatchesSessions
  BY DEF IInv
<1> QED
  BY <1>1, InvariantHolds, PTL

\* Two links of one device are never both bound to it, and a CDC session is alone
\* (_consume_identity_updates, bind_identity, connect_device, accept_gateway_client).
THEOREM LinksExclusive == Spec => []LinksAreExclusive
<1>1. IInv => LinksAreExclusive
  <2> SUFFICES ASSUME IInv PROVE LinksAreExclusive
    OBVIOUS
  <2>1. TypeOK /\ ExclusiveInv
    BY Parts
  <2>2. ASSUME HasCdc PROVE Cardinality(Live) = 1 /\ ~ accepting
    <3>1. PICK p \in Ports : sessions[CdcId(p)] # None
      BY <2>2 DEF HasCdc
    <3>2. CdcId(p) \in Live
      BY <3>1, Ids DEF Live
    <3> QED
      BY <2>1, <3>2, FS_Singleton DEF ExclusiveInv
  <2> QED
    BY <2>1, <2>2 DEF LinksAreExclusive, ExclusiveInv
<1> QED
  BY <1>1, InvariantHolds, PTL

\* No slot and no transport leaks (GatewayListener.release, _release_gateway_client,
\* _accept_gateway_envelope).
THEOREM NothingLeaks == Spec => []ResourcesAreOwned
<1>1. IInv => ResourcesAreOwned
  BY DEF IInv
<1> QED
  BY <1>1, InvariantHolds, PTL

\* A step that leaves a session's transport open leaves the session.
LEMMA StepKeepsHealthy ==
  ASSUME IInv, [Next]_vars, NEW n \in NodeIds, sessions[n] \in open, sessions[n] \in open'
  PROVE  sessions'[n] = sessions[n]
<1>0. TypeOK /\ ThreadInv /\ InboxInv /\ SessionInv /\ IndexMatchesSessions
  BY Parts
<1>1. n \in Live /\ n \in Connected /\ sessions[n] \in Conns
  BY <1>0, Bounds DEF Live, TypeOK, IndexMatchesSessions
<1>2. CASE AcceptGatewayClient
  <2>1. conn[Head(inbox).conn].id # n
    BY <1>1, <1>2 DEF AcceptGatewayClient, AddSession, Registers, Connected
  <2> QED
    BY <1>2, <2>1 DEF AcceptGatewayClient, AddSession
<1>3. CASE ThreadFinished
  <2> DEFINE h == Head(inbox).conn
  <2>1. inbox # <<>> /\ Head(inbox).kind # "accepted"
    BY <1>3 DEF ThreadFinished, NextEvent
  <2>2. 1 \in DOMAIN inbox /\ inbox[1] = Head(inbox) /\ Head(inbox) \in Event
    BY <1>0, <2>1 DEF TypeOK
  <2>3. h \notin open
    BY <1>0, <2>1, <2>2, EventType DEF InboxInv, ThreadInv
  <2>4. conn[h].id # n
    BY <1>3, <2>3 DEF ThreadFinished, IsExpected
  <2> QED
    BY <1>3, <2>4 DEF ThreadFinished
<1>4. CASE DisconnectDevice
  <2>1. sessions[n] \in Range(sessions)
    BY <1>0 DEF Range, TypeOK
  <2> QED
    BY <1>4, <2>1 DEF DisconnectDevice, CloseTransports
<1>5. CASE \E p \in Ports : ConnectDevice(p)
  BY <1>1, <1>5 DEF ConnectDevice
<1>6. CASE StaleEnvelope \/ RefuseClient \/ StaleFinished
  BY <1>6 DEF StaleEnvelope, RefuseClient, StaleFinished, guiVars
<1>7. CASE Timer
  BY <1>7 DEF Timer, BindIdentity, RejectDuplicate, guiVars
<1>8. CASE StartWifiServer \/ StopWifiServer \/ \E m \in NodeIds : SelectNode(m) \/ RemoveOfflineNode(m)
  BY <1>8 DEF StartWifiServer, StopWifiServer, SelectNode, RemoveOfflineNode, guiVars
<1>9. CASE Link
  BY <1>9 DEF Link, AcceptClient, AcceptFails, GatewayGone, PortGone, MeetsClosed, WorkerEnds,
              ObserveIdentity, guiVars
<1>10. CASE UNCHANGED vars
  BY <1>10 DEF vars, guiVars
<1> QED
  BY <1>2, <1>3, <1>4, <1>5, <1>6, <1>7, <1>8, <1>9, <1>10 DEF Next, Events, User

\* A session is never dropped while its link is healthy: the callback of an earlier
\* session under its node id, a client that is turned away or a new listener does
\* not remove it (the guard of _on_thread_finished).
THEOREM HealthySessionsKept == Spec => HealthySessionsStay
<1>1. IInv /\ [Next]_vars =>
        [\A n \in NodeIds : sessions[n] \in open /\ sessions[n] \in open' =>
           sessions'[n] = sessions[n]]_vars
  BY StepKeepsHealthy
<1> QED
  BY <1>1, InvariantHolds, PTL DEF Spec, HealthySessionsStay
=============================================================================

---------------------------- MODULE ConsoleProofs ----------------------------
(***************************************************************************)
(* The sidebar, the command target and the confirmed questions, for every  *)
(* number of nodes, every order of their ids and every set of devices.     *)
(***************************************************************************)
EXTENDS Console, SequenceTheorems, TLAPS

-----------------------------------------------------------------------------
(* Sequences of sessions.                                                    *)

\* A new session at the end of the table.
LEMMA AppendSession ==
  ASSUME NEW S, NEW s \in Seq(S), IsInjective(s), NEW x \in S, x \notin Range(s)
  PROVE  /\ Append(s, x) \in Seq(S) /\ IsInjective(Append(s, x))
         /\ Range(Append(s, x)) = Range(s) \cup {x}
<1>1. /\ Append(s, x) \in Seq(S) /\ Len(Append(s, x)) = Len(s) + 1
      /\ \A i \in 1..Len(s) : Append(s, x)[i] = s[i]
      /\ Append(s, x)[Len(s) + 1] = x
      /\ DOMAIN s = 1..Len(s) /\ DOMAIN Append(s, x) = 1..(Len(s) + 1) /\ Len(s) \in Nat
  OBVIOUS
<1>2. IsInjective(Append(s, x))
  BY <1>1 DEF IsInjective, Range
<1>3. Range(Append(s, x)) = Range(s) \cup {x}
  BY <1>1 DEF Range
<1> QED
  BY <1>1, <1>2, <1>3

\* A session that leaves it.
LEMMA RemoveSession ==
  ASSUME NEW S, NEW s \in Seq(S), IsInjective(s), NEW k \in DOMAIN s
  PROVE  /\ RemoveAt(s, k) \in Seq(S) /\ IsInjective(RemoveAt(s, k))
         /\ Range(RemoveAt(s, k)) = Range(s) \ {s[k]}
<1> DEFINE t == RemoveAt(s, k)
<1>1. /\ DOMAIN s = 1..Len(s) /\ Len(s) \in Nat /\ k \in 1..Len(s)
  OBVIOUS
<1>2. /\ t \in Seq(S) /\ Len(t) = Len(s) - 1 /\ DOMAIN t = 1..(Len(s) - 1)
      /\ \A i \in 1..(Len(s) - 1) : t[i] = IF i < k THEN s[i] ELSE s[i + 1]
  <2> DEFINE a == SubSeq(s, 1, k - 1)
             b == SubSeq(s, k + 1, Len(s))
  <2>1. /\ a \in Seq(S) /\ Len(a) = k - 1 /\ \A i \in 1..(k - 1) : a[i] = s[i]
    BY <1>1
  <2>2. /\ b \in Seq(S) /\ Len(b) = Len(s) - k /\ \A i \in 1..(Len(s) - k) : b[i] = s[k + i]
    BY <1>1
  <2>3. t = a \o b
    BY DEF RemoveAt
  <2> HIDE DEF a, b, t
  <2>4. /\ t \in Seq(S) /\ Len(t) = Len(a) + Len(b)
        /\ \A i \in 1..(Len(a) + Len(b)) : t[i] = IF i <= Len(a) THEN a[i] ELSE b[i - Len(a)]
    BY <2>1, <2>2, <2>3, ConcatProperties
  <2>5. Len(t) = Len(s) - 1 /\ DOMAIN t = 1..(Len(s) - 1)
    BY <1>1, <2>1, <2>2, <2>4
  <2>6. ASSUME NEW i \in 1..(Len(s) - 1) PROVE t[i] = IF i < k THEN s[i] ELSE s[i + 1]
    <3>1. i \in 1..(Len(a) + Len(b)) /\ Len(a) = k - 1 /\ k \in Int
      BY <1>1, <2>1, <2>2
    <3>2. CASE i < k
      BY <2>1, <2>4, <3>1, <3>2
    <3>3. CASE i >= k
      <4>1. t[i] = b[i - (k - 1)]
        BY <2>4, <3>1, <3>3
      <4>2. i - (k - 1) \in 1..(Len(s) - k) /\ k + (i - (k - 1)) = i + 1
        BY <1>1, <3>3
      <4>3. b[i - (k - 1)] = s[k + (i - (k - 1))]
        BY <2>2, <4>2
      <4> QED
        BY <3>1, <3>3, <4>1, <4>2, <4>3
    <3> QED
      BY <3>1, <3>2, <3>3
  <2> QED
    BY <2>4, <2>5, <2>6
<1> HIDE DEF t
<1>3. IsInjective(t)
  <2> SUFFICES ASSUME NEW i \in DOMAIN t, NEW j \in DOMAIN t, t[i] = t[j] PROVE i = j
    BY DEF IsInjective
  <2> DEFINE at(n) == IF n < k THEN n ELSE n + 1
  <2>1. at(i) \in DOMAIN s /\ at(j) \in DOMAIN s /\ t[i] = s[at(i)] /\ t[j] = s[at(j)]
    BY <1>1, <1>2
  <2>2. at(i) = at(j)
    BY <2>1 DEF IsInjective
  <2>3. i \in Nat /\ j \in Nat /\ k \in Nat
    BY <1>1, <1>2
  <2> QED
    BY ONLY <2>2, <2>3
<1>4. Range(t) \subseteq Range(s) \ {s[k]}
  <2> SUFFICES ASSUME NEW i \in DOMAIN t PROVE t[i] \in Range(s) /\ t[i] # s[k]
    BY DEF Range
  <2> DEFINE at == IF i < k THEN i ELSE i + 1
  <2>1. at \in DOMAIN s /\ t[i] = s[at] /\ at # k
    BY <1>1, <1>2
  <2> HIDE DEF at
  <2> QED
    BY <1>1, <2>1 DEF Range, IsInjective
<1>5. ASSUME NEW j \in DOMAIN s, j # k PROVE s[j] \in Range(t)
  <2>1. CASE j < k
    BY <1>1, <1>2, <2>1 DEF Range
  <2>2. CASE j > k
    <3>1. j - 1 \in DOMAIN t /\ t[j - 1] = s[j]
      BY <1>1, <1>2, <2>2
    <3> QED
      BY <3>1 DEF Range
  <2> QED
    BY <1>1, <1>5, <2>1, <2>2
<1>6. Range(s) \ {s[k]} \subseteq Range(t)
  BY <1>5 DEF Range
<1> QED
  BY <1>2, <1>3, <1>4, <1>6 DEF t

LEMMA RangeOfEmpty == Range(<<>>) = {} /\ IsInjective(<<>>)
BY DEF Range, IsInjective

LEMMA HeadInRange == ASSUME NEW S, NEW s \in Seq(S), s # <<>> PROVE Head(s) \in Range(s)
<1>1. 1 \in DOMAIN s /\ Head(s) = s[1]
  OBVIOUS
<1> QED
  BY <1>1 DEF Range

-----------------------------------------------------------------------------
(* The highlight.                                                            *)

LEMMA Names == None \notin Nodes /\ None \notin Devices /\ MaxNodes \in Nat
BY ConsoleAssumption

LEMMA OnlineNodes == ASSUME NEW st PROVE Online(st) \subseteq Nodes /\ None \notin Online(st)
BY Names DEF Online

LEMMA SetNodesKeeps ==
  ASSUME NEW st, NEW n \in Online(st) PROVE SetNodes(n, st) = n
BY DEF SetNodes

LEMMA SetNodesEmpty ==
  ASSUME NEW st, NEW n, Online(st) = {} PROVE SetNodes(n, st) = None
BY DEF SetNodes

\* The highlight goes to the only node there is.
LEMMA SetNodesOnly ==
  ASSUME NEW st, NEW n \in Nodes, Online(st) = {n} PROVE SetNodes(None, st) = n
<1>1. Rank[n] <= Rank[n]
  BY ConsoleAssumption DEF Nodes
<1>2. \E k \in Online(st) : \A l \in Online(st) : Rank[k] <= Rank[l]
  BY <1>1
<1> QED
  BY <1>2, Names DEF SetNodes

\* The steps that add and remove no session: the highlight stays.
LEMMA QuietSessions ==
  ASSUME TypeInv, SessionInv, TargetInv, Online(state') = Online(state),
         UNCHANGED <<sessions, accepted, target, connected>>,
         highlight' \in {highlight, SetNodes(highlight, state')}
  PROVE  SessionInv' /\ TargetInv'
<1>1. Online(state)' = Online(state)
  BY DEF Online
<1>2. highlight' = highlight
  <2>1. CASE Online(state) = {}
    BY <2>1, SetNodesEmpty DEF TargetInv
  <2>2. CASE highlight \in Online(state)
    BY <2>2, SetNodesKeeps
  <2> QED
    BY <2>1, <2>2 DEF TargetInv
<1> QED
  BY <1>1, <1>2 DEF SessionInv, TargetInv

-----------------------------------------------------------------------------
(* The inductive invariant.                                                  *)

LEMMA InitIInv == Init => IInv
<1> SUFFICES ASSUME Init PROVE IInv
  OBVIOUS
<1>1. /\ sessions = <<>> /\ state = [n \in Nodes |-> "absent"] /\ bound = {}
      /\ device = [n \in Nodes |-> None] /\ accepted = 0 /\ target = None
      /\ connected = FALSE /\ highlight = None /\ dialog = None
  BY DEF Init
<1>2. sessions \in Seq(Nodes)
  BY <1>1
<1>3. TypeInv
  <2>1. state \in [Nodes -> NodeStates] /\ device \in [Nodes -> Devices \cup {None}]
    BY <1>1 DEF NodeStates
  <2>2. bound \subseteq Nodes /\ accepted \in 0..MaxNodes /\ target \in Nodes \cup {None}
    BY <1>1, Names
  <2> QED
    BY <1>1, <1>2, <2>1, <2>2 DEF TypeInv
<1>4. Online(state) = {}
  BY <1>1 DEF Online
<1>5. SessionInv
  BY <1>1, <1>4, RangeOfEmpty DEF SessionInv
<1> QED
  BY <1>1, <1>3, <1>4, <1>5 DEF IInv, TargetInv, DialogInv

\* A question stays what it was while nodes and files come and go.
LEMMA DialogKeeps ==
  ASSUME DialogInv, UNCHANGED <<dialog, device, accepted>>
  PROVE  DialogInv'
BY DEF DialogInv

LEMMA GatewayKeeps ==
  ASSUME IInv, NEW d \in Devices, GatewayConnects(d)
  PROVE  IInv'
<1> DEFINE n == accepted + 1
<1>0. TypeInv /\ SessionInv /\ TargetInv /\ DialogInv
  BY DEF IInv
<1>1. /\ connected /\ accepted < MaxNodes /\ accepted' = n /\ n \in Nodes /\ n \notin 1..accepted
      /\ UNCHANGED <<connected, dialog>> /\ accepted' \in 0..MaxNodes /\ 1..accepted \subseteq 1..accepted'
  BY <1>0, Names DEF GatewayConnects, TypeInv, Nodes
<1>2. n \notin Online(state)
  BY <1>0, <1>1 DEF SessionInv
<1>3. CASE state[n] # "absent"
  <2>1. UNCHANGED <<sessions, state, bound, device, target, highlight>>
    BY <1>3 DEF GatewayConnects
  <2> QED
    BY <1>0, <1>1, <2>1 DEF IInv, TypeInv, SessionInv, TargetInv, DialogInv, Online
<1>4. CASE state[n] = "absent"
  <2>1. /\ sessions' = Append(sessions, n) /\ state' = [state EXCEPT ![n] = "connected"]
        /\ bound' = bound \ {n} /\ device' = [device EXCEPT ![n] = d]
        /\ target' = IF target = None THEN n ELSE target
        /\ highlight' = SetNodes(IF target = None THEN SetSelectedNode(n, state) ELSE highlight, state')
    BY <1>4 DEF GatewayConnects
  <2>2. Online(state)' = Online(state) \cup {n} /\ Online(state') = Online(state) \cup {n}
    BY <1>0, <1>1, <2>1 DEF TypeInv, Online
  <2>3. /\ sessions' \in Seq(Nodes) /\ IsInjective(sessions')
        /\ Range(sessions') = Range(sessions) \cup {n}
    BY <1>0, <1>1, <1>2, <2>1, AppendSession DEF TypeInv, SessionInv
  <2>4. SessionInv'
    BY <1>0, <1>1, <2>2, <2>3 DEF SessionInv, TypeInv
  <2>5. TypeInv'
    BY <1>0, <1>1, <2>1, <2>3 DEF TypeInv, NodeStates
  <2>6. TargetInv'
    <3>1. CASE target = None
      <4>1. Online(state) = {}
        BY <1>0, <3>1, OnlineNodes DEF TargetInv
      <4>2. SetSelectedNode(n, state) = None
        BY <1>2 DEF SetSelectedNode
      <4>3. highlight' = n
        BY <1>1, <2>1, <2>2, <3>1, <4>1, <4>2, SetNodesOnly
      <4> QED
        BY <2>1, <2>2, <3>1, <4>3 DEF TargetInv
    <3>2. CASE target # None
      <4>1. highlight = target /\ highlight \in Online(state')
        BY <1>0, <2>2, <3>2 DEF TargetInv
      <4>2. highlight' = highlight
        BY <2>1, <3>2, <4>1, SetNodesKeeps
      <4> QED
        BY <2>1, <2>2, <3>2, <4>1, <4>2 DEF TargetInv
    <3> QED
      BY <3>1, <3>2
  <2>7. DialogInv'
    <3>1. ASSUME dialog # None, dialog.kind # "delete", dialog.subject # None
          PROVE  dialog.it \in 1..accepted' /\ device'[dialog.it] = dialog.subject
      <4>1. dialog.it \in 1..accepted /\ device[dialog.it] = dialog.subject
        BY <1>0, <3>1 DEF DialogInv
      <4>2. dialog.it \in Nodes /\ dialog.it # n
        BY <1>0, <1>1, <4>1, Names DEF TypeInv, Nodes
      <4> QED
        BY <1>0, <1>1, <2>1, <4>1, <4>2 DEF TypeInv
    <3> QED
      BY <1>0, <1>1, <3>1 DEF DialogInv
  <2> QED
    BY <2>4, <2>5, <2>6, <2>7 DEF IInv
<1> QED
  BY <1>3, <1>4

LEMMA BindKeeps ==
  ASSUME IInv, NEW n \in Nodes, BindIdentity(n)
  PROVE  IInv'
<1>0. TypeInv /\ SessionInv /\ TargetInv /\ DialogInv
  BY DEF IInv
<1>1. /\ state' = [k \in Nodes |-> IF k \in Twins(n) THEN "absent" ELSE state[k]]
      /\ Twins(n) \cap Online(state) = {}
      /\ bound' = (bound \ Twins(n)) \cup {n} /\ highlight' = SetNodes(highlight, state')
      /\ UNCHANGED <<sessions, device, accepted, target, connected, dialog>>
  BY DEF BindIdentity
<1>2. Online(state') = Online(state)
  BY <1>1 DEF Online
<1>3. SessionInv' /\ TargetInv'
  BY <1>0, <1>1, <1>2, QuietSessions
<1>4. TypeInv'
  BY <1>0, <1>1 DEF TypeInv, NodeStates
<1> QED
  BY <1>0, <1>1, <1>3, <1>4, DialogKeeps DEF IInv

LEMMA LinkLostKeeps ==
  ASSUME IInv, NEW n \in Nodes, LinkLost(n)
  PROVE  IInv'
<1>0. TypeInv /\ SessionInv /\ TargetInv /\ DialogInv
  BY DEF IInv
<1>1. /\ n \in Online(state) /\ state' = [state EXCEPT ![n] = "reconnecting"]
      /\ target' = IF target # n THEN target ELSE IF sessions' = <<>> THEN None ELSE Head(sessions')
      /\ highlight' = TellTarget(SetNodes(highlight, state'), state')
      /\ UNCHANGED <<bound, device, accepted, connected, dialog>>
  BY DEF LinkLost
<1>2. Online(state)' = Online(state) \ {n} /\ Online(state') = Online(state) \ {n}
  BY <1>0, <1>1 DEF TypeInv, Online
<1>3. PICK i \in DOMAIN sessions : sessions[i] = n /\ sessions' = RemoveAt(sessions, i)
  BY DEF LinkLost
<1>4. /\ sessions' \in Seq(Nodes) /\ IsInjective(sessions')
      /\ Range(sessions') = Range(sessions) \ {n}
  BY <1>0, <1>3, RemoveSession DEF TypeInv, SessionInv
<1>5. SessionInv'
  BY <1>0, <1>1, <1>2, <1>4 DEF SessionInv
<1>6. Range(sessions') = Online(state')
  BY <1>0, <1>2, <1>4 DEF SessionInv
<1>7. TargetInv' /\ target' \in Nodes \cup {None}
  <2>1. CASE target # n
    <3>1. target' = target /\ highlight = target /\ target \in Online(state')
      BY <1>0, <1>1, <1>2, <2>1 DEF TargetInv
    <3>2. highlight' = target
      BY <1>1, <3>1, SetNodesKeeps DEF TellTarget
    <3> QED
      BY <1>0, <1>2, <3>1, <3>2 DEF TargetInv, TypeInv
  <2>2. CASE target = n /\ sessions' = <<>>
    <3>1. target' = None /\ Online(state') = {}
      BY <1>1, <1>6, <2>2, RangeOfEmpty
    <3>2. highlight' = None
      BY <1>1, <2>2, <3>1, Names DEF TellTarget, SetSelectedNode
    <3> QED
      BY <1>2, <3>1, <3>2 DEF TargetInv
  <2>3. CASE target = n /\ sessions' # <<>>
    <3>1. target' = Head(sessions') /\ target' \in Online(state')
      BY <1>1, <1>4, <1>6, <2>3, HeadInRange
    <3>2. highlight' = target'
      BY <1>1, <1>2, <2>3, <3>1 DEF TellTarget, SetSelectedNode
    <3> QED
      BY <1>2, <3>1, <3>2, OnlineNodes DEF TargetInv
  <2> QED
    BY <2>1, <2>2, <2>3
<1>8. TypeInv'
  BY <1>0, <1>1, <1>4, <1>7 DEF TypeInv, NodeStates
<1> QED
  BY <1>0, <1>1, <1>5, <1>7, <1>8, DialogKeeps DEF IInv

LEMMA DisconnectKeeps == ASSUME IInv, DisconnectDevice PROVE IInv'
<1>0. TypeInv /\ SessionInv /\ TargetInv /\ DialogInv
  BY DEF IInv
<1>1. /\ sessions' = <<>> /\ connected' = FALSE /\ target' = None
      /\ state' = [n \in Nodes |-> IF state[n] = "connected" THEN "absent" ELSE state[n]]
      /\ bound' = bound \ Online(state) /\ highlight' = SetNodes(highlight, state')
      /\ UNCHANGED <<device, accepted, dialog>>
  BY DEF DisconnectDevice, SetConnected
<1>2. Online(state') = {} /\ Online(state)' = {}
  BY <1>1 DEF Online
<1>3. sessions' \in Seq(Nodes)
  BY <1>1
<1>4. TypeInv'
  <2>1. state' \in [Nodes -> NodeStates]
    BY <1>0, <1>1 DEF TypeInv, NodeStates
  <2> QED
    BY <1>0, <1>1, <1>3, <2>1 DEF TypeInv
<1>5. SessionInv'
  BY <1>1, <1>2, RangeOfEmpty DEF SessionInv
<1>6. TargetInv'
  BY <1>1, <1>2, SetNodesEmpty DEF TargetInv
<1> QED
  BY <1>0, <1>1, <1>4, <1>5, <1>6, DialogKeeps DEF IInv

\* What the user does to the nodes and to the server.
LEMMA StartServerKeeps == ASSUME IInv, StartServer PROVE IInv'
<1>0. TypeInv /\ SessionInv /\ TargetInv /\ DialogInv
  BY DEF IInv
<1>1. /\ dialog = None /\ ~ connected /\ connected' = TRUE /\ accepted' = 0
      /\ UNCHANGED <<sessions, state, bound, device, target, highlight, dialog>>
  BY DEF StartServer, UserActs, SetConnected
<1>2. Online(state) = {} /\ Online(state)' = {}
  BY <1>0, <1>1 DEF SessionInv, Online
<1>3. TypeInv'
  BY <1>0, <1>1, Names DEF TypeInv
<1> QED
  BY <1>0, <1>1, <1>2, <1>3 DEF IInv, SessionInv, TargetInv, DialogInv

LEMMA SelectKeeps == ASSUME IInv, NEW n \in Nodes, SelectNode(n) PROVE IInv'
<1>0. TypeInv /\ SessionInv /\ TargetInv /\ DialogInv
  BY DEF IInv
<1>1. /\ n \in Online(state) /\ target' = n /\ highlight' = n
      /\ UNCHANGED <<sessions, state, bound, device, accepted, connected, dialog>>
  BY DEF SelectNode, SetSelectedNode
<1>2. Online(state)' = Online(state)
  BY <1>1 DEF Online
<1> QED
  BY <1>0, <1>1, <1>2, DialogKeeps DEF IInv, TypeInv, SessionInv, TargetInv

LEMMA RemoveOfflineKeeps == ASSUME IInv, NEW n \in Nodes, RemoveOfflineNode(n) PROVE IInv'
<1>0. TypeInv /\ SessionInv /\ TargetInv /\ DialogInv
  BY DEF IInv
<1>1. /\ state[n] = "reconnecting" /\ state' = [state EXCEPT ![n] = "absent"]
      /\ bound' = bound \ {n} /\ highlight' = SetNodes(highlight, state')
      /\ UNCHANGED <<sessions, device, accepted, target, connected, dialog>>
  BY DEF RemoveOfflineNode
<1>2. Online(state') = Online(state)
  BY <1>0, <1>1 DEF TypeInv, Online
<1>3. SessionInv' /\ TargetInv'
  BY <1>0, <1>1, <1>2, QuietSessions
<1>4. TypeInv'
  BY <1>0, <1>1 DEF TypeInv, NodeStates
<1> QED
  BY <1>0, <1>1, <1>3, <1>4, DialogKeeps DEF IInv

\* The archive page changes nothing that the sidebar shows.
LEMMA PageKeeps ==
  ASSUME IInv, DialogInv',
         UNCHANGED <<sessions, state, bound, device, accepted, target, connected, highlight>>
  PROVE  IInv'
<1>0. TypeInv /\ SessionInv /\ TargetInv
  BY DEF IInv
<1>1. Online(state') = Online(state)
  BY DEF Online
<1>2. SessionInv' /\ TargetInv'
  BY <1>0, <1>1, QuietSessions
<1>3. TypeInv'
  BY <1>0 DEF TypeInv
<1> QED
  BY <1>2, <1>3 DEF IInv

LEMMA AskKeeps ==
  ASSUME IInv, NEW kind \in {"export", "clear", "delete"}, Ask(kind)
  PROVE  IInv'
<1> DEFINE it == Selected(kind)
<1>1. /\ dialog' = [kind |-> kind, it |-> it, subject |-> Subject(kind, it)]
      /\ UNCHANGED <<sessions, state, bound, device, accepted, target, connected, highlight>>
  BY DEF Ask, sessionVars
<1> HIDE DEF it
<1>2. /\ dialog'.kind = kind /\ dialog'.it = it /\ dialog'.subject = Subject(kind, it)
  BY <1>1
<1>3. Online(state) \subseteq 1..accepted
  BY DEF IInv, SessionInv
<1>4. kind = "delete" => dialog'.subject = dialog'.it
  BY <1>2 DEF Subject
<1>5. kind # "delete" /\ dialog'.subject # None =>
        dialog'.it \in 1..accepted' /\ device'[dialog'.it] = dialog'.subject
  BY <1>1, <1>2, <1>3 DEF Subject
<1>6. DialogInv'
  BY <1>2, <1>4, <1>5 DEF DialogInv
<1> QED
  BY <1>1, <1>6, PageKeeps

LEMMA AnswerKeeps == ASSUME IInv, AnswerYes \/ AnswerNo PROVE IInv'
<1>1. /\ dialog' = None
      /\ UNCHANGED <<sessions, state, bound, device, accepted, target, connected, highlight>>
  BY DEF AnswerYes, AnswerNo, sessionVars
<1> QED
  BY <1>1, PageKeeps DEF DialogInv

\* The other steps of the page leave the question alone.
LEMMA TableKeeps ==
  ASSUME IInv, \/ Poll
               \/ \E n \in Nodes : ExportFinished(n)
               \/ \E r \in Nodes : SelectRecord(r)
               \/ \E r \in Files : SelectFile(r)
               \/ UNCHANGED vars
  PROVE  IInv'
<1>1. UNCHANGED <<sessions, state, bound, device, accepted, target, connected, highlight, dialog>>
  BY DEF Poll, ExportFinished, SelectRecord, SelectFile, sessionVars, vars
<1>2. DialogInv'
  BY <1>1, DialogKeeps DEF IInv
<1> QED
  BY <1>1, <1>2, PageKeeps

LEMMA NextIInv == IInv /\ [Next]_vars => IInv'
<1> SUFFICES ASSUME IInv, [Next]_vars PROVE IInv'
  OBVIOUS
<1>1. CASE Links
  BY <1>1, BindKeeps, LinkLostKeeps DEF Links
<1>2. CASE User
  <2>1. CASE StartServer \/ DisconnectDevice
    BY <2>1, StartServerKeeps, DisconnectKeeps
  <2>2. CASE AnswerYes \/ AnswerNo
    BY <2>2, AnswerKeeps
  <2>3. CASE \E n \in Nodes : SelectNode(n) \/ RemoveOfflineNode(n)
    BY <2>3, SelectKeeps, RemoveOfflineKeeps
  <2>4. CASE (\E r \in Nodes : SelectRecord(r)) \/ (\E r \in Files : SelectFile(r))
    BY <2>4, TableKeeps
  <2>5. CASE \E kind \in {"export", "clear", "delete"} : Ask(kind)
    BY <2>5, AskKeeps
  <2> QED
    BY <1>2, <2>1, <2>2, <2>3, <2>4, <2>5 DEF User
<1>3. CASE Poll \/ UNCHANGED vars \/ \E n \in Nodes : ExportFinished(n)
  BY <1>3, TableKeeps
<1>4. CASE \E d \in Devices : GatewayConnects(d)
  BY <1>4, GatewayKeeps
<1> QED
  BY <1>1, <1>2, <1>3, <1>4 DEF Next

LEMMA InvariantHolds == Spec => []IInv
BY InitIInv, NextIInv, PTL DEF Spec

-----------------------------------------------------------------------------
(* The theorems.                                                             *)

\* The highlighted node is the one that commands go to, and the node controls are
\* on exactly while there is one, for every number of nodes and every order of
\* their ids (NodeSidebar.set_nodes, _on_thread_finished, _refresh_node_controls).
THEOREM HighlightFollowsTarget == Spec => []HighlightIsTarget
<1>1. IInv => HighlightIsTarget
  BY OnlineNodes DEF IInv, SessionInv, TargetInv, HighlightIsTarget, NodeReady, NodeAvailable
<1> QED
  BY <1>1, InvariantHolds, PTL

\* A step deletes a file or reaches a device's SD card only if the question that was
\* answered was about it.
LEMMA StepOnlyConfirmed ==
  ASSUME IInv, [Next]_vars
  PROVE  /\ \A d \in erased' \ erased : dialog.subject \in {None, d}
         /\ \A f \in files \ files' : dialog.subject = f
<1>1. CASE AnswerYes
  <2>1. DialogInv /\ dialog # None /\ Confirmed = dialog.it
    BY <1>1 DEF AnswerYes, IInv, Confirmed
  <2>2. ASSUME dialog.kind # "delete" PROVE dialog.subject \in {None, device[Confirmed]}
    BY <2>1, <2>2 DEF DialogInv
  <2>3. CASE dialog.kind = "export" /\ StartExport(Confirmed)
    BY <2>2, <2>3 DEF StartExport
  <2>4. CASE dialog.kind = "clear" /\ ClearSd(Confirmed)
    BY <2>2, <2>4 DEF ClearSd, libraryVars
  <2>5. CASE dialog.kind = "delete" /\ DeleteExport(Confirmed)
    BY <2>1, <2>5 DEF DeleteExport, DialogInv
  <2>6. CASE Refused(dialog.kind, Confirmed)
    BY <2>6 DEF Refused, libraryVars
  <2> QED
    BY <1>1, <2>3, <2>4, <2>5, <2>6 DEF AnswerYes
<1>2. CASE ~ AnswerYes
  <2>1. UNCHANGED <<erased, files>>
    BY <1>2 DEF Next, Links, User, BindIdentity, LinkLost, StartServer, DisconnectDevice, AnswerNo,
                SelectNode, RemoveOfflineNode, SelectRecord, SelectFile, Ask, Poll, GatewayConnects,
                ExportFinished, libraryVars, vars
  <2> QED
    BY <2>1
<1> QED
  BY <1>1, <1>2

\* An export, a CLEAR SD or a deletion reaches what was selected when the question
\* was asked: no reconnect, fail-over, rebinding or refreshed table in between
\* redirects it (_confirm_export, _confirm_clear, _delete_selected_export).
THEOREM AnswersReachTheirSubject == Spec => OnlyConfirmed
<1>1. IInv /\ [Next]_vars =>
        [/\ \A d \in erased' \ erased : dialog.subject \in {None, d}
         /\ \A f \in files \ files' : dialog.subject = f]_vars
  BY StepOnlyConfirmed
<1> QED
  BY <1>1, InvariantHolds, PTL DEF Spec, OnlyConfirmed
=============================================================================

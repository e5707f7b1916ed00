---------------------------- MODULE ExportProofs ----------------------------
(***************************************************************************)
(* Proofs about Export: its types, and that until a cancel, a timeout or a *)
(* lost link closes an export the archive is moved and never lost.  IInv   *)
(* of Export is the inductive invariant.  The lemmas on Moving carry the   *)
(* argument: the frames of the running export are split between the file   *)
(* and the queue, and each step moves the border between the two by one.   *)
(***************************************************************************)
EXTENDS Export, FiniteSetTheorems, TLAPS

-----------------------------------------------------------------------------
(* Commands, replies and frames.                                             *)

(* The records of the model have the types TypeOK gives them.                *)
LEMMA RecordTypes ==
  /\ \A c \in {"stop", "start", "query", "clear"} :
       Command(c) \in Commands /\ Command(c).kind # "export"
  /\ \A k \in Exports : /\ ExportOf(k) \in Commands
                        /\ ExportOf(k).kind = "export" /\ ExportOf(k).export = k
  /\ \A l \in {"begin", "empty", "aborted", "end", "acquire"} :
       Line(l) \in Item /\ Line(l).kind = l
  /\ \A s \in {"IDLE", "ACQUIRE", "EXPORT"} : State(s) \in Item /\ State(s).kind = "state"
  /\ \A f \in Frame : /\ FrameOf(f) \in Item
                      /\ FrameOf(f).kind = "frame" /\ FrameOf(f).frame = f
  BY DEF Command, ExportOf, Line, State, FrameOf, Commands, Item

(* A frame on the way is a frame of the archive, a state reply tells a state. *)
LEMMA ItemFacts ==
  ASSUME NEW x \in Item
  PROVE  /\ x.kind \in {"begin", "empty", "aborted", "end", "acquire", "state", "frame"}
         /\ x.kind = "frame" => x.frame \in Frame
         /\ x.kind = "state" => x.acq \in {"IDLE", "ACQUIRE", "EXPORT"}
  BY DEF Item

(* What updated_from_cli makes of a reply: only the export's own lines count *)
(* a revision, and only its last line ends it.                               *)
LEMMA MirrorStep ==
  ASSUME NEW m \in Mirror, NEW x \in Item, x.kind # "frame"
  PROVE  /\ UpdatedFromCli(m, x) \in Mirror
         /\ x.kind \in {"acquire", "state"} =>
              /\ UpdatedFromCli(m, x).phase = m.phase
              /\ UpdatedFromCli(m, x).revision = m.revision
         /\ x.kind = "begin" => UpdatedFromCli(m, x).phase = "IN_PROGRESS"
         /\ x.kind \in Traffic => UpdatedFromCli(m, x).revision = m.revision + 1
         /\ UpdatedFromCli(m, x).phase = "COMPLETE" => x.kind = "end" \/ m.phase = "COMPLETE"
         /\ x.kind \in Last3 /\ UpdatedFromCli(m, x).phase = "COMPLETE" => x.kind = "end"
<1>0. x.kind \in {"begin", "empty", "aborted", "end", "acquire", "state"}
  BY ItemFacts
<1>e. ASSUME NEW p \in Terminal \cup {"IN_PROGRESS"}
      PROVE  Event(m, p) \in Mirror /\ Event(m, p).phase = p /\ Event(m, p).revision = m.revision + 1
  <2> DEFINE a == [m EXCEPT !.phase = p]
  <2>1. m.revision \in Nat
    BY DEF Mirror
  <2>2. a \in Mirror /\ a.phase = p /\ a.revision = m.revision
    BY DEF Mirror
  <2>3. Event(m, p) = [a EXCEPT !.revision = m.revision + 1]
    BY Zenon DEF Event
  <2> HIDE DEF a
  <2>4. /\ [a EXCEPT !.revision = m.revision + 1] \in Mirror
        /\ [a EXCEPT !.revision = m.revision + 1].phase = a.phase
        /\ [a EXCEPT !.revision = m.revision + 1].revision = m.revision + 1
    BY <2>1, <2>2 DEF Mirror
  <2> QED
    BY <2>2, <2>3, <2>4
<1>f. ASSUME NEW y \in Mirror
      PROVE  /\ [y EXCEPT !.target = "SET"] \in Mirror
             /\ [y EXCEPT !.target = "SET"].phase = y.phase
             /\ [y EXCEPT !.target = "SET"].revision = y.revision
             /\ [y EXCEPT !.acq = "IDLE", !.target = "NONE"] \in Mirror
             /\ [y EXCEPT !.acq = "IDLE", !.target = "NONE"].phase = y.phase
             /\ [y EXCEPT !.acq = "IDLE", !.target = "NONE"].revision = y.revision
  BY DEF Mirror
<1>1. CASE x.kind = "begin"
  <2>1. Event(m, "IN_PROGRESS") \in Mirror
    BY <1>e
  <2>2. UpdatedFromCli(m, x) = [Event(m, "IN_PROGRESS") EXCEPT !.target = "SET"]
    BY <1>1, <2>1 DEF UpdatedFromCli, Mirror
  <2>3. /\ UpdatedFromCli(m, x) \in Mirror
        /\ UpdatedFromCli(m, x).phase = Event(m, "IN_PROGRESS").phase
        /\ UpdatedFromCli(m, x).revision = Event(m, "IN_PROGRESS").revision
    BY <1>f, <2>1, <2>2, Zenon
  <2> QED
    BY <1>1, <1>e, <2>3 DEF Terminal, Traffic, Last3
<1>2. CASE x.kind = "empty"
  BY <1>2, <1>e DEF UpdatedFromCli, Terminal, Traffic, Last3
<1>3. CASE x.kind = "aborted"
  BY <1>3, <1>e DEF UpdatedFromCli, Terminal, Traffic, Last3
<1>4. CASE x.kind = "end"
  BY <1>4, <1>e, <1>f DEF UpdatedFromCli, Terminal, Traffic, Last3
<1>5. CASE x.kind = "acquire"
  BY <1>5 DEF UpdatedFromCli, Event, Mirror, Terminal, Traffic, Last3
<1>6. CASE x.kind = "state"
  BY <1>6, ItemFacts DEF UpdatedFromCli, Event, TargetOf, Mirror, Terminal, Traffic, Last3
<1> QED BY <1>0, <1>1, <1>2, <1>3, <1>4, <1>5, <1>6

-----------------------------------------------------------------------------
(* Queues.                                                                   *)

(* What Append does to the places of a queue.                                *)
LEMMA AppendFacts ==
  ASSUME NEW S, NEW s \in Seq(S), NEW e \in S
  PROVE  /\ Append(s, e) \in Seq(S) /\ DOMAIN Append(s, e) = 1..(Len(s) + 1)
         /\ DOMAIN s = 1..Len(s) /\ Len(s) \in Nat
         /\ \A i \in DOMAIN s : Append(s, e)[i] = s[i]
         /\ Append(s, e)[Len(s) + 1] = e
  OBVIOUS

(* What Tail does to the places of a queue.                                  *)
LEMMA TailFacts ==
  ASSUME NEW S, NEW s \in Seq(S), s # <<>>
  PROVE  /\ Tail(s) \in Seq(S) /\ Head(s) \in S /\ Head(s) = s[1]
         /\ Len(s) \in Nat \ {0} /\ DOMAIN s = 1..Len(s) /\ 1 \in DOMAIN s
         /\ DOMAIN Tail(s) = 1..(Len(s) - 1)
         /\ \A i \in DOMAIN Tail(s) : Tail(s)[i] = s[i + 1] /\ i + 1 \in DOMAIN s
  OBVIOUS

-----------------------------------------------------------------------------
(* The frames under way.                                                     *)

\* The frames in a queue after something else is added to it, or a frame, or its first
\* entry is taken.
LEMMA PlacesAppended ==
  ASSUME NEW d \in Seq(Item), NEW x \in Item
  PROVE  /\ FramePlaces(Append(d, x)) =
              IF x.kind = "frame" THEN FramePlaces(d) \cup {Len(d) + 1} ELSE FramePlaces(d)
         /\ \A j \in FramePlaces(d) : Append(d, x)[j] = d[j] /\ j < Len(d) + 1 /\ j \in Nat
         /\ Append(d, x)[Len(d) + 1] = x /\ Len(d) \in Nat
<1>1. /\ DOMAIN Append(d, x) = 1..(Len(d) + 1) /\ DOMAIN d = 1..Len(d) /\ Len(d) \in Nat
      /\ \A i \in DOMAIN d : Append(d, x)[i] = d[i]
      /\ Append(d, x)[Len(d) + 1] = x
  BY AppendFacts
<1> QED
  BY <1>1 DEF FramePlaces

LEMMA PlacesTaken ==
  ASSUME NEW d \in Seq(Item), d # <<>>
  PROVE  /\ \A j \in FramePlaces(Tail(d)) : j + 1 \in FramePlaces(d) /\ Tail(d)[j] = d[j + 1] /\ j \in Nat \ {0}
         /\ \A j \in FramePlaces(d) : /\ j \in Nat \ {0}
                                      /\ j # 1 => j - 1 \in FramePlaces(Tail(d)) /\ Tail(d)[j - 1] = d[j]
         /\ 1 \in FramePlaces(d) <=> Head(d).kind = "frame"
         /\ Head(d) = d[1]
<1>1. /\ Head(d) = d[1] /\ Len(d) \in Nat \ {0} /\ DOMAIN d = 1..Len(d) /\ 1 \in DOMAIN d
      /\ DOMAIN Tail(d) = 1..(Len(d) - 1)
      /\ \A i \in DOMAIN Tail(d) : Tail(d)[i] = d[i + 1]
  BY TailFacts
<1>2. ASSUME NEW j \in DOMAIN d, j # 1 PROVE j - 1 \in DOMAIN Tail(d) /\ Tail(d)[j - 1] = d[j]
  <2>1. j - 1 \in DOMAIN Tail(d) /\ (j - 1) + 1 = j
    BY <1>1, <1>2
  <2> QED BY <1>1, <2>1
<1> QED
  BY <1>1, <1>2 DEF FramePlaces

(* A reply that is not a frame changes nothing of what is moving.            *)
LEMMA MovingReply ==
  ASSUME NEW d \in Seq(Item), NEW x \in Item, x.kind # "frame", NEW f, NEW k, NEW n,
         Moving(f, d, k, n)
  PROVE  Moving(f, Append(d, x), k, n)
<1>1. /\ FramePlaces(Append(d, x)) = FramePlaces(d)
      /\ \A j \in FramePlaces(d) : Append(d, x)[j] = d[j]
  BY PlacesAppended
<1> QED
  BY <1>1, Zenon DEF Moving, OnTheWay

(* The device sends the next frame.                                          *)
LEMMA MovingSend ==
  ASSUME NEW d \in Seq(Item), NEW x \in Item, NEW f \in Seq(Frame), NEW k, NEW n \in Nat,
         Moving(f, d, k, n), x.kind = "frame", x.frame = <<k, n + 1>>
  PROVE  Moving(f, Append(d, x), k, n + 1)
<1> DEFINE e == Append(d, x)
<1>1. /\ FramePlaces(e) = FramePlaces(d) \cup {Len(d) + 1}
      /\ \A j \in FramePlaces(d) : e[j] = d[j] /\ j < Len(d) + 1 /\ j \in Nat
      /\ e[Len(d) + 1] = x /\ Len(d) \in Nat
  BY PlacesAppended
<1> HIDE DEF e
<1>2. /\ Len(f) \in Nat /\ Len(f) <= n /\ f = FirstFrames(k, Len(f))
      /\ \A j \in FramePlaces(d) : \E i \in (Len(f) + 1)..n : d[j].frame = <<k, i>>
      /\ \A i \in (Len(f) + 1)..n : \E j \in FramePlaces(d) : d[j].frame = <<k, i>>
      /\ \A j, l \in FramePlaces(d) : j < l => d[j].frame[2] < d[l].frame[2]
  BY DEF Moving, OnTheWay
<1>3. ASSUME NEW j \in FramePlaces(e) PROVE \E i \in (Len(f) + 1)..(n + 1) : e[j].frame = <<k, i>>
  <2>1. CASE j = Len(d) + 1
    <3>1. n + 1 \in (Len(f) + 1)..(n + 1) /\ e[j].frame = <<k, n + 1>>
      BY <1>1, <1>2, <2>1
    <3> QED BY <3>1
  <2>2. CASE j \in FramePlaces(d)
    <3>1. PICK i \in (Len(f) + 1)..n : d[j].frame = <<k, i>>
      BY <1>2, <2>2
    <3>2. i \in (Len(f) + 1)..(n + 1) /\ e[j].frame = <<k, i>>
      BY <1>1, <1>2, <2>2, <3>1
    <3> QED BY <3>2
  <2> QED BY <1>1, <2>1, <2>2
<1>4. ASSUME NEW i \in (Len(f) + 1)..(n + 1) PROVE \E j \in FramePlaces(e) : e[j].frame = <<k, i>>
  <2>1. CASE i = n + 1
    BY <1>1, <2>1
  <2>2. CASE i \in (Len(f) + 1)..n
    BY <1>1, <1>2, <2>2
  <2> QED BY <1>2, <2>1, <2>2
<1>5. ASSUME NEW j \in FramePlaces(e), NEW l \in FramePlaces(e), j < l
      PROVE  e[j].frame[2] < e[l].frame[2]
  <2>1. j \in FramePlaces(d)
    BY <1>1, <1>5
  <2>2. PICK i \in (Len(f) + 1)..n : d[j].frame = <<k, i>>
    BY <1>2, <2>1
  <2>3. CASE l = Len(d) + 1
    <3>1. e[l].frame = <<k, n + 1>> /\ e[j].frame = <<k, i>>
      BY <1>1, <2>1, <2>2, <2>3
    <3>2. e[l].frame[2] = n + 1 /\ e[j].frame[2] = i
      BY <3>1
    <3> QED BY <1>2, <3>2
  <2>4. CASE l \in FramePlaces(d)
    BY <1>1, <1>2, <1>5, <2>1, <2>4
  <2> QED BY <1>1, <2>3, <2>4
<1>6. Len(f) <= n + 1
  BY <1>2
<1> QED
  BY <1>2, <1>3, <1>4, <1>5, <1>6 DEF Moving, OnTheWay, e

(* A reply arrives.                                                          *)
LEMMA MovingArrival ==
  ASSUME NEW d \in Seq(Item), d # <<>>, Head(d).kind # "frame", NEW f, NEW k, NEW n,
         Moving(f, d, k, n)
  PROVE  Moving(f, Tail(d), k, n)
<1> DEFINE e == Tail(d)
<1>1. /\ \A j \in FramePlaces(e) : j + 1 \in FramePlaces(d) /\ e[j] = d[j + 1] /\ j \in Nat \ {0}
      /\ \A j \in FramePlaces(d) : j - 1 \in FramePlaces(e) /\ e[j - 1] = d[j]
  BY PlacesTaken
<1> HIDE DEF e
<1>2. /\ \A j \in FramePlaces(d) : \E i \in (Len(f) + 1)..n : d[j].frame = <<k, i>>
      /\ \A i \in (Len(f) + 1)..n : \E j \in FramePlaces(d) : d[j].frame = <<k, i>>
      /\ \A j, l \in FramePlaces(d) : j < l => d[j].frame[2] < d[l].frame[2]
  BY DEF Moving, OnTheWay
<1>3. ASSUME NEW j \in FramePlaces(e) PROVE \E i \in (Len(f) + 1)..n : e[j].frame = <<k, i>>
  <2>1. j + 1 \in FramePlaces(d) /\ e[j] = d[j + 1]
    BY <1>1, Zenon
  <2>2. PICK i \in (Len(f) + 1)..n : d[j + 1].frame = <<k, i>>
    BY <1>2, <2>1, Zenon
  <2> QED BY <2>1, <2>2, Zenon
<1>4. ASSUME NEW i \in (Len(f) + 1)..n PROVE \E j \in FramePlaces(e) : e[j].frame = <<k, i>>
  <2>1. PICK j \in FramePlaces(d) : d[j].frame = <<k, i>>
    BY <1>2, Zenon
  <2> QED BY <1>1, <2>1, Zenon
<1>5. \A j, l \in FramePlaces(e) : j < l => e[j].frame[2] < e[l].frame[2]
  <2> SUFFICES ASSUME NEW j \in FramePlaces(e), NEW l \in FramePlaces(e), j < l
               PROVE  e[j].frame[2] < e[l].frame[2]
    OBVIOUS
  <2>1. j + 1 \in FramePlaces(d) /\ l + 1 \in FramePlaces(d) /\ j + 1 < l + 1
        /\ e[j] = d[j + 1] /\ e[l] = d[l + 1]
    BY <1>1
  <2> QED BY <1>2, <2>1
<1> QED
  BY <1>3, <1>4, <1>5 DEF Moving, OnTheWay, e

(* A frame arrives: it is the next one of the file.                          *)
LEMMA MovingSave ==
  ASSUME NEW d \in Seq(Item), d # <<>>, Head(d).kind = "frame", NEW f \in Seq(Frame), NEW k,
         NEW n \in Nat, Moving(f, d, k, n)
  PROVE  Head(d).frame[1] = k /\ Moving(Append(f, Head(d).frame), Tail(d), k, n)
<1> DEFINE e == Tail(d)
<1> DEFINE a == Len(f) + 1
<1>1. /\ \A j \in FramePlaces(e) : j + 1 \in FramePlaces(d) /\ e[j] = d[j + 1] /\ j \in Nat \ {0}
      /\ \A j \in FramePlaces(d) : j \in Nat \ {0} /\ (j # 1 => j - 1 \in FramePlaces(e) /\ e[j - 1] = d[j])
      /\ 1 \in FramePlaces(d) /\ Head(d) = d[1]
  BY PlacesTaken
<1> HIDE DEF e
<1>2. /\ Len(f) \in Nat /\ Len(f) <= n /\ f = FirstFrames(k, Len(f))
      /\ \A j \in FramePlaces(d) : \E i \in a..n : d[j].frame = <<k, i>>
      /\ \A i \in a..n : \E j \in FramePlaces(d) : d[j].frame = <<k, i>>
      /\ \A j, l \in FramePlaces(d) : j < l => d[j].frame[2] < d[l].frame[2]
  <2>1. Len(f) \in Nat
    BY ONLY f \in Seq(Frame)
  <2> QED BY ONLY <2>1, Moving(f, d, k, n), Zenon DEF Moving, OnTheWay
<1>3. d[1].frame = <<k, a>> /\ a <= n
  <2>1. PICK i \in a..n : d[1].frame = <<k, i>>
    BY <1>1, <1>2
  <2>2. a \in a..n
    BY <1>2, <2>1
  <2>3. PICK j \in FramePlaces(d) : d[j].frame = <<k, a>>
    BY <1>2, <2>2
  <2>4. CASE j = 1
    BY <1>2, <2>2, <2>3, <2>4
  <2>5. CASE j # 1
    <3>1. 1 < j
      BY <1>1, <2>5
    <3>2. i < a
      <4>1. d[1].frame[2] < d[j].frame[2]
        BY ONLY <1>1, <1>2, <2>3, <3>1, Zenon
      <4> QED BY ONLY <2>1, <2>3, <4>1
    <3> QED BY <1>2, <2>1, <3>2
  <2> QED BY <2>4, <2>5
<1>4. /\ Len(Append(f, <<k, a>>)) = a /\ Append(f, <<k, a>>) = FirstFrames(k, a)
  <2>1. f = [i \in 1..Len(f) |-> <<k, i>>]
    BY <1>2 DEF FirstFrames
  <2>2. Append(f, <<k, a>>) = [i \in 1..(Len(f) + 1) |-> IF i = Len(f) + 1 THEN <<k, a>> ELSE f[i]]
    OBVIOUS
  <2>3. Len(Append(f, <<k, a>>)) = a
    OBVIOUS
  <2>4. ASSUME NEW i \in 1..(Len(f) + 1) PROVE (IF i = Len(f) + 1 THEN <<k, a>> ELSE f[i]) = <<k, i>>
    BY <1>2, <2>1
  <2> QED BY <2>2, <2>3, <2>4 DEF FirstFrames
<1>5. ASSUME NEW j \in FramePlaces(e) PROVE \E i \in (a + 1)..n : e[j].frame = <<k, i>>
  <2>1. /\ j + 1 \in FramePlaces(d) /\ e[j] = d[j + 1] /\ 1 < j + 1
    BY <1>1
  <2>2. PICK i \in a..n : d[j + 1].frame = <<k, i>>
    BY <1>2, <2>1
  <2>3. a < i
    <3>1. d[1].frame[2] < d[j + 1].frame[2]
      BY ONLY <1>1, <1>2, <2>1, Zenon
    <3> QED BY ONLY <1>3, <2>2, <3>1
  <2>4. i \in (a + 1)..n
    BY <1>2, <2>3
  <2> QED BY <2>1, <2>2, <2>4
<1>6. ASSUME NEW i \in (a + 1)..n PROVE \E j \in FramePlaces(e) : e[j].frame = <<k, i>>
  <2>1. PICK j \in FramePlaces(d) : d[j].frame = <<k, i>>
    BY <1>2
  <2>2. j # 1
    BY <1>2, <1>3, <2>1
  <2> QED BY <1>1, <2>1, <2>2
<1>7. ASSUME NEW j \in FramePlaces(e), NEW l \in FramePlaces(e), j < l
      PROVE  e[j].frame[2] < e[l].frame[2]
  <2>1. j + 1 \in FramePlaces(d) /\ l + 1 \in FramePlaces(d) /\ j + 1 < l + 1
        /\ e[j] = d[j + 1] /\ e[l] = d[l + 1]
    BY <1>1, <1>7
  <2> QED BY <1>2, <2>1
<1>8. Head(d).frame = <<k, a>>
  BY <1>1, <1>3
<1> DEFINE g == Append(f, Head(d).frame)
<1>9. Len(g) = a /\ g = FirstFrames(k, a)
  BY <1>4, <1>8
<1> HIDE DEF g
<1>10. OnTheWay(e, k, a + 1, n)
  BY <1>5, <1>6, <1>7 DEF OnTheWay
<1>11. Moving(g, e, k, n)
  BY <1>3, <1>9, <1>10 DEF Moving
<1> QED
  BY <1>8, <1>11 DEF g, e

(* Without a frame on the way, what moves is all in the file.                *)
LEMMA MovingOver ==
  ASSUME NEW d, FramePlaces(d) = {}, NEW f \in Seq(Frame), NEW k, NEW n \in Nat
  PROVE  Moving(f, d, k, n) <=> f = FirstFrames(k, n)
<1>1. ASSUME Moving(f, d, k, n) PROVE f = FirstFrames(k, n)
  <2>1. Len(f) \in Nat /\ Len(f) <= n /\ f = FirstFrames(k, Len(f))
    BY <1>1 DEF Moving
  <2>2. ~ (Len(f) < n)
    <3>1. SUFFICES ASSUME Len(f) < n PROVE FALSE
      OBVIOUS
    <3>2. Len(f) + 1 \in (Len(f) + 1)..n
      BY <2>1, <3>1
    <3> QED BY <1>1, <3>2 DEF Moving, OnTheWay
  <2>3. Len(f) = n
    BY <2>1, <2>2
  <2> QED BY <2>1, <2>3
<1>2. ASSUME f = FirstFrames(k, n) PROVE Moving(f, d, k, n)
  <2>1. DOMAIN f = 1..n /\ DOMAIN f = 1..Len(f) /\ Len(f) \in Nat
    BY <1>2 DEF FirstFrames
  <2>2. Len(f) = n
    BY <2>1
  <2>3. (Len(f) + 1)..n = {}
    BY <2>2
  <2> QED BY <1>2, <2>2, <2>3 DEF Moving, OnTheWay
<1> QED BY <1>1, <1>2

LEMMA NothingFirst == \A k : FirstFrames(k, 0) = <<>>
  BY DEF FirstFrames

-----------------------------------------------------------------------------
(* Commands under way.                                                       *)

LEMMA Bounds ==
  /\ Frames \in Nat \ {0} /\ AutoRetries \in Nat /\ MaxExports \in Nat /\ MaxLosses \in Nat
  /\ None \notin Exports /\ Exports \subseteq Nat
  BY ExportAssumption DEF Exports

(* Commands that do not start an export leave those that do where they were. *)
LEMMA Asked ==
  ASSUME NEW c \in Seq(Commands), NEW a \in Seq(Commands),
         \A i \in DOMAIN a : a[i].kind # "export"
  PROVE  /\ c \o a \in Seq(Commands)
         /\ \A i \in DOMAIN (c \o a) :
              (c \o a)[i].kind = "export" => i \in DOMAIN c /\ (c \o a)[i] = c[i]
<1>1. /\ DOMAIN (c \o a) = 1..(Len(c) + Len(a)) /\ DOMAIN c = 1..Len(c) /\ DOMAIN a = 1..Len(a)
      /\ Len(c) \in Nat /\ Len(a) \in Nat /\ c \o a \in Seq(Commands)
      /\ \A i \in 1..Len(c) : (c \o a)[i] = c[i]
      /\ \A i \in (Len(c) + 1)..(Len(c) + Len(a)) : (c \o a)[i] = a[i - Len(c)]
  OBVIOUS
<1>2. ASSUME NEW i \in DOMAIN (c \o a), i \notin DOMAIN c PROVE (c \o a)[i].kind # "export"
  <2>1. /\ i \in (Len(c) + 1)..(Len(c) + Len(a)) /\ i - Len(c) \in DOMAIN a
    BY <1>1, <1>2
  <2> QED BY <1>1, <2>1
<1> QED BY <1>1, <1>2

LEMMA AskedOnce ==
  ASSUME NEW c \in Seq(Commands), NEW a \in Commands
  PROVE  /\ c \o <<a>> \in Seq(Commands)
         /\ DOMAIN c = 1..Len(c) /\ Len(c) \in Nat
         /\ \A i \in DOMAIN (c \o <<a>>) :
              \/ i \in DOMAIN c /\ (c \o <<a>>)[i] = c[i]
              \/ i = Len(c) + 1 /\ (c \o <<a>>)[i] = a
  OBVIOUS

LEMMA AskedExport ==
  ASSUME NEW c \in Seq(Commands), NEW k \in Exports,
         \A i \in DOMAIN c : c[i].kind = "export" => c[i].export \in Exports
  PROVE  /\ c \o <<ExportOf(k)>> \in Seq(Commands)
         /\ \A i \in DOMAIN (c \o <<ExportOf(k)>>) :
              (c \o <<ExportOf(k)>>)[i].kind = "export" => (c \o <<ExportOf(k)>>)[i].export \in Exports
<1>1. ExportOf(k) \in Commands /\ ExportOf(k).export = k
  BY RecordTypes, Zenon
<1> DEFINE a == ExportOf(k)
<1> HIDE DEF a
<1>2. a \in Commands /\ a.export \in Exports
  BY <1>1 DEF a
<1>3. /\ c \o <<a>> \in Seq(Commands)
      /\ \A i \in DOMAIN (c \o <<a>>) : \/ i \in DOMAIN c /\ (c \o <<a>>)[i] = c[i]
                                        \/ (c \o <<a>>)[i] = a
  BY <1>2, AskedOnce
<1>4. \A i \in DOMAIN (c \o <<a>>) : (c \o <<a>>)[i].kind = "export" => (c \o <<a>>)[i].export \in Exports
  BY <1>2, <1>3, Zenon
<1> QED BY <1>3, <1>4, Zenon DEF a

(* The commands that ask for no export.                                      *)
LEMMA PlainCommands ==
  /\ \A k \in {"stop", "start", "query", "clear"} :
       /\ <<Command(k)>> \in Seq(Commands)
       /\ \A i \in DOMAIN <<Command(k)>> : <<Command(k)>>[i].kind # "export"
  /\ <<Command("stop"), Command("query")>> \in Seq(Commands)
  /\ \A i \in DOMAIN <<Command("stop"), Command("query")>> :
       <<Command("stop"), Command("query")>>[i].kind # "export"
  BY RecordTypes

(* One command more, that asks for no export.                                *)
LEMMA PlainIssue ==
  ASSUME commands \in Seq(Commands), NEW k \in {"stop", "start", "query", "clear"}, Issue(k)
  PROVE  /\ commands' \in Seq(Commands)
         /\ \A i \in DOMAIN commands' :
              commands'[i].kind = "export" => i \in DOMAIN commands /\ commands'[i] = commands[i]
<1>1. commands' = commands \o <<Command(k)>>
  BY DEF Issue, Enqueue
<1> QED BY <1>1, Asked, PlainCommands

(* The commands of a cancel.                                                 *)
LEMMA PlainCancel ==
  ASSUME commands \in Seq(Commands), CancelExport
  PROVE  /\ commands' \in Seq(Commands)
         /\ \A i \in DOMAIN commands' :
              commands'[i].kind = "export" => i \in DOMAIN commands /\ commands'[i] = commands[i]
<1>1. commands' = commands \o <<Command("stop"), Command("query")>>
  BY DEF CancelExport, Enqueue
<1> QED BY <1>1, Asked, PlainCommands

(* The commands after one is taken.                                          *)
LEMMA Taken ==
  ASSUME commands \in Seq(Commands), NEW k, Take(k)
  PROVE  /\ commands' \in Seq(Commands) /\ 1 \in DOMAIN commands /\ Head(commands) = commands[1]
         /\ commands[1].kind = k /\ commands[1] \in Commands
         /\ \A i \in DOMAIN commands' :
              commands'[i] = commands[i + 1] /\ i + 1 \in DOMAIN commands /\ i \in Nat \ {0}
  BY TailFacts DEF Take

(* A reply is sent or lost.                                                  *)
LEMMA Replied ==
  ASSUME TypeOK, NEW x \in Item, Reply(x)
  PROVE  /\ down' \in Seq(Item) /\ losses' \in 0..MaxLosses
         /\ down' = Append(down, x) \/ down' = down
<1>1. IsFiniteSet(failed)
  <2>1. IsFiniteSet(1..MaxExports)
    BY Bounds, FS_Interval
  <2>2. failed \subseteq 1..MaxExports
    BY DEF TypeOK, Exports
  <2> QED BY <2>1, <2>2, FS_Subset
<1>2. Cardinality(failed) \in Nat
  BY <1>1, FS_CardinalityType
<1>3. down \in Seq(Item) /\ losses \in 0..MaxLosses
  BY DEF TypeOK
<1> QED BY <1>2, <1>3, Bounds, AppendFacts DEF Reply

-----------------------------------------------------------------------------
(* Types.                                                                    *)

LEMMA NewMirrorType == NewMirror \in Mirror
  BY DEF NewMirror, Mirror

LEMMA InitType == Init => TypeInv
<1> SUFFICES ASSUME Init PROVE TypeInv
  OBVIOUS
<1>1. status \in [Exports -> Status] /\ file \in [Exports -> Seq(Frame)]
  BY DEF Init, Status
<1>2. commands \in Seq(Commands) /\ down \in Seq(Item) /\ DOMAIN commands = {}
  BY DEF Init
<1>3. mirror \in Mirror
  BY NewMirrorType DEF Init
<1>b. cancelling \in BOOLEAN /\ counted \in BOOLEAN /\ disturbed \in BOOLEAN /\ alive \in BOOLEAN /\ ring \in BOOLEAN
  BY Zenon DEF Init
<1>n. since \in Nat /\ retries \in 0..AutoRetries /\ exports \in 0..MaxExports /\ losses \in 0..MaxLosses /\ sent \in 0..Frames
  BY Bounds DEF Init
<1>4. TypeOK
  BY <1>1, <1>2, <1>3, <1>b, <1>n, Zenon DEF Init, TypeOK
<1> QED BY <1>2, <1>4, Bounds DEF Init, TypeInv

(* Each action keeps the types, and leaves room for the retries of the       *)
(* export it starts.                                                         *)
LEMMA NextType ==
  ASSUME TypeInv, [Next]_vars
  PROVE  TypeInv'
<1> USE DEF TypeInv, TypeOK, vars, guiVars, fileVars, deviceVars, deviceUnchanged
<1>0. /\ commands \in Seq(Commands) /\ down \in Seq(Item) /\ mirror \in Mirror
      /\ file \in [Exports -> Seq(Frame)] /\ status \in [Exports -> Status]
      /\ mirror.revision \in Nat /\ Terminal \subseteq Status
      /\ mirror.phase \in Terminal \cup {"NONE", "IN_PROGRESS"}
      /\ "ABORTED" \in Status /\ "stalled" \in Status /\ "in_progress" \in Status
  BY DEF Mirror, Status, Terminal
<1>1. CASE StartExport
  <2>1. exports + 1 \in Exports /\ exports + 1 + AutoRetries <= MaxExports
    <3>1. exports \in 0..MaxExports /\ exports + AutoRetries < MaxExports
      BY <1>1 DEF StartExport
    <3> QED BY ONLY <3>1, Bounds DEF Exports
  <2>2. commands' = commands \o <<ExportOf(exports + 1)>>
    BY <1>1 DEF StartExport, OpenArchive, Enqueue
  <2>3. /\ commands' \in Seq(Commands)
        /\ \A i \in DOMAIN commands' : commands'[i].kind = "export" => commands'[i].export \in Exports
    <3>1. \A i \in DOMAIN commands : commands[i].kind = "export" => commands[i].export \in Exports
      OBVIOUS
    <3> QED BY ONLY <1>0, <2>1, <2>2, <3>1, AskedExport
  <2>4. status' \in [Exports -> Status]
    BY <1>0, <1>1, <2>1 DEF StartExport, OpenArchive
  <2>5. cancelling' \in BOOLEAN /\ counted' \in BOOLEAN
    BY <1>1, Zenon DEF StartExport, OpenArchive
  <2>6. /\ since' \in Nat /\ retries' \in 0..AutoRetries /\ exports' \in 0..MaxExports
        /\ recorder' \in Exports /\ recorder' = exports' /\ exports' + AutoRetries - retries' <= MaxExports
    BY <1>0, <1>1, <2>1, Bounds DEF StartExport, OpenArchive
  <2> QED BY <1>1, <2>3, <2>4, <2>5, <2>6 DEF StartExport
<1>2. CASE CancelExport
  <2>1. /\ commands' \in Seq(Commands)
        /\ \A i \in DOMAIN commands' : commands'[i].kind = "export" => commands'[i].export \in Exports
    BY <1>0, <1>2, PlainCancel
  <2> QED BY <1>2, <2>1 DEF CancelExport
<1>3. ASSUME NEW k \in {"stop", "start", "query", "clear"}, Issue(k) PROVE TypeInv'
  <2>1. /\ commands' \in Seq(Commands)
        /\ \A i \in DOMAIN commands' : commands'[i].kind = "export" => commands'[i].export \in Exports
    BY <1>0, <1>3, PlainIssue
  <2> QED BY <1>3, <2>1 DEF Issue
<1>4. CASE LinkLost
  <2>1. commands' \in Seq(Commands) /\ down' \in Seq(Item) /\ DOMAIN commands' = {}
    BY <1>4 DEF LinkLost
  <2>2. status' \in [Exports -> Status] /\ recorder' = None /\ counted' \in BOOLEAN /\ disturbed' \in BOOLEAN
    BY <1>0, <1>4 DEF LinkLost, CloseArchive
  <2>3. since' \in Nat /\ retries' \in 0..AutoRetries /\ mirror' \in Mirror
    BY <1>4, NewMirrorType, Bounds DEF LinkLost
  <2>4. alive' \in BOOLEAN /\ cancelling' \in BOOLEAN
    BY <1>4, Zenon DEF LinkLost
  <2> QED BY <1>4, <2>1, <2>2, <2>3, <2>4 DEF LinkLost
<1>5. CASE FinalizeCancelled
  BY <1>0, <1>5 DEF FinalizeCancelled, CloseArchive
<1>6. CASE FinalizeExport
  BY <1>0, <1>6 DEF FinalizeExport, Finished, CloseArchive
<1>7. CASE Watchdog
  BY <1>0, <1>7 DEF Watchdog, CloseArchive
<1>8. CASE RetryExport
  <2>1. /\ exports + 1 \in Exports /\ exports + 1 + AutoRetries - (retries + 1) <= MaxExports
        /\ retries + 1 \in 0..AutoRetries
    <3>1. retries < AutoRetries /\ exports + AutoRetries - retries <= MaxExports
      BY <1>8 DEF RetryExport, MayRetry
    <3>2. exports \in Nat /\ retries \in 0..AutoRetries
      BY Bounds DEF Exports
    <3>3. exports + 1 \in Nat \ {0} /\ exports + 1 <= MaxExports
      BY ONLY <3>1, <3>2, Bounds
    <3>4. exports + 1 + AutoRetries - (retries + 1) <= MaxExports /\ retries + 1 \in 0..AutoRetries
      BY ONLY <3>1, <3>2, Bounds
    <3> QED BY ONLY <3>3, <3>4, Bounds DEF Exports
  <2>2. commands' = commands \o <<ExportOf(exports + 1)>>
    BY <1>8 DEF RetryExport, Enqueue
  <2>3. /\ commands' \in Seq(Commands)
        /\ \A i \in DOMAIN commands' : commands'[i].kind = "export" => commands'[i].export \in Exports
    <3>1. \A i \in DOMAIN commands : commands[i].kind = "export" => commands[i].export \in Exports
      OBVIOUS
    <3> QED BY ONLY <1>0, <2>1, <2>2, <3>1, AskedExport
  <2>4. status' \in [Exports -> Status]
    BY <1>0, <1>8, <2>1 DEF RetryExport
  <2>5. cancelling' \in BOOLEAN /\ counted' \in BOOLEAN
    BY <1>8, Zenon DEF RetryExport
  <2>6. /\ since' \in Nat /\ retries' \in 0..AutoRetries /\ exports' \in 0..MaxExports
        /\ recorder' \in Exports /\ recorder' = exports' /\ exports' + AutoRetries - retries' <= MaxExports
    BY <1>0, <1>8, <2>1, Bounds DEF RetryExport, Exports
  <2> QED BY <1>8, <2>3, <2>4, <2>5, <2>6 DEF RetryExport
<1>9. CASE ReceiveFrame
  <2>1. down # <<>> /\ down' = Tail(down) /\ Head(down).kind = "frame"
    BY <1>9 DEF ReceiveFrame, Arrives
  <2>2. down' \in Seq(Item) /\ Head(down).frame \in Frame
    BY <1>0, <2>1, TailFacts, ItemFacts
  <2>3. file' \in [Exports -> Seq(Frame)]
    <3>1. CASE recorder \in Exports /\ recorder \notin failed
      BY <1>0, <1>9, <2>2, <3>1, Bounds DEF ReceiveFrame
    <3> QED BY <1>0, <1>9, <3>1 DEF ReceiveFrame
  <2> QED BY <1>9, <2>2, <2>3 DEF ReceiveFrame
<1>10. CASE ReceiveLine
  <2>1. down # <<>> /\ down' = Tail(down) /\ Head(down).kind # "frame"
    BY <1>10 DEF ReceiveLine, Arrives
  <2>2. down' \in Seq(Item) /\ Head(down) \in Item
    BY <1>0, <2>1, TailFacts
  <2>3. mirror' \in Mirror
    BY <1>0, <1>10, <2>1, <2>2, MirrorStep DEF ReceiveLine
  <2> QED BY <1>10, <2>2, <2>3 DEF ReceiveLine
<1>11. CASE WriterCounts
  BY <1>11 DEF WriterCounts
<1>12. CASE RecorderFails
  <2>1. PICK n \in 0..Len(file[recorder]) : file' = [file EXCEPT ![recorder] = SubSeq(@, 1, n)]
    BY <1>12 DEF RecorderFails
  <2>2. recorder \in Exports /\ file[recorder] \in Seq(Frame)
    BY <1>0, <1>12 DEF RecorderFails
  <2>3. SubSeq(file[recorder], 1, n) \in Seq(Frame)
    BY <2>2
  <2>4. file' \in [Exports -> Seq(Frame)] /\ failed' \subseteq Exports
    BY <1>0, <1>12, <2>1, <2>2, <2>3 DEF RecorderFails
  <2> QED BY <1>12, <2>4 DEF RecorderFails
<1>13. ASSUME NEW k, Take(k), UNCHANGED <<guiVars, mirror>>, down' \in Seq(Item), losses' \in 0..MaxLosses,
              device' \in {"IDLE", "ACQUIRE", "EXPORT"}, run' \in Exports \cup {None},
              sent' \in 0..Frames, ring' \in BOOLEAN, moved' \in Exports \cup {None},
              device' = "EXPORT" => run' \in Exports
       PROVE  TypeInv'
  <2>1. /\ commands' \in Seq(Commands)
        /\ \A i \in DOMAIN commands' : commands'[i].kind = "export" => commands'[i].export \in Exports
    BY <1>0, <1>13, Taken
  <2> QED BY <1>13, <2>1
<1>14. CASE DeviceExport
  <2>1. Take("export") /\ UNCHANGED <<guiVars, mirror, ring, moved>> /\ commands[1].export \in Exports
        /\ Head(commands) = commands[1]
    BY <1>0, <1>14, Taken DEF DeviceExport
  <2>2. Line("begin") \in Item /\ Line("empty") \in Item
    BY RecordTypes
  <2>3. down' \in Seq(Item) /\ losses' \in 0..MaxLosses
    BY <1>14, <2>2, Replied DEF DeviceExport
  <2>4. /\ device' \in {"IDLE", "ACQUIRE", "EXPORT"} /\ run' \in Exports \cup {None} /\ sent' \in 0..Frames
        /\ device' = "EXPORT" => run' \in Exports
    BY <1>14, <2>1, Bounds DEF DeviceExport
  <2> QED BY <1>13, <2>1, <2>3, <2>4
<1>15. CASE DeviceStop
  BY <1>13, <1>15, Bounds DEF DeviceStop, Idle
<1>16. CASE DeviceStart
  <2>1. down' \in Seq(Item) /\ losses' \in 0..MaxLosses
    BY <1>16, RecordTypes, Replied DEF DeviceStart
  <2> QED BY <1>13, <1>16, <2>1 DEF DeviceStart
<1>17. CASE DeviceQuery
  <2>1. down' \in Seq(Item) /\ losses' \in 0..MaxLosses
    BY <1>17, RecordTypes, Replied DEF DeviceQuery
  <2> QED BY <1>13, <1>17, <2>1 DEF DeviceQuery
<1>18. CASE DeviceClear
  BY <1>13, <1>18 DEF DeviceClear
<1>19. CASE DeviceSendFrame
  <2>1. run \in Exports /\ sent + 1 \in 1..Frames
    <3>1. run \in Exports /\ sent < Frames /\ sent \in 0..Frames
      BY <1>19 DEF DeviceSendFrame
    <3> QED BY ONLY <3>1, Bounds
  <2>2. FrameOf(<<run, sent + 1>>) \in Item
    BY <2>1, RecordTypes DEF Frame
  <2>3. down' \in Seq(Item)
    BY <1>0, <1>19, <2>2, AppendFacts DEF DeviceSendFrame
  <2> QED BY <1>19, <2>1, <2>3, Bounds DEF DeviceSendFrame
<1>20. CASE DeviceFinish
  <2>1. down' \in Seq(Item) /\ losses' \in 0..MaxLosses
    BY <1>20, RecordTypes, Replied DEF DeviceFinish
  <2>2. ring' \in BOOLEAN
    BY <1>20, Zenon DEF DeviceFinish
  <2>3. sent' \in 0..Frames /\ run' = None /\ device' = "IDLE" /\ moved' \in Exports \cup {None}
    BY <1>20, Bounds DEF DeviceFinish, Idle
  <2> QED BY <1>20, <2>1, <2>2, <2>3 DEF DeviceFinish
<1>21. CASE DeviceAborts
  <2>1. down' \in Seq(Item) /\ losses' \in 0..MaxLosses
    BY <1>21, RecordTypes, Replied DEF DeviceAborts
  <2> QED BY <1>21, <2>1, Bounds DEF DeviceAborts, Idle
<1>22. CASE UNCHANGED vars
  BY <1>22
<1> QED
  BY <1>1, <1>2, <1>3, <1>4, <1>5, <1>6, <1>7, <1>8, <1>9, <1>10, <1>11, <1>12, <1>14, <1>15, <1>16,
     <1>17, <1>18, <1>19, <1>20, <1>21, <1>22
  DEF Next, Gui, Tick, Device, WriteControl, ClearSd, StartAcquisition, StopAcquisition, RequestStatus

-----------------------------------------------------------------------------
(* The session until it is disturbed.                                        *)

LEMMA NoFrames == \A d : NoTraffic(d) => FramePlaces(d) = {}
  BY DEF NoTraffic, FramePlaces, Traffic

(* What a reply that is none of the export's changes of the queue: nothing   *)
(* that the invariant looks at.                                              *)
LEMMA QuietReply ==
  ASSUME down \in Seq(Item), NEW x \in Item, x.kind \notin Traffic,
         down' = down \/ down' = Append(down, x)
  PROVE  /\ \A j \in DOMAIN down' : down'[j].kind \in Traffic => j \in DOMAIN down /\ down'[j] = down[j]
         /\ FramePlaces(down') = FramePlaces(down)
         /\ \A j \in FramePlaces(down) : down'[j] = down[j]
         /\ NoTraffic(down) => NoTraffic(down')
         /\ \A f, k, n : Moving(f, down, k, n) => Moving(f, down', k, n)
<1>1. x.kind # "frame"
  BY DEF Traffic
<1>2. CASE down' = down
  BY <1>2 DEF FramePlaces
<1>3. CASE down' = Append(down, x)
  <2>1. /\ DOMAIN down' = 1..(Len(down) + 1) /\ DOMAIN down = 1..Len(down) /\ Len(down) \in Nat
        /\ \A i \in DOMAIN down : down'[i] = down[i]
        /\ down'[Len(down) + 1] = x
    BY <1>3, AppendFacts
  <2>2. /\ \A j \in DOMAIN down' : down'[j].kind \in Traffic => j \in DOMAIN down /\ down'[j] = down[j]
    BY <2>1
  <2>3. FramePlaces(down') = FramePlaces(down) /\ \A j \in FramePlaces(down) : down'[j] = down[j]
    BY <1>1, <1>3, PlacesAppended
  <2>4. \A f, k, n : Moving(f, down, k, n) => Moving(f, down', k, n)
    BY <1>1, <1>3, MovingReply
  <2>5. NoTraffic(down) => NoTraffic(down')
    BY <2>2 DEF NoTraffic
  <2> QED BY <2>2, <2>3, <2>4, <2>5
<1> QED BY <1>2, <1>3

(* A step that asks for nothing of an export, takes a command without        *)
(* starting an export, or stops the device.                                  *)
LEMMA QuietStep ==
  ASSUME TypeInv, SessionInv, ~ disturbed, commands' \in Seq(Commands), NEW s \in {0, 1},
         \A i \in DOMAIN commands' :
           commands'[i].kind = "export" => i + s \in DOMAIN commands /\ commands'[i] = commands[i + s],
         UNCHANGED <<recorder, since, status, file, failed, exports, disturbed, mirror, moved>>,
         device' = "EXPORT" => device = "EXPORT" /\ run' = run /\ sent' = sent /\ ring',
         ring' => ring,
         NEW x \in Item, x.kind \notin Traffic, down' = down \/ down' = Append(down, x)
  PROVE  SessionInv'
<1>1. /\ \A j \in DOMAIN down' : down'[j].kind \in Traffic => j \in DOMAIN down /\ down'[j] = down[j]
      /\ FramePlaces(down') = FramePlaces(down)
      /\ \A j \in FramePlaces(down) : down'[j] = down[j]
      /\ NoTraffic(down) => NoTraffic(down')
      /\ \A f, k, n : Moving(f, down, k, n) => Moving(f, down', k, n)
  <2>1. down \in Seq(Item)
    BY DEF TypeInv, TypeOK
  <2> QED BY <2>1, QuietReply
<1>2. NotOver' = NotOver /\ Finished' = Finished
  BY DEF NotOver, Finished
<1>3. NoExport(commands) => NoExport(commands')
  BY DEF NoExport
<1>4. PendingInv'
  <2>1. \A i \in DOMAIN commands' : i \in Nat
    OBVIOUS
  <2>2. ASSUME NEW i \in DOMAIN commands', NEW j \in DOMAIN commands',
               commands'[i].kind = "export", commands'[j].kind = "export"
        PROVE  i = j
    <3>1. /\ i + s \in DOMAIN commands /\ j + s \in DOMAIN commands
          /\ commands[i + s].kind = "export" /\ commands[j + s].kind = "export"
      BY <2>2
    <3>2. i + s = j + s
      BY <3>1 DEF SessionInv, PendingInv
    <3> QED BY <2>1, <3>2
  <2>3. ASSUME NEW i \in DOMAIN commands', commands'[i].kind = "export"
        PROVE  /\ recorder # None /\ commands'[i].export = recorder /\ file[recorder] = <<>>
               /\ device # "EXPORT" /\ NoTraffic(down) /\ mirror.revision = since
    BY <2>3 DEF SessionInv, PendingInv
  <2>4. ASSUME NEW i \in DOMAIN commands', commands'[i].kind = "export"
        PROVE  /\ recorder' # None /\ commands'[i].export = recorder' /\ file'[recorder'] = <<>>
               /\ device' # "EXPORT" /\ NoTraffic(down') /\ mirror'.revision = since'
    BY <1>1, <2>3, <2>4
  <2> QED BY <2>2, <2>4 DEF PendingInv
<1>5. RunningInv'
  <2> SUFFICES ASSUME device' = "EXPORT"
               PROVE  /\ recorder' # None /\ run' = recorder' /\ NoExport(commands') /\ NotOver' /\ ring'
                      /\ \A j \in DOMAIN down' : down'[j].kind \notin Last3
                      /\ recorder' \notin failed' => Moving(file'[recorder'], down', recorder', sent')
    BY DEF RunningInv
  <2>1. /\ recorder # None /\ run = recorder /\ NoExport(commands) /\ NotOver
        /\ \A j \in DOMAIN down : down[j].kind \notin Last3
        /\ recorder \notin failed => Moving(file[recorder], down, recorder, sent)
    BY DEF SessionInv, RunningInv
  <2>2. \A j \in DOMAIN down' : down'[j].kind \notin Last3
    BY <1>1, <2>1 DEF Last3, Traffic
  <2> QED BY <1>1, <1>2, <1>3, <2>1, <2>2
<1>6. DownInv'
  <2>0. DownInv
    BY DEF SessionInv
  <2>1. recorder' = None => NoTraffic(down')
    BY <1>1, <2>0 DEF DownInv
  <2>2. \A j \in FramePlaces(down') : down'[j].frame[1] = recorder'
    BY <1>1, <2>0 DEF DownInv
  <2>3. ASSUME NEW j \in DOMAIN down', down'[j].kind \in Last3
        PROVE  /\ NotOver' /\ \A i \in DOMAIN down' : i > j => down'[i].kind \notin Traffic
               /\ down'[j].kind = "end" => moved' = recorder'
    <3>1. j \in DOMAIN down /\ down'[j] = down[j]
      BY <1>1, <2>3 DEF Last3, Traffic
    <3> QED BY <1>1, <1>2, <2>0, <2>3, <3>1 DEF DownInv
  <2> QED BY <2>1, <2>2, <2>3 DEF DownInv
<1>7. OverInv'
  BY <1>1, <1>2, <1>3 DEF SessionInv, OverInv
<1>8. MovedInv'
  BY <1>1 DEF SessionInv, MovedInv
<1>9. StatusInv' /\ CompleteExportIsWhole'
  BY DEF SessionInv, StatusInv, CompleteExportIsWhole
<1> QED BY <1>4, <1>5, <1>6, <1>7, <1>8, <1>9 DEF SessionInv

(* A new export is asked for while nothing of an earlier one is left.        *)
LEMMA Opening ==
  ASSUME TypeInv, SessionInv, ~ disturbed, exports + 1 \in Exports,
         NoExport(commands), NoTraffic(down), device # "EXPORT",
         exports' = exports + 1, recorder' = exports + 1, since' = mirror.revision,
         commands' = commands \o <<ExportOf(exports + 1)>>,
         status'[exports + 1] = "in_progress",
         \A k \in Exports \ {exports + 1} : status'[k] \in {status[k], "ABORTED"},
         \A k \in Exports : k > exports + 1 => status'[k] = status[k],
         UNCHANGED <<file, failed, disturbed, mirror, down, deviceVars>>
  PROVE  SessionInv'
<1> USE DEF deviceVars
<1>1. /\ commands \in Seq(Commands) /\ exports \in Nat /\ exports + 1 # None
      /\ mirror.revision \in Nat
  BY Bounds DEF TypeInv, TypeOK, Mirror
<1>2. /\ DOMAIN commands = 1..Len(commands) /\ Len(commands) \in Nat
      /\ \A i \in DOMAIN commands' :
           \/ i \in DOMAIN commands /\ commands'[i] = commands[i]
           \/ i = Len(commands) + 1 /\ commands'[i] = ExportOf(exports + 1)
  BY <1>1, AskedOnce, RecordTypes
<1>3. ASSUME NEW i \in DOMAIN commands', commands'[i].kind = "export"
      PROVE  i = Len(commands) + 1 /\ commands'[i].export = exports + 1
  BY <1>2, <1>3, RecordTypes DEF NoExport
<1>4. file[exports + 1] = <<>>
  BY <1>1 DEF SessionInv, StatusInv
<1>5. PendingInv'
  BY <1>1, <1>3, <1>4 DEF PendingInv
<1>6. RunningInv'
  BY DEF RunningInv
<1>7. FramePlaces(down) = {} /\ \A j \in DOMAIN down : down[j].kind \notin Last3
  BY NoFrames DEF NoTraffic, Traffic, Last3
<1>8. DownInv'
  BY <1>1, <1>7 DEF DownInv
<1>9. OverInv'
  BY <1>1 DEF OverInv, Finished
<1>10. MovedInv'
  BY DEF SessionInv, MovedInv
<1>11. StatusInv'
  <2>1. recorder' # None => status'[recorder'] = "in_progress"
    OBVIOUS
  <2>2. ASSUME NEW k \in Exports, k > exports' PROVE status'[k] = "none" /\ file'[k] = <<>>
    <3>1. k > exports /\ k > exports + 1
      BY <1>1, <2>2, Bounds
    <3> QED BY <3>1 DEF SessionInv, StatusInv
  <2> QED BY <2>1, <2>2 DEF StatusInv
<1>12. CompleteExportIsWhole'
  BY DEF SessionInv, CompleteExportIsWhole
<1> QED BY <1>5, <1>6, <1>8, <1>9, <1>10, <1>11, <1>12 DEF SessionInv

(* Nothing of an export is left when no recorder is attached.                *)
LEMMA NothingLeft ==
  ASSUME SessionInv, recorder = None
  PROVE  NoExport(commands) /\ NoTraffic(down) /\ device # "EXPORT"
  BY DEF SessionInv, PendingInv, RunningInv, DownInv, NoExport

LEMMA StartKeeps ==
  ASSUME TypeInv, SessionInv, ~ disturbed, StartExport PROVE SessionInv'
<1>1. exports + 1 \in Exports
  BY Bounds DEF TypeInv, TypeOK, StartExport, Exports
<1>2. NoExport(commands) /\ NoTraffic(down) /\ device # "EXPORT"
  BY NothingLeft DEF StartExport
<1>3. status \in [Exports -> Status]
  BY DEF TypeInv, TypeOK
<1>4. /\ status'[exports + 1] = "in_progress"
      /\ \A k \in Exports \ {exports + 1} : status'[k] = status[k]
  BY <1>1, <1>3 DEF StartExport, OpenArchive
<1>5. \A k \in Exports : k > exports + 1 => status'[k] = status[k]
  BY <1>1, <1>4, Bounds
<1> QED BY <1>1, <1>2, <1>4, <1>5, Opening DEF StartExport, OpenArchive, Enqueue

LEMMA RetryKeeps ==
  ASSUME TypeInv, SessionInv, ~ disturbed, RetryExport PROVE SessionInv'
<1>1. exports + 1 \in Exports /\ recorder = exports /\ exports \in Exports
  <2>1. retries < AutoRetries /\ recorder # None
    BY DEF RetryExport, MayRetry
  <2>2. recorder = exports /\ recorder \in Exports
    BY <2>1 DEF TypeInv, TypeOK
  <2>3. /\ exports + AutoRetries - retries <= MaxExports
        /\ retries \in 0..AutoRetries /\ exports \in 0..MaxExports
    BY <2>1 DEF TypeInv, TypeOK
  <2>4. exports + 1 \in Exports
    BY <2>1, <2>3, Bounds DEF Exports
  <2> QED BY <2>2, <2>4
<1>2. NoExport(commands) /\ NoTraffic(down) /\ device # "EXPORT"
  BY DEF RetryExport, SessionInv, OverInv
<1>3. status \in [Exports -> Status]
  BY DEF TypeInv, TypeOK
<1>4. exports + 1 # exports
  BY <1>1, Bounds
<1>5. /\ status'[exports + 1] = "in_progress"
      /\ \A k \in Exports \ {exports + 1, exports} : status'[k] = status[k]
      /\ status'[exports] = "ABORTED"
  BY <1>1, <1>3, <1>4 DEF RetryExport
<1>6. \A k \in Exports : k > exports + 1 => status'[k] = status[k]
  BY <1>1, <1>5, Bounds
<1>7. \A k \in Exports \ {exports + 1} : status'[k] \in {status[k], "ABORTED"}
  BY <1>5
<1> QED BY <1>1, <1>2, <1>5, <1>6, <1>7, Opening DEF RetryExport, Enqueue

(* An export is closed in a terminal phase: what it moved is in its file.    *)
LEMMA FinalizeKeeps ==
  ASSUME TypeInv, SessionInv, ~ disturbed, FinalizeExport PROVE SessionInv'
<1> USE DEF deviceVars
<1>1. /\ recorder \in Exports /\ Finished /\ NoTraffic(down) /\ NoExport(commands)
      /\ device # "EXPORT" /\ (mirror.phase = "COMPLETE" => moved = recorder)
      /\ recorder = exports /\ file[recorder] \in Seq(Frame)
  BY DEF FinalizeExport, TypeInv, TypeOK, SessionInv, OverInv
<1>2. /\ status' = [status EXCEPT ![recorder] = mirror.phase] /\ recorder' = None
      /\ status \in [Exports -> Status]
  BY DEF FinalizeExport, CloseArchive, TypeInv, TypeOK
<1>3. UNCHANGED <<since, file, failed, exports, disturbed, mirror, commands, down, deviceVars>>
  BY DEF FinalizeExport
<1>4. PendingInv' /\ RunningInv'
  BY <1>1, <1>3 DEF PendingInv, RunningInv, NoExport
<1>5. FramePlaces(down) = {} /\ \A j \in DOMAIN down : down[j].kind \notin Last3
  BY <1>1, NoFrames DEF NoTraffic, Traffic, Last3
<1>6. DownInv'
  BY <1>1, <1>3, <1>5 DEF DownInv
<1>7. OverInv'
  BY <1>2, <1>3 DEF SessionInv, OverInv
<1>8. MovedInv'
  BY <1>3 DEF SessionInv, MovedInv
<1>9. StatusInv'
  <2>1. ASSUME NEW k \in Exports, k > exports' PROVE status'[k] = "none" /\ file'[k] = <<>>
    <3>1. k > exports /\ k # recorder
      BY <1>1, <1>3, <2>1, Bounds
    <3> QED BY <1>2, <1>3, <3>1 DEF SessionInv, StatusInv
  <2> QED BY <1>2, <2>1 DEF StatusInv
<1>10. ASSUME NEW k \in Exports \ failed, status'[k] = "COMPLETE" PROVE file[k] = Archive(k)
  <2>1. CASE k = recorder
    <3>1. mirror.phase = "COMPLETE" /\ moved = recorder /\ moved # None /\ moved \notin failed
      BY <1>1, <1>2, <1>10, <2>1, Bounds
    <3>2. Moving(file[recorder], down, recorder, Frames)
      BY <3>1 DEF SessionInv, MovedInv
    <3> QED BY <1>1, <1>5, <2>1, <3>2, MovingOver, Bounds DEF Archive
  <2>2. CASE k # recorder
    BY <1>2, <1>10, <2>2 DEF SessionInv, CompleteExportIsWhole
  <2> QED BY <2>1, <2>2
<1>11. CompleteExportIsWhole'
  BY <1>3, <1>10 DEF CompleteExportIsWhole, Archive, FirstFrames
<1> QED BY <1>4, <1>6, <1>7, <1>8, <1>9, <1>11 DEF SessionInv

(* A link that is lost between two exports.                                  *)
LEMMA LinkLostKeeps ==
  ASSUME TypeInv, SessionInv, ~ disturbed, ~ disturbed', LinkLost PROVE SessionInv'
<1> USE DEF deviceVars
<1>0. recorder = None /\ UNCHANGED <<recorder, status>>
  BY Zenon DEF LinkLost
<1>1. /\ UNCHANGED <<recorder, status, file, failed, exports, deviceVars>>
      /\ commands' = <<>> /\ down' = <<>> /\ since' = 0 /\ mirror' = NewMirror
  BY <1>0 DEF LinkLost
<1>2. NoTraffic(down) /\ device # "EXPORT"
  BY <1>0, NothingLeft
<1>3. FramePlaces(down) = {} /\ FramePlaces(down') = {} /\ DOMAIN down' = {} /\ DOMAIN commands' = {}
  BY <1>1, <1>2, NoFrames DEF FramePlaces
<1>4. PendingInv' /\ RunningInv'
  BY <1>1, <1>2, <1>3 DEF PendingInv, RunningInv
<1>5. DownInv'
  BY <1>3 DEF DownInv, NoTraffic
<1>6. OverInv'
  BY <1>0, <1>1 DEF OverInv, NewMirror
<1>7. MovedInv'
  <2>1. ASSUME moved \in Exports, moved \notin failed PROVE Moving(file[moved], down', moved, Frames)
    <3>1. Moving(file[moved], down, moved, Frames) /\ file[moved] \in Seq(Frame)
      BY <2>1, Bounds DEF SessionInv, MovedInv, TypeInv, TypeOK
    <3> QED BY <1>3, <3>1, MovingOver, Bounds
  <2> QED BY <1>1, <2>1 DEF SessionInv, MovedInv, TypeInv, TypeOK
<1>8. StatusInv' /\ CompleteExportIsWhole'
  BY <1>0, <1>1 DEF SessionInv, StatusInv, CompleteExportIsWhole
<1> QED BY <1>4, <1>5, <1>6, <1>7, <1>8 DEF SessionInv

(* The queue after its first entry has arrived.                              *)
LEMMA Arrived ==
  ASSUME down \in Seq(Item), Arrives
  PROVE  /\ down # <<>> /\ down' = Tail(down) /\ Head(down) \in Item /\ Head(down) = down[1] /\ 1 \in DOMAIN down
         /\ \A j \in DOMAIN down' : down'[j] = down[j + 1] /\ j + 1 \in DOMAIN down /\ j \in Nat \ {0}
         /\ \A j \in FramePlaces(down') : down'[j] = down[j + 1] /\ j + 1 \in FramePlaces(down)
         /\ NoTraffic(down) => NoTraffic(down')
<1>1. down # <<>> /\ down' = Tail(down)
  BY DEF Arrives
<1>2. /\ Head(down) \in Item /\ Head(down) = down[1] /\ 1 \in DOMAIN down
      /\ \A j \in DOMAIN down' : down'[j] = down[j + 1] /\ j + 1 \in DOMAIN down /\ j \in Nat \ {0}
  BY <1>1, TailFacts
<1>3. \A j \in FramePlaces(down') : down'[j] = down[j + 1] /\ j + 1 \in FramePlaces(down)
  BY <1>2 DEF FramePlaces
<1>4. NoTraffic(down) => NoTraffic(down')
  BY <1>2 DEF NoTraffic
<1> QED BY <1>1, <1>2, <1>3, <1>4

(* The rest of the queue is as orderly as the queue was.                     *)
LEMMA RestOfDown ==
  ASSUME down \in Seq(Item), DownInv, Arrives, UNCHANGED <<recorder, moved>>,
         ASSUME NEW j \in DOMAIN down', down'[j].kind \in Last3 PROVE NotOver => NotOver'
  PROVE  DownInv'
<1>1. /\ \A j \in DOMAIN down' : down'[j] = down[j + 1] /\ j + 1 \in DOMAIN down /\ j \in Nat \ {0}
      /\ \A j \in FramePlaces(down') : down'[j] = down[j + 1] /\ j + 1 \in FramePlaces(down)
      /\ NoTraffic(down) => NoTraffic(down')
  BY Arrived
<1>2. (recorder' = None => NoTraffic(down')) /\ \A j \in FramePlaces(down') : down'[j].frame[1] = recorder'
  BY <1>1 DEF DownInv
<1>3. ASSUME NEW j \in DOMAIN down', down'[j].kind \in Last3
      PROVE  /\ NotOver' /\ \A i \in DOMAIN down' : i > j => down'[i].kind \notin Traffic
             /\ down'[j].kind = "end" => moved' = recorder'
  <2>1. /\ NotOver /\ \A i \in DOMAIN down : i > j + 1 => down[i].kind \notin Traffic
        /\ down[j + 1].kind = "end" => moved = recorder
    BY <1>1, <1>3 DEF DownInv
  <2>2. ASSUME NEW i \in DOMAIN down', i > j PROVE down'[i].kind \notin Traffic
    <3>1. i + 1 > j + 1
      BY <1>1, <2>2
    <3> QED BY <1>1, <2>1, <3>1
  <2> QED BY <1>1, <1>3, <2>1, <2>2
<1> QED BY <1>2, <1>3 DEF DownInv

(* A frame arrives: it goes to the file of the export it belongs to.         *)
LEMMA ReceiveFrameKeeps ==
  ASSUME TypeInv, SessionInv, ~ disturbed, ReceiveFrame PROVE SessionInv'
<1> USE DEF deviceVars
<1>0. /\ down \in Seq(Item) /\ file \in [Exports -> Seq(Frame)] /\ sent \in Nat /\ Frames \in Nat
      /\ failed \subseteq Exports
  BY Bounds DEF TypeInv, TypeOK
<1>1. /\ Arrives /\ Head(down).kind = "frame"
      /\ UNCHANGED <<recorder, since, status, failed, exports, disturbed, mirror, commands, deviceVars>>
  BY DEF ReceiveFrame
<1>2. /\ down # <<>> /\ down' = Tail(down) /\ Head(down) = down[1] /\ 1 \in DOMAIN down
      /\ \A j \in DOMAIN down' : down'[j] = down[j + 1] /\ j + 1 \in DOMAIN down
  BY <1>0, <1>1, Arrived
<1>3. down[1].kind \in Traffic /\ 1 \in FramePlaces(down)
  BY <1>1, <1>2 DEF Traffic, FramePlaces
<1>4. ~ NoTraffic(down)
  BY <1>2, <1>3 DEF NoTraffic
<1>5. recorder \in Exports /\ Head(down).frame[1] = recorder
  BY <1>2, <1>3, <1>4 DEF SessionInv, DownInv, TypeInv, TypeOK
<1>6. NoExport(commands)
  BY <1>4 DEF SessionInv, PendingInv, NoExport
<1>7. /\ recorder \in failed => file' = file
      /\ recorder \notin failed => file' = [file EXCEPT ![recorder] = Append(file[recorder], Head(down).frame)]
  BY <1>5, Bounds DEF ReceiveFrame
<1>8. ASSUME NEW k \in Exports \ failed, NEW n \in Nat, Moving(file[k], down, k, n)
      PROVE  Moving(file'[k], down', k, n)
  <2>1. /\ Head(down).frame[1] = k
        /\ Moving(Append(file[k], Head(down).frame), down', k, n)
    BY <1>0, <1>1, <1>2, <1>8, MovingSave
  <2>2. k = recorder
    BY <1>5, <2>1
  <2>3. file'[k] = Append(file[k], Head(down).frame)
    BY <1>0, <1>5, <1>7, <2>2
  <2> QED BY <2>1, <2>3
<1>9. NotOver' = NotOver /\ Finished' = Finished
  BY <1>1 DEF NotOver, Finished
<1>10. PendingInv'
  BY <1>1, <1>6 DEF PendingInv, NoExport
<1>11. RunningInv'
  <2>1. SUFFICES ASSUME device = "EXPORT"
                 PROVE  /\ \A j \in DOMAIN down' : down'[j].kind \notin Last3
                        /\ recorder \notin failed => Moving(file'[recorder], down', recorder, sent)
    BY <1>1, <1>9 DEF SessionInv, RunningInv
  <2> QED BY <1>0, <1>2, <1>5, <1>8, <2>1 DEF SessionInv, RunningInv
<1>12. DownInv'
  BY <1>0, <1>1, <1>9, RestOfDown DEF SessionInv
<1>13. OverInv'
  BY <1>1, <1>4, <1>9 DEF SessionInv, OverInv
<1>14. MovedInv'
  BY <1>0, <1>1, <1>8 DEF SessionInv, MovedInv, TypeInv, TypeOK
<1>15. \A k \in Exports \ {recorder} : file'[k] = file[k]
  BY <1>0, <1>5, <1>7
<1>16. status[recorder] = "in_progress" /\ recorder = exports
  BY <1>5, Bounds DEF SessionInv, StatusInv, TypeInv
<1>17. StatusInv'
  <2>1. \A k \in Exports : k > exports => k # recorder
    BY <1>16, Bounds
  <2> QED BY <1>1, <1>15, <2>1 DEF SessionInv, StatusInv
<1>18. CompleteExportIsWhole'
  BY <1>1, <1>15, <1>16 DEF SessionInv, CompleteExportIsWhole, Archive, FirstFrames
<1> QED BY <1>10, <1>11, <1>12, <1>13, <1>14, <1>17, <1>18 DEF SessionInv

(* A line arrives: only the last line of the running export ends it, and it  *)
(* is the last thing of the export on the way.                               *)
LEMMA ReceiveLineKeeps ==
  ASSUME TypeInv, SessionInv, ~ disturbed, ReceiveLine PROVE SessionInv'
<1> USE DEF deviceVars, guiVars, fileVars
<1> DEFINE x == Head(down)
<1>0. down \in Seq(Item) /\ mirror \in Mirror /\ mirror.revision \in Nat /\ since \in Nat
  BY DEF TypeInv, TypeOK, Mirror
<1>1. /\ Arrives /\ x.kind # "frame" /\ mirror' = UpdatedFromCli(mirror, x)
      /\ UNCHANGED <<recorder, since, status, file, failed, exports, disturbed, commands, deviceVars>>
  BY DEF ReceiveLine
<1>2. /\ down # <<>> /\ down' = Tail(down) /\ x \in Item /\ x = down[1] /\ 1 \in DOMAIN down
      /\ \A j \in DOMAIN down' : down'[j] = down[j + 1] /\ j + 1 \in DOMAIN down /\ j \in Nat \ {0}
      /\ NoTraffic(down) => NoTraffic(down')
  BY <1>0, <1>1, Arrived
<1> HIDE DEF x
<1>3. /\ x.kind \in {"acquire", "state"} => mirror'.phase = mirror.phase /\ mirror'.revision = mirror.revision
      /\ x.kind = "begin" => mirror'.phase = "IN_PROGRESS"
      /\ x.kind \in Traffic => mirror'.revision = mirror.revision + 1
      /\ x.kind \in Last3 /\ mirror'.phase = "COMPLETE" => x.kind = "end"
      /\ x.kind \in {"begin", "acquire", "state"} \cup Last3
  BY <1>0, <1>1, <1>2, MirrorStep, ItemFacts DEF Last3
<1>4. \A f, k, n : Moving(f, down, k, n) => Moving(f, down', k, n)
  BY <1>0, <1>1, <1>2, MovingArrival DEF x
<1>5. ASSUME x.kind \in Traffic PROVE ~ NoTraffic(down) /\ NoExport(commands)
  <2>1. ~ NoTraffic(down)
    BY <1>2, <1>5 DEF NoTraffic
  <2> QED BY <2>1 DEF SessionInv, PendingInv, NoExport
<1>6. ASSUME x.kind \in Last3
      PROVE  NoTraffic(down') /\ device # "EXPORT" /\ (x.kind = "end" => moved = recorder)
  <2>1. /\ \A i \in DOMAIN down : i > 1 => down[i].kind \notin Traffic
        /\ x.kind = "end" => moved = recorder
    BY <1>2, <1>6 DEF SessionInv, DownInv
  <2>2. \A j \in DOMAIN down' : j + 1 > 1
    BY <1>2
  <2>3. NoTraffic(down')
    BY <1>2, <2>1, <2>2 DEF NoTraffic
  <2>4. device # "EXPORT"
    BY <1>2, <1>6 DEF SessionInv, RunningInv
  <2> QED BY <2>1, <2>3, <2>4
<1>7. x.kind \notin Last3 => (NotOver => NotOver') /\ (Finished' => Finished)
  <2>1. CASE x.kind = "begin"
    BY <1>3, <2>1 DEF NotOver, Finished, Terminal
  <2>2. CASE x.kind \in {"acquire", "state"}
    BY <1>1, <1>3, <2>2 DEF NotOver, Finished
  <2> QED BY <1>3, <2>1, <2>2
<1>8. PendingInv'
  <2>1. CASE NoExport(commands)
    BY <1>1, <2>1 DEF PendingInv, NoExport
  <2>2. CASE ~ NoExport(commands)
    <3>1. x.kind \in {"acquire", "state"}
      BY <1>3, <1>5, <2>2 DEF Last3, Traffic
    <3> QED BY <1>1, <1>2, <1>3, <3>1 DEF SessionInv, PendingInv
  <2> QED BY <2>1, <2>2
<1>9. RunningInv'
  <2>1. SUFFICES ASSUME device = "EXPORT"
                 PROVE  /\ NotOver' /\ \A j \in DOMAIN down' : down'[j].kind \notin Last3
                        /\ recorder \notin failed => Moving(file[recorder], down', recorder, sent)
    BY <1>1 DEF SessionInv, RunningInv
  <2>2. x.kind \notin Last3
    BY <1>6, <2>1
  <2> QED BY <1>2, <1>4, <1>7, <2>1, <2>2 DEF SessionInv, RunningInv
<1>10. DownInv'
  <2>1. ASSUME NEW j \in DOMAIN down', down'[j].kind \in Last3 PROVE NotOver => NotOver'
    <3>1. x.kind \notin Last3
      BY <1>6, <2>1 DEF NoTraffic, Last3, Traffic
    <3> QED BY <1>7, <3>1
  <2> QED BY <1>0, <1>1, <2>1, RestOfDown DEF SessionInv
<1>11. OverInv'
  <2>1. mirror'.revision >= since
    <3>1. mirror.revision >= since
      BY DEF SessionInv, OverInv
    <3>2. mirror'.revision = mirror.revision \/ mirror'.revision = mirror.revision + 1
      BY <1>3 DEF Traffic, Last3
    <3> QED BY <1>0, <3>1, <3>2
  <2>2. ASSUME recorder # None, Finished'
        PROVE  /\ NoTraffic(down') /\ NoExport(commands) /\ device # "EXPORT"
               /\ mirror'.phase = "COMPLETE" => moved = recorder
    <3>1. CASE x.kind \in Last3
      BY <1>3, <1>5, <1>6, <3>1 DEF Last3, Traffic
    <3>2. CASE x.kind \in {"acquire", "state"}
      <4>1. Finished /\ mirror'.phase = mirror.phase
        BY <1>3, <1>7, <2>2, <3>2 DEF Last3
      <4> QED BY <1>2, <2>2, <4>1 DEF SessionInv, OverInv
    <3>3. CASE x.kind = "begin"
      BY <1>3, <2>2, <3>3 DEF Finished, Terminal
    <3> QED BY <1>3, <3>1, <3>2, <3>3
  <2> QED BY <1>1, <2>1, <2>2 DEF OverInv
<1>12. MovedInv'
  BY <1>1, <1>4 DEF SessionInv, MovedInv
<1>13. StatusInv' /\ CompleteExportIsWhole'
  BY <1>1 DEF SessionInv, StatusInv, CompleteExportIsWhole
<1> QED BY <1>8, <1>9, <1>10, <1>11, <1>12, <1>13 DEF SessionInv

(* A recorder fails: nothing is claimed of its file from now on.             *)
LEMMA FailureKeeps ==
  ASSUME TypeInv, SessionInv, ~ disturbed, RecorderFails PROVE SessionInv'
<1> USE DEF deviceVars
<1>0. file \in [Exports -> Seq(Frame)] /\ recorder \in Exports /\ recorder = exports /\ status[recorder] = "in_progress"
  BY DEF TypeInv, TypeOK, RecorderFails, SessionInv, StatusInv
<1>1. /\ failed' = failed \cup {recorder}
      /\ UNCHANGED <<recorder, since, status, exports, disturbed, mirror, commands, down, deviceVars>>
  BY DEF RecorderFails
<1>2. PICK n \in 0..Len(file[recorder]) : file' = [file EXCEPT ![recorder] = SubSeq(@, 1, n)]
  BY DEF RecorderFails
<1>3. \A k \in Exports \ {recorder} : file'[k] = file[k]
  BY <1>0, <1>2
<1>4. file[recorder] = <<>> => file'[recorder] = <<>>
  <2> SUFFICES ASSUME file[recorder] = <<>> PROVE file'[recorder] = <<>>
    OBVIOUS
  <2>1. n = 0 /\ file'[recorder] = SubSeq(file[recorder], 1, n)
    BY <1>0, <1>2
  <2> QED BY <2>1
<1>5. NotOver' = NotOver /\ Finished' = Finished
  BY <1>1 DEF NotOver, Finished
<1>6. PendingInv' /\ RunningInv'
  BY <1>1, <1>4, <1>5 DEF SessionInv, PendingInv, RunningInv
<1>7. DownInv' /\ OverInv'
  BY <1>1, <1>5 DEF SessionInv, DownInv, OverInv
<1>8. MovedInv'
  BY <1>1, <1>3 DEF SessionInv, MovedInv, TypeInv, TypeOK
<1>9. StatusInv'
  <2>1. \A k \in Exports : k > exports => k # recorder
    BY <1>0, Bounds
  <2> QED BY <1>1, <1>3, <2>1 DEF SessionInv, StatusInv
<1>10. CompleteExportIsWhole'
  BY <1>0, <1>1, <1>3 DEF SessionInv, CompleteExportIsWhole, Archive, FirstFrames
<1> QED BY <1>6, <1>7, <1>8, <1>9, <1>10 DEF SessionInv

(* The last line of the running export is sent, or lost, and the device is   *)
(* idle.                                                                     *)
LEMMA EndingStep ==
  ASSUME TypeInv, SessionInv, ~ disturbed, recorder # None, NotOver,
         \A j \in DOMAIN down : down[j].kind \notin Last3,
         commands' \in Seq(Commands), NoExport(commands'),
         UNCHANGED <<recorder, since, status, file, failed, exports, disturbed, mirror>>,
         device' # "EXPORT", NEW x \in Item, x.kind \in Last3, x.kind = "end" => moved' = recorder,
         down' = down \/ down' = Append(down, x), MovedInv'
  PROVE  SessionInv'
<1>0. down \in Seq(Item)
  BY DEF TypeInv, TypeOK
<1>1. x.kind # "frame"
  BY DEF Last3
<1>2. NotOver' = NotOver /\ Finished' = Finished
  BY DEF NotOver, Finished
<1>3. PendingInv' /\ RunningInv'
  BY DEF PendingInv, RunningInv, NoExport
<1>4. DownInv'
  <2>0. DownInv
    BY DEF SessionInv
  <2>1. CASE down' = down
    BY <1>2, <2>0, <2>1 DEF DownInv
  <2>2. CASE down' = Append(down, x)
    <3>1. /\ DOMAIN down' = 1..(Len(down) + 1) /\ DOMAIN down = 1..Len(down) /\ Len(down) \in Nat
          /\ \A i \in DOMAIN down : down'[i] = down[i]
          /\ down'[Len(down) + 1] = x
      BY <1>0, <2>2, AppendFacts
    <3>2. FramePlaces(down') = FramePlaces(down) /\ \A j \in FramePlaces(down) : down'[j] = down[j]
      BY <1>0, <1>1, <2>2, PlacesAppended
    <3>3. ASSUME NEW j \in DOMAIN down', down'[j].kind \in Last3
          PROVE  j = Len(down) + 1 /\ \A i \in DOMAIN down' : ~ (i > j)
      BY <3>1, <3>3
    <3> QED BY <1>2, <2>0, <3>1, <3>2, <3>3 DEF DownInv
  <2> QED BY <2>1, <2>2
<1>5. OverInv'
  <2>1. ~ Finished
    BY DEF NotOver, Finished, TypeInv, TypeOK, Mirror
  <2> QED BY <1>2, <2>1 DEF SessionInv, OverInv
<1>6. StatusInv' /\ CompleteExportIsWhole'
  BY DEF SessionInv, StatusInv, CompleteExportIsWhole
<1> QED BY <1>3, <1>4, <1>5, <1>6 DEF SessionInv

(* What is moving stays so when a line is sent or lost.                      *)
LEMMA LineMoves ==
  ASSUME down \in Seq(Item), NEW x \in Item, x.kind # "frame", down' = down \/ down' = Append(down, x)
  PROVE  \A f, k, n : Moving(f, down, k, n) => Moving(f, down', k, n)
  BY MovingReply

LEMMA FinishKeeps ==
  ASSUME TypeInv, SessionInv, ~ disturbed, DeviceFinish PROVE SessionInv'
<1> USE DEF guiVars, fileVars
<1>0. down \in Seq(Item) /\ Line("end") \in Item /\ Line("end").kind = "end" /\ commands \in Seq(Commands)
  BY RecordTypes DEF TypeInv, TypeOK
<1>1. /\ device = "EXPORT" /\ sent = Frames /\ device' = "IDLE" /\ ~ ring' /\ moved' = run
      /\ UNCHANGED <<recorder, since, status, file, failed, exports, disturbed, mirror, commands>>
  BY DEF DeviceFinish, Idle, deviceUnchanged
<1>2. down' = down \/ down' = Append(down, Line("end"))
  BY DEF DeviceFinish, Reply
<1>3. /\ recorder # None /\ run = recorder /\ NoExport(commands) /\ NotOver
      /\ \A j \in DOMAIN down : down[j].kind \notin Last3
      /\ recorder \notin failed => Moving(file[recorder], down, recorder, Frames)
  BY <1>1 DEF SessionInv, RunningInv
<1>4. \A f, k, n : Moving(f, down, k, n) => Moving(f, down', k, n)
  BY <1>0, <1>2, LineMoves
<1>5. MovedInv'
  BY <1>1, <1>3, <1>4 DEF MovedInv
<1> QED BY <1>0, <1>1, <1>2, <1>3, <1>5, EndingStep DEF Last3

LEMMA AbortKeeps ==
  ASSUME TypeInv, SessionInv, ~ disturbed, DeviceAborts PROVE SessionInv'
<1> USE DEF guiVars, fileVars
<1>0. down \in Seq(Item) /\ Line("aborted") \in Item /\ Line("aborted").kind = "aborted" /\ commands \in Seq(Commands)
  BY RecordTypes DEF TypeInv, TypeOK
<1>1. /\ device = "EXPORT" /\ device' = "IDLE"
      /\ UNCHANGED <<recorder, since, status, file, failed, exports, disturbed, mirror, commands, ring, moved>>
  BY DEF DeviceAborts, Idle, deviceUnchanged
<1>2. down' = down \/ down' = Append(down, Line("aborted"))
  BY DEF DeviceAborts, Reply
<1>3. /\ recorder # None /\ NoExport(commands) /\ NotOver
      /\ \A j \in DOMAIN down : down[j].kind \notin Last3
  BY <1>1 DEF SessionInv, RunningInv
<1>4. \A f, k, n : Moving(f, down, k, n) => Moving(f, down', k, n)
  BY <1>0, <1>2, LineMoves
<1>5. MovedInv'
  BY <1>1, <1>4 DEF SessionInv, MovedInv
<1> QED BY <1>0, <1>1, <1>2, <1>3, <1>5, EndingStep DEF Last3

(* The next frame of the running export is sent.                             *)
LEMMA SendKeeps ==
  ASSUME TypeInv, SessionInv, ~ disturbed, DeviceSendFrame PROVE SessionInv'
<1> USE DEF guiVars, fileVars
<1> DEFINE x == FrameOf(<<run, sent + 1>>)
<1>0. /\ down \in Seq(Item) /\ sent \in Nat /\ run \in Exports /\ sent + 1 \in 1..Frames /\ file \in [Exports -> Seq(Frame)]
      /\ mirror.revision \in Nat /\ since \in Nat
  BY Bounds DEF TypeInv, TypeOK, DeviceSendFrame, Mirror
<1>1. x \in Item /\ x.kind = "frame" /\ x.frame = <<run, sent + 1>>
  BY <1>0, RecordTypes DEF Frame
<1> HIDE DEF x
<1>2. /\ device = "EXPORT" /\ sent' = sent + 1 /\ down' = Append(down, x)
      /\ UNCHANGED <<recorder, since, status, file, failed, exports, disturbed, mirror, commands, device, run, ring, moved>>
  BY DEF DeviceSendFrame, deviceUnchanged, x
<1>3. /\ recorder # None /\ run = recorder /\ NoExport(commands) /\ NotOver /\ ring
      /\ \A j \in DOMAIN down : down[j].kind \notin Last3
      /\ recorder \notin failed => Moving(file[recorder], down, recorder, sent)
  BY <1>2 DEF SessionInv, RunningInv
<1>4. /\ DOMAIN down' = 1..(Len(down) + 1) /\ DOMAIN down = 1..Len(down) /\ Len(down) \in Nat
      /\ \A i \in DOMAIN down : down'[i] = down[i]
      /\ down'[Len(down) + 1] = x
  BY <1>0, <1>1, <1>2, AppendFacts
<1>5. /\ FramePlaces(down') = FramePlaces(down) \cup {Len(down) + 1}
      /\ \A j \in FramePlaces(down) : down'[j] = down[j]
  BY <1>0, <1>1, <1>2, PlacesAppended
<1>6. \A j \in DOMAIN down' : down'[j].kind \notin Last3
  BY <1>1, <1>3, <1>4 DEF Last3
<1>7. NotOver' = NotOver /\ Finished' = Finished /\ ~ Finished
  BY <1>0, <1>2, <1>3 DEF NotOver, Finished
<1>8. PendingInv'
  BY <1>2, <1>3 DEF PendingInv, NoExport
<1>9. recorder \notin failed => Moving(file[recorder], down', recorder, sent + 1)
  <2> SUFFICES ASSUME recorder \notin failed PROVE Moving(file[recorder], down', recorder, sent + 1)
    OBVIOUS
  <2>1. Moving(file[recorder], down, recorder, sent) /\ x.frame = <<recorder, sent + 1>> /\ file[recorder] \in Seq(Frame)
    BY <1>0, <1>1, <1>3
  <2> QED BY <1>0, <1>1, <1>2, <2>1, MovingSend
<1>10. RunningInv'
  BY <1>2, <1>3, <1>6, <1>7, <1>9 DEF RunningInv
<1>11. x.frame[1] = recorder
  BY <1>1, <1>3
<1>12. DownInv'
  <2>1. recorder' # None /\ \A j \in FramePlaces(down') : down'[j].frame[1] = recorder'
    BY <1>2, <1>3, <1>4, <1>5, <1>11 DEF SessionInv, DownInv
  <2> QED BY <1>6, <2>1 DEF DownInv
<1>13. OverInv'
  BY <1>2, <1>7 DEF SessionInv, OverInv
<1>14. MovedInv' /\ StatusInv' /\ CompleteExportIsWhole'
  BY <1>2, <1>3 DEF SessionInv, MovedInv, StatusInv, CompleteExportIsWhole
<1> QED BY <1>8, <1>10, <1>12, <1>13, <1>14 DEF SessionInv

(* The device begins the export, finds no archive, or is busy.               *)
LEMMA ExportKeeps ==
  ASSUME TypeInv, SessionInv, ~ disturbed, DeviceExport PROVE SessionInv'
<1> USE DEF guiVars, fileVars
<1>0. /\ down \in Seq(Item) /\ commands \in Seq(Commands) /\ file \in [Exports -> Seq(Frame)] /\ recorder \in Exports \cup {None}
      /\ mirror.revision \in Nat
  BY DEF TypeInv, TypeOK, Mirror
<1>1. /\ Take("export")
      /\ UNCHANGED <<recorder, since, status, file, failed, exports, disturbed, mirror, ring, moved>>
  BY DEF DeviceExport, deviceUnchanged
<1>2. /\ commands' \in Seq(Commands) /\ 1 \in DOMAIN commands /\ Head(commands) = commands[1]
      /\ commands[1].kind = "export"
      /\ \A i \in DOMAIN commands' :
           commands'[i] = commands[i + 1] /\ i + 1 \in DOMAIN commands /\ i \in Nat \ {0}
  BY <1>0, <1>1, Taken
<1>3. /\ recorder # None /\ commands[1].export = recorder /\ file[recorder] = <<>>
      /\ device # "EXPORT" /\ NoTraffic(down) /\ mirror.revision = since
  BY <1>2 DEF SessionInv, PendingInv
<1>4. NoExport(commands')
  <2> SUFFICES ASSUME NEW i \in DOMAIN commands', commands'[i].kind = "export" PROVE FALSE
    BY DEF NoExport
  <2>1. i + 1 = 1
    BY <1>2 DEF SessionInv, PendingInv
  <2> QED BY <1>2, <2>1
<1>5. NotOver /\ \A j \in DOMAIN down : down[j].kind \notin Last3
  BY <1>3 DEF NotOver, NoTraffic, Traffic, Last3
<1>6. CASE device = "IDLE" /\ ~ ring /\ Reply(Line("empty")) /\ UNCHANGED <<device, run, sent>>
  <2>1. Line("empty") \in Item /\ Line("empty").kind = "empty"
    BY RecordTypes
  <2>2. down' = down \/ down' = Append(down, Line("empty"))
    BY <1>6 DEF Reply
  <2>3. \A f, k, n : Moving(f, down, k, n) => Moving(f, down', k, n)
    BY <1>0, <2>1, <2>2, LineMoves
  <2>4. MovedInv'
    BY <1>1, <2>3 DEF SessionInv, MovedInv
  <2> QED BY <1>1, <1>2, <1>3, <1>4, <1>5, <1>6, <2>1, <2>2, <2>4, EndingStep DEF Last3
<1>7. CASE device # "IDLE" /\ UNCHANGED <<device, run, sent, down, losses>>
  <2>1. State("IDLE") \in Item /\ State("IDLE").kind \notin Traffic
    BY RecordTypes DEF Traffic
  <2>2. \A i \in DOMAIN commands' : commands'[i].kind = "export" => i + 1 \in DOMAIN commands /\ commands'[i] = commands[i + 1]
    BY <1>2
  <2> QED BY <1>1, <1>2, <1>3, <1>7, <2>1, <2>2, QuietStep
<1>8. CASE /\ device = "IDLE" /\ ring /\ device' = "EXPORT" /\ run' = Head(commands).export /\ sent' = 0
           /\ Reply(Line("begin"))
  <2>1. Line("begin") \in Item /\ Line("begin").kind = "begin"
    BY RecordTypes
  <2>2. down' = down \/ down' = Append(down, Line("begin"))
    BY <1>8 DEF Reply
  <2>3. FramePlaces(down') = {}
    <3>1. FramePlaces(down) = {}
      BY <1>3, NoFrames
    <3>2. FramePlaces(Append(down, Line("begin"))) = FramePlaces(down)
      BY <1>0, <2>1, PlacesAppended
    <3> QED BY <2>2, <3>1, <3>2
  <2>4. \A j \in DOMAIN down' : down'[j].kind \notin Last3
    <3>1. CASE down' = Append(down, Line("begin"))
      <4>1. /\ DOMAIN down' = 1..(Len(down) + 1) /\ DOMAIN down = 1..Len(down) /\ Len(down) \in Nat
            /\ \A i \in DOMAIN down : down'[i] = down[i]
            /\ down'[Len(down) + 1] = Line("begin")
        BY <1>0, <2>1, <3>1, AppendFacts
      <4> QED BY <1>5, <2>1, <4>1 DEF Last3
    <3> QED BY <1>5, <2>2, <3>1
  <2>5. NotOver' = NotOver /\ Finished' = Finished /\ ~ Finished
    BY <1>0, <1>1, <1>3 DEF NotOver, Finished
  <2>6. PendingInv'
    BY <1>4 DEF PendingInv, NoExport
  <2>7. Moving(file[recorder], down', recorder, 0)
    <3>1. file[recorder] \in Seq(Frame) /\ file[recorder] = FirstFrames(recorder, 0) /\ 0 \in Nat
      BY <1>0, <1>3, NothingFirst
    <3> QED BY <2>3, <3>1, MovingOver
  <2>8. RunningInv'
    BY <1>1, <1>2, <1>3, <1>4, <1>5, <1>8, <2>4, <2>5, <2>7 DEF RunningInv
  <2>9. DownInv'
    BY <1>1, <1>3, <2>3, <2>4 DEF DownInv
  <2>10. OverInv'
    BY <1>1, <2>5 DEF SessionInv, OverInv
  <2>11. MovedInv' /\ StatusInv' /\ CompleteExportIsWhole'
    BY <1>1, <1>8 DEF SessionInv, MovedInv, StatusInv, CompleteExportIsWhole
  <2> QED BY <2>6, <2>8, <2>9, <2>10, <2>11 DEF SessionInv
<1> QED BY <1>6, <1>7, <1>8 DEF DeviceExport

-----------------------------------------------------------------------------
LEMMA InitSession == Init => SessionInv
<1> SUFFICES ASSUME Init PROVE SessionInv
  OBVIOUS
<1>1. /\ DOMAIN commands = {} /\ DOMAIN down = {} /\ FramePlaces(down) = {} /\ NoTraffic(down) /\ NoExport(commands)
  BY DEF Init, FramePlaces, NoTraffic, NoExport
<1>2. PendingInv /\ RunningInv /\ DownInv /\ MovedInv
  BY <1>1 DEF Init, PendingInv, RunningInv, DownInv, MovedInv
<1>3. OverInv
  BY DEF Init, OverInv, NewMirror
<1>4. StatusInv /\ CompleteExportIsWhole
  BY DEF Init, StatusInv, CompleteExportIsWhole
<1> QED BY <1>2, <1>3, <1>4 DEF SessionInv

(* A session that is not disturbed keeps its invariant.                      *)
LEMMA NextSession ==
  ASSUME TypeInv, TypeInv', SessionInv, ~ disturbed, ~ disturbed', [Next]_vars
  PROVE  SessionInv'
<1> USE DEF guiVars, fileVars, deviceVars, deviceUnchanged
<1>0. /\ commands \in Seq(Commands) /\ commands' \in Seq(Commands) /\ down \in Seq(Item)
      /\ State("IDLE") \in Item /\ State("IDLE").kind \notin Traffic
      /\ Line("acquire") \in Item /\ Line("acquire").kind \notin Traffic
      /\ State(device) \in Item /\ State(device).kind \notin Traffic
  BY RecordTypes DEF TypeInv, TypeOK, Traffic
<1>k. \A i \in DOMAIN commands : i + 0 = i /\ i \in Nat
  BY <1>0
<1>r. device = "EXPORT" => ring
  BY DEF SessionInv, RunningInv
<1>1. CASE CancelExport
  <2>1. \A i \in DOMAIN commands' : commands'[i].kind = "export" => i + 0 \in DOMAIN commands /\ commands'[i] = commands[i + 0]
    BY <1>0, <1>1, <1>k, PlainCancel
  <2> QED BY <1>0, <1>r, <1>1, <2>1, QuietStep DEF CancelExport
<1>2. ASSUME NEW k \in {"stop", "start", "query", "clear"}, Issue(k) PROVE SessionInv'
  <2>1. \A i \in DOMAIN commands' : commands'[i].kind = "export" => i + 0 \in DOMAIN commands /\ commands'[i] = commands[i + 0]
    BY <1>0, <1>2, <1>k, PlainIssue
  <2> QED BY <1>0, <1>r, <1>2, <2>1, QuietStep DEF Issue
<1>3. ASSUME UNCHANGED <<recorder, since, status, file, failed, exports, disturbed, mirror, commands, down, deviceVars>>
      PROVE  SessionInv'
  <2>1. \A i \in DOMAIN commands' : commands'[i].kind = "export" => i + 0 \in DOMAIN commands /\ commands'[i] = commands[i + 0]
    BY <1>3, <1>k
  <2> QED BY <1>0, <1>r, <1>3, <2>1, QuietStep
<1>4. ASSUME NEW k, Take(k), UNCHANGED <<guiVars, mirror, moved>>, ring' => ring,
             device' = "EXPORT" => device = "EXPORT" /\ run' = run /\ sent' = sent /\ ring',
             NEW x \in Item, x.kind \notin Traffic, down' = down \/ down' = Append(down, x)
      PROVE  SessionInv'
  <2>1. \A i \in DOMAIN commands' : commands'[i].kind = "export" => i + 1 \in DOMAIN commands /\ commands'[i] = commands[i + 1]
    BY <1>0, <1>4, Taken
  <2> QED BY <1>0, <1>4, <2>1, QuietStep
<1>5. CASE DeviceStop
  BY <1>0, <1>4, <1>5 DEF DeviceStop, Idle
<1>6. CASE DeviceStart
  <2>1. down' = down \/ down' = Append(down, Line("acquire"))
    BY <1>6 DEF DeviceStart, Reply
  <2> QED BY <1>0, <1>r, <1>4, <1>6, <2>1 DEF DeviceStart
<1>7. CASE DeviceQuery
  <2>1. down' = down \/ down' = Append(down, State(device))
    BY <1>7 DEF DeviceQuery, Reply
  <2> QED BY <1>0, <1>r, <1>4, <1>7, <2>1 DEF DeviceQuery
<1>8. CASE DeviceClear
  BY <1>0, <1>r, <1>4, <1>8 DEF DeviceClear
<1>9. CASE WriterCounts
  BY <1>3, <1>9 DEF WriterCounts
<1>10. CASE UNCHANGED vars
  BY <1>3, <1>10 DEF vars
<1>11. CASE FinalizeCancelled \/ Watchdog
  BY <1>11, Zenon DEF FinalizeCancelled, Watchdog
<1> QED
  BY <1>1, <1>2, <1>5, <1>6, <1>7, <1>8, <1>9, <1>10, <1>11, StartKeeps, RetryKeeps, FinalizeKeeps,
     LinkLostKeeps, ReceiveFrameKeeps, ReceiveLineKeeps, FailureKeeps, ExportKeeps, SendKeeps,
     FinishKeeps, AbortKeeps
  DEF Next, Gui, Tick, Device, WriteControl, ClearSd, StartAcquisition, StopAcquisition, RequestStatus

(* A disturbed session stays one.                                            *)
LEMMA DisturbedStays ==
  ASSUME disturbed, disturbed \in BOOLEAN, [Next]_vars PROVE disturbed'
  BY Zenon DEF Next, Gui, Tick, Device, WriteControl, ClearSd, StartAcquisition, StopAcquisition, RequestStatus,
     StartExport, CancelExport, Issue, LinkLost, FinalizeCancelled, FinalizeExport, RetryExport, Watchdog,
     ReceiveFrame, ReceiveLine, WriterCounts, RecorderFails, DeviceExport, DeviceStop, DeviceStart,
     DeviceQuery, DeviceClear, DeviceSendFrame, DeviceFinish, DeviceAborts, vars, guiVars, fileVars,
     deviceVars, deviceUnchanged

(* The invariant is inductive.                                               *)
THEOREM Inductive == Spec => []IInv
<1>1. Init => IInv
  BY InitType, InitSession DEF IInv
<1>2. IInv /\ [Next]_vars => IInv'
  <2> SUFFICES ASSUME IInv, [Next]_vars PROVE IInv'
    OBVIOUS
  <2>1. TypeInv'
    BY NextType DEF IInv
  <2>2. disturbed \in BOOLEAN
    BY DEF IInv, TypeInv, TypeOK
  <2>3. ~ disturbed' => SessionInv'
    BY <2>1, <2>2, NextSession, DisturbedStays DEF IInv
  <2> QED BY <2>1, <2>3 DEF IInv
<1> QED BY <1>1, <1>2, PTL DEF Spec

(* Every variable of an export session has its type whatever the user, the   *)
(* timers, the link and the device do, and the automatic retries of one      *)
(* export never exceed _EXPORT_AUTO_RETRIES.                                 *)
THEOREM TypeCorrect == Spec => []TypeOK
<1>1. IInv => TypeOK
  BY DEF IInv, TypeInv
<1> QED BY <1>1, Inductive, PTL

(* A local file whose metadata says the export completed holds the whole     *)
(* archive, each frame once and in order, for any number of frames, of       *)
(* retries and of lost replies, until a cancel, the watchdog or a lost link  *)
(* has closed an export.                                                     *)
THEOREM CompleteFilesAreWhole == Spec => []CompleteExportIsWhole
<1>1. IInv => CompleteExportIsWhole
  BY DEF IInv, SessionInv, CompleteExportIsWhole
<1> QED BY <1>1, Inductive, PTL

(* Once the device has emptied its ring, every frame of it is in the file or *)
(* on the way to it.                                                         *)
THEOREM ArchiveIsNeverLost == Spec => []UndisturbedMove
<1>1. IInv => UndisturbedMove
  BY Bounds DEF IInv, SessionInv, MovedInv, UndisturbedMove
<1> QED BY <1>1, Inductive, PTL

(* What _finalize_completed_export closes is over on the device as well.     *)
THEOREM ClosedIsOver == Spec => []ClosedExportIsOver
<1>1. ASSUME IInv PROVE ClosedExportIsOver
  <2> SUFFICES ASSUME ~ disturbed, NEW k \in Exports, status[k] \notin {"none", "in_progress"}
               PROVE  ~ (device = "EXPORT" /\ run = k) /\ ~ Contains(commands, ExportOf(k))
    BY DEF ClosedExportIsOver
  <2>1. SessionInv /\ commands \in Seq(Commands)
    BY <1>1 DEF IInv, TypeInv, TypeOK
  <2>2. recorder # k
    BY <2>1, Bounds DEF SessionInv, StatusInv
  <2>3. ~ (device = "EXPORT" /\ run = k)
    BY <2>1, <2>2 DEF SessionInv, RunningInv
  <2>4. ASSUME NEW i \in DOMAIN commands, commands[i] = ExportOf(k) PROVE FALSE
    <3>1. commands[i].kind = "export" /\ commands[i].export = k
      BY <2>4, RecordTypes
    <3> QED BY <2>1, <2>2, <3>1 DEF SessionInv, PendingInv
  <2> QED BY <2>1, <2>3, <2>4 DEF Contains
<1> QED BY <1>1, Inductive, PTL
=============================================================================

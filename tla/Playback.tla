------------------------------ MODULE Playback ------------------------------
(***************************************************************************)
(* Offline playback: the index of an archive file (archive_library.py),    *)
(* the PlaybackController that decodes the file up to a playhead into a    *)
(* SampleStore (playback_controller.py), its control bar (playback_bar.py) *)
(* and the live views it shares with the acquisition (main_window.py,      *)
(* app.py).                                                                *)
(*                                                                         *)
(* A file is any sequence of frames.  A damaged frame has a bad CRC, which *)
(* only the parser notices, or a bad header, where the index ends and the  *)
(* parser finds the next frame.  Timestamps count from the start of the    *)
(* device: they go back where an export of its SD ring spans a restart.    *)
(* Time is counted in sample periods, and a vibration frame has two        *)
(* samples; the speed is in how far a tick moves.                          *)
(***************************************************************************)
EXTENDS SampleStore

CONSTANTS
  Paths,       \* the archive files
  Archives,    \* the possible contents of the files
  Windows,     \* the choices of the window combo, in time units
  ChunkFrames, \* frames in one read of the file
  MaxStep,     \* bound on how far a tick moves the playhead
  MaxTime,     \* bound on the timestamps
  MaxOps,      \* bound on what the user does
  None         \* Python's None

FrameRecords == [kind : {"iis", "jy", "other"}, ts : 0..MaxTime, peak : Nat,
                 health : {"ok", "crc", "header"}]

ASSUME PlaybackAssumption ==
  /\ Windows \subseteq 1..Retention /\ Windows # {}
  /\ ChunkFrames \in Nat \ {0} /\ MaxStep \in Nat \ {0} /\ MaxOps \in Nat
  /\ MaxTime \in Nat /\ None \notin Paths \cup {"live"} /\ "live" \notin Paths
  /\ \A c \in Archives : \A p \in Paths : c[p] \in Seq(FrameRecords)

VARIABLES
  content,  \* the frames in each file
  jobs,     \* the files the index threads work on
  ops,      \* what the user did so far
  \* PlaybackController
  file,     \* the file that is loaded
  playing,  \* _playing
  playhead, \* _playhead_s
  decoder,  \* the frames [first, read] given to the parser, the last one applied, _eof
  chunks,   \* the store's chunks
  attitude, \* the frame of the store's orientation
  window,   \* the window combo
  from,     \* the time decoding was restarted at
  filled,   \* whether it has filled the store since
  \* MainWindow and AppController
  paused,   \* _display_paused, of the live views
  active,   \* _playback_active
  view      \* whose curves the live views show: None, "live" or the file's

controlVars == <<file, playing, playhead, decoder, chunks, attitude, from, filled>>
vars == <<content, jobs, ops, controlVars, window, paused, active, view>>

\* _restart_decoder at frame i.
Fresh(i) == [first |-> i, read |-> i - 1, done |-> i - 1, eof |-> FALSE]

Init ==
  /\ content \in Archives /\ jobs = <<>> /\ ops = 0
  /\ file = None /\ playing = FALSE /\ playhead = 0 /\ decoder = Fresh(1)
  /\ chunks = NoSamples /\ attitude = 0 /\ from = 0 /\ filled = FALSE
  /\ window \in Windows /\ paused = FALSE /\ active = FALSE /\ view = None

-----------------------------------------------------------------------------
(* build_playback_index.                                                     *)

Frames(p) == content[p]

\* The frames the index lists: those before the first bad header.
Indexed(p) ==
  LET bad == {i \in DOMAIN Frames(p) : Frames(p)[i].health = "header"}
  IN  IF bad = {} THEN Frames(p) ELSE SubSeq(Frames(p), 1, Min(bad) - 1)

Vibration(p) == {i \in DOMAIN Indexed(p) : Indexed(p)[i].kind = "iis"}

FirstTimestamp(p) == IF Vibration(p) = {} THEN 0 ELSE Indexed(p)[Min(Vibration(p))].ts
LastTimestamp(p)  == IF Vibration(p) = {} THEN 0 ELSE Indexed(p)[Max(Vibration(p))].ts

Duration(p) == Max({0, LastTimestamp(p) - FirstTimestamp(p)})

\* offset_for_time.  np.searchsorted bisects the timestamps and ends where they cross
\* the time: at one place when they never go back, and else at any of several.
Crosses(p, k, time) ==
  /\ k > 0 => Indexed(p)[k].ts <= time
  /\ k < Len(Indexed(p)) => time < Indexed(p)[k + 1].ts

OffsetsForTime(p, t) ==
  {o \in 1..(Len(Frames(p)) + 1) :
     \E k \in 0..Len(Indexed(p)) : o = Max({1, k}) /\ Crosses(p, k, FirstTimestamp(p) + t)}

-----------------------------------------------------------------------------
(* Decoding.                                                                 *)

Cutoff(p, t) == FirstTimestamp(p) + t

Intact(p, kind) == {i \in DOMAIN Frames(p) : Frames(p)[i].health = "ok" /\ Frames(p)[i].kind = kind}

\* The frames that StreamParser.feed returns and _fill_until keeps.
Sensor(p) == Intact(p, "iis") \cup Intact(p, "jy")

\* _pending_frames
Pending(p, d) == Sensor(p) \cap ((d.done + 1)..d.read)

\* IisTimestampReconstructor for a frame of two samples with a time tag between
\* them: the first continues the clock of the frame before, if one was decoded
\* since the restart, and the second is at the frame's own time.
SamplesOf(p, d, i) ==
  LET f      == Frames(p)[i]
      before == Intact(p, "iis") \cap (d.first..(i - 1))
  IN  <<[t |-> IF before = {} THEN f.ts - 1 ELSE Frames(p)[Max(before)].ts + 1, mag |-> 0,
         of |-> i, nth |-> 1],
        [t |-> f.ts, mag |-> f.peak, of |-> i, nth |-> 2]>>

Due(p, i, t) == Frames(p)[i].ts <= Cutoff(p, t)

\* The reads of ChunkFrames frames go on until a frame waits for a later time or
\* the file ends.
FramesRead(p, d, t) ==
  LET upTo(k) == Min({Len(Frames(p)), d.read + k * ChunkFrames})
      enough(n) == n = Len(Frames(p)) \/ \E i \in Pending(p, [d EXCEPT !.read = n]) : ~ Due(p, i, t)
  IN  Min({n \in {upTo(k) : k \in 0..Len(Frames(p))} : enough(n)})

\* _fill_until: the decoder after it.  A frame that is not due yet holds up all that
\* follow it in the file.
FillUntil(p, d, t) ==
  LET n    == FramesRead(p, d, t)
      late == {i \in Pending(p, [d EXCEPT !.read = n]) : ~ Due(p, i, t)}
  IN  [d EXCEPT !.read = n, !.done = IF late = {} THEN n ELSE Min(late) - 1,
                !.eof = @ \/ late = {}]

\* _apply_frame, for the frames that follow in the file up to n.
ApplyIis(p, d, c, n) ==
  LET upTo[i \in d.done..n] ==
        IF i = d.done THEN c
        ELSE IF i \in Intact(p, "iis") THEN AppendIis(upTo[i - 1], SamplesOf(p, d, i))
        ELSE upTo[i - 1]
  IN  upTo[n]
ApplyJy(a, S) == IF S = {} THEN a ELSE Max(S)

\* VibrationView.update_snapshot: a paused display keeps its curves, those of a
\* playback too.
SetCurves(source) == view' = IF paused THEN view ELSE source

\* MainWindow.update_snapshot.  A page that is hidden shows the snapshot when the
\* user returns to it.
UpdateSnapshot(source) == SetCurves(source)

\* Filling up to t, and the snapshot that shows it.
Fill(d, c, t) ==
  /\ decoder' = FillUntil(file, d, t)
  /\ chunks' = ApplyIis(file, d, c, decoder'.done)
  /\ attitude' = ApplyJy(attitude, Intact(file, "jy") \cap ((d.done + 1)..decoder'.done))
  /\ filled' = TRUE /\ UpdateSnapshot(file)

-----------------------------------------------------------------------------
(* The user.                                                                 *)

Op == ops < MaxOps /\ ops' = ops + 1

\* open_for_playback: a thread starts to index the file.  A double click opens a
\* file while another one is being indexed.
OpenForPlayback(p) ==
  /\ Op /\ jobs' = Append(jobs, p)
  /\ UNCHANGED <<content, controlVars, window, paused, active, view>>

\* finish, for a file that could not be read.
IndexFails(k) ==
  /\ jobs' = RemoveAt(jobs, k)
  /\ UNCHANGED <<content, ops, controlVars, window, paused, active, view>>

\* Mutant: the views are cleared once playback owns them.
ShowPlaybackMutant == active' = TRUE /\ UNCHANGED view

\* clear_live_views, which playback in progress keeps from clearing, and then
\* set_playback_active.
ShowPlayback == active' = TRUE /\ view' = IF active THEN view ELSE None

\* finish, for any thread that is done: load.
Load(k) ==
  /\ jobs' = RemoveAt(jobs, k)
  /\ file' = jobs[k] /\ playing' = FALSE /\ playhead' = 0
  /\ \E o \in OffsetsForTime(jobs[k], 0) : decoder' = Fresh(o)
  /\ chunks' = NoSamples /\ attitude' = 0 /\ from' = 0 /\ filled' = FALSE
  /\ ShowPlayback
  /\ UNCHANGED <<content, ops, window, paused>>

\* Mutant: decoding restarts at the target.
SeekMutant(t) ==
  /\ playhead' = t /\ from' = Max({0, t - window})
  /\ \E o \in OffsetsForTime(file, t) : Fill(Fresh(o), NoSamples, t)

\* seek: the window before the target is decoded again.
Seek(t) ==
  /\ playhead' = t /\ from' = Max({0, t - window})
  /\ \E o \in OffsetsForTime(file, from') : Fill(Fresh(o), NoSamples, t)

\* The slider of a file that has a duration.
SeekRequested(t) ==
  /\ Op /\ active /\ file # None /\ Duration(file) > 0 /\ t <= Duration(file)
  /\ Seek(t)
  /\ UNCHANGED <<content, jobs, file, playing, window, paused, active>>

Parked == playhead >= Duration(file)

\* play, which starts over at the end.
Play ==
  /\ Op /\ active /\ file # None /\ ~ playing /\ playing' = TRUE
  /\ \/ Parked /\ Seek(0)
     \/ ~ Parked /\ UNCHANGED <<playhead, from, decoder, chunks, attitude, filled, view>>
  /\ UNCHANGED <<content, jobs, file, window, paused, active>>

Pause ==
  /\ Op /\ active /\ playing /\ playing' = FALSE
  /\ UNCHANGED <<content, jobs, file, playhead, decoder, chunks, attitude, from, filled, window,
                 paused, active, view>>

\* stop, then exit_playback: the file stays loaded.
Stop ==
  /\ Op /\ active /\ file # None
  /\ playing' = FALSE /\ playhead' = 0 /\ chunks' = NoSamples /\ from' = 0 /\ filled' = FALSE
  /\ \E o \in OffsetsForTime(file, 0) : decoder' = Fresh(o)
  /\ active' = FALSE /\ view' = None
  /\ UNCHANGED <<content, jobs, file, attitude, window, paused>>

SetWindow(w) ==
  /\ Op /\ w # window /\ window' = w
  /\ UNCHANGED <<content, jobs, controlVars, paused, active, view>>

\* The PAUSE button of the live display, which a lost connection releases.
SetDisplayPaused ==
  /\ Op /\ paused' = ~ paused
  /\ UNCHANGED <<content, jobs, controlVars, window, active, view>>

-----------------------------------------------------------------------------
(* The timers.                                                               *)

\* Mutant: the playhead is compared after it was held back.
ReachedEndMutant(n) == playhead' > Duration(file)

ReachedEnd(n) == playhead + n >= Duration(file)

Tick(n) ==
  /\ playing /\ playhead' = Min({playhead + n, Duration(file)})
  /\ Fill(decoder, chunks, playhead')
  /\ playing' = ~ (ReachedEnd(n) /\ decoder'.eof /\ Pending(file, decoder') = {})
  /\ UNCHANGED <<content, jobs, ops, file, from, window, paused, active>>

\* _publish_selected_session emits no snapshot while the display is paused.
PublishSelectedSession == ~ paused

\* update_live_snapshot: the acquisition's snapshots while playback is off.
LiveSnapshot ==
  /\ PublishSelectedSession /\ ~ active /\ UpdateSnapshot("live")
  /\ UNCHANGED <<content, jobs, ops, controlVars, window, paused, active>>

\* display_clear_requested: clear_live_views.
ClearLiveViews ==
  /\ ~ active /\ view' = None
  /\ UNCHANGED <<content, jobs, ops, controlVars, window, paused, active>>

-----------------------------------------------------------------------------
User == \/ \E p \in Paths : OpenForPlayback(p)
        \/ \E t \in 0..MaxTime : SeekRequested(t)
        \/ Play \/ Pause \/ Stop \/ SetDisplayPaused
        \/ \E w \in Windows : SetWindow(w)

Next == \/ User \/ LiveSnapshot \/ ClearLiveViews
        \/ \E k \in 1..MaxOps : k \in DOMAIN jobs /\ Load(k)
        \/ \E k \in 1..MaxOps : k \in DOMAIN jobs /\ IndexFails(k)
        \/ \E n \in 1..MaxStep : Tick(n)

Spec == Init /\ [][Next]_vars

\* The playback timer runs while a file is played, and time goes on.
FairSpec == Spec /\ WF_vars(\E n \in 1..MaxStep : Tick(n))

-----------------------------------------------------------------------------
\* The frames of a kind that are to be seen: from the one decoding was restarted at to
\* the first one that is not due.
Played(kind) ==
  {i \in Intact(file, kind) : /\ decoder.first <= i
                              /\ \A j \in Sensor(file) \cap (decoder.first..i) : Due(file, j, playhead)}

Shown == Snapshot(chunks, window).samples

\* Where a sample is in the file.
Place(s) == 2 * s.of + s.nth

\* The window of the last frame: all that it reaches and the retention has not dropped,
\* in the order of the file, and nothing else.
ShowsWindow(samples) ==
  LET ts(i) == Frames(file)[i].ts
      last  == Max(Played("iis"))
  IN  /\ \A i \in Played("iis") :
           /\ ts(i) >= ts(last) - window
           /\ \A m \in Played("iis") : m > i => ts(i) >= ts(m) - Retention
           => Cardinality({k \in DOMAIN samples : samples[k].of = i /\ samples[k].nth = 2}) = 1
      /\ \A k \in DOMAIN samples : /\ samples[k].of \in Played("iis")
                                /\ k > 1 => Place(samples[k - 1]) < Place(samples[k])

\* What a device records between two restarts: its time goes on, and the samples of a
\* vibration frame take their time.
OneBoot(f) ==
  \A i, j \in DOMAIN f : i < j =>
    /\ f[i].ts <= f[j].ts
    /\ f[i].kind = "iis" /\ f[j].kind = "iis" /\ f[i].health = "ok" /\ f[j].health = "ok"
         => f[i].ts + 2 <= f[j].ts

\* The intact frames between the time decoding was restarted at and the playhead.
Passed(kind) == {i \in Intact(file, kind) :
                   Cutoff(file, from) < Frames(file)[i].ts /\ Frames(file)[i].ts <= Cutoff(file, playhead)}

InTimeOrder(samples) == \A k \in DOMAIN samples : k > 1 => samples[k - 1].t <= samples[k].t

KeepsPeaks(samples) ==
  LET points   == Envelope(samples)
      interior == 2..(Len(samples) - 1)
  IN  /\ Cardinality(points) <= MaxPoints
      /\ samples # <<>> => {1, Len(samples)} \subseteq points
      /\ MaxPoints > 2 =>
           \A i \in interior : \E j \in points \cap interior : samples[j].mag >= samples[i].mag

\* What PlaybackController shows is the file: wherever the user seeked and however the
\* ticks fell, each intact vibration frame from the restart of decoding to the first
\* frame that is not due, if the window reaches it, is in the snapshot exactly once and
\* in the order of the file, nothing else is, the attitude is that of the last such
\* attitude frame, and the point budget keeps the ends and the strongest point between
\* them.  When the file is of one boot, no frame the playhead has passed is withheld,
\* and the snapshot is in the order of time and ends at the playhead (_fill_until,
\* _restart_decoder, RealtimeSampleStore.snapshot).
DisplayIsFaithful ==
  filled =>
    /\ Played("iis") # {} => ShowsWindow(Shown)
    /\ Played("jy") # {} => attitude = Max(Played("jy"))
    /\ KeepsPeaks(Shown)
    /\ OneBoot(Frames(file)) =>
         /\ Passed("iis") \subseteq Played("iis") /\ Passed("jy") \subseteq Played("jy")
         /\ InTimeOrder(Shown)
         /\ \A k \in DOMAIN Shown : Shown[k].t <= Cutoff(file, playhead)

\* Live samples and a file's never share the views: no live curve is left when
\* playback takes them over, none arrives while it owns them, and nothing of a file
\* is left or arrives after EXIT (clear_live_views, set_playback_active,
\* update_live_snapshot, exit_playback).
ViewsNeverMix == IF active THEN view # "live" ELSE view \in {None, "live"}

(* The invariant behind it: only an active playback runs, and it has a file. *)
ViewInv ==
  /\ jobs \in Seq(Paths) /\ file \in Paths \cup {None}
  /\ playing \in BOOLEAN /\ paused \in BOOLEAN /\ active \in BOOLEAN
  /\ playing => active
  /\ active => file # None
  /\ ViewsNeverMix

(* The invariant behind DisplayIsFaithful.  Samples are in the order of the  *)
(* file.                                                                     *)
SampleRecords == [t : Int, mag : Nat, of : Nat, nth : 1..2]

Chained(c) ==
  /\ c \in Seq(Seq(SampleRecords))
  /\ \A j \in DOMAIN c : Len(c[j]) = 1 \/ (Len(c[j]) = 2 /\ Place(c[j][1]) < Place(Last(c[j])))
  /\ \A j, k \in DOMAIN c : j < k => Place(Last(c[j])) < Place(c[k][1])

\* The frames of a kind that were applied since the restart.
Applied(p, d, kind) == Intact(p, kind) \cap (d.first..d.done)

\* The store has a chunk for each vibration frame applied, but for those that are older
\* than the retention; the first chunk may have lost a sample.
Stored(p, d, c) ==
  /\ Chained(c)
  /\ \A j \in DOMAIN c : \A k \in DOMAIN c[j] :
       /\ c[j][k].of \in Applied(p, d, "iis")
       /\ c[j][k] = SamplesOf(p, d, c[j][k].of)[c[j][k].nth]
  /\ \A j \in DOMAIN c : Last(c[j]).nth = 2
  /\ c # <<>> => Last(Last(c)).of = Max(Applied(p, d, "iis"))
  /\ \A i \in Applied(p, d, "iis") :
       (\A m \in Applied(p, d, "iis") : m > i => Frames(p)[m].ts - Retention <= Frames(p)[i].ts)
         => \E j \in DOMAIN c : Last(c[j]).of = i

\* The decoder was restarted at from and has applied frames up to the playhead: all of
\* them up to one that is not due, once it has filled the store.
Decoding(p) ==
  /\ decoder.first \in OffsetsForTime(p, from) /\ from \in Nat
  /\ decoder.first - 1 <= decoder.done /\ decoder.done <= decoder.read
  /\ decoder.read <= Len(Frames(p)) /\ playhead \in 0..Duration(p)
  /\ \A i \in Sensor(p) \cap (decoder.first..decoder.done) : Due(p, i, playhead)
  /\ filled => \/ decoder.done = Len(Frames(p))
               \/ decoder.done + 1 \in Sensor(p) /\ ~ Due(p, decoder.done + 1, playhead)

DisplayInv ==
  /\ content \in Archives /\ window \in Windows /\ filled \in BOOLEAN
  /\ decoder \in [first : Nat \ {0}, read : Nat, done : Nat, eof : BOOLEAN]
  /\ file = None => ~ filled
  /\ file # None =>
       /\ Decoding(file) /\ Stored(file, decoder, chunks)
       /\ Applied(file, decoder, "jy") # {} => attitude = Max(Applied(file, decoder, "jy"))

\* A file that is played reaches its end and stops by itself, or the user stops it,
\* if no intact frame is later than the last vibration frame of the index: an
\* attitude frame after it, or any frame of a boot that lasted longer, stays pending,
\* and _tick goes on for ever.
PlaybackEnds ==
  (/\ playing
   /\ \A i \in Sensor(file) : Due(file, i, Duration(file))) ~> ~ playing
=============================================================================

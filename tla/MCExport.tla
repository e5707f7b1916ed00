------------------------------ MODULE MCExport ------------------------------
(* An archive of two frames, one automatic retry, three files; and the       *)
(* parser of the device's replies on small replies.                          *)
EXTENDS Export

\* State constraint of Export.cfg: an export is closed by a cancel, a timeout or a lost link,
\* or a reply or a recorder fails, but not both in one behaviour.  The safety properties say
\* nothing of a disturbed session, which stays one, so they lose nothing by it.
OneTrouble == ~ disturbed \/ (losses = 0 /\ failed = {})

CS == INSTANCE ControlState WITH
        IntValue <- "0" :> 0 @@ "1" :> 1 @@ "007" :> 7 @@ "10" :> 10,
        MaximumUnsigned <- 9, Uuids <- {"u1"}

\* The lines of each reply, and the fields of a mirror under their names.
StateLines(s) ==
  <<CS!Line("STATE", s), CS!Items("EXPORT", <<<<"TARGET", TargetOf(s)>>>>), CS!Line("OK", None)>>

ReplyLines(l) ==
  CASE l.kind = "begin"   -> <<CS!Line("EXPORT_BEGIN", "SET"), CS!Line("OK", None)>>
    [] l.kind = "empty"   -> <<CS!Line("EXPORT_EMPTY", None)>>
    [] l.kind = "aborted" -> <<CS!Line("EXPORT_ABORTED", None)>>
    [] l.kind = "end"     -> <<CS!Items("EXPORT_END", <<<<"CHUNKS", "1">>>>)>> \o StateLines("IDLE")
    [] l.kind = "acquire" -> <<CS!Line("STATE", "ACQUIRE"), CS!Line("OK", None)>>
    [] l.kind = "state"   -> StateLines(l.acq)

Named(m) == [export_phase |-> m.phase, export_revision |-> m.revision,
             acquisition_state |-> m.acq, export_target |-> m.target]

\* The host's parser accepts every reply and makes of it what Export's mirror shows.
ASSUME MirrorIsParsed ==
  \A l \in {i \in Item : i.kind # "frame"},
     m \in [phase : {"NONE", "IN_PROGRESS", "ABORTED"}, revision : 0..1,
            acq : {"IDLE", "EXPORT"}, target : {"NONE", "SET"}] :
    /\ ~ CS!Raises(ReplyLines(l))
    /\ Restrict(CS!UpdatedFromCli(Named(m), ReplyLines(l)), DOMAIN Named(m))
         = Named(UpdatedFromCli(m, l))

-----------------------------------------------------------------------------
\* Lines of most sections, some of them ambiguous or unreadable.
Lines ==
  {CS!Line("OK", None), CS!Line("STATE", "IDLE"), CS!Line("BAUD", "1"), CS!Line("BAUD", "x"),
   [CS!Items("UUID", <<<<"SOURCE", "DERIVED">>>>) EXCEPT !.rest = "u1"], CS!Line("UUID", "x"),
   CS!Line("LIVESTREAM", "CDC"), CS!Line("STOP_REASON", "COMMAND"),
   CS!Items("LIVE", <<<<"TARGET", "UART">>, <<"DROPS_IIS", "1">>>>),
   CS!Items("LIVE", <<<<"TARGET", "UART">>, <<"TARGET", "CDC">>>>),
   CS!Items("SD", <<<<"USED", "007">>, <<"READY", "1">>>>),
   CS!Items("SD", <<<<"USED", "10">>, <<"READY", "0">>>>),
   CS!Items("SD", <<<<"FORMAT_REQUIRED", "007">>>>), CS!Items("DIAG", <<<<"POOL_FAIL", "0">>>>),
   CS!Items("OTA", <<<<"STATE", "OFF">>, <<"RECEIVED", "0">>>>),
   CS!Items("EXPORT", <<<<"TARGET", "NONE">>, <<"CHUNK", "0">>>>),
   CS!Line("EXPORT_BEGIN", "CDC"), CS!Line("EXPORT_ABORTED", None),
   CS!Items("EXPORT_END", <<<<"CHUNKS", "1">>, <<"FRAMES", "007">>>>)}

\* A new mirror, and one that knows its values from earlier replies.
Mirrors == {CS!Unknown, [f \in CS!Fields |-> 3]}

\* A reply is refused as a whole if two of its lines are of one section or one cannot be
\* read.  Otherwise a field shows the last line that reports it, or what it showed before,
\* and the revision tells an event from the same event seen earlier.
ASSUME RepliesMerge ==
  \A m \in Mirrors, r \in Lines \X Lines :
    LET by(f) == {i \in 1..2 : f \in DOMAIN CS!LineUpdates(r[i])}
        new   == CS!UpdatedFromCli(m, r)
    IN IF CS!Raises(r)
       THEN \/ CS!SectionName(r[1]) \cap CS!SectionName(r[2]) # {}
            \/ \E i \in 1..2 : ~ CS!Readable(r[i])
       ELSE /\ CS!SectionName(r[1]) \cap CS!SectionName(r[2]) = {}
            /\ DOMAIN new = CS!Fields
            /\ \A f \in CS!Fields \ {"export_revision"} :
                 new[f] = IF by(f) = {} THEN m[f]
                          ELSE CS!LineUpdates(r[IF 2 \in by(f) THEN 2 ELSE 1])[f]
            /\ \A f \in CS!NumberFields : new[f] \in {m[f]} \cup 0..9
            /\ new.export_revision - m.export_revision
                 = IF \E i \in 1..2 : CS!IsEvent(r[i]) THEN 1 ELSE 0
=============================================================================

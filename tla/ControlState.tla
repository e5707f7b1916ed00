---------------------------- MODULE ControlState ----------------------------
(***************************************************************************)
(* How one CLI reply of the firmware updates the host's copy of the        *)
(* device's state: FirmwareControlState.updated_from_cli and what it calls *)
(* (protocol/control_state.py).                                            *)
(*                                                                         *)
(* A reply is a sequence of lines; a line has the head that selects its    *)
(* parser, the text after it, and the KEY=value items in that text.  A     *)
(* state, and the updates a reply makes to it, are functions from the      *)
(* names of fields.                                                        *)
(***************************************************************************)
EXTENDS Integers, Sequences, FiniteSets, SequencesExt

CONSTANTS
  IntValue,        \* the natural number each decimal text stands for
  MaximumUnsigned, \* _MAXIMUM_UNSIGNED_VALUE
  Uuids,           \* the texts uuid.UUID reads
  None             \* Python's None

Line(head, rest)   == [head |-> head, rest |-> rest, items |-> <<>>]
Items(head, items) == [head |-> head, rest |-> None, items |-> items]

-----------------------------------------------------------------------------
(* Which field takes what of which line.                                     *)

Whole ==
  [STATE |-> "acquisition_state", BAUD |-> "uart_baud", UUID |-> "device_uuid",
   LIVESTREAM |-> "livestream_target", STOP_REASON |-> "stop_reason",
   EXPORT_BEGIN |-> "export_target"]

Textual ==
  [UUID |-> [SOURCE |-> "uuid_source"], EXPORT |-> [TARGET |-> "export_target"],
   LIVE |-> [TARGET |-> "livestream_target"], OTA |-> [STATE |-> "ota_state"]]

Boolean == [SD |-> [READY |-> "sd_ready", FORMAT_REQUIRED |-> "sd_format_required"]]

UnsignedSd ==
  [USED |-> "sd_used", CAPACITY |-> "sd_capacity", PENDING_FRAMES |-> "sd_pending_frames",
   RETAINED_CHUNKS |-> "sd_retained_chunks", RETAINED_FRAMES |-> "sd_retained_frames",
   OVERWRITTEN_CHUNKS |-> "sd_overwritten_chunks",
   OVERWRITTEN_FRAMES |-> "sd_overwritten_frames"]

UnsignedLive ==
  [DROPS_IIS |-> "live_drops_iis", DROPS_JY |-> "live_drops_jy",
   LAST_ROUTED_SEQUENCE |-> "live_last_routed_sequence",
   LAST_COMPLETED_SEQUENCE |-> "live_last_completed_sequence"]

UnsignedDiag ==
  [POOL_FAIL |-> "diag_pool_fail", INGRESS_DROP |-> "diag_ingress_drop",
   NOSTORE_DROP |-> "diag_nostore_drop", POOL_MIN |-> "diag_pool_min",
   INGRESS_PEAK |-> "diag_ingress_peak", SD_STALL_MS |-> "diag_sd_stall_ms",
   CDC_LIVE |-> "diag_cdc_live", CDC_CTRL |-> "diag_cdc_ctrl",
   CDC_EXPORT |-> "diag_cdc_export"]

UnsignedOta == [RECEIVED |-> "ota_received", TOTAL |-> "ota_total", ERROR |-> "ota_error"]

Unsigned ==
  [SD |-> UnsignedSd, LIVE |-> UnsignedLive, DIAG |-> UnsignedDiag, OTA |-> UnsignedOta,
   EXPORT |-> [CHUNK |-> "export_chunk", FRAME |-> "export_frame"],
   EXPORT_END |-> [CHUNKS |-> "export_chunks", FRAMES |-> "export_frames"]]

Phase ==
  [EXPORT_BEGIN |-> "IN_PROGRESS", EXPORT_EMPTY |-> "EMPTY", EXPORT_ABORTED |-> "ABORTED",
   EXPORT_END |-> "COMPLETE"]

NumberFields == {"uart_baud"} \cup UNION {Range(Unsigned[h]) : h \in DOMAIN Unsigned}
TextFields   == Range(Whole) \cup UNION {Range(Textual[h]) : h \in DOMAIN Textual}
Fields == NumberFields \cup TextFields \cup Range(Boolean["SD"])
          \cup {"export_phase", "export_revision"}

\* FirmwareControlState()
Unknown == [f \in Fields |-> IF f = "export_revision" THEN 0 ELSE None]

-----------------------------------------------------------------------------
(* One line.                                                                 *)

\* The four events of the firmware; every one starts with EXPORT_.
IsEvent(l) == l.head \in DOMAIN Phase

\* OK and ERROR open no section.
SectionName(l) ==
  IF IsEvent(l) THEN {"EXPORT_EVENT"} ELSE {l.head} \ {"OK", "ERROR"}

\* _unsigned raises for the other texts.
IsUnsigned(text) == text \in DOMAIN IntValue /\ IntValue[text] <= MaximumUnsigned

IsBoolean(text) == text \in {"0", "1"}

Keys(l) == {i[1] : i \in Range(l.items)}

\* _key_values raises for a key that comes twice.
KeysOnce(l) == Cardinality(Keys(l)) = Len(l.items)

ValueOf(l, key) == (CHOOSE i \in Range(l.items) : i[1] = key)[2]

\* The fields that a table gives to the items of a line, by key.
Found(table, l) ==
  IF l.head \in DOMAIN table THEN Restrict(table[l.head], DOMAIN table[l.head] \cap Keys(l))
  ELSE <<>>

\* No parser raises for the line.
Readable(l) ==
  /\ KeysOnce(l)
  /\ \A k \in DOMAIN Found(Unsigned, l) : IsUnsigned(ValueOf(l, k))
  /\ \A k \in DOMAIN Found(Boolean, l) : IsBoolean(ValueOf(l, k))
  /\ l.head = "BAUD" => IsUnsigned(l.rest)
  /\ l.head = "UUID" => l.rest \in Uuids

\* The decoded items of a line under the names of their fields.
Named(found, decoded) ==
  [f \in Range(found) |-> decoded[CHOOSE k \in DOMAIN found : found[k] = f]]

\* _parse_line_into: what a readable line writes into updates.
LineUpdates(l) ==
  LET numbers == Found(Unsigned, l)  flags == Found(Boolean, l)  texts == Found(Textual, l)
  IN
  Named(numbers, [k \in DOMAIN numbers |-> IntValue[ValueOf(l, k)]])
  @@ Named(flags, [k \in DOMAIN flags |-> ValueOf(l, k) = "1"])
  @@ Named(texts, [k \in DOMAIN texts |-> ValueOf(l, k)])
  @@ (IF l.head \in DOMAIN Whole
      THEN Whole[l.head] :> IF l.head = "BAUD" THEN IntValue[l.rest] ELSE l.rest
      ELSE <<>>)
  @@ (IF IsEvent(l) THEN "export_phase" :> Phase[l.head] ELSE <<>>)

-----------------------------------------------------------------------------
(* One reply.                                                                *)

\* The loop over the lines of a reply: a section that comes twice, or a line that
\* cannot be read, ends it.
Parse(response) ==
  LET step(sofar, l) ==
        IF ~ sofar.ok \/ SectionName(l) \cap sofar.seen # {} \/ ~ Readable(l)
        THEN [sofar EXCEPT !.ok = FALSE]
        ELSE [sofar EXCEPT !.seen = @ \cup SectionName(l), !.updates = LineUpdates(l) @@ @]
  IN FoldLeft(step, [ok |-> TRUE, seen |-> {}, updates |-> <<>>], response)

HasEvent(response) == \E l \in Range(response) : IsEvent(l)

\* ControlStateParseError is raised.
Raises(response) == ~ Parse(response).ok

\* updated_from_cli of a reply that does not raise: any event counts one revision.
UpdatedFromCli(self, response) ==
  (IF HasEvent(response) THEN "export_revision" :> self.export_revision + 1 ELSE <<>>)
  @@ Parse(response).updates @@ self
=============================================================================

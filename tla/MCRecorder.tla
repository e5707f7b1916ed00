----------------------------- MODULE MCRecorder -----------------------------
(* Small instances of Recorder: two segments, frames of one or two bytes.    *)
EXTENDS Recorder

CONSTANTS s1, s2

MCSegments == {s1, s2}
MCSizes    == {1, 2}
=============================================================================

------------------------------ MODULE MCStream ------------------------------
(* All streams of two items, followed by a frame or a reply that both have   *)
(* to leave alone.                                                           *)
EXTENDS Stream

AllScripts == {s \in [1..3 -> Items] : s[3] \in {"data", "cli", "reply"}}
=============================================================================

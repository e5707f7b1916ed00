---------------------------- MODULE MCOtaUpload ----------------------------
(* Two attempts, with a package of two DATA frames, one of a single frame or *)
(* one that is larger than the device takes.                                 *)
EXTENDS OtaUpload

CONSTANTS p1, p2, large

MCPackages == {p1, p2, large}
Sizes      == [p \in MCPackages |-> IF p = p1 THEN 3 ELSE IF p = p2 THEN 2 ELSE 4]
AllFaults  == {"loseFrame", "loseReply", "repeat", "damage", "busy", "slow"}
=============================================================================

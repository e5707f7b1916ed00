------------------------------ MODULE MCConsole ------------------------------
(* Up to three clients of a listener, whose ids sort like wifi-9, wifi-10 and  *)
(* wifi-11.                                                                    *)
EXTENDS Console

MCRank == <<3, 1, 2>>
=============================================================================

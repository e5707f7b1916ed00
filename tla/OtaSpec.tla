------------------------------- MODULE OtaSpec -------------------------------
(***************************************************************************)
(* What a firmware upload promises, whatever the link does: the device     *)
(* only ever holds the first bytes of one package, it installs nothing but *)
(* a whole package, and the host reports success only for the package that *)
(* is installed.                                                           *)
(***************************************************************************)
EXTENDS Integers

CONSTANTS Packages, ImageSize, NoPackage

VARIABLES
  attempt,   \* the package of the host's current attempt, or NoPackage
  outcome,   \* how that attempt ended: "none", "staged", "failed" or "cancelled"
  held,      \* the package the device holds bytes of, and how many
  installed  \* the package it will install, or NoPackage

specVars == <<attempt, outcome, held, installed>>

Nothing == [package |-> NoPackage, bytes |-> 0]

SpecInit ==
  /\ attempt = NoPackage /\ outcome = "none"
  /\ held = Nothing /\ installed = NoPackage

Attempt(p) == attempt' = p /\ outcome' = "none" /\ UNCHANGED <<held, installed>>

Restart == held' = Nothing /\ UNCHANGED <<attempt, outcome, installed>>

\* More bytes of the package the device holds a part of, or the first of one.
Store(p) ==
  /\ held.package \in {p, NoPackage}
  /\ \E n \in (held.bytes + 1)..ImageSize[p] : held' = [package |-> p, bytes |-> n]
  /\ UNCHANGED <<attempt, outcome, installed>>

Install(p) ==
  /\ held = [package |-> p, bytes |-> ImageSize[p]]
  /\ installed' = p /\ UNCHANGED <<attempt, outcome, held>>

Conclude(r) ==
  /\ attempt # NoPackage /\ outcome = "none"
  /\ r = "staged" => installed = attempt
  /\ outcome' = r /\ UNCHANGED <<attempt, held, installed>>

SpecNext == \/ \E p \in Packages : Attempt(p) \/ Store(p) \/ Install(p)
            \/ Restart
            \/ \E r \in {"staged", "failed", "cancelled"} : Conclude(r)

AbstractSpec == SpecInit /\ [][SpecNext]_specVars
=============================================================================

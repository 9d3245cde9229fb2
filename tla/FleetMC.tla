------------------------------- MODULE FleetMC -------------------------------
(* Instances of Fleet: what the command line names.                        *)
EXTENDS Fleet, TLC

CONSTANTS d1, d2

NoArgs == <<>>
OneArg == <<d1>>
SameArgTwice == <<d1, d1>>
=============================================================================

----------------------------- MODULE MCGuardian -----------------------------
(* Instances of Guardian for TLC. *)
EXTENDS Guardian

CONSTANT p1

OneTicket == {p1}
MCLevels == {-1, 4}
OneLevel == {0}
MCInitialStop == -2
=============================================================================

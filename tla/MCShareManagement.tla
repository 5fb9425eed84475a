-------------------------- MODULE MCShareManagement --------------------------
(* Two dialogs, so two attempts to publish that overlap; one of them makes a    *)
(* second operation.                                                            *)
EXTENDS ShareManagement

CONSTANTS d1, d2

MCClicks == [p \in {d1, d2} |-> IF p = d1 THEN 2 ELSE 1]

=============================================================================

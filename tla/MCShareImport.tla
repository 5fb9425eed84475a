--------------------------- MODULE MCShareImport ---------------------------
(***************************************************************************)
(* Two requests for one share.                                             *)
(***************************************************************************)
EXTENDS ShareImport

CONSTANTS r1, r2, share

MCShareOf == [r \in {r1, r2} |-> share]
=============================================================================

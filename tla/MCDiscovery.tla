---------------------------- MODULE MCDiscovery ----------------------------
(***************************************************************************)
(* Three shares, the second derived from the first; two of them tagged.    *)
(***************************************************************************)
EXTENDS Discovery

CONSTANT r1

MCParentOf == [s \in Shares |-> IF s = 2 THEN 1 ELSE 0]
MCQueries == {[sort |-> "new", filter |-> "all"], [sort |-> "popular", filter |-> "tagged"]}
=============================================================================

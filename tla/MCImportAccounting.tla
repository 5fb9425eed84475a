-------------------------- MODULE MCImportAccounting --------------------------
(***************************************************************************)
(* Small instances of ImportAccounting: a day is two instants long.        *)
(***************************************************************************)
EXTENDS ImportAccounting, TLC

MCDay(t)   == t \div 2
MCSymmetry == Permutations(Requests) \cup Permutations(Events) \cup Permutations(Actors)
===============================================================================

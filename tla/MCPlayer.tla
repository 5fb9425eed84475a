------------------------------ MODULE MCPlayer ------------------------------
(***************************************************************************)
(* Small instances of Player: two clips of one video and a whole episode   *)
(* of another, one chapter to skip.                                        *)
(***************************************************************************)
EXTENDS Player, TLC

CONSTANTS x, y, z

MCClip(first, last) == [start |-> first, end |-> last]
MCStart == << [id |-> x, part |-> 1, range |-> MCClip(1, 2)],
              [id |-> y, part |-> 1, range |-> MCClip(6, 7)],
              [id |-> z, part |-> 2, range |-> None] >>

MCParts     == {1, 2}
MCSkips     == <<<<MCClip(9, 10)>>, <<>>>>
MCPositions == {1, 6, 12}

MCEdits   == {<<MCStart[2], MCStart[1], MCStart[3]>>, <<>>}

MCListed  == {Url(1, 1, None)}
MCHomes   == MCListed \cup {Url(1, None, 1), Url(2, None, 1)}
=============================================================================

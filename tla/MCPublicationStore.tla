-------------------------- MODULE MCPublicationStore --------------------------
(***************************************************************************)
(* Small instances of PublicationStore.                                    *)
(***************************************************************************)
EXTENDS PublicationStore, TLC

MCPlaylist(c, tags) == [content |-> c, visibility |-> "public",
                        tags |-> tags, derivedFrom |-> NoLink]

MCPlaylists == {MCPlaylist("v1", {"op"}), MCPlaylist("v2", {"ed"})}
MCTags      == {"op", "ed"}
MCSymmetry  == Permutations(Keys)
===============================================================================

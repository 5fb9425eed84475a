--------------------------- MODULE MCPublicationApi ---------------------------
(***************************************************************************)
(* Small instances of PublicationApi.                                      *)
(***************************************************************************)
EXTENDS PublicationApi, TLC

CONSTANTS s1, s2, s3

MCPlaylist(c, visibility, link) ==
  [content |-> c, visibility |-> visibility, tags |-> {}, derivedFrom |-> link]

\* A source, and what an import of its first public revision publishes.  With one
\* share the second stands for a link that only a replace can claim: what counts there
\* is that it differs from the stored one.
MCDerived == {MCPlaylist("v1", "public", NoLink),
              MCPlaylist("v1", "public", [share |-> s1, revision |-> 2])}

\* As MCDerived, with a claim of a revision the source reaches later.
MCLineage == MCDerived \cup
             {MCPlaylist("v1", "public", [share |-> s1, revision |-> 3])}

MCTags     == {}
MCSymmetry == Permutations(Handlers) \cup Permutations(Keys)
===============================================================================

-------------------------- MODULE MCLocalRepository --------------------------
(***************************************************************************)
(* Small instances of LocalRepository: pages that add an item to the first *)
(* playlist and empty that playlist, over storage that is new, current,    *)
(* unreadable, or left behind by the strict importer.                      *)
(***************************************************************************)
EXTENDS LocalRepository, TLC

CONSTANTS c1, c2

P1 == <<"p1">>
X  == <<"x">>

MCPart(reads)        == [reads |-> reads]
MCRaw(id, reads)     == [id |-> id, shaped |-> TRUE, parts |-> <<MCPart(reads)>>]
MCEntry(id, named, items) == [id |-> id, shaped |-> TRUE, named |-> named, items |-> items]

\* A clip only the lenient importer reads beside one that both read, under one
\* id or without ids; and a playlist without a name that reuses the id.
MCLegacySalvage(id) ==
  << MCEntry(P1, TRUE, <<MCRaw(NoId, {Lenient}), MCRaw(X, {Strict, Lenient})>>),
     MCEntry(P1, FALSE, <<MCRaw(id, {Strict, Lenient}), MCRaw(NoId, {})>>) >>

\* Two playlists, so that one can be deleted whole.
MCLegacyTwo ==
  << MCEntry(P1, TRUE, <<MCRaw(X, {Lenient})>>),
     MCEntry(NoId, TRUE, <<MCRaw(X, {Strict, Lenient}),
                           [id |-> NoId, shaped |-> FALSE, parts |-> <<>>]>>),
     [id |-> NoId, shaped |-> FALSE, named |-> TRUE, items |-> <<>>] >>

\* One item of two clips, the second of which only the lenient importer reads.
MCLegacyHalf ==
  << MCEntry(P1, TRUE, <<[id |-> X, shaped |-> TRUE,
                          parts |-> <<MCPart({Strict, Lenient}), MCPart({Lenient})>>]>>) >>

MCAt == [playlistId |-> P1, index |-> 0]

MCCurrent(raw) == [state |-> NewState(raw), legacy |-> raw, pointer |-> MCAt]

\* What the strict importer made of it, and what the user deleted from it since:
\* nothing, the items in `drop`, or the playlist whole.
MCOlder(raw, drop, whole) ==
  LET old    == ImportedState(BuildMigrated(raw, Strict), Strict)
      lists  == SelectSeq(old.playlists, LAMBDA pl : pl.id # whole)
      kept   == [k \in DOMAIN lists |->
                   [lists[k] EXCEPT !.items = SelectSeq(@, LAMBDA it : it.body \notin drop)]]
  IN [state |-> [old EXCEPT !.revision = 1, !.playlists = kept,
                            !.deleted = Clips(old.playlists) \ Clips(kept)],
      legacy |-> raw, pointer |-> NoPointer]

MCOlderStates ==
  {MCOlder(MCLegacySalvage(id), drop, NoPlaylist) : id \in {NoId, X}, drop \in {{}, {<<1, 2, 1>>}}}
  \cup {MCOlder(MCLegacyTwo, {}, whole) : whole \in {P1, FallbackPlaylistId(2)}}
  \cup {MCOlder(MCLegacyHalf, drop, NoPlaylist) : drop \in {{}, {<<1, 1, 1>>}}}

MCInitial ==
  {MCCurrent(MCLegacyTwo)} \cup MCOlderStates
  \cup {[state |-> s, legacy |-> raw, pointer |-> NoPointer] :
          s \in {Absent, Unreadable}, raw \in {MCLegacySalvage(X), UnreadableLegacy}}

MCItem(c) == [id |-> <<"new", c>>, body |-> <<0, 0, 0>>]

\* c1 adds an item to the playlist and c2 empties it, if they find it.
MCBodyOf(c, playlists) ==
  IF P1 \notin PlaylistIds(playlists) THEN Absent
  ELSE IF c = c1 THEN [kind |-> "add-item", playlistId |-> P1, item |-> MCItem(c)]
  ELSE [kind |-> "replace-library",
        playlists |-> UpdatePlaylist(playlists, P1, LAMBDA pl : [pl EXCEPT !.items = <<>>])]
=============================================================================

---------------------------- MODULE MCOptionsPage ----------------------------
(***************************************************************************)
(* Small instances of OptionsPage: a library of two playlists and one of   *)
(* the system's, one of them published, and a page on which a user makes   *)
(* two edits while another page adds, deletes and publishes.               *)
(***************************************************************************)
EXTENDS OptionsPage, TLC

CONSTANTS e1, e2

MCItem(id, body) == [id |-> <<id>>, body |-> <<body>>]
MCList(id, name, items) == [id |-> <<id>>, name |-> <<name>>, items |-> items]

MCA == MCList("a", "A", <<MCItem("x", 1), MCItem("y", 2)>>)
MCB == MCList("b", "B", <<>>)
MCSystem == MCList("s", "sys", <<MCItem("s", 1)>>)

MCRecord(state, playlist) ==
  [shareId |-> "share", localPlaylistId |-> playlist.id, state |-> state,
   content |-> Projection(playlist)]

MCFirst ==
  [revision |-> 0, playlists |-> <<MCA, MCB, MCSystem>>,
   publications |-> {MCRecord("active", MCB)}, pendingCreates |-> {},
   preferences |-> [tab |-> FALSE, expanded |-> {MCA.id}], shareConsent |-> "granted"]

MCSystemNames == {<<"sys">>}
MCNewNames    == {<<"B">>}
MCNewBodies   == {<<3>>}
MCRanged      == {<<1>>, <<2>>, <<3>>}

\* A file with a playlist of a known name and id, that holds two clips of the
\* library under other ids, and another clip under an id of the library; and one from
\* before the system's playlist was named so: it has the id of its item.
MCFiles ==
  { <<MCList("a", "A", <<MCItem("v", 1), MCItem("w", 2), MCItem("x", 3)>>)>>,
    <<MCList("c", "C", <<MCItem("s", 1)>>)>> }

\* A file with an item that is not valid next to one that is, and one that cannot be read.
MCInvalid    == { <<MCList("q", "Q", <<MCItem("u", 3), MCItem("bad", 0)>>)>> }
MCUnreadable == { <<>> }

MCOthers ==
  { [kind |-> "add-item", playlistId |-> MCA.id, item |-> MCItem("new", 3)],
    [kind |-> "rename-playlist", playlistId |-> MCB.id, name |-> <<"sys">>],
    [kind |-> "put-publication", publication |-> MCRecord("pending", MCA)] }

\* One edit of any kind, and one that is shown before it is stored.
MCKinds ==
  e1 :> {"create", "rename", "delete", "remove", "save", "copy", "toggle", "window", "import"}
    @@ e2 :> {"reorder"}
=============================================================================

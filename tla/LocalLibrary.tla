---------------------------- MODULE LocalLibrary ----------------------------
(***************************************************************************)
(* The library the extension keeps for one user, and what a storage        *)
(* command makes of it: the pure functions of src/apps/extension/src/      *)
(* domain/{identity,playlist}.ts and storage/mutations.ts.                 *)
(*                                                                         *)
(* A playlist is [id, name, items] and an item [id, body]; ids, names and  *)
(* bodies are opaque.  A function that may refuse returns a result record  *)
(* whose kind is "updated" or the refusal; the library rides along in      *)
(* .playlists so that every result has the same shape.                     *)
(***************************************************************************)
EXTENDS Naturals, Sequences, FiniteSets

Updated(playlists)         == [kind |-> "updated", playlists |-> playlists]
Refused(reason, playlists) == [kind |-> reason, playlists |-> playlists]

PlaylistIds(playlists) == {playlists[i].id : i \in DOMAIN playlists}
ItemIdsOf(playlist)    == {playlist.items[i].id : i \in DOMAIN playlist.items}
ItemIds(playlists)     == UNION {ItemIdsOf(playlists[i]) : i \in DOMAIN playlists}

\* Where the scan meets an id for the second time.
RepeatedPlaylists(playlists) ==
  {j \in DOMAIN playlists : \E i \in 1..(j - 1) : playlists[i].id = playlists[j].id}
RepeatedItems(playlists) ==
  {j \in DOMAIN playlists : \E k \in DOMAIN playlists[j].items :
     LET id == playlists[j].items[k].id
     IN \/ \E m \in 1..(k - 1) : playlists[j].items[m].id = id
        \/ \E i \in 1..(j - 1) : id \in ItemIdsOf(playlists[i])}

\* A playlist's own id is looked at before the ids of its items.
FindDuplicateIdentity(playlists) ==
  LET lists == RepeatedPlaylists(playlists)
      items == RepeatedItems(playlists)
  IN IF lists \cup items = {} THEN "none"
     ELSE IF \E i \in lists : \A j \in items : i <= j THEN "duplicate-playlist-id"
     ELSE "duplicate-item-id"

\* Every operation refuses a library that already holds a duplicate.
Checked(playlists, result) ==
  IF FindDuplicateIdentity(playlists) = "none" THEN result
  ELSE Refused(FindDuplicateIdentity(playlists), playlists)

FindPlaylist(playlists, id) == SelectSeq(playlists, LAMBDA p : p.id = id)[1]
FindItem(playlist, id)      == SelectSeq(playlist.items, LAMBDA it : it.id = id)[1]

UpdatePlaylist(playlists, id, Update(_)) ==
  [i \in DOMAIN playlists |->
     IF playlists[i].id = id THEN Update(playlists[i]) ELSE playlists[i]]

CreatePlaylist(playlists, id, name) ==
  Checked(playlists,
    IF id \in PlaylistIds(playlists) THEN Refused("duplicate-playlist-id", playlists)
    ELSE Updated(Append(playlists, [id |-> id, name |-> name, items |-> <<>>])))

\* Operations on one playlist: refused when it is not there.
OnPlaylist(playlists, id, result) ==
  Checked(playlists,
    IF id \in PlaylistIds(playlists) THEN result
    ELSE Refused("playlist-not-found", playlists))

RenamePlaylist(playlists, id, name) ==
  OnPlaylist(playlists, id,
    Updated(UpdatePlaylist(playlists, id, LAMBDA p : [p EXCEPT !.name = name])))

DeletePlaylist(playlists, id) ==
  OnPlaylist(playlists, id, Updated(SelectSeq(playlists, LAMBDA p : p.id # id)))

Adding(playlists, target, item) ==
  IF item.id \in ItemIds(playlists) THEN Refused("duplicate-item-id", playlists)
  ELSE Updated(UpdatePlaylist(playlists, target,
                 LAMBDA p : [p EXCEPT !.items = Append(@, item)]))

AddItem(playlists, id, item) == OnPlaylist(playlists, id, Adding(playlists, id, item))

\* Operations on one item of one playlist.
OnItem(playlists, id, itemId, result) ==
  OnPlaylist(playlists, id,
    IF itemId \in ItemIdsOf(FindPlaylist(playlists, id)) THEN result
    ELSE Refused("item-not-found", playlists))

CopyItem(playlists, source, itemId, target, newId) ==
  OnPlaylist(playlists, source, OnPlaylist(playlists, target, OnItem(playlists, source, itemId,
    Adding(playlists, target,
           [FindItem(FindPlaylist(playlists, source), itemId) EXCEPT !.id = newId]))))

ReplaceItem(playlists, id, itemId, body) ==
  OnItem(playlists, id, itemId,
    Updated(UpdatePlaylist(playlists, id, LAMBDA p :
      [p EXCEPT !.items = [i \in DOMAIN @ |->
         IF @[i].id = itemId THEN [@[i] EXCEPT !.body = body] ELSE @[i]]])))

RemoveItem(playlists, id, itemId) ==
  OnItem(playlists, id, itemId,
    Updated(UpdatePlaylist(playlists, id, LAMBDA p :
      [p EXCEPT !.items = SelectSeq(@, LAMBDA it : it.id # itemId)])))

-----------------------------------------------------------------------------
(* Storage commands on the whole stored state.                             *)

NoPlaylist == <<>>      \* localPlaylistId: null

\* What the library part of the state becomes.
PlaylistMutation(state, command) ==
  LET playlists == state.playlists
  IN CASE command.kind = "create-playlist" ->
            CreatePlaylist(playlists, command.newId, command.name)
       [] command.kind = "rename-playlist" ->
            RenamePlaylist(playlists, command.playlistId, command.name)
       [] command.kind = "delete-playlist" ->
            DeletePlaylist(playlists, command.playlistId)
       [] command.kind = "add-item" ->
            AddItem(playlists, command.playlistId, command.item)
       [] command.kind = "remove-item" ->
            RemoveItem(playlists, command.playlistId, command.itemId)
       [] command.kind = "replace-library" ->
            IF FindDuplicateIdentity(command.playlists) = "none"
            THEN Updated(command.playlists)
            ELSE Refused(FindDuplicateIdentity(command.playlists), playlists)
       [] OTHER -> Updated(playlists)

\* A publication whose playlist vanished is kept, detached: its key still
\* opens the published copy.
Detached(publications, playlists) ==
  {IF r.localPlaylistId # NoPlaylist /\ r.localPlaylistId \notin PlaylistIds(playlists)
   THEN [r EXCEPT !.localPlaylistId = NoPlaylist, !.state = "local-deleted"]
   ELSE r : r \in publications}

PutPublication(publications, record) ==
  {r \in publications : r.shareId # record.shareId} \cup {record}
PutPendingCreate(pendingCreates, record) ==
  {r \in pendingCreates : r.operationId # record.operationId} \cup {record}

RemovesPlaylists == {"delete-playlist", "replace-library"}

\* The collections of the state after the command, .kind "updated" or the
\* reason it was rejected for.
ApplyStorageMutation(state, command) ==
  LET result == PlaylistMutation(state, command)
      with   == [state EXCEPT !.playlists = result.playlists]
      next   ==
        CASE command.kind \in RemovesPlaylists ->
               [with EXCEPT !.publications = Detached(@, result.playlists)]
          [] command.kind = "set-preferences" ->
               [with EXCEPT !.preferences = command.preferences]
          [] command.kind = "put-publication" ->
               [with EXCEPT !.publications = PutPublication(@, command.publication)]
          [] command.kind = "discard-publication-management" ->
               [with EXCEPT !.publications = {r \in @ : r.shareId # command.shareId}]
          [] command.kind = "put-pending-create" ->
               [with EXCEPT !.pendingCreates = PutPendingCreate(@, command.pendingCreate)]
          [] command.kind = "remove-pending-create" ->
               [with EXCEPT !.pendingCreates =
                  {r \in @ : r.operationId # command.pendingOperationId}]
          [] command.kind = "set-share-consent" ->
               [with EXCEPT !.shareConsent = command.choice]
          [] OTHER -> with
  IN IF result.kind = "updated" THEN [kind |-> "updated", state |-> next]
     ELSE [kind |-> result.kind, state |-> state]
=============================================================================

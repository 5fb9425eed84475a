---------------------------- MODULE LibraryImport ----------------------------
(***************************************************************************)
(* How an exported file joins a library: src/apps/extension/src/ui/        *)
(* import-merge.ts.  Ids and names are sequences of tokens, as in          *)
(* Migration; the body of an item stands for the part and the range it     *)
(* plays, and the bodies in Ranged have a range, so that two items of one  *)
(* playlist with the same such body are the same clip.                     *)
(***************************************************************************)
EXTENDS Migration

LOCAL INSTANCE SequencesExt

CONSTANT Ranged   \* the bodies that carry a range, hence a content key

NamesOf(playlists) == {playlists[i].name : i \in DOMAIN playlists}

FindNameConflicts(existing, imported) == NamesOf(existing) \cap NamesOf(imported)

\* The ids of the live library and of what was imported so far.
IdUsage(playlists) == [lists |-> PlaylistIds(playlists), items |-> ItemIds(playlists)]

\* Mutant: an id in use is imported as it is.
RepairNothing(id, used) == id

\* An id that is in use gets a deterministic suffix; ids of the library stay.
Repair(id, used) == AllocateId(id, id, used)

\* acc.items grows by the item under an id nothing uses yet.
WithRepaired(acc, item) ==
  LET id == Repair(item.id, acc.usage.items)
  IN [acc EXCEPT !.items = Append(@, [item EXCEPT !.id = id]),
                 !.usage.items = @ \cup {id}]

RepairItems(items, usage) ==
  InOrder(LAMBDA acc, k : WithRepaired(acc, items[k]), [items |-> <<>>, usage |-> usage], items)

\* The playlist already holds the item, by its id or by what it plays.
Holds(items, item) ==
  \E k \in DOMAIN items :
    \/ items[k].id = item.id
    \/ item.body \in Ranged /\ items[k].body = item.body

FoldItems(items, imported, usage) ==
  InOrder(LAMBDA acc, k :
            IF Holds(acc.items, imported[k]) THEN acc ELSE WithRepaired(acc, imported[k]),
          [items |-> items, usage |-> usage], imported)

\* Where the items of an imported playlist go: the first playlist of its name.
SameName(playlists, name) ==
  LET at == {i \in DOMAIN playlists : playlists[i].name = name}
  IN CHOOSE i \in at : \A j \in at : i <= j

JoinPlaylist(acc, playlist, mergeNames) ==
  IF playlist.name \in mergeNames /\ playlist.name \in NamesOf(acc.playlists)
  THEN LET at     == SameName(acc.playlists, playlist.name)
           folded == FoldItems(acc.playlists[at].items, playlist.items, acc.usage)
       IN [acc EXCEPT !.playlists[at].items = folded.items, !.usage = folded.usage]
  ELSE LET fixed == RepairItems(playlist.items, acc.usage)
           id    == Repair(playlist.id, acc.usage.lists)
       IN [playlists |-> Append(acc.playlists,
                                [playlist EXCEPT !.id = id, !.items = fixed.items]),
           usage |-> [fixed.usage EXCEPT !.lists = @ \cup {id}]]

MergePlaylists(existing, imported, mergeNames) ==
  InOrder(LAMBDA acc, k : JoinPlaylist(acc, imported[k], mergeNames),
          [playlists |-> existing, usage |-> IdUsage(existing)], imported).playlists

\* "name (n)" with the first n from 2 on that is free.
FreeName(name, used) ==
  LET Numbered(n) == name \o <<n>>
      free == {n \in 2..(Cardinality(used) + 2) : Numbered(n) \notin used}
  IN Numbered(CHOOSE n \in free : \A m \in free : n <= m)

\* newIds[k] is the id minted for the k-th imported playlist.
DedupeNames(imported, existing, newIds) ==
  LET Separate(acc, k) ==
        LET playlist == imported[k]
            fixed    == RepairItems(playlist.items, acc.usage)
            taken    == playlist.name \in acc.names
            name     == IF taken THEN FreeName(playlist.name, acc.names) ELSE playlist.name
            id       == IF taken \/ playlist.id \in acc.usage.lists THEN newIds[k] ELSE playlist.id
        IN [playlists |-> Append(acc.playlists, [id |-> id, name |-> name, items |-> fixed.items]),
            names |-> IF taken THEN acc.names \cup {name} ELSE acc.names,
            usage |-> [fixed.usage EXCEPT !.lists = @ \cup {id}]]
  IN InOrder(Separate, [playlists |-> <<>>, names |-> NamesOf(existing),
                        usage |-> IdUsage(existing)], imported).playlists
=============================================================================

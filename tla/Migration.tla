------------------------------ MODULE Migration ------------------------------
(***************************************************************************)
(* How the library of version 1 becomes the stored library, and how a      *)
(* later importer merges back what an older one had to refuse:             *)
(* src/packages/shared/src/{local-import,local-legacy}.ts and              *)
(* src/apps/extension/src/storage/migration.ts.                            *)
(*                                                                         *)
(* Legacy data is a sequence of entries [id, shaped, named, items]: `shaped`*)
(* says that the entry is an object with an items array, `named` that its  *)
(* name satisfied the strict schema.  An item is [id, shaped, parts]: one  *)
(* part per range it fans out to (op, ed, custom), and each part says in   *)
(* .reads under which importers it parses.  An id is a sequence of tokens, *)
(* as the ids of the code are strings with deterministic suffixes; NoId is *)
(* a missing or malformed one.  The body of an imported item is the        *)
(* position it came from.                                                  *)
(***************************************************************************)
EXTENDS LocalLibrary, SequencesExt


\* Op(value), with the value bound so that it is evaluated once.
Let(value, Op(_)) == CHOOSE result \in {Op(bound) : bound \in {value}} : TRUE

\* The positions of a sequence folded in order.
InOrder(Op(_, _), base, seq) ==
  FoldLeftDomain(LAMBDA acc, i : Let(acc, LAMBDA bound : Op(bound, i)), base, seq)

NoId   == <<>>
Strict == 1             \* parserVersion of the v2.0.0 importer
Lenient == 2            \* MIGRATION_PARSER_VERSION

-----------------------------------------------------------------------------
(* local-legacy.ts                                                         *)

RepairMissingId(p, i, r) == <<"item", p, i, r>>
FallbackPlaylistId(p)    == <<"playlist", p>>
RestoredId(id)           == <<"restored">> \o id

\* The preferred id, else the fallback, with the first free suffix.
AllocateId(preferred, fallback, used) ==
  LET base == IF preferred # NoId THEN preferred ELSE fallback
      Suffixed(n) == base \o <<"c", n>>
      free == {n \in 1..(Cardinality(used) + 1) : Suffixed(n) \notin used}
  IN IF base \notin used THEN base
     ELSE Suffixed(CHOOSE n \in free : \A m \in free : n <= m)

\* Every range of an item carries the item's own id; a missing one is derived
\* from the range's position.
SourceId(item, p, i, r) == IF item.id # NoId THEN item.id ELSE RepairMissingId(p, i, r)

-----------------------------------------------------------------------------
(* local-import.ts                                                         *)

\* What importing has produced so far.  Origins are kept with the entries:
\* playlists carry .origin, items their position in .body.
NothingImported ==
  [playlists |-> <<>>, quarantined |-> {}, usedPlaylists |-> {}, usedItems |-> {}]

QuarantinedPlaylist(p) == [playlist |-> p, item |-> 0]
QuarantinedItem(p, i)  == [playlist |-> p, item |-> i]

\* One range of one item: imported under a fresh id, or quarantined.
ImportPart(acc, importer, p, i, r, item) ==
  LET id == AllocateId(SourceId(item, p, i, r), RepairMissingId(p, i, r), acc.used)
  IN IF importer \in item.parts[r].reads
     THEN [acc EXCEPT !.items = Append(@, [id |-> id, body |-> <<p, i, r>>]),
                      !.used  = @ \cup {id}]
     ELSE [acc EXCEPT !.quarantined = @ \cup {QuarantinedItem(p, i)}]

ImportItem(acc, importer, p, i, item) ==
  IF ~item.shaped
  THEN [acc EXCEPT !.quarantined = @ \cup {QuarantinedItem(p, i)}]
  ELSE InOrder(LAMBDA a, r : ImportPart(a, importer, p, i, r, item), acc, item.parts)

\* The strict importer also refused a playlist whose name it could not accept,
\* after it had read its items.
ImportPlaylist(acc, importer, p, entry) ==
  LET items == InOrder(
                 LAMBDA a, i : ImportItem(a, importer, p, i, entry.items[i]),
                 [items |-> <<>>, used |-> acc.usedItems, quarantined |-> acc.quarantined],
                 entry.items)
      id    == AllocateId(entry.id, FallbackPlaylistId(p), acc.usedPlaylists)
  IN IF ~entry.shaped
     THEN [acc EXCEPT !.quarantined = @ \cup {QuarantinedPlaylist(p)}]
     ELSE IF importer = Strict /\ ~entry.named
     THEN [acc EXCEPT !.quarantined = items.quarantined \cup {QuarantinedPlaylist(p)},
                      !.usedItems = items.used]
     ELSE [playlists     |-> Append(acc.playlists,
                               [id |-> id, name |-> p, items |-> items.items]),
           quarantined   |-> items.quarantined,
           usedPlaylists |-> acc.usedPlaylists \cup {id},
           usedItems     |-> items.used]

ImportPlaylists(legacy, importer) ==
  InOrder(LAMBDA acc, p : ImportPlaylist(acc, importer, p, legacy[p]),
                 NothingImported, legacy)

-----------------------------------------------------------------------------
(* migration.ts                                                            *)

\* Legacy data that is no array of playlists, in any of the forms it may have.
UnreadableLegacy ==
  <<[id |-> <<"unreadable">>, shaped |-> FALSE, named |-> FALSE, items |-> <<>>]>>

\* buildMigratedState: what cannot be read at all is parked as one entry.
BuildMigrated(legacy, importer) ==
  IF legacy = UnreadableLegacy
  THEN [NothingImported EXCEPT !.quarantined = {QuarantinedPlaylist(0)}]
  ELSE ImportPlaylists(legacy, importer)

\* Mutant: a playlist without a name counts as imported by the strict importer.
SurvivedUnnamed(entry) == entry.shaped

StrictPlaylistSurvived(entry) == entry.shaped /\ entry.named

\* The ids the strict importer gave to the entries it accepted, NoId for the
\* others.
StrictIds(legacy) ==
  LET Step(ids, p) == Append(ids,
        IF StrictPlaylistSurvived(legacy[p])
        THEN AllocateId(legacy[p].id, FallbackPlaylistId(p), {ids[q] : q \in DOMAIN ids} \ {NoId})
        ELSE NoId)
  IN InOrder(Step, <<>>, legacy)

\* Mutant: every item the importer reads and the library lacks comes back.
IsCandidateAny(quarantined, used, item) == item.id \notin used

\* Only items whose source entry was quarantined come back, and an id in use
\* keeps them out.
IsCandidate(quarantined, used, item) ==
  /\ QuarantinedItem(item.body[1], item.body[2]) \in quarantined
  /\ item.id \notin used

\* A playlist the strict importer knew: its missing items are appended.
MergeMissing(acc, id, quarantined, repaired) ==
  LET missing == SelectSeq(repaired.items,
                           LAMBDA item : IsCandidate(quarantined, acc.usedItems, item))
  IN [acc EXCEPT !.playlists = UpdatePlaylist(@, id, LAMBDA pl : [pl EXCEPT !.items = @ \o missing]),
                 !.usedItems = @ \cup {missing[k].id : k \in DOMAIN missing}]

\* A playlist the strict importer refused: appended, under fresh ids where its
\* own are taken.
AppendRestored(acc, repaired) ==
  LET Restore(a, k) ==
        LET item == repaired.items[k]
            id   == IF item.id \notin a.used THEN item.id
                    ELSE AllocateId(NoId, RestoredId(item.id), a.used)
        IN [items |-> Append(a.items, [item EXCEPT !.id = id]), used |-> a.used \cup {id}]
      restored == InOrder(Restore, [items |-> <<>>, used |-> acc.usedItems], repaired.items)
      id == AllocateId(repaired.id, repaired.id, acc.usedPlaylists)
  IN [playlists     |-> Append(acc.playlists,
                          [id |-> id, name |-> repaired.name, items |-> restored.items]),
      usedPlaylists |-> acc.usedPlaylists \cup {id},
      usedItems     |-> restored.used]

\* What the lenient importer reads now, merged into the library one playlist at
\* a time; a playlist the user deleted since is passed over.
MergeRepaired(playlists, quarantined, strict, relaxed) ==
  LET Merge(acc, repaired) ==
        LET id == strict[repaired.name]
        IN IF id # NoId /\ id \notin PlaylistIds(playlists) THEN acc
           ELSE IF id # NoId THEN MergeMissing(acc, id, quarantined, repaired)
           ELSE AppendRestored(acc, repaired)
  IN InOrder(LAMBDA acc, k : Let(relaxed[k], LAMBDA repaired : Merge(acc, repaired)),
             [playlists     |-> playlists,
              usedPlaylists |-> PlaylistIds(playlists),
              usedItems     |-> ItemIds(playlists)], relaxed)

\* repairQuarantined: the playlists and the quarantine after the repair.
RepairQuarantined(playlists, quarantined, legacy) ==
  IF legacy = UnreadableLegacy
  THEN [playlists |-> playlists, quarantined |-> quarantined]
  ELSE Let(ImportPlaylists(legacy, Lenient), LAMBDA relaxed :
         [playlists   |-> MergeRepaired(playlists, quarantined, StrictIds(legacy),
                                        relaxed.playlists).playlists,
          quarantined |-> relaxed.quarantined])
=============================================================================

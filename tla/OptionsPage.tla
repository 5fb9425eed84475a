----------------------------- MODULE OptionsPage -----------------------------
(***************************************************************************)
(* The options page over the stored library: src/apps/extension/src/ui/    *)
(* {options,options-items,options-drag,options-io,management,              *)
(* storage-client}.ts.                                                     *)
(*                                                                         *)
(* The page draws what it read and follows every commit with a new drawing.*)
(* Each edit of its user is a flow of its own: dialogs first, then the     *)
(* loop of runMutation, a read and a command for the revision that was     *)
(* read.  Every await is the border of two actions; other pages and the    *)
(* background worker commit in between.  A command is one step here: what  *)
(* the writer does inside it is LocalRepository.                           *)
(***************************************************************************)
EXTENDS LibraryImport

LOCAL INSTANCE SequencesExt

CONSTANTS
  Flows,          \* edits made on the page, each once
  Kinds,          \* per flow: what its user may do
  First,          \* the stored state
  Files,          \* the playlists of the files that may be imported
  Invalid,        \* those of files with an item that is not valid
  Unreadable,     \* and files too big, malformed or with other keys
  NewNames,       \* names typed by the user
  NewBodies,      \* ranges typed by the user
  SystemNames,    \* names that start with __dop_
  Others,         \* commands of other pages
  MaxOthers,      \* bound: commits of others
  MaxAttempts,    \* MUTATION_MAX_ATTEMPTS
  Closable,       \* whether the page may be closed
  None

ASSUME OptionsAssumption ==
  /\ None \notin Flows
  /\ MaxAttempts \in Nat \ {0} /\ MaxOthers \in Nat /\ Closable \in BOOLEAN

VARIABLES
  stored,   \* the canonical state and its revision
  page,     \* the page: what it shows and how far its drawing is
  flow,     \* per flow: the edit
  others    \* commits of others so far

vars == <<stored, page, flow, others>>

NoWant == [kind |-> "none", playlist |-> <<>>, item |-> <<>>, name |-> <<>>, body |-> <<>>,
           order |-> <<>>, target |-> <<>>, lists |-> <<>>, flag |-> FALSE, how |-> "edit"]
Unused == [at |-> "idle", want |-> NoWant, base |-> <<>>, attempt |-> 0, read |-> First,
           ask |-> "none", told |-> "none"]
Done   == [Unused EXCEPT !.at = "done"]
NoDrag == [playlist |-> <<>>, row |-> <<>>, order |-> <<>>, attached |-> FALSE]

Init ==
  /\ stored = First
  /\ page = [live |-> TRUE, at |-> "public", seen |-> First, vault |-> {}, queued |-> FALSE,
             news |-> 0, cards |-> <<>>, open |-> {}, detached |-> {}, asking |-> None,
             drag |-> NoDrag]
  /\ flow = [f \in Flows |-> Unused]
  /\ others = 0

Visible(playlists) == SelectSeq(playlists, LAMBDA pl : pl.name \notin SystemNames)
System(playlists)  == SelectSeq(playlists, LAMBDA pl : pl.name \in SystemNames)

-----------------------------------------------------------------------------
(* Drawing.                                                                *)

\* render(): one drawing at a time; what comes meanwhile asks for one more.
Draws(pg) ==
  IF ~pg.live THEN pg
  ELSE IF pg.at # "idle" THEN [pg EXCEPT !.queued = TRUE]
  ELSE [pg EXCEPT !.at = "public", !.queued = FALSE]

\* The share button of a card: what was published against what would be.
Projection(playlist) ==
  [name |-> playlist.name, bodies |-> [k \in DOMAIN playlist.items |-> playlist.items[k].body]]
RecordsOf(vault, id) == {r \in vault : r.localPlaylistId = id}
Badge(vault, playlist) ==
  LET records == RecordsOf(vault, playlist.id)
  IN IF records = {} THEN "share"
     ELSE IF \E r \in records : r.state = "pending" THEN "pending"
     ELSE IF \E r \in records : r.content = Projection(playlist) THEN "shared"
     ELSE "changed"

Card(vault, playlist) == [playlist |-> playlist, badge |-> Badge(vault, playlist)]
CardsOf(playlists, vault) ==
  LET shown == Visible(playlists)
  IN [i \in DOMAIN shown |-> Card(vault, shown[i])]

\* publicationDirty is awaited for a card with a completed publication.
Awaited(card) == card.badge \in {"shared", "changed"}

\* The cards are added up to the next that has to wait.
Added(pg, from) ==
  LET all   == CardsOf(pg.seen.playlists, pg.vault)
      waits == {i \in (from + 1)..Len(all) : Awaited(all[i])}
      upto  == IF waits = {} THEN Len(all) ELSE (CHOOSE i \in waits : \A j \in waits : i <= j) - 1
  IN [pg EXCEPT !.cards = @ \o SubSeq(all, Len(@) + 1, upto),
                !.at = IF waits = {} THEN "rest" ELSE "badges",
                !.seen = IF waits = {} THEN First ELSE @,
                !.vault = IF waits = {} THEN {} ELSE @]

ReadsPublic ==
  /\ page.at = "public"
  /\ page' = [page EXCEPT !.seen = stored, !.at = "vault"]

\* The vault is read and the page cleared: a drag goes on, in a list that is
\* no longer part of the page.
Clears ==
  /\ page.at = "vault"
  /\ page' = IF ~page.live THEN [page EXCEPT !.at = "rest", !.seen = First]
             ELSE Added([page EXCEPT !.vault = stored.publications, !.cards = <<>>,
                                     !.open = page.seen.preferences.expanded,
                                     !.drag.attached = FALSE], 0)

AddsCards == page.at = "badges" /\ page' = Added(page, Len(page.cards) + 1)

\* The list of publications without a playlist, then the next drawing if asked for.
DrawsManagement ==
  /\ page.at = "rest"
  /\ LET again == page.queued /\ page.live
     IN page' = [page EXCEPT !.detached = {r.shareId : r \in {q \in stored.publications :
                                                               q.state = "local-deleted"}},
                             !.at = IF again THEN "public" ELSE "idle",
                             !.queued = IF again THEN FALSE ELSE @]

Drawing == (ReadsPublic \/ Clears \/ AddsCards \/ DrawsManagement)
           /\ UNCHANGED <<stored, flow, others>>

\* A commit reaches the page as a storage event.
Notice ==
  /\ page.news > 0 /\ page.live
  /\ page' = Draws([page EXCEPT !.news = @ - 1])
  /\ UNCHANGED <<stored, flow, others>>

Close ==
  /\ Closable /\ page.live
  /\ page' = [page EXCEPT !.live = FALSE, !.news = 0, !.drag = NoDrag, !.asking = None,
                           !.cards = <<>>, !.open = {}, !.detached = {}]
  /\ flow' = [f \in Flows |-> IF f = page.asking THEN Done ELSE flow[f]]
  /\ UNCHANGED <<stored, others>>

-----------------------------------------------------------------------------
(* What the user may do: what the cards on the page offer.                 *)

Shown    == {page.cards[i].playlist : i \in DOMAIN page.cards}
IdsOf(items) == [k \in DOMAIN items |-> items[k].id]
Hands    == page.live /\ page.asking = None   \* no dialog covers the page

Want(kind, playlist) == [NoWant EXCEPT !.kind = kind, !.playlist = playlist.id]
On(kind, playlist, item) == [Want(kind, playlist) EXCEPT !.item = item.id]

Creations == {[NoWant EXCEPT !.kind = "create", !.name = n] : n \in NewNames}
Renames   == {[Want("rename", pl) EXCEPT !.name = n] : pl \in Shown, n \in NewNames}
Deletions == {Want("delete", pl) : pl \in Shown}
Toggles   == {[Want("toggle", pl) EXCEPT !.flag = pl.id \in page.open] : pl \in Shown}
Windows   == {[NoWant EXCEPT !.kind = "window", !.flag = tab] : tab \in BOOLEAN}
Imports   == {[NoWant EXCEPT !.kind = "import", !.lists = file] :
               file \in Files \cup Invalid \cup Unreadable}
OnItems(kind) == UNION {{On(kind, pl, pl.items[k]) : k \in DOMAIN pl.items} : pl \in Shown}
Saves == UNION {UNION {{[On("save", pl, pl.items[k]) EXCEPT !.body = b] : b \in NewBodies} :
                         k \in {j \in DOMAIN pl.items : pl.items[j].body \in Ranged}} :
                pl \in Shown}

Wants(f) == {w \in Creations \cup Renames \cup Deletions \cup Toggles \cup Windows \cup Imports
                 \cup Saves \cup OnItems("remove") \cup OnItems("copy") :
            /\ w.kind \in Kinds[f]
            /\ \A pl \in Shown : w.kind = "rename" /\ w.playlist = pl.id => w.name # pl.name}

\* Where an edit starts: with a dialog, with a read for its dialog, or at once.
FirstStep(kind) ==
  CASE kind \in {"delete", "remove"} -> "asking"
    [] kind \in {"copy", "import"}   -> "opening"
    [] OTHER                         -> "reading"

Dismissed(fl, f) == IF f = None THEN fl ELSE [fl EXCEPT ![f] = Done]

\* The dialog of f replaces the one that is open, which is answered with null.
Opens(f, fl, ask) ==
  /\ flow' = [Dismissed(fl, page.asking) EXCEPT ![f].at = "asking", ![f].ask = ask]
  /\ page' = [page EXCEPT !.asking = f]

Begin(f) ==
  /\ Hands /\ page.drag = NoDrag /\ flow[f].at = "idle"
  /\ \E w \in Wants(f) :
       LET begun == [flow EXCEPT ![f].want = w, ![f].at = FirstStep(w.kind)]
       IN IF FirstStep(w.kind) = "asking" THEN Opens(f, begun, "confirm")
          ELSE /\ flow' = begun
               /\ page' = IF w.kind # "toggle" THEN page
                          ELSE [page EXCEPT !.open = IF w.flag THEN @ \ {w.playlist}
                                                     ELSE @ \cup {w.playlist}]
  /\ UNCHANGED <<stored, others>>

\* The read before the dialog.  A closed page shows none.
OpenCopy(f) ==
  /\ flow[f].at = "opening" /\ page.live /\ flow[f].want.kind = "copy"
  /\ Opens(f, [flow EXCEPT ![f].base = Visible(stored.playlists)], "target")
  /\ UNCHANGED <<stored, others>>

\* The file is read as a whole or not at all: an item that is not valid is
\* listed in a dialog and ends the import.
OpenImport(f) ==
  /\ flow[f].at = "opening" /\ page.live /\ flow[f].want.kind = "import"
  /\ LET file == flow[f].want.lists
         with == [flow EXCEPT ![f].base = Visible(stored.playlists), ![f].want.lists = Visible(file)]
     IN IF file \in Unreadable THEN flow' = [flow EXCEPT ![f] = Done] /\ UNCHANGED page
        ELSE IF file \in Invalid THEN Opens(f, flow, "errors")
        ELSE IF with[f].base # <<>> THEN Opens(f, with, "how")
        ELSE flow' = [with EXCEPT ![f].at = "reading"] /\ UNCHANGED page
  /\ UNCHANGED <<stored, others>>

Cancel == <<"cancel">>

\* The library the import makes of the one that was read before the dialogs.
Imported(fl, how) ==
  LET file   == fl.want.lists
      newIds == [k \in DOMAIN file |-> <<"new", fl.want.kind, k>>]
  IN CASE how = "replace"  -> file
       [] how = "merge"    ->
            MergePlaylists(fl.base, file, FindNameConflicts(fl.base, file))
       [] how = "separate" ->
            MergePlaylists(fl.base, DedupeNames(file, fl.base, newIds), {})

\* The user answers the open dialog, or closes it.
Answer(f) ==
  /\ page.asking = f
  /\ LET fl == flow[f]
         Continues(w) == /\ flow' = [flow EXCEPT ![f].want = w, ![f].at = "reading"]
                         /\ page' = [page EXCEPT !.asking = None]
     IN \/ /\ flow' = [flow EXCEPT ![f] = Done]
           /\ page' = [page EXCEPT !.asking = None]
        \/ fl.ask = "confirm" /\ Continues(fl.want)
        \/ /\ fl.ask = "target"
           /\ \E t \in (PlaylistIds(fl.base) \ {fl.want.playlist}) \cup {Cancel} :
                Continues([fl.want EXCEPT !.target = t])
        \/ /\ fl.ask = "how"
           /\ \/ Continues([fl.want EXCEPT !.lists = Imported(fl, "replace"), !.how = "replace"])
              \/ LET conflicts == FindNameConflicts(fl.base, fl.want.lists)
                 IN IF conflicts = {}
                    THEN Continues([fl.want EXCEPT !.lists = Imported(fl, "merge"), !.how = "merge"])
                    ELSE flow' = [flow EXCEPT ![f].ask = "names"] /\ UNCHANGED page
        \/ /\ fl.ask = "names"
           /\ \E how \in {"merge", "separate"} :
                Continues([fl.want EXCEPT !.lists = Imported(fl, how), !.how = how])
  /\ UNCHANGED <<stored, others>>

-----------------------------------------------------------------------------
(* Reordering, by dragging a row or with a key.                            *)

Moved(order, from, to) == InsertAt(RemoveAt(order, from), to, order[from])
PlaceOf(order, id)     == CHOOSE k \in DOMAIN order : order[k] = id

\* The rows of a list of the page, in another order.
Ordered(items, order) ==
  [k \in DOMAIN order |-> items[CHOOSE j \in DOMAIN items : items[j].id = order[k]]]
Rearranged(cards, id, order) ==
  [i \in DOMAIN cards |->
     IF cards[i].playlist.id # id THEN cards[i]
     ELSE [cards[i] EXCEPT !.playlist.items = Ordered(@, order)]]

Persists(f, id, order) ==
  flow' = [flow EXCEPT ![f].at = "reading",
             ![f].want = [NoWant EXCEPT !.kind = "reorder", !.playlist = id, !.order = order]]

MoveByKey(f) ==
  /\ "reorder" \in Kinds[f] /\ Hands /\ page.drag = NoDrag /\ flow[f].at = "idle"
  /\ \E pl \in Shown : \E from, to \in DOMAIN pl.items :
       /\ to \in {from - 1, from + 1}
       /\ LET order == Moved(IdsOf(pl.items), from, to)
          IN /\ Persists(f, pl.id, order)
             /\ page' = [page EXCEPT !.cards = Rearranged(@, pl.id, order)]
  /\ UNCHANGED <<stored, others>>

BeginDrag ==
  /\ Hands /\ page.drag = NoDrag
  /\ \E f \in Flows : flow[f].at = "idle" /\ "reorder" \in Kinds[f]
  /\ \E pl \in Shown : \E k \in DOMAIN pl.items :
       page' = [page EXCEPT !.drag = [playlist |-> pl.id, row |-> pl.items[k].id,
                                      order |-> IdsOf(pl.items), attached |-> TRUE]]
  /\ UNCHANGED <<stored, flow, others>>

\* The row is put before or behind another one of the list it was taken from.
DragTo ==
  /\ page.drag # NoDrag
  /\ LET drag == page.drag
     IN \E to \in DOMAIN drag.order \ {PlaceOf(drag.order, drag.row)} :
          LET order == Moved(drag.order, PlaceOf(drag.order, drag.row), to)
          IN page' = [page EXCEPT !.drag.order = order,
                        !.cards = IF drag.attached THEN Rearranged(@, drag.playlist, order) ELSE @]
  /\ UNCHANGED <<stored, flow, others>>

Drop(f) ==
  /\ page.drag # NoDrag /\ flow[f].at = "idle" /\ "reorder" \in Kinds[f]
  /\ Persists(f, page.drag.playlist, page.drag.order)
  /\ page' = [page EXCEPT !.drag = NoDrag]
  /\ UNCHANGED <<stored, others>>

-----------------------------------------------------------------------------
(* runMutation.                                                            *)

NoChange == [kind |-> "no-change"]
Library(result) == IF result.kind = "updated"
                   THEN [kind |-> "replace-library", playlists |-> result.playlists]
                   ELSE NoChange

Reordering(playlists, id, order) ==
  IF id \notin PlaylistIds(playlists) THEN NoChange
  ELSE LET items == FindPlaylist(playlists, id).items
       IN IF {order[k] : k \in DOMAIN order} # ItemIdsOf(FindPlaylist(playlists, id))
             \/ Len(order) # Len(items) THEN NoChange
          ELSE [kind |-> "replace-library",
                playlists |-> UpdatePlaylist(playlists, id,
                                LAMBDA pl : [pl EXCEPT !.items = Ordered(@, order)])]

Saving(playlists, w) ==
  IF \E i \in DOMAIN playlists : playlists[i].id = w.playlist
       /\ \E k \in DOMAIN playlists[i].items :
             playlists[i].items[k].id = w.item /\ playlists[i].items[k].body \in Ranged
  THEN Library(ReplaceItem(playlists, w.playlist, w.item, w.body)) ELSE NoChange

\* build(): the command, made from the state that was just read.
Build(f, state) ==
  LET w  == flow[f].want
      id == <<"new", f>>
  IN CASE w.kind = "create"  -> [kind |-> "create-playlist", newId |-> id, name |-> w.name]
       [] w.kind = "rename"  ->
            [kind |-> "rename-playlist", playlistId |-> w.playlist, name |-> w.name]
       [] w.kind = "delete"  -> [kind |-> "delete-playlist", playlistId |-> w.playlist]
       [] w.kind = "remove"  -> Library(RemoveItem(state.playlists, w.playlist, w.item))
       [] w.kind = "save"    -> Saving(state.playlists, w)
       [] w.kind = "copy"    ->
            Library(CopyItem(state.playlists, w.playlist, w.item, w.target, id))
       [] w.kind = "reorder" -> Reordering(state.playlists, w.playlist, w.order)
       [] w.kind = "toggle"  ->
            [kind |-> "set-preferences",
             preferences |-> [state.preferences EXCEPT
               !.expanded = IF w.flag THEN @ \ {w.playlist} ELSE @ \cup {w.playlist}]]
       [] w.kind = "window"  ->
            [kind |-> "set-preferences",
             preferences |-> [state.preferences EXCEPT !.tab = w.flag]]
       [] w.kind = "import"  ->
            [kind |-> "replace-library", playlists |-> w.lists \o System(state.playlists)]

Told(f, reply) == flow' = [flow EXCEPT ![f].at = "told", ![f].told = reply, ![f].read = First]

ReadFresh(f) ==
  /\ flow[f].at = "reading"
  /\ IF Build(f, stored) = NoChange THEN Told(f, "rejected")
     ELSE flow' = [flow EXCEPT ![f].at = "sent", ![f].read = stored]
  /\ UNCHANGED <<stored, page, others>>

\* Mutant: the writer takes a command for whatever revision.
AnyRevision(f) == TRUE

ExpectedRevision(f) == flow[f].read.revision = stored.revision

\* The state after a command, if the writer accepts it, and the news of it.
Commits(result) == stored' = [result.state EXCEPT !.revision = stored.revision + 1]
NewsOf(pg) == IF pg.live THEN [pg EXCEPT !.news = @ + 1] ELSE pg

Dispatch(f) ==
  /\ flow[f].at = "sent"
  /\ LET result == ApplyStorageMutation(stored, Build(f, flow[f].read))
     IN IF ~ExpectedRevision(f)
        THEN /\ flow' = [flow EXCEPT ![f].attempt = @ + 1,
                           ![f].at = IF flow[f].attempt + 1 = MaxAttempts THEN "told" ELSE "reading",
                           ![f].told = "conflict", ![f].read = First]
             /\ UNCHANGED <<stored, page>>
        ELSE IF result.kind # "updated" THEN Told(f, "rejected") /\ UNCHANGED <<stored, page>>
        ELSE Told(f, "committed") /\ Commits(result) /\ page' = NewsOf(page)
  /\ UNCHANGED others

\* What the page does with the reply.
DrawsAfter(kind, told) ==
  \/ kind \in {"rename", "create", "delete", "remove"}
  \/ kind \in {"save", "copy", "import"} /\ told = "committed"

Finish(f) ==
  /\ flow[f].at = "told"
  /\ flow' = [flow EXCEPT ![f] = Done]
  /\ page' = IF DrawsAfter(flow[f].want.kind, flow[f].told) THEN Draws(page) ELSE page
  /\ UNCHANGED <<stored, others>>

\* Another page or the worker commits a command it made from the present state.
Other ==
  /\ others < MaxOthers
  /\ \E command \in Others :
       LET result == ApplyStorageMutation(stored, command)
       IN /\ result.kind = "updated"
          /\ Commits(result)
          /\ page' = NewsOf(page)
  /\ others' = others + 1
  /\ UNCHANGED flow

Next ==
  \/ Drawing \/ Notice \/ Close \/ BeginDrag \/ DragTo \/ Other
  \/ \E f \in Flows : \/ Begin(f) \/ OpenCopy(f) \/ OpenImport(f) \/ Answer(f) \/ MoveByKey(f) \/ Drop(f)
                       \/ ReadFresh(f) \/ Dispatch(f) \/ Finish(f)

Spec == Init /\ [][Next]_vars

-----------------------------------------------------------------------------
\* What an edit may change of a library: the playlist and the item it names.
SamePlaylist(w, was, is) ==
  /\ (w.kind = "rename" /\ w.playlist = was.id) \/ is.name = was.name
  /\ was.id \notin {w.playlist, w.target} => is.items = was.items
  /\ w.kind = "reorder" => Len(is.items) = Len(was.items)
  /\ \A k \in DOMAIN was.items :
       \/ w.kind \in {"remove", "save"} /\ was.id = w.playlist /\ was.items[k].id = w.item
       \/ \E j \in DOMAIN is.items : is.items[j] = was.items[k]

TouchesOnly(w, was, is) ==
  /\ \A i \in DOMAIN was.playlists :
       \/ w.kind = "delete" /\ was.playlists[i].id = w.playlist
       \/ \E j \in DOMAIN is.playlists :
            is.playlists[j].id = was.playlists[i].id
              /\ SamePlaylist(w, was.playlists[i], is.playlists[j])
  /\ {r.shareId : r \in is.publications} = {r.shareId : r \in was.publications}
  /\ w.kind # "window" => is.preferences.tab = was.preferences.tab
  /\ \A id \in was.preferences.expanded :
       (w.kind = "toggle" /\ id = w.playlist) \/ id \in is.preferences.expanded

Committing(f) == flow[f].at = "sent" /\ flow'[f].told = "committed"

\* Whatever an edit did not name is as it was when the edit was committed, whoever
\* put it there and however long ago the page was drawn (runMutation builds from
\* fresh state and only for that revision).  Imports are left out: they write the library
\* that was read before their dialogs.
EditsAreExact ==
  [][\A f \in Flows :
       Committing(f) /\ flow[f].want.kind # "import" => TouchesOnly(flow[f].want, stored, stored')]_vars

\* Two parts of a library have an id in common.
SharesIds(these, those) ==
  \/ PlaylistIds(these) \cap PlaylistIds(those) # {}
  \/ ItemIds(these) \cap ItemIds(those) # {}

\* A merged or separated import has no id twice, and every playlist it was merged into kept
\* its id and its items (import-merge.ts: "existing library ids are never rewritten").  The
\* writer refuses it for a duplicate exactly when it has an id in common with the system
\* playlists it is committed with: those of the file are not repaired against them, and a
\* playlist may have become one while the dialogs were open.
MergeIsAccepted ==
  \A f \in Flows :
    LET fl == flow[f] IN
    fl.at = "sent" /\ fl.want.how \in {"merge", "separate"} =>
      /\ FindDuplicateIdentity(fl.want.lists) = "none"
      /\ FindDuplicateIdentity(Build(f, fl.read).playlists) # "none" <=>
           SharesIds(fl.want.lists, System(fl.read.playlists))
      /\ \A i \in DOMAIN fl.base :
           /\ fl.want.lists[i].id = fl.base[i].id
           /\ SubSeq(fl.want.lists[i].items, 1, Len(fl.base[i].items)) = fl.base[i].items
=============================================================================

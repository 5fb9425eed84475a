------------------------------ MODULE Discovery ------------------------------
(***************************************************************************)
(* The public listing: the ranking basis, the frozen snapshots first pages *)
(* share, the signed cursors that walk them, and the live numbered pages   *)
(* of /explore.  src/apps/web/src/server/discovery/{engine,queries,        *)
(* snapshots,cursor,policy}.ts and services/{discover,explore-page}.ts,    *)
(* with the statements of delete and takedown that purge snapshots.        *)
(*                                                                         *)
(* A read is one request; each of its steps is one call of the database,   *)
(* and everything else happens between them.  Its time is the clock when   *)
(* it came in.                                                             *)
(***************************************************************************)
EXTENDS Naturals, Sequences, FiniteSets, Functions

CONSTANTS
  Shares,       \* share ids: numbers, for the last word of the orders
  ParentOf,     \* the share each is derived from, 0 for none
  Drafts,       \* the shares that are provisional at first
  Tagged,       \* the shares a tag or a search selects
  Readers,
  Queries,      \* sort and filter asked for
  Limits,       \* page sizes asked for
  Pages,        \* page numbers asked for
  Chunk,        \* VISIBILITY_CHUNK
  MaxIds,       \* DISCOVERY_SNAPSHOT_MAX_IDS
  MinPositive,  \* MIN_POSITIVE_PLAYLISTS
  ReuseSpan,    \* FIRST_PAGE_SNAPSHOT_REUSE_MS
  SnapshotSpan, \* DISCOVERY_SNAPSHOT_TTL_MS
  MaxTime,      \* bound: the clock
  MaxEvents,    \* bound: what happens to shares, and inserts that fail
  MaxRequests   \* bound: requests

ASSUME DiscoveryAssumption ==
  /\ Shares \subseteq Nat \ {0} /\ IsFiniteSet(Shares)
  /\ Tagged \subseteq Shares /\ Drafts \subseteq Shares
  /\ Queries \subseteq [sort : {"new", "popular"}, filter : {"all", "tagged"}]
  /\ ParentOf \in [Shares -> Shares \cup {0}]
  /\ {Chunk, MaxIds, MinPositive, ReuseSpan} \subseteq Nat \ {0}
  /\ SnapshotSpan \in Nat /\ ReuseSpan <= SnapshotSpan
  /\ Limits \cup Pages \subseteq Nat \ {0}
  /\ {MaxTime, MaxEvents, MaxRequests} \subseteq Nat

VARIABLES
  shares,     \* what the listing reads of the rows of playlists
  imports,    \* counted imports by window
  snapshots,  \* discovery_snapshots
  clock,
  reads,      \* the request each reader has under way
  walks,      \* the listing each reader pages through
  used        \* bounds used up

vars == <<shares, imports, snapshots, clock, reads, walks, used>>

Windows == {"30d", "90d", "lifetime"}
NoQuery == [sort |-> "new", filter |-> "all"]
NoBasis == [mode |-> "new", window |-> "none", fallback |-> "none"]

NoSnapshot == [fingerprint |-> <<>>, basis |-> NoBasis, entries |-> <<>>, truncated |-> FALSE,
               created |-> 0]

\* seen: the shares that were public at some time since the request came in.
NoRead == [step |-> "idle", query |-> NoQuery, now |-> 0, limit |-> 0, basis |-> NoBasis,
           entries |-> <<>>, truncated |-> FALSE, scanned |-> 0, page |-> 0, items |-> <<>>,
           reply |-> "none", seen |-> {}]

\* served: what its pages showed; steady: what has been public since it began.
NoWalk == [snapshot |-> 0, cursor |-> 0, query |-> NoQuery, entries |-> <<>>, created |-> 0,
           basis |-> NoBasis, served |-> <<>>, steady |-> {}]

Init ==
  /\ shares = [s \in Shares |-> [standing |-> IF s \in Drafts THEN "pending" ELSE "public",
                                 published |-> 0]]
  /\ imports = [s \in Shares |-> [w \in Windows |-> 0]]
  /\ snapshots = [id \in 1 .. MaxRequests |-> NoSnapshot]
  /\ clock = 1
  /\ reads = [r \in Readers |-> NoRead]
  /\ walks = [r \in Readers |-> NoWalk]
  /\ used = [events |-> 0, requests |-> 0, published |-> 0, snapshots |-> 0]

-----------------------------------------------------------------------------
(* The ranking policy and the queries                                      *)

EligibleIn(rows) == {s \in Shares : rows[s].standing = "public"}
Eligible == EligibleIn(shares)

Positives(window) == Cardinality({s \in Eligible : imports[s][window] > 0})

Basis(mode, window, fallback) == [mode |-> mode, window |-> window, fallback |-> fallback]

\* The narrowest window with enough to rank, whatever the search.
DecideRanking(sort) ==
  IF sort = "new" THEN NoBasis
  ELSE IF Positives("30d") >= MinPositive THEN Basis("popular", "30d", "none")
  ELSE IF Positives("90d") >= MinPositive THEN Basis("popular", "90d", "insufficient-recent-data")
  ELSE IF Positives("lifetime") > 0 THEN Basis("popular", "lifetime", "insufficient-recent-data")
  ELSE Basis("new", "none", "no-imports")

Fingerprint(query, basis) == <<query.sort, basis.mode, basis.window, query.filter>>

Score(s, basis) == IF basis.mode = "new" THEN 0 ELSE imports[s][basis.window]

\* The lists of all of S, each member once, the one before the other.
InOrder(S, Before(_, _)) ==
  {list \in Bijection(1 .. Cardinality(S), S) :
     \A i, j \in 1 .. Cardinality(S) : i < j => Before(list[i], list[j])}

\* What the query returns: by score, then the newest first, then by id.
Candidates(query, basis) ==
  LET chosen == {s \in Eligible : query.filter = "all" \/ s \in Tagged}
      Before(s, t) ==
        \/ Score(s, basis) > Score(t, basis)
        \/ /\ Score(s, basis) = Score(t, basis)
           /\ \/ shares[s].published > shares[t].published
              \/ shares[s].published = shares[t].published /\ s < t
  IN InOrder(chosen, Before)

Capped(list) == SubSeq(list, 1, IF Len(list) > MaxIds THEN MaxIds ELSE Len(list))

\* What a listing shows of a share: the share, and its parent while that is public.
ItemOf(s) == [share |-> s, source |-> IF ParentOf[s] \in Eligible THEN ParentOf[s] ELSE 0]

-----------------------------------------------------------------------------
(* Requests                                                                *)

At(r, step) == reads[r].step = step
Goes(r, step) == reads' = [reads EXCEPT ![r].step = step]
Unchanged == UNCHANGED <<shares, imports, clock>>

Asks(r, read) ==
  /\ At(r, "idle") /\ used.requests < MaxRequests
  /\ used' = [used EXCEPT !.requests = @ + 1]
  /\ reads' = [reads EXCEPT ![r] = [read EXCEPT !.now = clock, !.seen = Eligible]]
  /\ Unchanged /\ UNCHANGED snapshots

\* Coverage is asked for the most popular only.
Begins(query, then) == IF query.sort = "new" THEN then ELSE "coverage"

\* runCollection without a cursor: a new listing begins.
FirstPage(r, query, limit) ==
  /\ Asks(r, [NoRead EXCEPT !.step = Begins(query, "find"), !.query = query, !.limit = limit])
  /\ walks' = [walks EXCEPT ![r] = [NoWalk EXCEPT !.query = query, !.steady = Eligible]]

\* With the cursor of its listing, under any query.
Continue(r, query, limit) ==
  /\ walks[r].cursor # 0
  /\ Asks(r, [NoRead EXCEPT !.step = "load", !.query = query, !.limit = limit])
  /\ UNCHANGED walks

\* The explore page, by number.
Explore(r, query, limit, page) ==
  /\ Asks(r, [NoRead EXCEPT !.step = Begins(query, "count"), !.query = query, !.limit = limit,
                           !.page = page])
  /\ walks' = [walks EXCEPT ![r] = NoWalk]

Coverage(r) ==
  /\ At(r, "coverage")
  /\ reads' = [reads EXCEPT ![r].step = IF reads[r].page # 0 THEN "count" ELSE "find",
                            ![r].basis = DecideRanking(reads[r].query.sort)]
  /\ Unchanged /\ UNCHANGED <<snapshots, walks, used>>

-----------------------------------------------------------------------------
(* Snapshots                                                               *)

Ids == {id \in DOMAIN snapshots : snapshots[id] # NoSnapshot}
Live(id, now) == snapshots[id].created + SnapshotSpan > now
Reusable(id, read) ==
  /\ snapshots[id].fingerprint = Fingerprint(read.query, read.basis)
  /\ Live(id, read.now)
  /\ snapshots[id].created + ReuseSpan > read.now

\* A walk begins on a snapshot.
Opens(r, id, snapshot) ==
  /\ reads' = [reads EXCEPT ![r].step = "page", ![r].entries = snapshot.entries,
                            ![r].truncated = snapshot.truncated]
  /\ walks' = [walks EXCEPT ![r].snapshot = id, ![r].entries = snapshot.entries,
                            ![r].created = snapshot.created, ![r].basis = snapshot.basis]

\* The newest that may be reused, or a new one is to be made.
FindReusable(r) ==
  /\ At(r, "find")
  /\ LET found == {id \in Ids : Reusable(id, reads[r])}
     IN IF found = {} THEN Goes(r, "materialize") /\ UNCHANGED walks
        ELSE \E id \in found :
               /\ \A other \in found : snapshots[other].created <= snapshots[id].created
               /\ Opens(r, id, snapshots[id])
  /\ Unchanged /\ UNCHANGED <<snapshots, used>>

Materialize(r) ==
  /\ At(r, "materialize")
  /\ \E list \in Candidates(reads[r].query, reads[r].basis) :
       reads' = [reads EXCEPT ![r].step = "insert", ![r].entries = Capped(list),
                              ![r].truncated = Len(list) > MaxIds]
  /\ Unchanged /\ UNCHANGED <<snapshots, walks, used>>

InsertSnapshot(r) ==
  /\ At(r, "insert") /\ used.snapshots < MaxRequests
  /\ LET id  == used.snapshots + 1
         row == [fingerprint |-> Fingerprint(reads[r].query, reads[r].basis),
                 basis |-> reads[r].basis, entries |-> reads[r].entries,
                 truncated |-> reads[r].truncated, created |-> reads[r].now]
     IN /\ snapshots' = [snapshots EXCEPT ![id] = row]
        /\ used' = [used EXCEPT !.snapshots = id]
        /\ Opens(r, id, row)
  /\ Unchanged

\* Busy on every attempt: the request is answered 503.
InsertFails(r) ==
  /\ At(r, "insert") /\ used.events < MaxEvents
  /\ used' = [used EXCEPT !.events = @ + 1]
  /\ reads' = [reads EXCEPT ![r] = NoRead] /\ walks' = [walks EXCEPT ![r] = NoWalk]
  /\ Unchanged /\ UNCHANGED snapshots

-----------------------------------------------------------------------------
(* Pages                                                                   *)

Answers(r, reply) == reads' = [reads EXCEPT ![r].step = "answer", ![r].reply = reply]

\* Mutant: the basis is decided anew for a continuation.
ContinuesOnNewBasis(r, snapshot) ==
  Fingerprint(reads[r].query, DecideRanking(reads[r].query.sort)) = snapshot.fingerprint

\* The query of the request, under the frozen basis, is the one of the cursor.
Continues(r, snapshot) == Fingerprint(reads[r].query, snapshot.basis) = snapshot.fingerprint

\* continueCollection: the snapshot is there and alive, and the query is its own.
Load(r) ==
  /\ At(r, "load")
  /\ LET id       == walks[r].snapshot
         snapshot == snapshots[id]
     IN CASE snapshot = NoSnapshot \/ ~Live(id, reads[r].now) -> Answers(r, "expired")
          [] snapshot # NoSnapshot /\ Live(id, reads[r].now) /\ ~Continues(r, snapshot) ->
               Answers(r, "invalid")
          [] OTHER ->
               reads' = [reads EXCEPT ![r].step = "page", ![r].entries = snapshot.entries,
                                      ![r].scanned = walks[r].cursor, ![r].basis = snapshot.basis,
                                      ![r].truncated = snapshot.truncated]
  /\ Unchanged /\ UNCHANGED <<snapshots, walks, used>>

\* The chunk that is looked up ends here.
EndOfChunk(read) ==
  IF Len(read.entries) < read.scanned + Chunk THEN Len(read.entries) ELSE read.scanned + Chunk

\* Mutant: what the snapshot holds is shown.
ShownUnchecked(read, over) == read.scanned + 1 .. over
\* What is no longer public is passed over.
Shown(read, over) == {i \in read.scanned + 1 .. over : read.entries[i] \in Eligible}

\* A chunk is scanned up to the entry that fills the page, or to its end.
ScansTo(read, over) ==
  LET count == Cardinality(Shown(read, over))
      room  == read.limit - Len(read.items)
  IN \/ count = room /\ over \in Shown(read, over)
     \/ count < room /\ over = EndOfChunk(read)

Ascending(places) == InOrder(places, LAMBDA i, j : i < j)
Items(list) == [i \in 1 .. Len(list) |-> ItemOf(list[i])]

\* A chunk of entries is looked up, until the page is full or they run out.
ScanChunk(r) ==
  /\ At(r, "page")
  /\ LET read == reads[r]
     IN \E over \in read.scanned .. EndOfChunk(read) :
          /\ ScansTo(read, over)
          /\ \E places \in Ascending(Shown(read, over)) :
               LET items == read.items \o Items([i \in DOMAIN places |-> read.entries[places[i]]])
                   done  == Len(items) = read.limit \/ over = Len(read.entries)
               IN reads' = [reads EXCEPT ![r] = [read EXCEPT !.items = items, !.scanned = over,
                                                   !.step = IF done THEN "answer" ELSE "page",
                                                   !.reply = IF done THEN "ok" ELSE "none"]]
  /\ Unchanged /\ UNCHANGED <<snapshots, walks, used>>

\* Mutant: the cursor skips the entry to come.
CursorOneAhead(read) == IF read.scanned < Len(read.entries) THEN read.scanned + 1 ELSE 0

\* Signed over the snapshot, what has been scanned and the fingerprint, while entries are left.
CursorOf(read) == IF read.scanned < Len(read.entries) THEN read.scanned ELSE 0

\* The answer leaves; a listing that has ended or expired is begun anew.
Answer(r) ==
  /\ At(r, "answer")
  /\ LET read == reads[r]
     IN walks' = IF read.page # 0 \/ read.reply = "invalid" THEN walks
                 ELSE IF read.reply = "ok" /\ CursorOf(read) # 0
                 THEN [walks EXCEPT ![r].cursor = CursorOf(read),
                                    ![r].served = @ \o [i \in 1 .. Len(read.items) |-> read.items[i].share]]
                 ELSE [walks EXCEPT ![r] = NoWalk]
  /\ reads' = [reads EXCEPT ![r] = NoRead]
  /\ Unchanged /\ UNCHANGED <<snapshots, used>>

\* listLivePage: the count decides the page, and a second query reads its rows.
Count(r) ==
  /\ At(r, "count")
  /\ LET read == reads[r]
     IN \E live \in Candidates(read.query, read.basis) :
          LET total == Len(Capped(live))
              pages == IF total = 0 THEN 1 ELSE (total + read.limit - 1) \div read.limit
              page  == IF read.page > pages THEN pages ELSE read.page
          IN reads' = [reads EXCEPT ![r].step = "slice", ![r].truncated = Len(live) > MaxIds,
                                    ![r].scanned = (page - 1) * read.limit]
  /\ Unchanged /\ UNCHANGED <<snapshots, walks, used>>

PageOf(list, read) ==
  LET last == read.scanned + read.limit
  IN SubSeq(list, read.scanned + 1, IF Len(list) < last THEN Len(list) ELSE last)

\* pagedCollection: no snapshot and no cursor, nothing that could expire.
Slice(r) ==
  /\ At(r, "slice")
  /\ \E list \in Candidates(reads[r].query, reads[r].basis) :
       reads' = [reads EXCEPT ![r].step = "answer", ![r].reply = "ok",
                              ![r].items = Items(PageOf(list, reads[r]))]
  /\ Unchanged /\ UNCHANGED <<snapshots, walks, used>>

-----------------------------------------------------------------------------
(* What happens to shares                                                  *)

Event == used.events < MaxEvents

Stands(s, standing) ==
  /\ shares' = [shares EXCEPT ![s].standing = standing,
                              ![s].published = IF standing = "public" /\ shares[s].standing = "pending"
                                               THEN used.published + 1 ELSE @]
  /\ used' = [used EXCEPT !.events = @ + 1,
                          !.published = IF shares[s].standing = "pending" THEN @ + 1 ELSE @]
  /\ reads' = [r \in Readers |->
       IF reads[r].step = "idle" THEN reads[r] ELSE [reads[r] EXCEPT !.seen = @ \cup EligibleIn(shares')]]
  /\ walks' = [r \in Readers |-> [walks[r] EXCEPT !.steady = @ \cap EligibleIn(shares')]]
  /\ UNCHANGED <<imports, clock>>

\* Activation, and a replace that lists or unlists.
Publish(s) ==
  /\ Event /\ shares[s].standing = "pending"
  /\ Stands(s, "public") /\ UNCHANGED snapshots
SetVisibility(s) ==
  /\ Event /\ shares[s].standing \in {"public", "unlisted"}
  /\ Stands(s, IF shares[s].standing = "public" THEN "unlisted" ELSE "public")
  /\ UNCHANGED snapshots

Names(snapshot, s) == \E i \in 1 .. Len(snapshot.entries) : snapshot.entries[i] = s

\* The snapshots that name a share go with it.
PurgeSnapshots(s) ==
  snapshots' = [id \in DOMAIN snapshots |->
                 IF Names(snapshots[id], s) THEN NoSnapshot ELSE snapshots[id]]

Delete(s) ==
  /\ Event /\ shares[s].standing \in {"pending", "public", "unlisted"}
  /\ Stands(s, "gone") /\ PurgeSnapshots(s)

\* The takedown command hides, then purges, then removes.
Block(s) ==
  /\ Event /\ shares[s].standing \in {"pending", "public", "unlisted"}
  /\ Stands(s, "blocked") /\ UNCHANGED snapshots
Takedown(s) ==
  /\ shares[s].standing = "blocked"
  /\ PurgeSnapshots(s)
  /\ shares' = [shares EXCEPT ![s].standing = "purged"]
  /\ UNCHANGED <<imports, clock, reads, walks, used>>
RemoveRow(s) ==
  /\ shares[s].standing = "purged"
  /\ shares' = [shares EXCEPT ![s].standing = "gone"]
  /\ UNCHANGED <<imports, snapshots, clock, reads, walks, used>>

\* An import is counted; the days pass, and counts leave the windows.
Import(s) ==
  /\ Event /\ shares[s].standing = "public"
  /\ imports' = [imports EXCEPT ![s] = [w \in Windows |-> @[w] + 1]]
  /\ used' = [used EXCEPT !.events = @ + 1]
  /\ UNCHANGED <<shares, snapshots, clock, reads, walks>>
DaysPass(window) ==
  /\ Event
  /\ imports' = [s \in Shares |-> [w \in Windows |->
                   IF w = "30d" \/ w = window THEN 0 ELSE imports[s][w]]]
  /\ imports' # imports
  /\ used' = [used EXCEPT !.events = @ + 1]
  /\ UNCHANGED <<shares, snapshots, clock, reads, walks>>

Tick ==
  /\ clock < MaxTime /\ clock' = clock + 1
  /\ UNCHANGED <<shares, imports, snapshots, reads, walks, used>>

\* The cleanup drops what has expired.
Prune ==
  /\ \E id \in Ids : ~Live(id, clock)
  /\ snapshots' = [id \in DOMAIN snapshots |->
                    IF id \in Ids /\ ~Live(id, clock) THEN NoSnapshot ELSE snapshots[id]]
  /\ UNCHANGED <<shares, imports, clock, reads, walks, used>>

-----------------------------------------------------------------------------
Steps(r) ==
  \/ \E query \in Queries, limit \in Limits :
       \/ FirstPage(r, query, limit) \/ Continue(r, query, limit)
       \/ \E page \in Pages : Explore(r, query, limit, page)
  \/ Coverage(r) \/ FindReusable(r) \/ Materialize(r) \/ InsertSnapshot(r) \/ InsertFails(r)
  \/ Load(r) \/ ScanChunk(r) \/ Answer(r) \/ Count(r) \/ Slice(r)

Next ==
  \/ \E r \in Readers : Steps(r)
  \/ \E s \in Shares : \/ Publish(s) \/ SetVisibility(s) \/ Delete(s) \/ Block(s) \/ Takedown(s)
                       \/ RemoveRow(s) \/ Import(s)
  \/ DaysPass("30d") \/ DaysPass("90d") \/ Tick \/ Prune

Spec == Init /\ [][Next]_vars

-----------------------------------------------------------------------------
Served(list) == [i \in 1 .. Len(list) |-> list[i].share]
Answered(r) == At(r, "answer") /\ reads[r].reply = "ok"
Walking(r)  == Answered(r) /\ reads[r].page = 0

\* Whatever a snapshot or a page number says, what an answer shows was public
\* while it was made, the share as well as the parent it names.
ServedIsPublic ==
  \A r \in Readers : Answered(r) =>
    \A i \in 1 .. Len(reads[r].items) :
      {reads[r].items[i].share, reads[r].items[i].source} \subseteq reads[r].seen \cup {0}

\* The pages of a listing follow one another in the frozen order, show nothing
\* twice, and at their end have shown everything that was public all along.
WalkIsWhole ==
  \A r \in Readers : Walking(r) =>
    LET list  == walks[r].served \o Served(reads[r].items)
        at(s) == CHOOSE i \in 1 .. Len(walks[r].entries) : walks[r].entries[i] = s
        ends  == reads[r].scanned = Len(walks[r].entries)
    IN /\ \A i \in 2 .. Len(list) : at(list[i - 1]) < at(list[i])
       /\ ends => \A i \in 1 .. Len(walks[r].entries) :
                    walks[r].entries[i] \in walks[r].steady =>
                      \E j \in 1 .. Len(list) : list[j] = walks[r].entries[i]

\* A cursor is refused for three reasons only: it is used under another query,
\* its snapshot is past its lifetime, or a share it names was taken away.
CursorsHold ==
  \A r \in Readers : At(r, "answer") =>
    /\ reads[r].reply = "invalid" => reads[r].query # walks[r].query
    /\ reads[r].reply = "expired" =>
         \/ clock >= walks[r].created + SnapshotSpan
         \/ \E s \in Shares : Names(walks[r], s) /\ shares[s].standing \notin {"public", "unlisted"}

=============================================================================

--------------------------- MODULE DiscoveryProofs ---------------------------
(***************************************************************************)
(* Proofs about Discovery, for any number of shares, readers, requests and *)
(* any sizes and lifetimes: a cursor is refused for its own faults only,   *)
(* pages show what is public, and those of one listing make it whole.      *)
(*                                                                         *)
(* A walk holds what it was begun on.  CursorInv says that its snapshot is *)
(* still stored as the walk knows it, and if it is not, that it has        *)
(* expired or names a share that was taken away.  PageInv says that what   *)
(* was served follows the snapshot's entries up to the cursor.             *)
(***************************************************************************)
EXTENDS Discovery, FiniteSetTheorems, SequenceTheorems, TLAPS

AskedFor == [sort : {"new", "popular"}, filter : {"all", "tagged"}]

Shaped ==
  /\ clock \in Nat
  /\ DOMAIN used = {"events", "requests", "published", "snapshots"}
  /\ used.snapshots \in Nat /\ used.snapshots <= MaxRequests
  /\ DOMAIN shares = Shares /\ \A s \in Shares : DOMAIN shares[s] = {"standing", "published"}
  /\ DOMAIN reads = Readers /\ \A r \in Readers : DOMAIN reads[r] = DOMAIN NoRead
  /\ DOMAIN walks = Readers /\ \A r \in Readers : DOMAIN walks[r] = DOMAIN NoWalk
  /\ DOMAIN snapshots = 1 .. MaxRequests

\* A share that was taken away stays away.
TakenAway(s) == shares[s].standing \in {"gone", "blocked", "purged"}

Over(listing, now) == now >= listing.created + SnapshotSpan
Robbed(listing) == \E s \in Shares : Names(listing, s) /\ TakenAway(s)

\* A row in use is that of some query, under the basis it was frozen with.
StockInv ==
  \A id \in 1 .. MaxRequests :
    /\ id > used.snapshots => snapshots[id] = NoSnapshot
    /\ snapshots[id] # NoSnapshot =>
         /\ snapshots[id].created \in Nat
         /\ \E q \in AskedFor : snapshots[id].fingerprint = Fingerprint(q, snapshots[id].basis)

\* A new listing is of the query its request asks for.
ReadInv(r) ==
  /\ reads[r].now \in Nat /\ reads[r].now <= clock
  /\ reads[r].step # "idle" => reads[r].query \in AskedFor
  /\ \/ reads[r].step \in {"find", "materialize", "insert"}
     \/ reads[r].step = "coverage" /\ reads[r].page = 0
     => walks[r].query = reads[r].query
  /\ reads[r].step \in {"page", "load"} => walks[r].snapshot # 0
  /\ reads[r].step = "answer" /\ (reads[r].page = 0 \/ reads[r].reply = "expired") => walks[r].snapshot # 0
  /\ reads[r].step \in {"count", "slice"} => reads[r].page # 0
  /\ reads[r].step = "answer" =>
       /\ reads[r].reply = "invalid" => reads[r].query # walks[r].query
       /\ reads[r].reply = "expired" => Over(walks[r], clock) \/ Robbed(walks[r])

\* The walk's snapshot is as the walk knows it, or it is gone for a reason.
WalkInv(r) ==
  /\ walks[r].cursor # 0 => walks[r].snapshot # 0
  /\ walks[r].snapshot # 0 =>
       LET row == snapshots[walks[r].snapshot]
       IN /\ walks[r].snapshot \in 1 .. used.snapshots
          /\ walks[r].created \in Nat
          /\ row = NoSnapshot => Over(walks[r], clock) \/ Robbed(walks[r])
          /\ row # NoSnapshot =>
               /\ row.entries = walks[r].entries /\ row.created = walks[r].created
               /\ row.fingerprint = Fingerprint(walks[r].query, row.basis)

CursorInv == Shaped /\ StockInv /\ \A r \in Readers : ReadInv(r) /\ WalkInv(r)

-----------------------------------------------------------------------------
(* What a step leaves alone.                                               *)

\* Time goes on, what was taken away stays away, and a row goes for a reason.
WorldMoves ==
  /\ clock' \in Nat /\ clock' >= clock
  /\ used'.snapshots \in Nat /\ used'.snapshots >= used.snapshots
  /\ \A s \in Shares : TakenAway(s) => TakenAway(s)'
  /\ \A id \in 1 .. used.snapshots :
       \/ snapshots'[id] = snapshots[id]
       \/ /\ snapshots'[id] = NoSnapshot
          /\ \/ Over(snapshots[id], clock')
             \/ \E s \in Shares : Names(snapshots[id], s) /\ TakenAway(s)'

\* What the invariant says of a reader, it says of these.
Same(r) ==
  /\ reads'[r].step = reads[r].step /\ reads'[r].query = reads[r].query
  /\ reads'[r].now = reads[r].now /\ reads'[r].page = reads[r].page
  /\ reads'[r].reply = reads[r].reply
  /\ walks'[r].snapshot = walks[r].snapshot /\ walks'[r].cursor = walks[r].cursor
  /\ walks'[r].query = walks[r].query /\ walks'[r].entries = walks[r].entries
  /\ walks'[r].created = walks[r].created

\* A walk that lost its row for a reason has lost it for good.
LEMMA ReasonsLast ==
  ASSUME CursorInv, WorldMoves, NEW r \in Readers,
         walks'[r].created = walks[r].created, walks'[r].entries = walks[r].entries,
         walks[r].created \in Nat, Over(walks[r], clock) \/ Robbed(walks[r])
  PROVE  (Over(walks[r], clock) \/ Robbed(walks[r]))'
<1>1. CASE Over(walks[r], clock)
  BY <1>1, DiscoveryAssumption DEF Over, WorldMoves, CursorInv, Shaped
<1>2. CASE Robbed(walks[r])
  BY <1>2 DEF Robbed, Names, WorldMoves
<1> QED
  BY <1>1, <1>2

\* A reader that takes no step itself.
LEMMA Bystander ==
  ASSUME CursorInv, WorldMoves, NEW r \in Readers, Same(r)
  PROVE  ReadInv(r)' /\ WalkInv(r)'
<1>1. ReadInv(r) /\ WalkInv(r)
  BY DEF CursorInv
<1>2. WalkInv(r)'
  <2> SUFFICES ASSUME walks[r].snapshot # 0 PROVE WalkInv(r)'
    BY <1>1 DEF Same, WalkInv
  <2> PICK id : id = walks[r].snapshot
    OBVIOUS
  <2>1. /\ id \in 1 .. used.snapshots /\ id \in 1 .. used'.snapshots /\ walks[r].created \in Nat
        /\ walks'[r].snapshot = id
    BY <1>1 DEF WalkInv, WorldMoves, CursorInv, Shaped, Same
  <2>2. CASE snapshots[id] = NoSnapshot
    <3>1. snapshots'[id] = NoSnapshot
      BY <2>1, <2>2 DEF WorldMoves
    <3>2. (Over(walks[r], clock) \/ Robbed(walks[r]))'
      BY <1>1, <2>1, <2>2, ReasonsLast DEF WalkInv, Same
    <3> QED
      BY <2>1, <3>1, <3>2 DEF WalkInv, Same
  <2>3. CASE snapshots[id] # NoSnapshot /\ snapshots'[id] = snapshots[id]
    BY <1>1, <2>1, <2>3 DEF WalkInv, Same, Fingerprint
  <2>4. CASE snapshots[id] # NoSnapshot /\ snapshots'[id] # snapshots[id]
    <3>1. snapshots'[id] = NoSnapshot
          /\ (Over(snapshots[id], clock')
              \/ \E s \in Shares : Names(snapshots[id], s) /\ TakenAway(s)')
      BY <2>1, <2>4 DEF WorldMoves
    <3>2. snapshots[id].entries = walks'[r].entries /\ snapshots[id].created = walks'[r].created
      BY <1>1, <2>4 DEF WalkInv, Same
    <3>3. (Over(walks[r], clock) \/ Robbed(walks[r]))'
      BY <3>1, <3>2 DEF Over, Robbed, Names
    <3> QED
      BY <2>1, <3>1, <3>3 DEF WalkInv, Same
  <2> QED
    BY <2>2, <2>3, <2>4
<1>3. reads[r].now <= clock'
  BY <1>1 DEF ReadInv, WorldMoves, CursorInv, Shaped
<1>4. reads[r].step = "answer" /\ reads[r].reply = "expired" =>
        (Over(walks[r], clock) \/ Robbed(walks[r]))'
  <2> SUFFICES ASSUME reads[r].step = "answer", reads[r].reply = "expired"
               PROVE  (Over(walks[r], clock) \/ Robbed(walks[r]))'
    OBVIOUS
  <2>1. walks[r].snapshot # 0 /\ walks[r].created \in Nat
    BY <1>1 DEF ReadInv, WalkInv
  <2> QED
    BY <1>1, <2>1, ReasonsLast DEF ReadInv, Same
<1>5. ReadInv(r)'
  BY <1>1, <1>3, <1>4 DEF ReadInv, Same
<1> QED
  BY <1>2, <1>5

-----------------------------------------------------------------------------
(* The steps of a reader.                                                  *)

Others(r) == \A q \in Readers \ {r} : reads'[q] = reads[q] /\ walks'[q] = walks[q]

\* A step of r that touches no row and no share.
LEMMA OneReader ==
  ASSUME CursorInv, NEW r \in Readers, Others(r), UNCHANGED <<shares, snapshots, clock>>,
         DOMAIN used' = DOMAIN used, used'.snapshots = used.snapshots,
         DOMAIN reads' = Readers, DOMAIN walks' = Readers,
         DOMAIN reads'[r] = DOMAIN NoRead, DOMAIN walks'[r] = DOMAIN NoWalk,
         ReadInv(r)', WalkInv(r)'
  PROVE  CursorInv'
<1>1. Shaped'
  BY DEF CursorInv, Shaped, Others
<1>2. StockInv'
  BY DEF CursorInv, StockInv
<1>3. WorldMoves
  BY DEF CursorInv, Shaped, WorldMoves, TakenAway
<1>4. ASSUME NEW q \in Readers \ {r} PROVE ReadInv(q)' /\ WalkInv(q)'
  BY <1>3, <1>4, Bystander DEF Others, Same
<1> QED
  BY <1>1, <1>2, <1>4 DEF CursorInv

\* r begins a request.
LEMMA AsksKeeps ==
  ASSUME CursorInv, NEW r \in Readers, NEW read, Asks(r, read),
         DOMAIN read = DOMAIN NoRead, read.query \in AskedFor,
         read.step \in {"coverage", "find", "count", "load"},
         DOMAIN walks' = Readers, DOMAIN walks'[r] = DOMAIN NoWalk,
         \A q \in Readers \ {r} : walks'[q] = walks[q],
         walks'[r].cursor # 0 => walks'[r].snapshot # 0,
         walks'[r].snapshot # 0 => walks' = walks,
         read.step = "load" => walks'[r].snapshot # 0,
         read.step = "count" => read.page # 0,
         read.step = "find" \/ (read.step = "coverage" /\ read.page = 0)
           => walks'[r].query = read.query
  PROVE  CursorInv'
<1>1. /\ UNCHANGED <<shares, snapshots, clock>> /\ used' = [used EXCEPT !.requests = @ + 1]
      /\ reads' = [reads EXCEPT ![r] = [read EXCEPT !.now = clock, !.seen = Eligible]]
  BY DEF Asks, Unchanged
<1>2. /\ DOMAIN reads' = Readers /\ Others(r) /\ DOMAIN used' = DOMAIN used
      /\ used'.snapshots = used.snapshots
  BY <1>1 DEF CursorInv, Shaped, Others
<1>3. /\ DOMAIN reads'[r] = DOMAIN NoRead /\ reads'[r].step = read.step
      /\ reads'[r].query = read.query /\ reads'[r].page = read.page /\ reads'[r].now = clock
  BY <1>1 DEF CursorInv, Shaped, NoRead
<1>4. ReadInv(r)'
  BY <1>1, <1>3 DEF ReadInv, CursorInv, Shaped
<1>5. WalkInv(r)'
  <2>1. CASE walks'[r].snapshot = 0
    BY <2>1 DEF WalkInv
  <2>2. CASE walks'[r].snapshot # 0
    BY <1>1, <1>2, <2>2 DEF WalkInv, CursorInv, Over, Robbed, Names, TakenAway
  <2> QED
    BY <2>1, <2>2
<1> QED
  BY <1>1, <1>2, <1>3, <1>4, <1>5, OneReader

LEMMA FirstPageKeeps ==
  ASSUME CursorInv, NEW r \in Readers, NEW query \in Queries, NEW limit, FirstPage(r, query, limit)
  PROVE  CursorInv'
<1> PICK read : read = [NoRead EXCEPT !.step = Begins(query, "find"), !.query = query, !.limit = limit]
  OBVIOUS
<1>1. /\ DOMAIN read = DOMAIN NoRead /\ read.query = query /\ read.page = 0
      /\ read.step \in {"coverage", "find"}
  BY DEF NoRead, Begins
<1>2. Asks(r, read)
  BY DEF FirstPage
<1>3. /\ DOMAIN walks' = Readers /\ \A q \in Readers \ {r} : walks'[q] = walks[q]
      /\ DOMAIN walks'[r] = DOMAIN NoWalk /\ walks'[r].query = query
      /\ walks'[r].cursor = 0 /\ walks'[r].snapshot = 0
  BY DEF FirstPage, CursorInv, Shaped, NoWalk
<1>4. query \in AskedFor
  BY DiscoveryAssumption DEF AskedFor
<1> QED
  BY <1>1, <1>2, <1>3, <1>4, AsksKeeps

LEMMA ContinueKeeps ==
  ASSUME CursorInv, NEW r \in Readers, NEW query \in Queries, NEW limit, Continue(r, query, limit)
  PROVE  CursorInv'
<1> PICK read : read = [NoRead EXCEPT !.step = "load", !.query = query, !.limit = limit]
  OBVIOUS
<1>1. DOMAIN read = DOMAIN NoRead /\ read.query = query /\ read.step = "load"
  BY DEF NoRead
<1>2. Asks(r, read) /\ walks' = walks /\ walks[r].cursor # 0
  BY DEF Continue
<1>3. /\ DOMAIN walks' = Readers /\ \A q \in Readers \ {r} : walks'[q] = walks[q]
      /\ DOMAIN walks'[r] = DOMAIN NoWalk /\ walks'[r].snapshot # 0
  BY <1>2 DEF CursorInv, Shaped, WalkInv
<1>4. query \in AskedFor
  BY DiscoveryAssumption DEF AskedFor
<1> QED
  BY <1>1, <1>2, <1>3, <1>4, AsksKeeps

LEMMA ExploreKeeps ==
  ASSUME CursorInv, NEW r \in Readers, NEW query \in Queries, NEW limit, NEW page \in Pages,
         Explore(r, query, limit, page)
  PROVE  CursorInv'
<1> PICK read : read = [NoRead EXCEPT !.step = Begins(query, "count"), !.query = query,
                                      !.limit = limit, !.page = page]
  OBVIOUS
<1>1. /\ DOMAIN read = DOMAIN NoRead /\ read.query = query /\ read.page = page
      /\ read.step \in {"coverage", "count"}
  BY DEF NoRead, Begins
<1>2. Asks(r, read) /\ walks' = [walks EXCEPT ![r] = NoWalk]
  BY DEF Explore
<1>3. /\ DOMAIN walks' = Readers /\ \A q \in Readers \ {r} : walks'[q] = walks[q]
      /\ DOMAIN walks'[r] = DOMAIN NoWalk
      /\ walks'[r].cursor = 0 /\ walks'[r].snapshot = 0
  BY <1>2 DEF CursorInv, Shaped, NoWalk
<1>4. query \in AskedFor /\ page # 0
  BY DiscoveryAssumption DEF AskedFor
<1> QED
  BY <1>1, <1>2, <1>3, <1>4, AsksKeeps

\* A step that changes the request of r only, whatever it was: its step goes
\* from one to another that asks no more of the walk.
LEMMA Advances ==
  ASSUME CursorInv, NEW r \in Readers, walks' = walks, used' = used,
         UNCHANGED <<shares, snapshots, clock>>,
         DOMAIN reads' = Readers, DOMAIN reads'[r] = DOMAIN NoRead,
         \A q \in Readers \ {r} : reads'[q] = reads[q],
         reads'[r].query = reads[r].query, reads'[r].now = reads[r].now,
         reads'[r].page = reads[r].page, reads[r].step # "idle", ReadInv(r)'
  PROVE  CursorInv'
<1>1. Others(r) /\ DOMAIN walks' = Readers /\ DOMAIN walks'[r] = DOMAIN NoWalk
  BY DEF Others, CursorInv, Shaped
<1>2. WalkInv(r)'
  BY DEF CursorInv, WalkInv, Over, Robbed, Names, TakenAway
<1> QED
  BY <1>1, <1>2, OneReader

\* The fields of a request that no step after the first changes.
Going(r) ==
  /\ DOMAIN reads' = Readers /\ DOMAIN reads'[r] = DOMAIN NoRead
  /\ \A q \in Readers \ {r} : reads'[q] = reads[q]
  /\ reads'[r].query = reads[r].query /\ reads'[r].now = reads[r].now
  /\ reads'[r].page = reads[r].page

LEMMA CoverageKeeps == ASSUME CursorInv, NEW r \in Readers, Coverage(r) PROVE CursorInv'
<1>1. reads[r].step = "coverage" /\ walks' = walks /\ used' = used /\ UNCHANGED <<shares, snapshots, clock>>
  BY DEF Coverage, At, Unchanged
<1>2. PICK basis : reads' = [reads EXCEPT ![r].step = IF reads[r].page # 0 THEN "count" ELSE "find",
                                          ![r].basis = basis]
  BY DEF Coverage
<1>3. Going(r) /\ reads'[r].step = IF reads[r].page # 0 THEN "count" ELSE "find"
  BY <1>2 DEF CursorInv, Shaped, NoRead, Going
<1>4. ReadInv(r)'
  BY <1>1, <1>3 DEF CursorInv, ReadInv, Going
<1> QED
  BY <1>1, <1>3, <1>4, Advances DEF Going

LEMMA MaterializeKeeps == ASSUME CursorInv, NEW r \in Readers, Materialize(r) PROVE CursorInv'
<1>1. reads[r].step = "materialize" /\ walks' = walks /\ used' = used
      /\ UNCHANGED <<shares, snapshots, clock>>
  BY DEF Materialize, At, Unchanged
<1>2. PICK entries, truncated :
        reads' = [reads EXCEPT ![r].step = "insert", ![r].entries = entries, ![r].truncated = truncated]
  BY DEF Materialize
<1>3. Going(r) /\ reads'[r].step = "insert"
  BY <1>2 DEF CursorInv, Shaped, NoRead, Going
<1>4. ReadInv(r)'
  BY <1>1, <1>3 DEF CursorInv, ReadInv, Going
<1> QED
  BY <1>1, <1>3, <1>4, Advances DEF Going

LEMMA CountKeeps == ASSUME CursorInv, NEW r \in Readers, Count(r) PROVE CursorInv'
<1>1. reads[r].step = "count" /\ walks' = walks /\ used' = used /\ UNCHANGED <<shares, snapshots, clock>>
  BY DEF Count, At, Unchanged
<1>2. PICK scanned, truncated :
        reads' = [reads EXCEPT ![r].step = "slice", ![r].truncated = truncated, ![r].scanned = scanned]
  BY DEF Count
<1>3. Going(r) /\ reads'[r].step = "slice"
  BY <1>2 DEF CursorInv, Shaped, NoRead, Going
<1>4. ReadInv(r)'
  BY <1>1, <1>3 DEF CursorInv, ReadInv, Going
<1> QED
  BY <1>1, <1>3, <1>4, Advances DEF Going

LEMMA SliceKeeps == ASSUME CursorInv, NEW r \in Readers, Slice(r) PROVE CursorInv'
<1>1. reads[r].step = "slice" /\ walks' = walks /\ used' = used /\ UNCHANGED <<shares, snapshots, clock>>
  BY DEF Slice, At, Unchanged
<1>2. PICK items :
        reads' = [reads EXCEPT ![r].step = "answer", ![r].reply = "ok", ![r].items = items]
  BY DEF Slice
<1>3. Going(r) /\ reads'[r].step = "answer" /\ reads'[r].reply = "ok"
  BY <1>2 DEF CursorInv, Shaped, NoRead, Going
<1>4. ReadInv(r)'
  BY <1>1, <1>3 DEF CursorInv, ReadInv, Going
<1> QED
  BY <1>1, <1>3, <1>4, Advances DEF Going

\* What a scanned chunk makes of the request.
LEMMA ScanStep ==
  ASSUME CursorInv, NEW r \in Readers, ScanChunk(r)
  PROVE  \E over \in reads[r].scanned .. EndOfChunk(reads[r]) :
         \E places \in Ascending(Shown(reads[r], over)) :
           /\ Going(r) /\ reads'[r].seen = reads[r].seen /\ reads'[r].entries = reads[r].entries
           /\ reads'[r].limit = reads[r].limit /\ reads'[r].scanned = over
           /\ reads'[r].items = reads[r].items
                                \o Items([i \in DOMAIN places |-> reads[r].entries[places[i]]])
           /\ \/ reads'[r].step = "page"
              \/ reads'[r].step = "answer" /\ reads'[r].reply = "ok"
<1> DEFINE items(places) ==
             reads[r].items \o Items([i \in DOMAIN places |-> reads[r].entries[places[i]]])
           done(over, places) ==
             Len(items(places)) = reads[r].limit \/ over = Len(reads[r].entries)
<1>1. PICK over \in reads[r].scanned .. EndOfChunk(reads[r]) :
        \E places \in Ascending(Shown(reads[r], over)) :
          reads' = [reads EXCEPT ![r] =
                     [reads[r] EXCEPT !.items = items(places), !.scanned = over,
                                      !.step = IF done(over, places) THEN "answer" ELSE "page",
                                      !.reply = IF done(over, places) THEN "ok" ELSE "none"]]
  BY Zenon DEF ScanChunk
<1>2. PICK places, list, full :
        /\ places \in Ascending(Shown(reads[r], over)) /\ list = items(places)
        /\ reads' = [reads EXCEPT ![r] =
                      [reads[r] EXCEPT !.items = list, !.scanned = over,
                                       !.step = IF full THEN "answer" ELSE "page",
                                       !.reply = IF full THEN "ok" ELSE "none"]]
  BY <1>1, Zenon
<1> HIDE DEF items, done
<1>3. /\ Going(r) /\ reads'[r].seen = reads[r].seen /\ reads'[r].entries = reads[r].entries
      /\ reads'[r].limit = reads[r].limit /\ reads'[r].scanned = over /\ reads'[r].items = list
      /\ \/ reads'[r].step = "page"
         \/ reads'[r].step = "answer" /\ reads'[r].reply = "ok"
  BY <1>2 DEF CursorInv, Shaped, NoRead, Going
<1> QED
  BY <1>1, <1>2, <1>3 DEF items

LEMMA ScanKeeps == ASSUME CursorInv, NEW r \in Readers, ScanChunk(r) PROVE CursorInv'
<1>1. reads[r].step = "page" /\ walks' = walks /\ used' = used /\ UNCHANGED <<shares, snapshots, clock>>
  BY DEF ScanChunk, At, Unchanged
<1>2. Going(r) /\ \/ reads'[r].step = "page"
                  \/ reads'[r].step = "answer" /\ reads'[r].reply = "ok"
  BY ScanStep
<1>3. ReadInv(r)'
  BY <1>1, <1>2 DEF CursorInv, ReadInv, Going
<1> QED
  BY <1>1, <1>2, <1>3, Advances DEF Going

\* Two queries with one fingerprint are the same query, under whatever basis.
LEMMA FingerprintTells ==
  ASSUME NEW p \in AskedFor, NEW q \in AskedFor, NEW b, NEW c, Fingerprint(p, b) = Fingerprint(q, c)
  PROVE  p = q
<1>1. p.sort = q.sort /\ p.filter = q.filter
  BY DEF Fingerprint
<1> QED
  BY <1>1 DEF AskedFor

\* What r's request and walk are once the walk has been opened on a row.
Opened(r, id, row) ==
  /\ DOMAIN reads' = Readers /\ DOMAIN walks' = Readers /\ Others(r)
  /\ DOMAIN reads'[r] = DOMAIN NoRead /\ DOMAIN walks'[r] = DOMAIN NoWalk
  /\ reads'[r].step = "page" /\ reads'[r].query = reads[r].query /\ reads'[r].now = reads[r].now
  /\ walks'[r].snapshot = id /\ walks'[r].query = walks[r].query
  /\ walks'[r].entries = row.entries /\ walks'[r].created = row.created

LEMMA OpensRow ==
  ASSUME CursorInv, NEW r \in Readers, NEW id, NEW row, Opens(r, id, row)
  PROVE  Opened(r, id, row)
<1>1. /\ reads' = [reads EXCEPT ![r].step = "page", ![r].entries = row.entries,
                                ![r].truncated = row.truncated]
      /\ walks' = [walks EXCEPT ![r].snapshot = id, ![r].entries = row.entries,
                                ![r].created = row.created, ![r].basis = row.basis]
  BY DEF Opens
<1>2. /\ DOMAIN reads' = Readers /\ \A q \in Readers \ {r} : reads'[q] = reads[q]
      /\ DOMAIN reads'[r] = DOMAIN NoRead /\ reads'[r].step = "page"
      /\ reads'[r].query = reads[r].query /\ reads'[r].now = reads[r].now
  BY <1>1 DEF CursorInv, Shaped, NoRead
<1>3. /\ DOMAIN walks' = Readers /\ \A q \in Readers \ {r} : walks'[q] = walks[q]
      /\ DOMAIN walks'[r] = DOMAIN NoWalk /\ walks'[r].snapshot = id
      /\ walks'[r].query = walks[r].query /\ walks'[r].entries = row.entries
      /\ walks'[r].created = row.created
  BY <1>1 DEF CursorInv, Shaped, NoWalk
<1> QED
  BY <1>2, <1>3 DEF Opened, Others

LEMMA FindKeeps == ASSUME CursorInv, NEW r \in Readers, FindReusable(r) PROVE CursorInv'
<1>1. reads[r].step = "find" /\ used' = used /\ UNCHANGED <<shares, snapshots, clock>>
  BY DEF FindReusable, At, Unchanged
<1>2. CASE Goes(r, "materialize") /\ UNCHANGED walks
  <2>1. Going(r) /\ reads'[r].step = "materialize"
    BY <1>2 DEF CursorInv, Shaped, NoRead, Going, Goes
  <2>2. ReadInv(r)'
    BY <1>1, <1>2, <2>1 DEF CursorInv, ReadInv, Going
  <2> QED
    BY <1>1, <1>2, <2>1, <2>2, Advances DEF Going
<1>3. ASSUME NEW id \in Ids, Reusable(id, reads[r]), Opens(r, id, snapshots[id]) PROVE CursorInv'
  <2>1. id \in 1 .. used.snapshots /\ snapshots[id] # NoSnapshot /\ id \in 1 .. MaxRequests
    BY <1>3 DEF Ids, CursorInv, Shaped, StockInv
  <2>2. Opened(r, id, snapshots[id])
    BY <1>3, OpensRow
  <2>3. PICK q \in AskedFor : /\ snapshots[id].fingerprint = Fingerprint(q, snapshots[id].basis)
                              /\ snapshots[id].created \in Nat
    BY <2>1 DEF CursorInv, StockInv
  <2>4. reads[r].query \in AskedFor /\ reads[r].query = walks[r].query
    BY <1>1 DEF CursorInv, ReadInv
  <2>5. q = walks[r].query
    BY ZenonT(40), <1>3, <2>3, <2>4, FingerprintTells DEF Reusable
  <2>6. WalkInv(r)'
    BY <1>1, <2>1, <2>2, <2>3, <2>5 DEF WalkInv, Opened
  <2>7. ReadInv(r)'
    BY <1>1, <2>1, <2>2, <2>4 DEF ReadInv, Opened, CursorInv
  <2> QED
    BY <1>1, <2>2, <2>6, <2>7, OneReader DEF Opened
<1> QED
  BY <1>2, <1>3 DEF FindReusable

LEMMA InsertKeeps == ASSUME CursorInv, NEW r \in Readers, InsertSnapshot(r) PROVE CursorInv'
<1> PICK id, row : /\ id = used.snapshots + 1
                   /\ row = [fingerprint |-> Fingerprint(reads[r].query, reads[r].basis),
                             basis |-> reads[r].basis, entries |-> reads[r].entries,
                             truncated |-> reads[r].truncated, created |-> reads[r].now]
  OBVIOUS
<1>1. /\ snapshots' = [snapshots EXCEPT ![id] = row] /\ used' = [used EXCEPT !.snapshots = id]
      /\ Opens(r, id, row) /\ UNCHANGED <<shares, clock>> /\ reads[r].step = "insert"
      /\ used.snapshots < MaxRequests
  BY DEF InsertSnapshot, At, Unchanged
<1>2. id \in 1 .. MaxRequests /\ id \in Nat /\ id # 0
  BY <1>1, DiscoveryAssumption DEF CursorInv, Shaped
<1>3. /\ row.fingerprint = Fingerprint(reads[r].query, row.basis) /\ row.created = reads[r].now
      /\ reads[r].query \in AskedFor /\ reads[r].query = walks[r].query
      /\ reads[r].now \in Nat /\ reads[r].now <= clock
  BY <1>1 DEF CursorInv, ReadInv
<1>4. row # NoSnapshot
  <2>1. row.fingerprint # NoSnapshot.fingerprint
    BY <1>3 DEF Fingerprint, NoSnapshot
  <2> QED
    BY <2>1
<1>5. Opened(r, id, row)
  BY <1>1, OpensRow
<1>6. DOMAIN used' = DOMAIN used /\ used'.snapshots = id
  BY <1>1 DEF CursorInv, Shaped
<1>7. DOMAIN snapshots' = 1 .. MaxRequests /\ snapshots'[id] = row
      /\ \A other \in 1 .. MaxRequests : other # id => snapshots'[other] = snapshots[other]
  BY <1>1, <1>2 DEF CursorInv, Shaped
<1> HIDE DEF NoSnapshot
<1>8. Shaped'
  BY <1>1, <1>2, <1>5, <1>6, <1>7 DEF CursorInv, Shaped, Opened, Others
<1>9. StockInv'
  <2> SUFFICES ASSUME NEW other \in 1 .. MaxRequests
               PROVE  /\ other > id => snapshots'[other] = NoSnapshot
                      /\ snapshots'[other] # NoSnapshot =>
                           /\ snapshots'[other].created \in Nat
                           /\ \E q \in AskedFor : snapshots'[other].fingerprint
                                                  = Fingerprint(q, snapshots'[other].basis)
    BY <1>6 DEF StockInv, Fingerprint
  <2>1. CASE other = id
    BY <1>2, <1>3, <1>7, <2>1
  <2>2. CASE other # id
    <3>1. snapshots'[other] = snapshots[other] /\ (other > id => other > used.snapshots)
      BY <1>2, <1>7, <2>2 DEF CursorInv, Shaped
    <3> QED
      BY <3>1 DEF CursorInv, StockInv
  <2> QED
    BY <2>1, <2>2
<1>10. WorldMoves
  BY <1>1, <1>2, <1>6, <1>7 DEF WorldMoves, CursorInv, Shaped, TakenAway
<1>11. ASSUME NEW q \in Readers \ {r} PROVE ReadInv(q)' /\ WalkInv(q)'
  BY <1>5, <1>10, <1>11, Bystander DEF Opened, Others, Same
<1>12. WalkInv(r)'
  BY <1>2, <1>3, <1>4, <1>5, <1>6, <1>7 DEF WalkInv, Opened
<1>13. ReadInv(r)'
  BY <1>1, <1>2, <1>3, <1>5 DEF ReadInv, Opened
<1> QED
  BY <1>8, <1>9, <1>11, <1>12, <1>13 DEF CursorInv

LEMMA FailsKeeps == ASSUME CursorInv, NEW r \in Readers, InsertFails(r) PROVE CursorInv'
<1>1. /\ used' = [used EXCEPT !.events = @ + 1] /\ UNCHANGED <<shares, snapshots, clock>>
      /\ reads' = [reads EXCEPT ![r] = NoRead] /\ walks' = [walks EXCEPT ![r] = NoWalk]
  BY DEF InsertFails, Unchanged
<1>2. /\ DOMAIN reads' = Readers /\ DOMAIN walks' = Readers /\ Others(r)
      /\ DOMAIN used' = DOMAIN used /\ used'.snapshots = used.snapshots
      /\ reads'[r] = NoRead /\ walks'[r] = NoWalk
  BY <1>1 DEF CursorInv, Shaped, Others
<1>3. /\ NoRead.step = "idle" /\ NoRead.now = 0 /\ NoWalk.snapshot = 0 /\ NoWalk.cursor = 0
  BY DEF NoRead, NoWalk
<1>4. ReadInv(r)' /\ WalkInv(r)'
  BY <1>1, <1>2, <1>3 DEF ReadInv, WalkInv, CursorInv, Shaped
<1> QED
  BY <1>1, <1>2, <1>4, OneReader

LEMMA LoadKeeps == ASSUME CursorInv, NEW r \in Readers, Load(r) PROVE CursorInv'
<1> PICK id, row : id = walks[r].snapshot /\ row = snapshots[id]
  OBVIOUS
<1>1. reads[r].step = "load" /\ walks' = walks /\ used' = used /\ UNCHANGED <<shares, snapshots, clock>>
  BY DEF Load, At, Unchanged
<1>2. /\ id # 0 /\ id \in 1 .. used.snapshots /\ id \in 1 .. MaxRequests
      /\ reads[r].query \in AskedFor /\ reads[r].now \in Nat /\ reads[r].now <= clock
      /\ walks[r].created \in Nat
  <2>1. /\ walks[r].snapshot # 0 /\ reads[r].query \in AskedFor
        /\ reads[r].now \in Nat /\ reads[r].now <= clock
    BY <1>1 DEF CursorInv, ReadInv
  <2>2. id \in 1 .. used.snapshots /\ walks[r].created \in Nat
    BY <2>1 DEF CursorInv, WalkInv
  <2>3. id \in 1 .. MaxRequests
    BY <2>2, DiscoveryAssumption DEF CursorInv, Shaped
  <2> QED
    BY <2>1, <2>2, <2>3
<1>3. row = NoSnapshot => Over(walks[r], clock) \/ Robbed(walks[r])
  BY <1>2 DEF CursorInv, WalkInv
<1>4. row # NoSnapshot => /\ row.created = walks[r].created
                          /\ row.fingerprint = Fingerprint(walks[r].query, row.basis)
  BY <1>2 DEF CursorInv, WalkInv
<1> HIDE DEF NoSnapshot
<1>5. ASSUME NEW reply, Answers(r, reply), reply \in {"expired", "invalid"},
             reply = "expired" => Over(walks[r], clock) \/ Robbed(walks[r]),
             reply = "invalid" => reads[r].query # walks[r].query
      PROVE  CursorInv'
  <2>1. reads' = [reads EXCEPT ![r].step = "answer", ![r].reply = reply]
    BY <1>5 DEF Answers
  <2>2. Going(r) /\ reads'[r].step = "answer" /\ reads'[r].reply = reply
    BY <2>1 DEF CursorInv, Shaped, NoRead, Going
  <2>3. (Over(walks[r], clock) \/ Robbed(walks[r]))' <=> Over(walks[r], clock) \/ Robbed(walks[r])
    BY <1>1 DEF Over, Robbed, Names, TakenAway
  <2>4. ReadInv(r)'
    BY <1>1, <1>2, <1>5, <2>2, <2>3 DEF ReadInv, Going
  <2> QED
    BY <1>1, <2>2, <2>4, Advances DEF Going
<1>6. CASE row = NoSnapshot \/ ~Live(id, reads[r].now)
  <2>1. Answers(r, "expired")
    BY <1>6 DEF Load
  <2>2. Over(walks[r], clock) \/ Robbed(walks[r])
    <3>1. clock \in Nat /\ SnapshotSpan \in Nat
      BY DiscoveryAssumption DEF CursorInv, Shaped
    <3>2. CASE row # NoSnapshot
      <4>1. row.created = walks[r].created
        BY <1>4, <3>2
      <4>2. ~(row.created + SnapshotSpan > reads[r].now)
        BY <1>6, <3>2 DEF Live
      <4>3. reads[r].now \in Nat /\ reads[r].now <= clock /\ walks[r].created \in Nat
        BY <1>2
      <4>4. clock >= walks[r].created + SnapshotSpan
        BY ONLY <3>1, <4>1, <4>2, <4>3
      <4> QED
        BY ONLY <4>4 DEF Over
    <3> QED
      BY <1>3, <3>2
  <2> QED
    BY <1>5, <2>1, <2>2
<1>7. CASE row # NoSnapshot /\ Live(id, reads[r].now) /\ ~Continues(r, row)
  <2>1. Answers(r, "invalid")
    BY <1>7 DEF Load
  <2>2. reads[r].query # walks[r].query
    BY <1>4, <1>7 DEF Continues
  <2> QED
    BY <1>5, <2>1, <2>2
<1>8. CASE row # NoSnapshot /\ Live(id, reads[r].now) /\ Continues(r, row)
  <2>1. reads' = [reads EXCEPT ![r].step = "page", ![r].entries = row.entries,
                               ![r].scanned = walks[r].cursor, ![r].basis = row.basis,
                               ![r].truncated = row.truncated]
    BY <1>8 DEF Load
  <2>2. Going(r) /\ reads'[r].step = "page"
    <3>1. r \in Readers /\ DOMAIN reads = Readers /\ DOMAIN reads[r] = DOMAIN NoRead
      BY DEF CursorInv, Shaped
    <3>2. DOMAIN NoRead = {"step", "query", "now", "limit", "basis", "entries", "truncated",
                              "scanned", "page", "items", "reply", "seen"}
      BY DEF NoRead
    <3> QED
      BY ONLY <2>1, <3>1, <3>2 DEF Going
  <2>3. ReadInv(r)'
    BY <1>1, <1>2, <2>2 DEF ReadInv, Going
  <2> QED
    BY <1>1, <2>2, <2>3, Advances DEF Going
<1> QED
  BY <1>6, <1>7, <1>8

LEMMA AnswerKeeps == ASSUME CursorInv, NEW r \in Readers, Answer(r) PROVE CursorInv'
<1>1. /\ reads[r].step = "answer" /\ used' = used /\ UNCHANGED <<shares, snapshots, clock>>
      /\ reads' = [reads EXCEPT ![r] = NoRead]
  BY DEF Answer, At, Unchanged
<1>2. /\ DOMAIN reads' = Readers /\ reads'[r] = NoRead
      /\ \A q \in Readers \ {r} : reads'[q] = reads[q]
  BY <1>1 DEF CursorInv, Shaped
<1>3. NoRead.step = "idle" /\ NoRead.now = 0 /\ NoWalk.snapshot = 0 /\ NoWalk.cursor = 0
  BY DEF NoRead, NoWalk
<1>4. ReadInv(r)'
  BY <1>1, <1>2, <1>3 DEF ReadInv, CursorInv, Shaped
<1>5. ASSUME DOMAIN walks' = Readers, \A q \in Readers \ {r} : walks'[q] = walks[q],
             DOMAIN walks'[r] = DOMAIN NoWalk, WalkInv(r)'
      PROVE  CursorInv'
  BY <1>1, <1>2, <1>4, <1>5, OneReader DEF Others
<1>6. CASE walks' = walks
  <2>1. WalkInv(r)'
    BY <1>1, <1>6 DEF CursorInv, WalkInv, Over, Robbed, Names, TakenAway
  <2> QED
    BY <1>5, <1>6, <2>1 DEF CursorInv, Shaped
<1>7. CASE walks' = [walks EXCEPT ![r] = NoWalk]
  <2>1. /\ DOMAIN walks' = Readers /\ walks'[r] = NoWalk
        /\ \A q \in Readers \ {r} : walks'[q] = walks[q]
    BY <1>7 DEF CursorInv, Shaped
  <2>2. WalkInv(r)'
    BY <1>3, <2>1 DEF WalkInv
  <2> QED
    BY <1>5, <2>1, <2>2
<1>8. ASSUME NEW served, reads[r].page = 0,
             walks' = [walks EXCEPT ![r].cursor = CursorOf(reads[r]), ![r].served = served]
      PROVE  CursorInv'
  <2>1. /\ DOMAIN walks' = Readers /\ \A q \in Readers \ {r} : walks'[q] = walks[q]
        /\ DOMAIN walks'[r] = DOMAIN NoWalk /\ walks'[r].snapshot = walks[r].snapshot
        /\ walks'[r].entries = walks[r].entries /\ walks'[r].created = walks[r].created
        /\ walks'[r].query = walks[r].query
    BY <1>8 DEF CursorInv, Shaped, NoWalk
  <2>2. walks[r].snapshot # 0 /\ WalkInv(r)
    BY <1>1, <1>8 DEF CursorInv, ReadInv
  <2>3. (Over(walks[r], clock) \/ Robbed(walks[r]))' <=> Over(walks[r], clock) \/ Robbed(walks[r])
    BY <1>1, <2>1 DEF Over, Robbed, Names, TakenAway
  <2>4. WalkInv(r)'
    BY <1>1, <2>1, <2>2, <2>3 DEF WalkInv, Fingerprint
  <2> QED
    BY <1>5, <2>1, <2>4
<1> QED
  BY <1>6, <1>7, <1>8 DEF Answer

-----------------------------------------------------------------------------
(* What happens around the readers.                                        *)

\* A step of the world: the rows it takes, it takes for a reason.
LEMMA AllBystanders ==
  ASSUME CursorInv, WorldMoves, Shaped', StockInv', \A r \in Readers : Same(r)
  PROVE  CursorInv'
BY Bystander DEF CursorInv

\* Nothing of a reader changes but what it has seen and what has been steady.
LEMMA StandsKeeps ==
  ASSUME CursorInv, NEW s \in Shares, NEW standing, Stands(s, standing),
         TakenAway(s) => standing \in {"gone", "blocked", "purged"},
         UNCHANGED snapshots \/ (PurgeSnapshots(s) /\ standing = "gone")
  PROVE  CursorInv'
<1>1. PICK published, counted :
        /\ shares' = [shares EXCEPT ![s].standing = standing, ![s].published = published]
        /\ used' = [used EXCEPT !.events = @ + 1, !.published = counted]
        /\ clock' = clock
  BY DEF Stands
<1>2. /\ DOMAIN shares' = Shares /\ \A q \in Shares : DOMAIN shares'[q] = {"standing", "published"}
      /\ shares'[s].standing = standing
      /\ \A q \in Shares \ {s} : shares'[q] = shares[q]
  BY <1>1 DEF CursorInv, Shaped
<1>3. DOMAIN used' = DOMAIN used /\ used'.snapshots = used.snapshots
  BY <1>1 DEF CursorInv, Shaped
<1>4. PICK now :
        /\ reads' = [r \in Readers |-> IF reads[r].step = "idle" THEN reads[r]
                                       ELSE [reads[r] EXCEPT !.seen = @ \cup now]]
        /\ walks' = [r \in Readers |-> [walks[r] EXCEPT !.steady = @ \cap now]]
  BY DEF Stands
<1>5. /\ DOMAIN reads' = Readers /\ \A r \in Readers : DOMAIN reads'[r] = DOMAIN NoRead
      /\ DOMAIN walks' = Readers /\ \A r \in Readers : DOMAIN walks'[r] = DOMAIN NoWalk
  BY <1>4 DEF CursorInv, Shaped, NoRead, NoWalk
<1>6. ASSUME NEW r \in Readers PROVE Same(r)
  <2>1. /\ reads'[r].step = reads[r].step /\ reads'[r].query = reads[r].query
        /\ reads'[r].now = reads[r].now /\ reads'[r].page = reads[r].page
        /\ reads'[r].reply = reads[r].reply
    BY <1>4 DEF CursorInv, Shaped, NoRead
  <2>2. /\ walks'[r].snapshot = walks[r].snapshot /\ walks'[r].cursor = walks[r].cursor
        /\ walks'[r].query = walks[r].query /\ walks'[r].entries = walks[r].entries
        /\ walks'[r].created = walks[r].created
    BY <1>4 DEF CursorInv, Shaped, NoWalk
  <2> QED
    BY <2>1, <2>2 DEF Same
<1>7. \A q \in Shares : TakenAway(q) => TakenAway(q)'
  BY <1>2 DEF TakenAway
<1> HIDE DEF NoSnapshot
<1>8. /\ DOMAIN snapshots' = 1 .. MaxRequests
      /\ \A id \in 1 .. MaxRequests :
           \/ snapshots'[id] = snapshots[id]
           \/ snapshots'[id] = NoSnapshot /\ Names(snapshots[id], s) /\ TakenAway(s)'
  BY <1>2 DEF CursorInv, Shaped, PurgeSnapshots, TakenAway
<1>9. Shaped'
  BY <1>1, <1>2, <1>3, <1>5, <1>8 DEF CursorInv, Shaped
<1>10. StockInv'
  BY <1>3, <1>8 DEF CursorInv, StockInv, Fingerprint
<1>11. WorldMoves
  BY <1>1, <1>3, <1>7, <1>8, DiscoveryAssumption DEF CursorInv, Shaped, WorldMoves
<1> QED
  BY <1>6, <1>9, <1>10, <1>11, AllBystanders

\* What leaves the readers alone.
LEMMA QuietKeeps ==
  ASSUME CursorInv, UNCHANGED <<reads, walks>>, DOMAIN used' = DOMAIN used,
         used'.snapshots = used.snapshots, clock' \in Nat, clock' >= clock,
         DOMAIN shares' = Shares, \A s \in Shares : DOMAIN shares'[s] = {"standing", "published"},
         \A s \in Shares : TakenAway(s) => TakenAway(s)',
         DOMAIN snapshots' = 1 .. MaxRequests,
         \A id \in 1 .. MaxRequests :
           \/ snapshots'[id] = snapshots[id]
           \/ /\ snapshots'[id] = NoSnapshot
              /\ \/ Over(snapshots[id], clock')
                 \/ \E s \in Shares : Names(snapshots[id], s) /\ TakenAway(s)'
  PROVE  CursorInv'
<1> HIDE DEF NoSnapshot
<1>1. Shaped'
  BY DEF CursorInv, Shaped
<1>2. StockInv'
  BY DEF CursorInv, StockInv, Fingerprint
<1>3. WorldMoves
  BY DiscoveryAssumption DEF CursorInv, Shaped, WorldMoves
<1>4. \A r \in Readers : Same(r)
  BY DEF Same
<1> QED
  BY <1>1, <1>2, <1>3, <1>4, AllBystanders

LEMMA SharesKeep ==
  ASSUME CursorInv, NEW s \in Shares,
         \/ Publish(s) \/ SetVisibility(s) \/ Delete(s) \/ Block(s) \/ Takedown(s)
         \/ RemoveRow(s) \/ Import(s)
  PROVE  CursorInv'
<1>1. CASE Publish(s)
  BY <1>1, StandsKeeps DEF Publish, TakenAway
<1>2. CASE SetVisibility(s)
  <2>1. PICK standing : Stands(s, standing)
    BY <1>2 DEF SetVisibility
  <2>2. ~TakenAway(s) /\ UNCHANGED snapshots
    BY <1>2 DEF SetVisibility, TakenAway
  <2> QED
    BY <2>1, <2>2, StandsKeeps
<1>3. CASE Delete(s)
  BY <1>3, StandsKeeps DEF Delete
<1>4. CASE Block(s)
  BY <1>4, StandsKeeps DEF Block
<1>5. CASE Takedown(s)
  <2>1. /\ shares' = [shares EXCEPT ![s].standing = "purged"] /\ PurgeSnapshots(s)
        /\ UNCHANGED <<clock, reads, walks, used>>
    BY <1>5 DEF Takedown
  <2>2. /\ DOMAIN shares' = Shares /\ \A q \in Shares : DOMAIN shares'[q] = {"standing", "published"}
        /\ \A q \in Shares : TakenAway(q) => TakenAway(q)'
        /\ TakenAway(s)'
    BY <2>1 DEF CursorInv, Shaped, TakenAway
  <2>3. /\ DOMAIN snapshots' = 1 .. MaxRequests
        /\ \A id \in 1 .. MaxRequests :
             \/ snapshots'[id] = snapshots[id]
             \/ snapshots'[id] = NoSnapshot /\ Names(snapshots[id], s)
    BY <2>1 DEF CursorInv, Shaped, PurgeSnapshots
  <2>4. clock' \in Nat /\ clock' >= clock
    BY <2>1 DEF CursorInv, Shaped
  <2> QED
    BY <2>1, <2>2, <2>3, <2>4, QuietKeeps
<1>6. CASE RemoveRow(s)
  <2>1. /\ shares' = [shares EXCEPT ![s].standing = "gone"]
        /\ UNCHANGED <<snapshots, clock, reads, walks, used>>
    BY <1>6 DEF RemoveRow
  <2>2. /\ DOMAIN shares' = Shares /\ \A q \in Shares : DOMAIN shares'[q] = {"standing", "published"}
        /\ \A q \in Shares : TakenAway(q) => TakenAway(q)'
    BY <2>1 DEF CursorInv, Shaped, TakenAway
  <2>3. clock' \in Nat /\ clock' >= clock /\ DOMAIN snapshots' = 1 .. MaxRequests
    BY <2>1 DEF CursorInv, Shaped
  <2> QED
    BY <2>1, <2>2, <2>3, QuietKeeps
<1>7. CASE Import(s)
  <2>1. /\ used' = [used EXCEPT !.events = @ + 1]
        /\ UNCHANGED <<shares, snapshots, clock, reads, walks>>
    BY <1>7 DEF Import
  <2>2. /\ DOMAIN used' = DOMAIN used /\ used'.snapshots = used.snapshots
        /\ clock' \in Nat /\ clock' >= clock /\ DOMAIN snapshots' = 1 .. MaxRequests
        /\ DOMAIN shares' = Shares /\ \A q \in Shares : DOMAIN shares'[q] = {"standing", "published"}
        /\ \A q \in Shares : TakenAway(q) => TakenAway(q)'
    BY <2>1 DEF CursorInv, Shaped, TakenAway
  <2> QED
    BY <2>1, <2>2, QuietKeeps
<1> QED
  BY <1>1, <1>2, <1>3, <1>4, <1>5, <1>6, <1>7

LEMMA TimeKeeps ==
  ASSUME CursorInv, DaysPass("30d") \/ DaysPass("90d") \/ Tick \/ Prune
  PROVE  CursorInv'
<1>1. /\ DOMAIN shares = Shares /\ \A q \in Shares : DOMAIN shares[q] = {"standing", "published"}
      /\ DOMAIN snapshots = 1 .. MaxRequests /\ clock \in Nat
      /\ DOMAIN used = {"events", "requests", "published", "snapshots"}
  BY DEF CursorInv, Shaped
<1>2. CASE DaysPass("30d") \/ DaysPass("90d")
  <2>1. /\ used' = [used EXCEPT !.events = @ + 1]
        /\ UNCHANGED <<shares, snapshots, clock, reads, walks>>
    BY <1>2 DEF DaysPass
  <2>2. /\ DOMAIN used' = DOMAIN used /\ used'.snapshots = used.snapshots
        /\ clock' \in Nat /\ clock' >= clock
        /\ \A q \in Shares : TakenAway(q) => TakenAway(q)'
    BY <1>1, <2>1 DEF TakenAway
  <2> QED
    BY <1>1, <2>1, <2>2, QuietKeeps
<1>3. CASE Tick
  <2>1. clock' = clock + 1 /\ UNCHANGED <<shares, snapshots, reads, walks, used>>
    BY <1>3 DEF Tick
  <2>2. clock' \in Nat /\ clock' >= clock /\ \A q \in Shares : TakenAway(q) => TakenAway(q)'
    BY <1>1, <2>1 DEF TakenAway
  <2> QED
    BY <1>1, <2>1, <2>2, QuietKeeps
<1>4. CASE Prune
  <2>1. /\ snapshots' = [id \in DOMAIN snapshots |->
                           IF id \in Ids /\ ~Live(id, clock) THEN NoSnapshot ELSE snapshots[id]]
        /\ UNCHANGED <<shares, clock, reads, walks, used>>
    BY <1>4 DEF Prune
  <2> HIDE DEF NoSnapshot
  <2>2. ASSUME NEW id \in 1 .. MaxRequests, snapshots'[id] # snapshots[id]
        PROVE  snapshots'[id] = NoSnapshot /\ Over(snapshots[id], clock')
    <3>1. id \in Ids /\ ~Live(id, clock) /\ snapshots'[id] = NoSnapshot
      BY <1>1, <2>1, <2>2
    <3>2. snapshots[id].created \in Nat
      BY <3>1 DEF CursorInv, StockInv, Ids
    <3>3. clock >= snapshots[id].created + SnapshotSpan
      BY <1>1, <3>1, <3>2, DiscoveryAssumption DEF Live
    <3> QED
      BY <2>1, <3>1, <3>3 DEF Over
  <2>3. DOMAIN snapshots' = 1 .. MaxRequests /\ clock' \in Nat /\ clock' >= clock
        /\ \A q \in Shares : TakenAway(q) => TakenAway(q)'
    BY <1>1, <2>1 DEF TakenAway
  <2> QED
    BY <1>1, <2>1, <2>2, <2>3, QuietKeeps
<1> QED
  BY <1>2, <1>3, <1>4

-----------------------------------------------------------------------------
LEMMA StepKeeps == ASSUME CursorInv, [Next]_vars PROVE CursorInv'
<1>1. ASSUME NEW r \in Readers, Steps(r) PROVE CursorInv'
  BY <1>1, FirstPageKeeps, ContinueKeeps, ExploreKeeps, CoverageKeeps, FindKeeps, MaterializeKeeps,
     InsertKeeps, FailsKeeps, LoadKeeps, ScanKeeps, AnswerKeeps, CountKeeps, SliceKeeps DEF Steps
<1>2. CASE UNCHANGED vars
  <2>1. UNCHANGED <<shares, snapshots, clock, reads, walks, used>>
    BY <1>2 DEF vars
  <2>2. /\ DOMAIN shares' = Shares /\ \A q \in Shares : DOMAIN shares'[q] = {"standing", "published"}
        /\ DOMAIN snapshots' = 1 .. MaxRequests /\ clock' \in Nat /\ clock' >= clock
        /\ \A q \in Shares : TakenAway(q) => TakenAway(q)'
    BY <2>1 DEF CursorInv, Shaped, TakenAway
  <2> QED
    BY <2>1, <2>2, QuietKeeps
<1> QED
  BY <1>1, <1>2, SharesKeep, TimeKeeps DEF Next

LEMMA InitInv == Init => CursorInv
<1> SUFFICES ASSUME Init PROVE CursorInv
  OBVIOUS
<1>1. Shaped
  BY DiscoveryAssumption DEF Init, Shaped
<1>2. StockInv
  BY DEF Init, StockInv
<1>3. ASSUME NEW r \in Readers PROVE ReadInv(r) /\ WalkInv(r)
  <2>1. reads[r] = NoRead /\ walks[r] = NoWalk /\ clock = 1
    BY DEF Init
  <2>2. /\ NoRead.step = "idle" /\ NoRead.now = 0 /\ NoWalk.snapshot = 0 /\ NoWalk.cursor = 0
    BY DEF NoRead, NoWalk
  <2> QED
    BY <2>1, <2>2 DEF ReadInv, WalkInv
<1> QED
  BY <1>1, <1>2, <1>3 DEF CursorInv

\* A walk and its snapshot agree, or the snapshot is gone for a reason, always.
THEOREM WalksAgree == Spec => []CursorInv
<1>1. Init => CursorInv
  BY InitInv
<1>2. CursorInv /\ [Next]_vars => CursorInv'
  BY StepKeeps
<1> QED
  BY <1>1, <1>2, PTL DEF Spec

\* A cursor is refused only under another query, after its snapshot's life, or
\* when a share its snapshot names was taken away (continueCollection).
THEOREM CursorsAreGood == Spec => []CursorsHold
<1>1. CursorInv => CursorsHold
  <2> SUFFICES ASSUME CursorInv, NEW r \in Readers, reads[r].step = "answer"
               PROVE  /\ reads[r].reply = "invalid" => reads[r].query # walks[r].query
                      /\ reads[r].reply = "expired" =>
                           \/ clock >= walks[r].created + SnapshotSpan
                           \/ \E s \in Shares : /\ Names(walks[r], s)
                                                 /\ shares[s].standing \notin {"public", "unlisted"}
    BY DEF CursorsHold, At
  <2>1. /\ reads[r].reply = "invalid" => reads[r].query # walks[r].query
        /\ reads[r].reply = "expired" => Over(walks[r], clock) \/ Robbed(walks[r])
    BY DEF CursorInv, ReadInv
  <2>2. \A s \in Shares : TakenAway(s) => shares[s].standing \notin {"public", "unlisted"}
    BY DEF TakenAway
  <2> QED
    BY <2>1, <2>2 DEF Over, Robbed
<1> QED
  BY <1>1, WalksAgree, PTL

-----------------------------------------------------------------------------
(* What the pages show.                                                    *)

\* A list of shares, none of them twice.
Distinct(list) ==
  /\ list \in Seq(Shares)
  /\ \A i, j \in 1 .. Len(list) : list[i] = list[j] => i = j

\* The list follows the entries up to the nth, and leaves out nothing steady.
Lists(list, entries, n, steady) ==
  /\ n \in 0 .. Len(entries)
  /\ \A k \in 1 .. Len(list) : \E i \in 1 .. n : list[k] = entries[i]
  /\ \A k, l \in 1 .. Len(list) : \A i, j \in 1 .. n :
       k < l /\ list[k] = entries[i] /\ list[l] = entries[j] => i < j
  /\ \A i \in 1 .. n : entries[i] \in steady => \E k \in 1 .. Len(list) : list[k] = entries[i]

\* All that is public has been seen, and an item names what has been seen.
SeenInv(r) ==
  /\ reads[r].step # "idle" => Eligible \subseteq reads[r].seen
  /\ reads[r].items \in Seq([share : Shares, source : Shares \cup {0}])
  /\ \A i \in 1 .. Len(reads[r].items) :
       {reads[r].items[i].share, reads[r].items[i].source} \subseteq reads[r].seen \cup {0}

\* What a request brings along from step to step.
StepInv(r) ==
  /\ reads[r].page \in Nat /\ reads[r].limit \in Nat /\ (reads[r].step # "idle" => reads[r].limit # 0)
  /\ reads[r].step \in {"find", "materialize", "insert", "load", "page"} => reads[r].page = 0
  /\ reads[r].step = "insert" => Distinct(reads[r].entries)
  /\ reads[r].step \in {"coverage", "find", "materialize", "insert", "load"} => reads[r].items = <<>>
  /\ reads[r].step \in {"coverage", "find", "materialize", "insert"} =>
       reads[r].scanned = 0 /\ walks[r].served = <<>> /\ walks[r].cursor = 0
  /\ reads[r].step = "slice" => reads[r].scanned \in Nat
  /\ reads[r].step = "page" => reads[r].entries = walks[r].entries

\* The pages served so far list the entries up to the cursor; the page under
\* way takes them on to what it has scanned.
PagesInv(r) ==
  /\ walks[r].steady \subseteq Eligible
  /\ walks[r].served \in Seq(Shares) /\ Distinct(walks[r].entries)
  /\ Lists(walks[r].served, walks[r].entries, walks[r].cursor, walks[r].steady)
  /\ reads[r].step = "page" \/ Walking(r) =>
       Lists(walks[r].served \o Served(reads[r].items), walks[r].entries, reads[r].scanned,
             walks[r].steady)

PageInv ==
  /\ CursorInv
  /\ \A id \in 1 .. MaxRequests : Distinct(snapshots[id].entries)
  /\ \A r \in Readers : SeenInv(r) /\ StepInv(r) /\ PagesInv(r)

\* A query returns some of the public shares, none of them twice.
LEMMA CandidatesArePublic ==
  ASSUME NEW query, NEW basis, NEW list \in Candidates(query, basis)
  PROVE  Distinct(list) /\ \A i \in 1 .. Len(list) : list[i] \in Eligible
<1> DEFINE chosen == {s \in Eligible : query.filter = "all" \/ s \in Tagged}
<1>1. list \in Bijection(1 .. Cardinality(chosen), chosen)
  BY DEF Candidates, InOrder
<1>2. chosen \subseteq Shares /\ chosen \subseteq Eligible
  BY DEF Eligible, EligibleIn
<1>3. Cardinality(chosen) \in Nat
  BY <1>2, DiscoveryAssumption, FS_Subset, FS_CardinalityType
<1> HIDE DEF chosen
<1>4. list \in [1 .. Cardinality(chosen) -> chosen]
      /\ \A i, j \in 1 .. Cardinality(chosen) : list[i] = list[j] => i = j
  BY <1>1 DEF Bijection, Injection, IsInjective
<1>5. list \in Seq(Shares) /\ Len(list) = Cardinality(chosen)
  BY <1>2, <1>3, <1>4
<1> QED
  BY <1>2, <1>4, <1>5 DEF Distinct

\* The places of the public entries, from the first to the last.
LEMMA AscendingIs ==
  ASSUME NEW n \in Nat, NEW places \in SUBSET (1 .. n), NEW list \in Ascending(places)
  PROVE  /\ list \in Seq(1 .. n) /\ DOMAIN list = 1 .. Len(list)
         /\ \A k \in 1 .. Len(list) : list[k] \in places
         /\ \A k, l \in 1 .. Len(list) : k < l => list[k] < list[l]
         /\ \A i \in places : \E k \in 1 .. Len(list) : list[k] = i
<1>1. /\ list \in Bijection(1 .. Cardinality(places), places)
      /\ \A i, j \in 1 .. Cardinality(places) : i < j => list[i] < list[j]
  BY DEF Ascending, InOrder
<1>2. Cardinality(places) \in Nat
  <2>1. IsFiniteSet(1 .. n)
    BY FS_Interval
  <2>2. IsFiniteSet(places)
    BY <2>1, FS_Subset
  <2> QED
    BY <2>2, FS_CardinalityType
<1>3. /\ list \in [1 .. Cardinality(places) -> places]
      /\ \A i \in places : \E k \in 1 .. Cardinality(places) : list[k] = i
  BY <1>1 DEF Bijection, Injection, Surjection
<1>4. list \in Seq(1 .. n) /\ Len(list) = Cardinality(places) /\ DOMAIN list = 1 .. Len(list)
  <2>1. list \in [1 .. Cardinality(places) -> 1 .. n]
    BY <1>3
  <2> QED
    BY <1>2, <2>1
<1> QED
  BY <1>1, <1>3, <1>4

\* A list that follows the entries goes on with those of a chunk.
LEMMA ListsMore ==
  ASSUME NEW list \in Seq(Shares), NEW entries \in Seq(Shares), Distinct(entries), NEW n, NEW steady,
         Lists(list, entries, n, steady), NEW over \in n .. Len(entries),
         NEW places \in Seq(1 .. Len(entries)), NEW more \in Seq(Shares), Len(more) = Len(places),
         \A k \in 1 .. Len(places) : places[k] \in n + 1 .. over /\ more[k] = entries[places[k]],
         \A k, l \in 1 .. Len(places) : k < l => places[k] < places[l],
         \A i \in n + 1 .. over : entries[i] \in steady => \E k \in 1 .. Len(places) : places[k] = i
  PROVE  Lists(list \o more, entries, over, steady)
<1>1. n \in Nat /\ n <= over /\ over <= Len(entries) /\ over \in Nat
  BY LenProperties DEF Lists
<1>2. /\ list \o more \in Seq(Shares) /\ Len(list \o more) = Len(list) + Len(more)
      /\ \A k \in 1 .. Len(list) + Len(more) :
           (list \o more)[k] = IF k <= Len(list) THEN list[k] ELSE more[k - Len(list)]
  BY ZenonT(40), ConcatProperties
<1>3. Len(list) \in Nat /\ Len(more) \in Nat
  BY LenProperties
<1> DEFINE whole == list \o more
<1>4. \A k \in 1 .. Len(list) : whole[k] = list[k]
  BY <1>2, <1>3
<1>5. \A k \in 1 .. Len(more) : whole[Len(list) + k] = entries[places[k]]
  <2> TAKE k \in 1 .. Len(more)
  <2>1. Len(list) + k \in 1 .. Len(list) + Len(more) /\ ~(Len(list) + k <= Len(list))
        /\ (Len(list) + k) - Len(list) = k
    BY <1>3
  <2> QED
    BY <1>2, <2>1
<1> HIDE DEF whole
<1>6. ASSUME NEW k \in 1 .. Len(whole), k > Len(list)
      PROVE  k - Len(list) \in 1 .. Len(more) /\ k = Len(list) + (k - Len(list))
  BY <1>2, <1>3, <1>6 DEF whole
<1>7. ASSUME NEW k \in 1 .. Len(whole) PROVE \E i \in 1 .. over : whole[k] = entries[i]
  <2>1. CASE k <= Len(list)
    BY <1>1, <1>3, <1>4, <2>1 DEF Lists
  <2>2. CASE k > Len(list)
    <3> PICK h : h = k - Len(list)
      OBVIOUS
    <3>1. h \in 1 .. Len(more) /\ k = Len(list) + h
      BY <1>6, <2>2
    <3>2. whole[k] = entries[places[h]] /\ places[h] \in n + 1 .. over
      BY <1>5, <3>1
    <3>3. places[h] \in 1 .. over
      BY ONLY <1>1, <3>2
    <3> QED
      BY ONLY <3>2, <3>3
  <2> QED
    BY <1>3, <2>1, <2>2
<1>8. ASSUME NEW p \in 1 .. Len(entries), NEW q \in 1 .. Len(entries), entries[p] = entries[q]
      PROVE  p = q
  BY <1>8 DEF Distinct
<1>9. ASSUME NEW k \in 1 .. Len(list), NEW i \in 1 .. over, whole[k] = entries[i]
      PROVE  i \in 1 .. n /\ list[k] = entries[i]
  <2>1. PICK p \in 1 .. n : list[k] = entries[p]
    BY DEF Lists
  <2>2. p \in 1 .. Len(entries) /\ i \in 1 .. Len(entries) /\ entries[p] = entries[i]
    BY <1>1, <1>4, <1>9, <2>1, LenProperties
  <2> QED
    BY <1>8, <2>1, <2>2
<1>10. ASSUME NEW k \in 1 .. Len(more), NEW i \in 1 .. over, whole[Len(list) + k] = entries[i]
       PROVE  i = places[k]
  <2>1. places[k] \in 1 .. Len(entries) /\ i \in 1 .. Len(entries) /\ entries[places[k]] = entries[i]
    <3>1. Len(more) = Len(places) /\ Len(entries) \in Nat
      BY LenProperties
    <3>2. places[k] \in n + 1 .. over
      BY <3>1
    <3>3. entries[places[k]] = entries[i]
      BY <1>5, <1>10
    <3>4. i \in 1 .. over
      OBVIOUS
    <3> QED
      BY ONLY <1>1, <3>1, <3>2, <3>3, <3>4
  <2> QED
    BY <1>8, <2>1
<1>11. ASSUME NEW k \in 1 .. Len(whole), NEW l \in 1 .. Len(whole),
              NEW i \in 1 .. over, NEW j \in 1 .. over,
              k < l, whole[k] = entries[i], whole[l] = entries[j]
       PROVE  i < j
  <2>1. CASE l <= Len(list)
    <3>1. k \in 1 .. Len(list) /\ l \in 1 .. Len(list)
      BY <1>3, <1>11, <2>1
    <3>2. i \in 1 .. n /\ j \in 1 .. n /\ list[k] = entries[i] /\ list[l] = entries[j]
      BY <1>9, <1>11, <3>1
    <3>3. \A a, b \in 1 .. Len(list) : \A c, d \in 1 .. n :
            a < b /\ list[a] = entries[c] /\ list[b] = entries[d] => c < d
      BY DEF Lists
    <3>4. k < l
      BY <1>11
    <3> QED
      BY ONLY <3>1, <3>2, <3>3, <3>4
  <2>2. CASE l > Len(list)
    <3> PICK m : m = l - Len(list)
      OBVIOUS
    <3>1. m \in 1 .. Len(more) /\ l = Len(list) + m
      BY <1>6, <2>2
    <3>2. j = places[m] /\ places[m] \in n + 1 .. over
      BY <1>10, <1>11, <3>1
    <3>3. CASE k <= Len(list)
      <4>1. k \in 1 .. Len(list)
        BY <1>3, <3>3
      <4>2. i \in 1 .. n
        BY <1>9, <1>11, <4>1
      <4>3. n \in Nat /\ over \in Nat
        BY <1>1
      <4> QED
        BY ONLY <3>2, <4>2, <4>3
    <3>4. CASE k > Len(list)
      <4> PICK h : h = k - Len(list)
        OBVIOUS
      <4>1. h \in 1 .. Len(more) /\ k = Len(list) + h
        BY <1>6, <3>4
      <4>2. i = places[h]
        BY <1>10, <1>11, <4>1
      <4>3. h < m
        BY <1>3, <1>11, <3>1, <4>1
      <4> QED
        BY <3>1, <3>2, <4>1, <4>2, <4>3
    <3> QED
      BY <1>3, <3>3, <3>4
  <2> QED
    BY <1>3, <2>1, <2>2
<1>12. ASSUME NEW i \in 1 .. over, entries[i] \in steady
      PROVE  \E k \in 1 .. Len(whole) : whole[k] = entries[i]
  <2>1. CASE i <= n
    <3>1. PICK k \in 1 .. Len(list) : list[k] = entries[i]
      BY <1>1, <1>12, <2>1 DEF Lists
    <3> QED
      BY <1>2, <1>3, <1>4, <3>1 DEF whole
  <2>2. CASE i > n
    <3>1. PICK k \in 1 .. Len(places) : places[k] = i
      BY <1>1, <1>12, <2>2
    <3>2. Len(list) + k \in 1 .. Len(whole)
      BY <1>2, <1>3, <3>1 DEF whole
    <3> QED
      BY <1>5, <3>1, <3>2
  <2> QED
    BY <1>1, <2>1, <2>2
<1>13. over \in 0 .. Len(entries)
  BY <1>1, LenProperties
<1>14. Lists(whole, entries, over, steady)
  BY <1>7, <1>11, <1>12, <1>13 DEF Lists
<1> QED
  BY <1>14 DEF whole

\* Less that is steady asks for less.
LEMMA ListsLess ==
  ASSUME NEW list, NEW entries, NEW n, NEW steady, NEW less, less \subseteq steady,
         Lists(list, entries, n, steady)
  PROVE  Lists(list, entries, n, less)
BY DEF Lists

\* Nothing of a page changes; more may have been seen, and less be steady.
Watches(r) ==
  /\ reads'[r].step = reads[r].step /\ reads'[r].page = reads[r].page
  /\ reads'[r].limit = reads[r].limit /\ reads'[r].items = reads[r].items
  /\ reads'[r].entries = reads[r].entries /\ reads'[r].scanned = reads[r].scanned
  /\ reads'[r].reply = reads[r].reply
  /\ reads[r].seen \subseteq reads'[r].seen
  /\ reads[r].step # "idle" => Eligible' \subseteq reads'[r].seen
  /\ walks'[r].served = walks[r].served /\ walks'[r].entries = walks[r].entries
  /\ walks'[r].cursor = walks[r].cursor
  /\ walks'[r].steady \subseteq walks[r].steady /\ walks'[r].steady \subseteq Eligible'

LEMMA WatchersKeep ==
  ASSUME NEW r \in Readers, SeenInv(r), StepInv(r), PagesInv(r), Watches(r)
  PROVE  SeenInv(r)' /\ StepInv(r)' /\ PagesInv(r)'
<1>1. SeenInv(r)'
  BY DEF SeenInv, Watches
<1>2. StepInv(r)'
  BY DEF StepInv, Watches, Distinct
<1>3. PagesInv(r)'
  <2>1. Walking(r)' <=> Walking(r)
    BY DEF Walking, Answered, At, Watches
  <2>2. Lists(walks[r].served, walks[r].entries, walks[r].cursor, walks'[r].steady)
    BY ListsLess DEF PagesInv, Watches
  <2>3. reads[r].step = "page" \/ Walking(r) =>
          Lists(walks[r].served \o Served(reads[r].items), walks[r].entries, reads[r].scanned,
                walks'[r].steady)
    BY ListsLess DEF PagesInv, Watches
  <2> QED
    BY <2>1, <2>2, <2>3 DEF PagesInv, Watches, Served
<1> QED
  BY <1>1, <1>2, <1>3

\* A step of r: what is public stays so, and no snapshot changes.
LEMMA OnePage ==
  ASSUME PageInv, CursorInv', NEW r \in Readers, Others(r), shares' = shares,
         \A id \in 1 .. MaxRequests : Distinct(snapshots'[id].entries),
         SeenInv(r)', StepInv(r)', PagesInv(r)'
  PROVE  PageInv'
<1>1. Eligible' = Eligible
  BY DEF Eligible, EligibleIn
<1>2. ASSUME NEW q \in Readers \ {r} PROVE SeenInv(q)' /\ StepInv(q)' /\ PagesInv(q)'
  <2>1. SeenInv(q) /\ StepInv(q) /\ PagesInv(q)
    BY DEF PageInv
  <2>2. Watches(q)
    BY <1>1, <1>2, <2>1 DEF Others, Watches, SeenInv, PagesInv
  <2> QED
    BY <2>1, <2>2, WatchersKeep
<1>3. \A id \in 1 .. MaxRequests : Distinct(snapshots[id].entries)'
  BY DEF Distinct
<1> QED
  BY <1>2, <1>3 DEF PageInv

LEMMA NothingListed == ASSUME NEW steady PROVE Lists(<<>>, <<>>, 0, steady) /\ Distinct(<<>>)
BY DEF Lists, Distinct

LEMMA NothingServed == Served(<<>>) = <<>> /\ <<>> \o <<>> = <<>>
BY EmptySeq, ConcatEmptySeq DEF Served

\* r begins a request.
LEMMA AsksPage ==
  ASSUME PageInv, CursorInv', NEW r \in Readers, NEW read, Asks(r, read),
         DOMAIN read = DOMAIN NoRead, read.items = <<>>, read.scanned = 0,
         read.page \in Nat, read.limit \in Nat \ {0},
         read.step \in {"coverage", "find", "count", "load"},
         read.step \in {"find", "load"} => read.page = 0,
         \A q \in Readers \ {r} : walks'[q] = walks[q],
         \/ walks' = walks /\ read.step = "load"
         \/ /\ walks'[r].served = <<>> /\ walks'[r].entries = <<>> /\ walks'[r].cursor = 0
            /\ walks'[r].steady \subseteq Eligible
  PROVE  PageInv'
<1>1. /\ UNCHANGED <<shares, snapshots>>
      /\ reads' = [reads EXCEPT ![r] = [read EXCEPT !.now = clock, !.seen = Eligible]]
  BY DEF Asks, Unchanged
<1>2. Others(r) /\ Eligible' = Eligible
  BY <1>1 DEF PageInv, CursorInv, Shaped, Others, Eligible, EligibleIn
<1>3. /\ reads'[r].step = read.step /\ reads'[r].page = read.page /\ reads'[r].limit = read.limit
      /\ reads'[r].items = <<>> /\ reads'[r].scanned = 0 /\ reads'[r].seen = Eligible
  BY <1>1 DEF PageInv, CursorInv, Shaped, NoRead
<1>4. SeenInv(r)'
  BY <1>2, <1>3, EmptySeq DEF SeenInv
<1>5. StepInv(r)'
  BY <1>3 DEF StepInv
<1>6. PagesInv(r)'
  <2>1. ~(reads'[r].step = "page" \/ Walking(r)')
    BY <1>3 DEF Walking, Answered, At
  <2>2. CASE walks' = walks
    BY <1>2, <2>1, <2>2 DEF PageInv, PagesInv
  <2>3. CASE /\ walks'[r].served = <<>> /\ walks'[r].entries = <<>> /\ walks'[r].cursor = 0
             /\ walks'[r].steady \subseteq Eligible
    BY <1>2, <2>1, <2>3, NothingListed, EmptySeq DEF PagesInv
  <2> QED
    BY <2>2, <2>3
<1> QED
  BY <1>1, <1>2, <1>4, <1>5, <1>6, OnePage DEF PageInv

LEMMA FirstPagePage ==
  ASSUME PageInv, CursorInv', NEW r \in Readers, NEW query, NEW limit \in Limits,
         FirstPage(r, query, limit)
  PROVE  PageInv'
<1> PICK read : read = [NoRead EXCEPT !.step = Begins(query, "find"), !.query = query, !.limit = limit]
  OBVIOUS
<1>1. /\ DOMAIN read = DOMAIN NoRead /\ read.items = <<>> /\ read.scanned = 0 /\ read.page = 0
      /\ read.limit = limit /\ read.step \in {"coverage", "find"}
  BY DEF NoRead, Begins
<1>2. Asks(r, read) /\ walks' = [walks EXCEPT ![r] = [NoWalk EXCEPT !.query = query, !.steady = Eligible]]
  BY DEF FirstPage
<1>3. /\ \A q \in Readers \ {r} : walks'[q] = walks[q]
      /\ walks'[r].served = <<>> /\ walks'[r].entries = <<>> /\ walks'[r].cursor = 0
      /\ walks'[r].steady \subseteq Eligible
  BY <1>2 DEF PageInv, CursorInv, Shaped, NoWalk
<1>4. read.limit \in Nat \ {0} /\ read.page \in Nat
  BY <1>1, DiscoveryAssumption
<1>5. read.step \in {"coverage", "find", "count", "load"}
  BY <1>1
<1> QED
  BY <1>1, <1>2, <1>3, <1>4, <1>5, AsksPage

LEMMA ContinuePage ==
  ASSUME PageInv, CursorInv', NEW r \in Readers, NEW query, NEW limit \in Limits,
         Continue(r, query, limit)
  PROVE  PageInv'
<1> PICK read : read = [NoRead EXCEPT !.step = "load", !.query = query, !.limit = limit]
  OBVIOUS
<1>1. /\ DOMAIN read = DOMAIN NoRead /\ read.items = <<>> /\ read.scanned = 0 /\ read.page = 0
      /\ read.limit = limit /\ read.step = "load"
  BY DEF NoRead
<1>2. Asks(r, read) /\ walks' = walks
  BY DEF Continue
<1>3. read.limit \in Nat \ {0} /\ read.page \in Nat
  BY <1>1, DiscoveryAssumption
<1>4. /\ \A q \in Readers \ {r} : walks'[q] = walks[q]
      /\ read.step \in {"coverage", "find", "count", "load"}
  BY <1>1, <1>2
<1> QED
  BY <1>1, <1>2, <1>3, <1>4, AsksPage

LEMMA ExplorePage ==
  ASSUME PageInv, CursorInv', NEW r \in Readers, NEW query, NEW limit \in Limits, NEW page \in Pages,
         Explore(r, query, limit, page)
  PROVE  PageInv'
<1> PICK read : read = [NoRead EXCEPT !.step = Begins(query, "count"), !.query = query,
                                      !.limit = limit, !.page = page]
  OBVIOUS
<1>1. /\ DOMAIN read = DOMAIN NoRead /\ read.items = <<>> /\ read.scanned = 0 /\ read.page = page
      /\ read.limit = limit /\ read.step \in {"coverage", "count"}
  BY DEF NoRead, Begins
<1>2. Asks(r, read) /\ walks' = [walks EXCEPT ![r] = NoWalk]
  BY DEF Explore
<1>3. /\ \A q \in Readers \ {r} : walks'[q] = walks[q]
      /\ walks'[r].served = <<>> /\ walks'[r].entries = <<>> /\ walks'[r].cursor = 0
      /\ walks'[r].steady \subseteq Eligible
  BY <1>2 DEF PageInv, CursorInv, Shaped, NoWalk
<1>4. limit \in Nat \ {0} /\ page \in Nat
  BY DiscoveryAssumption
<1> QED
  BY <1>1, <1>2, <1>3, <1>4, AsksPage

\* What a step of r leaves of its request, when its page shows nothing yet.
Onwards(r) ==
  /\ Others(r) /\ shares' = shares /\ reads[r].step # "idle"
  /\ reads'[r].page = reads[r].page /\ reads'[r].limit = reads[r].limit
  /\ reads'[r].seen = reads[r].seen

LEMMA OnwardsSeen ==
  ASSUME PageInv, NEW r \in Readers, Onwards(r), reads'[r].items = reads[r].items
  PROVE  SeenInv(r)'
BY ZenonT(40) DEF PageInv, SeenInv, Onwards, Eligible, EligibleIn

LEMMA CoveragePage ==
  ASSUME PageInv, CursorInv', NEW r \in Readers, Coverage(r)
  PROVE  PageInv'
<1>1. reads[r].step = "coverage" /\ UNCHANGED <<shares, snapshots, walks>>
  BY DEF Coverage, At, Unchanged
<1>2. PICK basis : reads' = [reads EXCEPT ![r].step = IF reads[r].page # 0 THEN "count" ELSE "find",
                                          ![r].basis = basis]
  BY DEF Coverage
<1>3. /\ Onwards(r) /\ reads'[r].items = reads[r].items /\ reads'[r].scanned = reads[r].scanned
      /\ reads'[r].step = IF reads[r].page # 0 THEN "count" ELSE "find"
  BY <1>1, <1>2 DEF PageInv, CursorInv, Shaped, NoRead, Onwards, Others
<1>4. SeenInv(r)'
  BY <1>3, OnwardsSeen
<1>5. StepInv(r)'
  BY <1>1, <1>3 DEF PageInv, StepInv, Onwards
<1>6. PagesInv(r)'
  BY <1>1, <1>3 DEF PageInv, PagesInv, Walking, Answered, At, Eligible, EligibleIn
<1> QED
  BY <1>1, <1>3, <1>4, <1>5, <1>6, OnePage DEF PageInv, Onwards

\* The first of a list are as distinct as all of it.
LEMMA CappedDistinct == ASSUME NEW list, Distinct(list) PROVE Distinct(Capped(list))
<1> PICK m : m = IF Len(list) > MaxIds THEN MaxIds ELSE Len(list)
  OBVIOUS
<1>1. list \in Seq(Shares) /\ m \in 0 .. Len(list) /\ Capped(list) = SubSeq(list, 1, m)
  BY LenProperties, DiscoveryAssumption DEF Distinct, Capped
<1>2. /\ SubSeq(list, 1, m) \in Seq(Shares) /\ Len(SubSeq(list, 1, m)) = m
      /\ \A i \in 1 .. m : SubSeq(list, 1, m)[i] = list[i]
  BY <1>1, LenProperties, SubSeqProperties
<1>3. \A i, j \in 1 .. m : list[i] = list[j] => i = j
  BY <1>1, LenProperties DEF Distinct
<1>4. PICK first : first = SubSeq(list, 1, m)
  OBVIOUS
<1>5. Distinct(first)
  BY <1>2, <1>3, <1>4 DEF Distinct
<1> QED
  BY <1>1, <1>4, <1>5

LEMMA MaterializePage ==
  ASSUME PageInv, CursorInv', NEW r \in Readers, Materialize(r)
  PROVE  PageInv'
<1>1. reads[r].step = "materialize" /\ UNCHANGED <<shares, snapshots, walks>>
  BY DEF Materialize, At, Unchanged
<1>2. PICK list, truncated :
        /\ list \in Candidates(reads[r].query, reads[r].basis)
        /\ reads' = [reads EXCEPT ![r].step = "insert", ![r].entries = Capped(list),
                                  ![r].truncated = truncated]
  BY DEF Materialize
<1>3. /\ Onwards(r) /\ reads'[r].items = reads[r].items /\ reads'[r].scanned = reads[r].scanned
      /\ reads'[r].step = "insert" /\ reads'[r].entries = Capped(list)
  BY <1>1, <1>2 DEF PageInv, CursorInv, Shaped, NoRead, Onwards, Others
<1>4. Distinct(Capped(list))
  BY <1>2, CandidatesArePublic, CappedDistinct
<1>5. SeenInv(r)'
  BY <1>3, OnwardsSeen
<1>6. Distinct(reads[r].entries)'
  BY <1>3, <1>4 DEF Distinct
<1>7. StepInv(r)'
  BY <1>1, <1>3, <1>6 DEF PageInv, StepInv, Onwards
<1>8. PagesInv(r)'
  BY <1>1, <1>3 DEF PageInv, PagesInv, Walking, Answered, At, Eligible, EligibleIn
<1> QED
  BY <1>1, <1>3, <1>5, <1>7, <1>8, OnePage DEF PageInv, Onwards

\* A walk begins on a row: none of it has been shown.
LEMMA OpensPage ==
  ASSUME PageInv, CursorInv', NEW r \in Readers, NEW id, NEW row, Opens(r, id, row),
         reads[r].step \in {"find", "insert"}, Distinct(row.entries), shares' = shares,
         \A other \in 1 .. MaxRequests : Distinct(snapshots'[other].entries)
  PROVE  PageInv'
<1>1. /\ reads' = [reads EXCEPT ![r].step = "page", ![r].entries = row.entries,
                                ![r].truncated = row.truncated]
      /\ walks' = [walks EXCEPT ![r].snapshot = id, ![r].entries = row.entries,
                                ![r].created = row.created, ![r].basis = row.basis]
  BY DEF Opens
<1>2. /\ Onwards(r) /\ reads'[r].items = reads[r].items /\ reads'[r].scanned = reads[r].scanned
      /\ reads'[r].step = "page" /\ reads'[r].entries = row.entries
  BY <1>1 DEF PageInv, CursorInv, Shaped, NoRead, Onwards, Others
<1>3. /\ walks'[r].served = walks[r].served /\ walks'[r].cursor = walks[r].cursor
      /\ walks'[r].entries = row.entries /\ walks'[r].steady = walks[r].steady
  BY <1>1 DEF PageInv, CursorInv, Shaped, NoWalk
<1>4. /\ reads[r].items = <<>> /\ reads[r].scanned = 0 /\ reads[r].page = 0
      /\ walks[r].served = <<>> /\ walks[r].cursor = 0
  BY DEF PageInv, StepInv
<1>5. Lists(<<>>, row.entries, 0, walks[r].steady)
  BY LenProperties DEF Lists, Distinct
<1>6. SeenInv(r)'
  BY <1>2, OnwardsSeen
<1>7. StepInv(r)'
  BY <1>2, <1>3, <1>4 DEF PageInv, StepInv, Onwards
<1>8. PagesInv(r)'
  <2>1. walks'[r].served \o Served(reads'[r].items) = <<>>
    BY <1>2, <1>3, <1>4, NothingServed
  <2>2. Distinct(walks[r].entries)' /\ Eligible' = Eligible
    BY <1>3 DEF Distinct, Eligible, EligibleIn
  <2> QED
    BY <1>2, <1>3, <1>4, <1>5, <2>1, <2>2, EmptySeq DEF PageInv, PagesInv, Served
<1> QED
  BY <1>2, <1>6, <1>7, <1>8, OnePage DEF Onwards

LEMMA FindPage ==
  ASSUME PageInv, CursorInv', NEW r \in Readers, FindReusable(r)
  PROVE  PageInv'
<1>1. reads[r].step = "find" /\ UNCHANGED <<shares, snapshots>>
  BY DEF FindReusable, At, Unchanged
<1>2. CASE Goes(r, "materialize") /\ UNCHANGED walks
  <2>1. /\ Onwards(r) /\ reads'[r].items = reads[r].items /\ reads'[r].scanned = reads[r].scanned
        /\ reads'[r].step = "materialize"
    BY <1>1, <1>2 DEF PageInv, CursorInv, Shaped, NoRead, Onwards, Others, Goes
  <2>2. SeenInv(r)'
    BY <2>1, OnwardsSeen
  <2>3. StepInv(r)'
    BY <1>1, <1>2, <2>1 DEF PageInv, StepInv, Onwards
  <2>4. PagesInv(r)'
    BY <1>1, <1>2, <2>1 DEF PageInv, PagesInv, Walking, Answered, At, Eligible, EligibleIn
  <2> QED
    BY <1>1, <2>1, <2>2, <2>3, <2>4, OnePage DEF PageInv, Onwards
<1>3. ASSUME NEW id \in Ids, Opens(r, id, snapshots[id]) PROVE PageInv'
  <2>1. Distinct(snapshots[id].entries)
    BY DEF Ids, PageInv, CursorInv, Shaped
  <2> QED
    BY <1>1, <1>3, <2>1, OpensPage DEF PageInv
<1> QED
  BY <1>2, <1>3 DEF FindReusable

LEMMA InsertPage ==
  ASSUME PageInv, CursorInv', NEW r \in Readers, InsertSnapshot(r)
  PROVE  PageInv'
<1> PICK id, row : /\ id = used.snapshots + 1
                   /\ row = [fingerprint |-> Fingerprint(reads[r].query, reads[r].basis),
                             basis |-> reads[r].basis, entries |-> reads[r].entries,
                             truncated |-> reads[r].truncated, created |-> reads[r].now]
  OBVIOUS
<1>1. /\ snapshots' = [snapshots EXCEPT ![id] = row] /\ Opens(r, id, row) /\ shares' = shares
      /\ reads[r].step = "insert"
  BY DEF InsertSnapshot, At, Unchanged
<1>2. Distinct(row.entries)
  BY <1>1 DEF PageInv, StepInv
<1>3. \A other \in 1 .. MaxRequests : Distinct(snapshots'[other].entries)
  BY <1>1, <1>2 DEF PageInv, CursorInv, Shaped
<1> QED
  BY <1>1, <1>2, <1>3, OpensPage

LEMMA IdleRead == ASSUME NEW r, reads'[r] = NoRead PROVE SeenInv(r)' /\ StepInv(r)'
<1>1. /\ reads'[r].step = "idle" /\ reads'[r].items = <<>> /\ reads'[r].page = 0
      /\ reads'[r].limit = 0
  BY DEF NoRead
<1>2. <<>> \in Seq([share : Shares, source : Shares \cup {0}]) /\ Len(<<>>) = 0
  BY EmptySeq
<1>3. SeenInv(r)'
  BY ONLY <1>1, <1>2 DEF SeenInv
<1>4. StepInv(r)'
  BY ONLY <1>1 DEF StepInv
<1> QED
  BY <1>3, <1>4

\* A request and a walk that are over.
LEMMA EndsPage ==
  ASSUME PageInv, CursorInv', NEW r \in Readers, UNCHANGED <<shares, snapshots>>,
         reads' = [reads EXCEPT ![r] = NoRead], walks' = [walks EXCEPT ![r] = NoWalk]
  PROVE  PageInv'
<1>1. reads'[r] = NoRead /\ walks'[r] = NoWalk /\ Others(r)
  BY DEF PageInv, CursorInv, Shaped, Others
<1>2. /\ reads'[r].step = "idle" /\ walks'[r].served = <<>> /\ walks'[r].entries = <<>>
      /\ walks'[r].cursor = 0 /\ walks'[r].steady = {}
  BY <1>1 DEF NoRead, NoWalk
<1>3. PagesInv(r)'
  BY <1>2, NothingListed, EmptySeq DEF PagesInv, Walking, Answered, At
<1> QED
  BY <1>1, <1>3, IdleRead, OnePage DEF PageInv

LEMMA FailsPage ==
  ASSUME PageInv, CursorInv', NEW r \in Readers, InsertFails(r)
  PROVE  PageInv'
BY EndsPage DEF InsertFails, Unchanged

LEMMA LoadPage ==
  ASSUME PageInv, CursorInv', NEW r \in Readers, Load(r)
  PROVE  PageInv'
<1> PICK id, row : id = walks[r].snapshot /\ row = snapshots[id]
  OBVIOUS
<1>1. reads[r].step = "load" /\ UNCHANGED <<shares, snapshots, walks>>
  BY DEF Load, At, Unchanged
<1>2. reads[r].items = <<>> /\ reads[r].page = 0
  BY <1>1 DEF PageInv, StepInv
<1>3. ASSUME NEW reply, Answers(r, reply), reply \in {"expired", "invalid"} PROVE PageInv'
  <2>1. reads' = [reads EXCEPT ![r].step = "answer", ![r].reply = reply]
    BY <1>3 DEF Answers
  <2>2. /\ Onwards(r) /\ reads'[r].items = reads[r].items
        /\ reads'[r].step = "answer" /\ reads'[r].reply = reply
    BY <1>1, <2>1 DEF PageInv, CursorInv, Shaped, NoRead, Onwards, Others
  <2>3. SeenInv(r)'
    BY <2>2, OnwardsSeen
  <2>4. StepInv(r)'
    BY <1>1, <2>2 DEF PageInv, StepInv, Onwards
  <2>5. PagesInv(r)'
    BY <1>1, <1>3, <2>2 DEF PageInv, PagesInv, Walking, Answered, At, Eligible, EligibleIn
  <2> QED
    BY <1>1, <2>2, <2>3, <2>4, <2>5, OnePage DEF PageInv, Onwards
<1>4. CASE row # NoSnapshot /\ Live(id, reads[r].now) /\ Continues(r, row)
  <2>1. reads' = [reads EXCEPT ![r].step = "page", ![r].entries = row.entries,
                               ![r].scanned = walks[r].cursor, ![r].basis = row.basis,
                               ![r].truncated = row.truncated]
    BY <1>4 DEF Load
  <2>2. /\ Onwards(r) /\ reads'[r].items = reads[r].items /\ reads'[r].step = "page"
        /\ reads'[r].entries = row.entries /\ reads'[r].scanned = walks[r].cursor
    <3>1. r \in Readers /\ DOMAIN reads = Readers /\ DOMAIN reads[r] = DOMAIN NoRead
      BY DEF PageInv, CursorInv, Shaped
    <3>2. DOMAIN NoRead = {"step", "query", "now", "limit", "basis", "entries", "truncated",
                              "scanned", "page", "items", "reply", "seen"}
      BY DEF NoRead
    <3>3. reads[r].step # "idle" /\ shares' = shares /\ walks' = walks
      BY <1>1
    <3> QED
      BY ONLY <2>1, <3>1, <3>2, <3>3 DEF Onwards, Others
  <2>3. row.entries = walks[r].entries
    BY <1>1, <1>4 DEF PageInv, CursorInv, ReadInv, WalkInv
  <2>4. SeenInv(r)'
    BY <2>2, OnwardsSeen
  <2>5. StepInv(r)'
    BY <1>1, <1>2, <2>2, <2>3 DEF PageInv, StepInv, Onwards
  <2>6. PagesInv(r)'
    <3>1. walks[r].served \o Served(reads[r].items) = walks[r].served
      <4>1. Served(reads[r].items) = <<>>
        BY <1>2, NothingServed
      <4>2. walks[r].served \in Seq(Shares)
        BY DEF PageInv, PagesInv
      <4> QED
        BY <4>1, <4>2, ConcatEmptySeq
    <3>2. Eligible' = Eligible
      BY <1>1 DEF Eligible, EligibleIn
    <3> QED
      BY <1>1, <1>2, <2>2, <3>1, <3>2 DEF PageInv, PagesInv, Served
  <2> QED
    BY <1>1, <2>2, <2>4, <2>5, <2>6, OnePage DEF PageInv, Onwards
<1>5. CASE row = NoSnapshot \/ ~Live(id, reads[r].now)
  BY <1>3, <1>5 DEF Load
<1>6. CASE row # NoSnapshot /\ Live(id, reads[r].now) /\ ~Continues(r, row)
  BY <1>3, <1>6 DEF Load
<1> QED
  BY <1>4, <1>5, <1>6

\* What is listed of a public share is that share and a public parent or none.
LEMMA ItemIs ==
  ASSUME NEW s \in Eligible
  PROVE  /\ ItemOf(s) \in [share : Shares, source : Shares \cup {0}] /\ ItemOf(s).share = s
         /\ {ItemOf(s).share, ItemOf(s).source} \subseteq Eligible \cup {0}
BY DEF ItemOf, Eligible, EligibleIn

LEMMA ItemsAre ==
  ASSUME NEW list \in Seq(Shares), \A i \in 1 .. Len(list) : list[i] \in Eligible
  PROVE  /\ Items(list) \in Seq([share : Shares, source : Shares \cup {0}])
         /\ Len(Items(list)) = Len(list) /\ Served(Items(list)) = list
         /\ \A i \in 1 .. Len(list) :
              {Items(list)[i].share, Items(list)[i].source} \subseteq Eligible \cup {0}
<1>1. Len(list) \in Nat /\ list = [i \in 1 .. Len(list) |-> list[i]]
  BY LenProperties
<1>2. \A i \in 1 .. Len(list) :
        /\ ItemOf(list[i]) \in [share : Shares, source : Shares \cup {0}]
        /\ ItemOf(list[i]).share = list[i]
        /\ {ItemOf(list[i]).share, ItemOf(list[i]).source} \subseteq Eligible \cup {0}
  BY ItemIs
<1>3. /\ Items(list) \in Seq([share : Shares, source : Shares \cup {0}])
      /\ Len(Items(list)) = Len(list)
      /\ \A i \in 1 .. Len(list) : Items(list)[i] = ItemOf(list[i])
  BY <1>1, <1>2 DEF Items
<1>4. Served(Items(list)) = [i \in 1 .. Len(list) |-> list[i]]
  BY <1>2, <1>3 DEF Served
<1> QED
  BY <1>1, <1>2, <1>3, <1>4

\* Items after items show one list after the other.
LEMMA ServedOnward ==
  ASSUME NEW items \in Seq([share : Shares, source : Shares \cup {0}]),
         NEW more \in Seq([share : Shares, source : Shares \cup {0}])
  PROVE  /\ Served(items) \in Seq(Shares) /\ Served(items \o more) = Served(items) \o Served(more)
<1>1. Len(items) \in Nat /\ Len(more) \in Nat
  BY LenProperties
<1>2. /\ Len(items \o more) = Len(items) + Len(more)
      /\ \A i \in 1 .. Len(items) + Len(more) :
           (items \o more)[i] = IF i <= Len(items) THEN items[i] ELSE more[i - Len(items)]
  BY ConcatProperties
<1>3. /\ \A i \in 1 .. Len(items) : items[i].share \in Shares
      /\ \A i \in 1 .. Len(more) : more[i].share \in Shares
  <2>1. ASSUME NEW list \in Seq([share : Shares, source : Shares \cup {0}]), NEW i \in 1 .. Len(list)
        PROVE  list[i].share \in Shares
    <3>1. list[i] \in [share : Shares, source : Shares \cup {0}]
      BY ElementOfSeq
    <3> QED
      BY <3>1
  <2> QED
    BY <2>1
<1>4. /\ Served(items) \in Seq(Shares) /\ Len(Served(items)) = Len(items)
      /\ Served(more) \in Seq(Shares) /\ Len(Served(more)) = Len(more)
  BY <1>1, <1>3 DEF Served
<1>5. /\ Len(Served(items) \o Served(more)) = Len(items) + Len(more)
      /\ Served(items) \o Served(more) \in Seq(Shares)
      /\ \A i \in 1 .. Len(items) + Len(more) :
           (Served(items) \o Served(more))[i]
             = IF i <= Len(items) THEN Served(items)[i] ELSE Served(more)[i - Len(items)]
  <2> PICK p, q : p = Served(items) /\ q = Served(more)
    OBVIOUS
  <2>1. p \in Seq(Shares) /\ q \in Seq(Shares) /\ Len(p) = Len(items) /\ Len(q) = Len(more)
    BY <1>4
  <2>2. /\ p \o q \in Seq(Shares) /\ Len(p \o q) = Len(p) + Len(q)
        /\ \A i \in 1 .. Len(p) + Len(q) : (p \o q)[i] = IF i <= Len(p) THEN p[i] ELSE q[i - Len(p)]
    BY ONLY <2>1, ConcatProperties
  <2> QED
    BY <2>1, <2>2
<1>6. \A i \in 1 .. Len(items) + Len(more) :
        (items \o more)[i].share = (Served(items) \o Served(more))[i]
  <2> TAKE i \in 1 .. Len(items) + Len(more)
  <2>1. CASE i <= Len(items)
    <3>1. (items \o more)[i] = items[i] /\ Served(items)[i] = items[i].share
      BY <1>1, <1>2, <2>1 DEF Served
    <3> QED
      BY <1>5, <2>1, <3>1
  <2>2. CASE ~(i <= Len(items))
    <3>1. i - Len(items) \in 1 .. Len(more)
      BY <1>1, <2>2
    <3>2. (items \o more)[i] = more[i - Len(items)]
          /\ Served(more)[i - Len(items)] = more[i - Len(items)].share
      BY <1>2, <2>2, <3>1 DEF Served
    <3> QED
      BY <1>5, <2>2, <3>2
  <2> QED
    BY <2>1, <2>2
<1> DEFINE both == Served(items) \o Served(more)
<1>7. both = [i \in 1 .. Len(items) + Len(more) |-> both[i]]
  BY <1>5, LenProperties
<1>8. Served(items \o more) = [i \in 1 .. Len(items) + Len(more) |-> both[i]]
  BY <1>2, <1>6 DEF Served
<1> QED
  BY <1>4, <1>7, <1>8

\* Two lists of items that name what has been seen are one that does.
LEMMA SeenJoined ==
  ASSUME NEW S, NEW old \in Seq(S), NEW added \in Seq(S), NEW seen,
         \A i \in 1 .. Len(old) : {old[i].share, old[i].source} \subseteq seen,
         \A i \in 1 .. Len(added) : {added[i].share, added[i].source} \subseteq seen
  PROVE  /\ old \o added \in Seq(S)
         /\ \A i \in 1 .. Len(old \o added) :
              {(old \o added)[i].share, (old \o added)[i].source} \subseteq seen
<1>1. Len(old) \in Nat /\ Len(added) \in Nat
  BY LenProperties
<1> PICK both : both = old \o added
  OBVIOUS
<1>2. /\ both \in Seq(S) /\ Len(both) = Len(old) + Len(added)
      /\ \A i \in 1 .. Len(old) + Len(added) :
           both[i] = IF i <= Len(old) THEN old[i] ELSE added[i - Len(old)]
  BY ConcatProperties
<1>3. ASSUME NEW i \in 1 .. Len(both) PROVE {both[i].share, both[i].source} \subseteq seen
  <2>1. i \in 1 .. Len(old) + Len(added)
    BY <1>2
  <2>2. CASE i <= Len(old)
    <3>1. both[i] = old[i] /\ i \in 1 .. Len(old)
      BY <1>1, <1>2, <2>1, <2>2
    <3> QED
      BY <3>1
  <2>3. CASE ~(i <= Len(old))
    <3> PICK j : j = i - Len(old)
      OBVIOUS
    <3>1. both[i] = added[j]
      BY <1>2, <2>1, <2>3
    <3>2. j \in 1 .. Len(added)
      BY <1>1, <2>1, <2>3
    <3> QED
      BY <3>1, <3>2
  <2> QED
    BY <2>2, <2>3
<1> QED
  BY <1>2, <1>3

\* A chunk is scanned: the list goes on with what of it is public.
LEMMA ScanPage ==
  ASSUME PageInv, CursorInv', NEW r \in Readers, ScanChunk(r)
  PROVE  PageInv'
<1>1. reads[r].step = "page" /\ UNCHANGED <<shares, snapshots, walks>>
  BY DEF ScanChunk, At, Unchanged
<1>2. PICK over, places :
        /\ over \in reads[r].scanned .. EndOfChunk(reads[r])
        /\ places \in Ascending(Shown(reads[r], over))
        /\ Going(r) /\ reads'[r].seen = reads[r].seen /\ reads'[r].entries = reads[r].entries
        /\ reads'[r].limit = reads[r].limit /\ reads'[r].scanned = over
        /\ reads'[r].items = reads[r].items
                             \o Items([i \in DOMAIN places |-> reads[r].entries[places[i]]])
        /\ \/ reads'[r].step = "page"
           \/ reads'[r].step = "answer" /\ reads'[r].reply = "ok"
  BY ScanStep DEF PageInv
<1> PICK entries, n, listed : /\ entries = walks[r].entries /\ n = reads[r].scanned
                              /\ listed = walks[r].served \o Served(reads[r].items)
  OBVIOUS
<1>3. /\ reads[r].entries = entries /\ entries \in Seq(Shares) /\ Distinct(entries)
      /\ Lists(listed, entries, n, walks[r].steady) /\ walks[r].steady \subseteq Eligible
      /\ walks[r].served \in Seq(Shares) /\ reads[r].page = 0
      /\ reads[r].items \in Seq([share : Shares, source : Shares \cup {0}])
  BY <1>1 DEF PageInv, SeenInv, StepInv, PagesInv, Distinct
<1>4. Len(entries) \in Nat /\ n \in 0 .. Len(entries) /\ over \in n .. Len(entries)
  <2>1. Len(entries) \in Nat /\ n \in 0 .. Len(entries) /\ Chunk \in Nat
    BY <1>3, LenProperties, DiscoveryAssumption DEF Lists
  <2>2. over \in n .. (IF Len(entries) < n + Chunk THEN Len(entries) ELSE n + Chunk)
    BY <1>2, <1>3 DEF EndOfChunk
  <2> QED
    BY <2>1, <2>2
<1>5. Shown(reads[r], over) = {i \in n + 1 .. over : entries[i] \in Eligible}
  BY <1>3 DEF Shown
<1>6. /\ places \in Seq(1 .. Len(entries)) /\ DOMAIN places = 1 .. Len(places)
      /\ \A k \in 1 .. Len(places) : places[k] \in Shown(reads[r], over)
      /\ \A k, l \in 1 .. Len(places) : k < l => places[k] < places[l]
      /\ \A i \in Shown(reads[r], over) : \E k \in 1 .. Len(places) : places[k] = i
  <2>1. Shown(reads[r], over) \in SUBSET (1 .. Len(entries))
    BY <1>4, <1>5
  <2> QED
    BY <1>2, <1>4, <2>1, AscendingIs
<1> PICK more : more = [i \in DOMAIN places |-> entries[places[i]]]
  OBVIOUS
<1>7. /\ more \in Seq(Shares) /\ Len(more) = Len(places)
      /\ \A k \in 1 .. Len(places) : /\ places[k] \in n + 1 .. over /\ more[k] = entries[places[k]]
                                     /\ more[k] \in Eligible
  <2>1. \A k \in 1 .. Len(places) : places[k] \in n + 1 .. over /\ entries[places[k]] \in Eligible
    BY <1>5, <1>6
  <2>2. Len(places) \in Nat /\ Eligible \subseteq Shares
    BY <1>6, LenProperties DEF Eligible, EligibleIn
  <2> QED
    BY <1>6, <2>1, <2>2
<1>8. /\ Items(more) \in Seq([share : Shares, source : Shares \cup {0}])
      /\ Len(Items(more)) = Len(more) /\ Served(Items(more)) = more
      /\ \A i \in 1 .. Len(more) :
           {Items(more)[i].share, Items(more)[i].source} \subseteq Eligible \cup {0}
  BY <1>7, ItemsAre
<1>9. reads'[r].items = reads[r].items \o Items(more) /\ Eligible' = Eligible /\ Others(r)
  BY <1>1, <1>2, <1>3 DEF Eligible, EligibleIn, Going, Others
<1>10. SeenInv(r)'
  <2>1. Eligible \subseteq reads[r].seen
        /\ \A i \in 1 .. Len(reads[r].items) :
             {reads[r].items[i].share, reads[r].items[i].source} \subseteq reads[r].seen \cup {0}
    BY <1>1 DEF PageInv, SeenInv
  <2>2. \A i \in 1 .. Len(Items(more)) :
          {Items(more)[i].share, Items(more)[i].source} \subseteq reads[r].seen \cup {0}
    BY <1>8, <2>1
  <2> PICK items : items = reads[r].items \o Items(more)
    OBVIOUS
  <2>3. /\ items \in Seq([share : Shares, source : Shares \cup {0}])
        /\ \A i \in 1 .. Len(items) :
             {items[i].share, items[i].source} \subseteq reads[r].seen \cup {0}
    <3> PICK old, added, seen :
          old = reads[r].items /\ added = Items(more) /\ seen = reads[r].seen \cup {0}
      OBVIOUS
    <3>1. /\ old \in Seq([share : Shares, source : Shares \cup {0}])
          /\ added \in Seq([share : Shares, source : Shares \cup {0}])
      BY <1>3, <1>8
    <3>2. /\ \A i \in 1 .. Len(old) : {old[i].share, old[i].source} \subseteq seen
          /\ \A i \in 1 .. Len(added) : {added[i].share, added[i].source} \subseteq seen
      BY <2>1, <2>2
    <3>3. /\ old \o added \in Seq([share : Shares, source : Shares \cup {0}])
          /\ \A i \in 1 .. Len(old \o added) :
               {(old \o added)[i].share, (old \o added)[i].source} \subseteq seen
      BY ONLY <3>1, <3>2, SeenJoined
    <3> QED
      BY <3>3
  <2>4. /\ reads'[r].seen = reads[r].seen /\ Eligible' \subseteq reads[r].seen
        /\ reads'[r].items = items
    BY <1>2, <1>9, <2>1
  <2> QED
    BY ONLY <2>3, <2>4 DEF SeenInv
<1>11. StepInv(r)'
  BY <1>1, <1>2, <1>3 DEF PageInv, StepInv, Going
<1>12. Lists(listed \o more, entries, over, walks[r].steady)
  <2>1. listed \in Seq(Shares)
    BY <1>3, ServedOnward, ConcatProperties
  <2> PICK steady : steady = walks[r].steady
    OBVIOUS
  <2>2. \A i \in n + 1 .. over : entries[i] \in steady =>
          \E k \in 1 .. Len(places) : places[k] = i
    BY <1>3, <1>5, <1>6
  <2>3. entries \in Seq(Shares) /\ Distinct(entries) /\ Lists(listed, entries, n, steady)
    BY <1>3
  <2>4. /\ places \in Seq(1 .. Len(entries)) /\ over \in n .. Len(entries)
        /\ \A k, l \in 1 .. Len(places) : k < l => places[k] < places[l]
    BY <1>4, <1>6
  <2>5. /\ more \in Seq(Shares) /\ Len(more) = Len(places)
        /\ \A k \in 1 .. Len(places) : places[k] \in n + 1 .. over /\ more[k] = entries[places[k]]
    BY <1>7
  <2>6. Lists(listed \o more, entries, over, steady)
    BY ONLY <2>1, <2>2, <2>3, <2>4, <2>5, ListsMore
  <2> QED
    BY <2>6
<1>13. walks[r].served \o Served(reads'[r].items) = listed \o more
  <2>1. Served(reads'[r].items) = Served(reads[r].items) \o more
    BY <1>3, <1>8, <1>9, ServedOnward
  <2>2. Served(reads[r].items) \in Seq(Shares)
    BY <1>3, ServedOnward
  <2>3. (walks[r].served \o Served(reads[r].items)) \o more
        = walks[r].served \o (Served(reads[r].items) \o more)
    <3>1. walks[r].served \in Seq(Shares) /\ more \in Seq(Shares)
      BY <1>3, <1>7
    <3> PICK a, b : a = walks[r].served /\ b = Served(reads[r].items)
      OBVIOUS
    <3>2. a \in Seq(Shares) /\ b \in Seq(Shares)
      BY <2>2, <3>1
    <3>3. (a \o b) \o more = a \o (b \o more)
      BY ONLY <3>1, <3>2, ConcatAssociative
    <3> QED
      BY <3>3
  <2> QED
    BY <2>1, <2>3
<1>14. PagesInv(r)'
  <2>1. /\ Lists(walks[r].served, walks[r].entries, walks[r].cursor, walks[r].steady)'
        /\ Distinct(walks[r].entries)'
    BY <1>1, <1>3 DEF PageInv, PagesInv
  <2>2. Lists(walks[r].served \o Served(reads[r].items), walks[r].entries, reads[r].scanned,
              walks[r].steady)'
    BY <1>1, <1>2, <1>12, <1>13
  <2> QED
    BY <1>1, <1>3, <1>9, <2>1, <2>2 DEF PagesInv
<1> QED
  BY <1>1, <1>9, <1>10, <1>11, <1>14, OnePage DEF PageInv

LEMMA AnswerPage ==
  ASSUME PageInv, CursorInv', NEW r \in Readers, Answer(r)
  PROVE  PageInv'
<1>1. /\ reads[r].step = "answer" /\ UNCHANGED <<shares, snapshots>>
      /\ reads' = [reads EXCEPT ![r] = NoRead]
  BY DEF Answer, At, Unchanged
<1>2. /\ reads'[r] = NoRead /\ reads'[r].step = "idle" /\ Eligible' = Eligible
      /\ \A q \in Readers \ {r} : reads'[q] = reads[q]
  BY <1>1 DEF PageInv, CursorInv, Shaped, NoRead, Eligible, EligibleIn
<1>3. SeenInv(r)' /\ StepInv(r)'
  BY <1>2, IdleRead
<1>4. CASE walks' = walks
  <2>1. PagesInv(r)'
    BY <1>2, <1>4 DEF PageInv, PagesInv, Walking, Answered, At
  <2> QED
    BY <1>1, <1>2, <1>3, <1>4, <2>1, OnePage DEF PageInv, Others
<1>5. CASE walks' = [walks EXCEPT ![r] = NoWalk]
  BY <1>1, <1>5, EndsPage
<1>6. CASE /\ reads[r].page = 0 /\ reads[r].reply = "ok" /\ CursorOf(reads[r]) # 0
           /\ walks' = [walks EXCEPT ![r].cursor = CursorOf(reads[r]),
                                     ![r].served = @ \o Served(reads[r].items)]
  <2>1. /\ walks'[r].served = walks[r].served \o Served(reads[r].items)
        /\ walks'[r].cursor = reads[r].scanned /\ walks'[r].entries = walks[r].entries
        /\ walks'[r].steady = walks[r].steady /\ Others(r)
    <3>1. r \in Readers /\ DOMAIN walks = Readers /\ DOMAIN walks[r] = DOMAIN NoWalk
      BY DEF PageInv, CursorInv, Shaped
    <3>2. DOMAIN NoWalk = {"snapshot", "cursor", "query", "entries", "created", "basis", "served", "steady"}
      BY DEF NoWalk
    <3>3. walks' = [walks EXCEPT ![r].cursor = CursorOf(reads[r]),
                                 ![r].served = walks[r].served \o Served(reads[r].items)]
      BY <1>6
    <3>4. CursorOf(reads[r]) = reads[r].scanned
      BY <1>6 DEF CursorOf
    <3>5. \A q \in Readers \ {r} : reads'[q] = reads[q]
      BY <1>2
    <3> QED
      BY ONLY <3>1, <3>2, <3>3, <3>4, <3>5 DEF Others
  <2>2. PagesInv(r) /\ Walking(r)
    BY <1>1, <1>6 DEF PageInv, Walking, Answered, At
  <2>3. walks[r].served \o Served(reads[r].items) \in Seq(Shares)
    <3>1. Served(reads[r].items) \in Seq(Shares) /\ walks[r].served \in Seq(Shares)
      BY <2>2, ServedOnward DEF PageInv, SeenInv, PagesInv
    <3> QED
      BY <3>1, ConcatProperties
  <2>4. Lists(walks[r].served, walks[r].entries, walks[r].cursor, walks[r].steady)'
        /\ Distinct(walks[r].entries)'
    BY <2>1, <2>2 DEF PagesInv
  <2>5. PagesInv(r)'
    BY <1>2, <2>1, <2>2, <2>3, <2>4 DEF PagesInv, Walking, Answered, At
  <2> QED
    BY <1>1, <1>3, <2>1, <2>5, OnePage DEF PageInv
<1> QED
  BY <1>4, <1>5, <1>6 DEF Answer, Served

LEMMA CountPage ==
  ASSUME PageInv, CursorInv', NEW r \in Readers, Count(r)
  PROVE  PageInv'
<1>1. reads[r].step = "count" /\ UNCHANGED <<shares, snapshots, walks>>
  BY DEF Count, At, Unchanged
<1>2. reads[r].page \in Nat \ {0} /\ reads[r].limit \in Nat \ {0}
  BY <1>1 DEF PageInv, CursorInv, ReadInv, StepInv
<1>3. PICK live \in Candidates(reads[r].query, reads[r].basis) :
        LET total == Len(Capped(live))
            pages == IF total = 0 THEN 1 ELSE (total + reads[r].limit - 1) \div reads[r].limit
            page  == IF reads[r].page > pages THEN pages ELSE reads[r].page
        IN reads' = [reads EXCEPT ![r].step = "slice", ![r].truncated = Len(live) > MaxIds,
                                  ![r].scanned = (page - 1) * reads[r].limit]
  BY DEF Count
<1>4. Len(Capped(live)) \in Nat
  BY CandidatesArePublic, CappedDistinct, LenProperties DEF Distinct
<1>5. PICK total, pages, page, truncated :
        /\ total = Len(Capped(live))
        /\ pages = IF total = 0 THEN 1 ELSE (total + reads[r].limit - 1) \div reads[r].limit
        /\ page = IF reads[r].page > pages THEN pages ELSE reads[r].page
        /\ reads' = [reads EXCEPT ![r].step = "slice", ![r].truncated = truncated,
                                  ![r].scanned = (page - 1) * reads[r].limit]
  BY <1>3
<1>6. (page - 1) * reads[r].limit \in Nat
  <2> PICK limit : limit = reads[r].limit
    OBVIOUS
  <2>1. pages \in Nat /\ pages >= 1
    <3>1. total \in Nat /\ limit \in Nat /\ limit >= 1
      BY <1>2, <1>4, <1>5
    <3>2. CASE total = 0
      BY <1>5, <3>2
    <3>3. CASE total # 0
      <4>1. pages = (total + limit - 1) \div limit /\ total + limit - 1 >= limit
        BY <1>5, <3>1, <3>3
      <4> QED
        BY <3>1, <4>1
    <3> QED
      BY <3>2, <3>3
  <2>2. page \in Nat /\ page >= 1
    BY <1>2, <1>5, <2>1
  <2> QED
    BY <1>2, <2>2
<1>7. /\ Onwards(r) /\ reads'[r].items = reads[r].items /\ reads'[r].step = "slice"
      /\ reads'[r].scanned \in Nat
  BY <1>1, <1>5, <1>6 DEF PageInv, CursorInv, Shaped, NoRead, Onwards, Others
<1>8. SeenInv(r)'
  BY <1>7, OnwardsSeen
<1>9. StepInv(r)'
  BY <1>1, <1>7 DEF PageInv, StepInv, Onwards
<1>10. PagesInv(r)'
  BY <1>1, <1>7 DEF PageInv, PagesInv, Walking, Answered, At, Eligible, EligibleIn
<1> QED
  BY <1>1, <1>7, <1>8, <1>9, <1>10, OnePage DEF PageInv, Onwards

\* A numbered page is part of the list.
LEMMA PageOfIs ==
  ASSUME NEW list \in Seq(Shares), \A i \in 1 .. Len(list) : list[i] \in Eligible,
         NEW read, read.scanned \in Nat, read.limit \in Nat
  PROVE  /\ PageOf(list, read) \in Seq(Shares)
         /\ \A i \in 1 .. Len(PageOf(list, read)) : PageOf(list, read)[i] \in Eligible
<1> PICK m, n, page : /\ m = read.scanned + 1 /\ page = SubSeq(list, m, n)
                      /\ n = IF Len(list) < read.scanned + read.limit THEN Len(list)
                             ELSE read.scanned + read.limit
  OBVIOUS
<1>1. m \in Nat /\ m >= 1 /\ n \in Nat /\ n <= Len(list) /\ Len(list) \in Nat
      /\ PageOf(list, read) = page
  BY LenProperties DEF PageOf
<1>2. \A i \in m .. n : list[i] \in Eligible /\ list[i] \in Shares
  BY <1>1 DEF Eligible, EligibleIn
<1>3. /\ page \in Seq(Shares) /\ Len(page) = IF m <= n THEN n - m + 1 ELSE 0
      /\ \A i \in 1 .. n - m + 1 : page[i] = list[m + i - 1]
  <2>1. m \in Int /\ n \in Int
    BY <1>1
  <2>2. page = SubSeq(list, m, n) /\ list \in Seq(Shares)
    OBVIOUS
  <2> QED
    BY ONLY <1>2, <2>1, <2>2, SubSeqProperties
<1>4. ASSUME NEW i \in 1 .. Len(page) PROVE page[i] \in Eligible
  <2>1. i \in 1 .. n - m + 1
    BY <1>1, <1>3
  <2>2. m + i - 1 \in m .. n
    BY SMTT(30), <1>1, <2>1
  <2> QED
    BY <1>2, <1>3, <2>1, <2>2
<1> QED
  BY <1>1, <1>3, <1>4

LEMMA SlicePage ==
  ASSUME PageInv, CursorInv', NEW r \in Readers, Slice(r)
  PROVE  PageInv'
<1>1. reads[r].step = "slice" /\ UNCHANGED <<shares, snapshots, walks>>
  BY DEF Slice, At, Unchanged
<1>2. PICK list \in Candidates(reads[r].query, reads[r].basis) :
        reads' = [reads EXCEPT ![r].step = "answer", ![r].reply = "ok",
                               ![r].items = Items(PageOf(list, reads[r]))]
  BY DEF Slice
<1> PICK page : page = PageOf(list, reads[r])
  OBVIOUS
<1>3. reads[r].page # 0 /\ reads[r].scanned \in Nat /\ reads[r].limit \in Nat
  BY <1>1 DEF PageInv, CursorInv, ReadInv, StepInv
<1>4. page \in Seq(Shares) /\ \A i \in 1 .. Len(page) : page[i] \in Eligible
  <2>1. list \in Seq(Shares) /\ \A i \in 1 .. Len(list) : list[i] \in Eligible
    BY CandidatesArePublic DEF Distinct
  <2> QED
    BY <1>3, <2>1, PageOfIs
<1>5. /\ Onwards(r) /\ reads'[r].items = Items(page) /\ reads'[r].step = "answer"
  BY <1>1, <1>2 DEF PageInv, CursorInv, Shaped, NoRead, Onwards, Others
<1>6. SeenInv(r)'
  <2>1. /\ Items(page) \in Seq([share : Shares, source : Shares \cup {0}])
        /\ \A i \in 1 .. Len(Items(page)) :
             {Items(page)[i].share, Items(page)[i].source} \subseteq Eligible \cup {0}
    BY <1>4, ItemsAre
  <2>2. Eligible \subseteq reads[r].seen /\ Eligible' = Eligible
    BY <1>1 DEF PageInv, SeenInv, Eligible, EligibleIn
  <2> QED
    BY <1>5, <2>1, <2>2 DEF SeenInv, Onwards
<1>7. StepInv(r)'
  BY <1>1, <1>5 DEF PageInv, StepInv, Onwards
<1>8. PagesInv(r)'
  BY <1>1, <1>3, <1>5 DEF PageInv, PagesInv, Walking, Answered, At, Eligible, EligibleIn, Onwards
<1> QED
  BY <1>1, <1>5, <1>6, <1>7, <1>8, OnePage DEF PageInv, Onwards

-----------------------------------------------------------------------------
(* What happens around the pages.                                          *)

\* Snapshots go, or stay as they are.
LEMMA FewerSnapshots ==
  ASSUME PageInv, \A id \in 1 .. MaxRequests : snapshots'[id] \in {snapshots[id], NoSnapshot}
  PROVE  \A id \in 1 .. MaxRequests : Distinct(snapshots'[id].entries)
<1>1. NoSnapshot.entries = <<>>
  BY DEF NoSnapshot
<1> QED
  BY <1>1, NothingListed DEF PageInv

LEMMA StandsPage ==
  ASSUME PageInv, CursorInv', NEW s \in Shares, NEW standing, Stands(s, standing),
         \A id \in 1 .. MaxRequests : snapshots'[id] \in {snapshots[id], NoSnapshot}
  PROVE  PageInv'
<1>1. Eligible' = EligibleIn(shares')
  BY DEF Eligible
<1>2. /\ reads' = [r \in Readers |-> IF reads[r].step = "idle" THEN reads[r]
                                     ELSE [reads[r] EXCEPT !.seen = @ \cup Eligible']]
      /\ walks' = [r \in Readers |-> [walks[r] EXCEPT !.steady = @ \cap Eligible']]
  BY <1>1 DEF Stands
<1> PICK now : now = Eligible'
  OBVIOUS
<1>3. ASSUME NEW r \in Readers PROVE Watches(r)
  <2>1. reads'[r] = IF reads[r].step = "idle" THEN reads[r]
                    ELSE [reads[r] EXCEPT !.seen = @ \cup now]
    BY <1>2
  <2>2. walks'[r] = [walks[r] EXCEPT !.steady = @ \cap now]
    BY <1>2
  <2>3. DOMAIN reads[r] = DOMAIN NoRead /\ DOMAIN walks[r] = DOMAIN NoWalk
    BY DEF PageInv, CursorInv, Shaped
  <2>4. /\ reads'[r].step = reads[r].step /\ reads'[r].page = reads[r].page
        /\ reads'[r].limit = reads[r].limit /\ reads'[r].items = reads[r].items
        /\ reads'[r].entries = reads[r].entries /\ reads'[r].scanned = reads[r].scanned
        /\ reads'[r].reply = reads[r].reply
        /\ reads[r].seen \subseteq reads'[r].seen
        /\ reads[r].step # "idle" => now \subseteq reads'[r].seen
    BY <2>1, <2>3 DEF NoRead
  <2>5. /\ walks'[r].served = walks[r].served /\ walks'[r].entries = walks[r].entries
        /\ walks'[r].cursor = walks[r].cursor
        /\ walks'[r].steady \subseteq walks[r].steady /\ walks'[r].steady \subseteq now
    BY <2>2, <2>3 DEF NoWalk
  <2> QED
    BY <2>4, <2>5 DEF Watches
<1>4. ASSUME NEW r \in Readers PROVE SeenInv(r)' /\ StepInv(r)' /\ PagesInv(r)'
  BY <1>3, WatchersKeep DEF PageInv
<1> QED
  BY <1>4, FewerSnapshots DEF PageInv

\* What leaves the readers and the public shares alone.
LEMMA QuietPage ==
  ASSUME PageInv, CursorInv', UNCHANGED <<reads, walks>>, Eligible' = Eligible,
         \A id \in 1 .. MaxRequests : snapshots'[id] \in {snapshots[id], NoSnapshot}
  PROVE  PageInv'
<1>1. ASSUME NEW r \in Readers PROVE Watches(r)
  BY DEF PageInv, SeenInv, PagesInv, Watches
<1>2. ASSUME NEW r \in Readers PROVE SeenInv(r)' /\ StepInv(r)' /\ PagesInv(r)'
  BY <1>1, WatchersKeep DEF PageInv
<1> QED
  BY <1>2, FewerSnapshots DEF PageInv

LEMMA SharesPage ==
  ASSUME PageInv, CursorInv', NEW s \in Shares,
         \/ Publish(s) \/ SetVisibility(s) \/ Delete(s) \/ Block(s) \/ Takedown(s)
         \/ RemoveRow(s) \/ Import(s)
  PROVE  PageInv'
<1>1. DOMAIN snapshots = 1 .. MaxRequests /\ DOMAIN shares = Shares
      /\ \A q \in Shares : DOMAIN shares[q] = {"standing", "published"}
  BY DEF PageInv, CursorInv, Shaped
<1>2. PurgeSnapshots(s) =>
        \A id \in 1 .. MaxRequests : snapshots'[id] \in {snapshots[id], NoSnapshot}
  <2> HIDE DEF NoSnapshot
  <2> QED
    BY <1>1 DEF PurgeSnapshots
<1>3. UNCHANGED snapshots =>
        \A id \in 1 .. MaxRequests : snapshots'[id] \in {snapshots[id], NoSnapshot}
  OBVIOUS
<1>4. CASE Publish(s) \/ SetVisibility(s) \/ Delete(s) \/ Block(s)
  <2>1. \E standing : Stands(s, standing)
    BY <1>4 DEF Publish, SetVisibility, Delete, Block
  <2>2. PurgeSnapshots(s) \/ UNCHANGED snapshots
    BY <1>4 DEF Publish, SetVisibility, Delete, Block
  <2> QED
    BY <1>2, <1>3, <2>1, <2>2, StandsPage
<1>5. CASE Takedown(s)
  <2>1. /\ shares' = [shares EXCEPT ![s].standing = "purged"] /\ shares[s].standing = "blocked"
        /\ PurgeSnapshots(s) /\ UNCHANGED <<reads, walks>>
    BY <1>5 DEF Takedown
  <2>2. \A q \in Shares : shares'[q].standing = "public" <=> shares[q].standing = "public"
    BY <1>1, <2>1
  <2> QED
    BY <1>2, <2>1, <2>2, QuietPage DEF Eligible, EligibleIn
<1>6. CASE RemoveRow(s)
  <2>1. /\ shares' = [shares EXCEPT ![s].standing = "gone"] /\ shares[s].standing = "purged"
        /\ UNCHANGED <<snapshots, reads, walks>>
    BY <1>6 DEF RemoveRow
  <2>2. \A q \in Shares : shares'[q].standing = "public" <=> shares[q].standing = "public"
    BY <1>1, <2>1
  <2> QED
    BY <1>3, <2>1, <2>2, QuietPage DEF Eligible, EligibleIn
<1>7. CASE Import(s)
  <2>1. UNCHANGED <<shares, snapshots, reads, walks>>
    BY <1>7 DEF Import
  <2> QED
    BY <1>3, <2>1, QuietPage DEF Eligible, EligibleIn
<1> QED
  BY <1>4, <1>5, <1>6, <1>7

LEMMA TimePage ==
  ASSUME PageInv, CursorInv',
         DaysPass("30d") \/ DaysPass("90d") \/ Tick \/ Prune \/ UNCHANGED vars
  PROVE  PageInv'
<1>1. UNCHANGED <<shares, reads, walks>>
  BY DEF DaysPass, Tick, Prune, vars
<1>2. \A id \in 1 .. MaxRequests : snapshots'[id] \in {snapshots[id], NoSnapshot}
  <2>1. DOMAIN snapshots = 1 .. MaxRequests
    BY DEF PageInv, CursorInv, Shaped
  <2>2. \/ UNCHANGED snapshots
        \/ snapshots' = [id \in DOMAIN snapshots |->
                          IF id \in Ids /\ ~Live(id, clock) THEN NoSnapshot ELSE snapshots[id]]
    BY DEF DaysPass, Tick, Prune, vars
  <2> HIDE DEF NoSnapshot
  <2> QED
    BY <2>1, <2>2
<1> QED
  BY <1>1, <1>2, QuietPage DEF Eligible, EligibleIn

LEMMA PageStep == ASSUME PageInv, [Next]_vars PROVE PageInv'
<1>1. CursorInv'
  BY StepKeeps DEF PageInv
<1>2. ASSUME NEW r \in Readers, Steps(r) PROVE PageInv'
  <2>1. CASE \E query \in Queries, limit \in Limits :
               \/ FirstPage(r, query, limit) \/ Continue(r, query, limit)
               \/ \E page \in Pages : Explore(r, query, limit, page)
    BY <1>1, <2>1, FirstPagePage, ContinuePage, ExplorePage
  <2> QED
    BY <1>1, <1>2, <2>1, CoveragePage, FindPage, MaterializePage, InsertPage, FailsPage, LoadPage,
       ScanPage, AnswerPage, CountPage, SlicePage DEF Steps
<1> QED
  BY <1>1, <1>2, SharesPage, TimePage DEF Next

LEMMA InitPage == Init => PageInv
<1> SUFFICES ASSUME Init PROVE PageInv
  OBVIOUS
<1>1. CursorInv
  BY InitInv
<1>2. \A id \in 1 .. MaxRequests : Distinct(snapshots[id].entries)
  BY NothingListed DEF Init, NoSnapshot
<1>3. ASSUME NEW r \in Readers PROVE SeenInv(r) /\ StepInv(r) /\ PagesInv(r)
  <2>1. /\ reads[r].step = "idle" /\ reads[r].items = <<>> /\ reads[r].page = 0 /\ reads[r].limit = 0
    BY DEF Init, NoRead
  <2>2. /\ walks[r].served = <<>> /\ walks[r].entries = <<>> /\ walks[r].cursor = 0
        /\ walks[r].steady = {}
    BY DEF Init, NoWalk
  <2>3. <<>> \in Seq([share : Shares, source : Shares \cup {0}]) /\ Len(<<>>) = 0
    BY EmptySeq
  <2>4. SeenInv(r)
    BY ONLY <2>1, <2>3 DEF SeenInv
  <2>5. StepInv(r)
    BY ONLY <2>1 DEF StepInv
  <2>6. PagesInv(r)
    BY <2>1, <2>2, NothingListed, EmptySeq DEF PagesInv, Walking, Answered, At
  <2> QED
    BY <2>4, <2>5, <2>6
<1> QED
  BY <1>1, <1>2, <1>3 DEF PageInv

\* Every page goes on where the last one ended, always (pageFromSnapshot).
THEOREM PagesGoOn == Spec => []PageInv
<1>1. Init => PageInv
  BY InitPage
<1>2. PageInv /\ [Next]_vars => PageInv'
  BY PageStep
<1> QED
  BY <1>1, <1>2, PTL DEF Spec

\* What an answer shows was public while it was made, the shares and the
\* parents they name (fetchEligibleChunk, listLivePage).
THEOREM OnlyPublicIsServed == Spec => []ServedIsPublic
<1>1. PageInv => ServedIsPublic
  BY DEF PageInv, SeenInv, ServedIsPublic
<1> QED
  BY <1>1, PagesGoOn, PTL

\* The pages of a listing keep the frozen order, repeat nothing, and leave out
\* nothing that was public all along (pageFromSnapshot and its cursor).
THEOREM WalksAreWhole == Spec => []WalkIsWhole
<1>1. ASSUME PageInv, NEW r \in Readers, Walking(r)
      PROVE  LET list  == walks[r].served \o Served(reads[r].items)
                 at(s) == CHOOSE i \in 1 .. Len(walks[r].entries) : walks[r].entries[i] = s
                 ends  == reads[r].scanned = Len(walks[r].entries)
             IN /\ \A i \in 2 .. Len(list) : at(list[i - 1]) < at(list[i])
                /\ ends => \A i \in 1 .. Len(walks[r].entries) :
                             walks[r].entries[i] \in walks[r].steady =>
                               \E j \in 1 .. Len(list) : list[j] = walks[r].entries[i]
  <2> PICK list, entries, n, steady :
        /\ list = walks[r].served \o Served(reads[r].items)
        /\ entries = walks[r].entries /\ n = reads[r].scanned /\ steady = walks[r].steady
    OBVIOUS
  <2> DEFINE at(s) == CHOOSE i \in 1 .. Len(entries) : entries[i] = s
  <2>1. Lists(list, entries, n, steady) /\ Distinct(entries) /\ Len(entries) \in Nat
    BY <1>1, LenProperties DEF PageInv, PagesInv, Distinct
  <2>2. n \in Nat /\ n <= Len(entries)
    BY <2>1 DEF Lists
  <2>3. ASSUME NEW k \in 1 .. Len(list)
        PROVE  at(list[k]) \in 1 .. n /\ list[k] = entries[at(list[k])]
    <3>1. PICK i \in 1 .. n : list[k] = entries[i]
      BY <2>1 DEF Lists
    <3>2. i \in 1 .. Len(entries)
      BY <2>1, <2>2
    <3>3. at(list[k]) \in 1 .. Len(entries) /\ entries[at(list[k])] = list[k]
      BY <3>1, <3>2
    <3>4. at(list[k]) = i
      BY <2>1, <3>1, <3>2, <3>3 DEF Distinct
    <3> QED
      BY <3>1, <3>4
  <2> HIDE DEF at
  <2>4. ASSUME NEW i \in 2 .. Len(list) PROVE at(list[i - 1]) < at(list[i])
    <3>1. list \in Seq(Shares)
      <4>1. Served(reads[r].items) \in Seq(Shares) /\ walks[r].served \in Seq(Shares)
        BY <1>1, ServedOnward DEF PageInv, SeenInv, PagesInv
      <4> QED
        BY <4>1, ConcatProperties
    <3>2. i - 1 \in 1 .. Len(list) /\ i \in 1 .. Len(list) /\ i - 1 < i
      <4> PICK m : m = Len(list)
        OBVIOUS
      <4>1. m \in Nat /\ i \in 2 .. m
        BY <3>1, LenProperties
      <4>2. i - 1 \in 1 .. m /\ i \in 1 .. m /\ i - 1 < i
        BY ONLY <4>1
      <4> QED
        BY <4>2
    <3>3. /\ at(list[i - 1]) \in 1 .. n /\ list[i - 1] = entries[at(list[i - 1])]
          /\ at(list[i]) \in 1 .. n /\ list[i] = entries[at(list[i])]
      BY <2>3, <3>2
    <3>4. \A k, l \in 1 .. Len(list) : \A p, q \in 1 .. n :
            k < l /\ list[k] = entries[p] /\ list[l] = entries[q] => p < q
      BY <2>1 DEF Lists
    <3> QED
      BY ONLY <3>2, <3>3, <3>4
  <2>5. n = Len(entries) => \A i \in 1 .. Len(entries) : entries[i] \in steady =>
                              \E j \in 1 .. Len(list) : list[j] = entries[i]
    BY <2>1 DEF Lists
  <2> QED
    BY <2>4, <2>5 DEF at
<1>2. PageInv => WalkIsWhole
  BY <1>1 DEF WalkIsWhole
<1> QED
  BY <1>2, PagesGoOn, PTL
=============================================================================

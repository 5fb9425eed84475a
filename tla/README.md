# TLA+ verification of d-op

d-op is a browser extension that adds playlists to a video site, and a Cloudflare
Worker ("share service") on which a playlist can be published, updated, deleted,
listed and imported from.  There are no accounts: whoever holds a publication's
*manage secret* owns it.  This directory holds TLA+ modules that model the parts of
the system whose correctness depends on interleavings, retries and lost answers, TLC
configurations that check them on small instances, and TLAPS proofs about them.

## 1. Inventory

Paths below `apps/web/src/server` are written `server/...`, those below
`apps/extension/src` are written `ext/...`.

| component | state it keeps | operations | what is hard | what makes it correct |
| --- | --- | --- | --- | --- |
| **Snapshot repository** `server/repositories/snapshots/*`, `guard.ts` | D1 tables `playlists`, `playlist_tags`, `publication_operations` | create, activate, replace, delete: one guarded batch (transaction) each | stale requests, key reuse, order of the statements inside a batch, window boundaries | a key applies once; compare-and-swap on revisions; receipts, rows and tag links agree; gone stays gone |
| **Publication and mutation services** `server/services/publication.ts`, `mutations.ts`, `mutation-conflicts.ts` | none beyond the request | POST, PATCH, DELETE, GET handlers: several awaited database calls each | two handlers between each other's awaits, a receipt read after the batch, busy retries, lost answers | acknowledgements are true; retries are answered from the receipt; a public row has a key holder; lineage is fixed and acyclic |
| **Maintenance** `server/repositories/maintenance.ts` | none | lazy sweep of provisional rows, scheduled pruning | runs with a time captured earlier | removes only what has lapsed |
| **Operator takedown** `server/repositories/takedown.ts`, `web/scripts/takedown.ts` | table `operator_takedowns` | ordered statements over HTTP | stops after any statement, owner requests in between | hidden at once, never revived |
| **Import accounting** `server/repositories/imports.ts` | `import_receipts`, `import_daily`, `import_count` | notify import | retries, actor digests that change at midnight, receipt expiry | one count per event, and per actor, share and digest day; daily and lifetime counters agree |
| **Discovery** `server/discovery/*`, `server/services/discover.ts`, `explore-page.ts` | `discovery_snapshots`, signed cursors | first page, continuation, numbered page | a snapshot taken while a share is deleted, expiry between pages, a ranking basis that changes | what is shown is public; a listing skips and repeats nothing; a cursor holds while its snapshot stands |
| **Admission** `server/security/*`, `server/services/admission.ts` | counters in the platform | origin and rate checks, the actor digest | the digest's own reading of the clock | stateless here |
| **Tag suggestions** `server/services/tag-suggest.ts` | cache table of work metadata | lookup | external service | nothing depends on it |
| **Share pages** `server/services/share-page.ts`, `share-og.ts` | – | rendering | – | – |
| **Extension local repository** `ext/storage/*`, `ext/ui/storage-client.ts` | one versioned state in extension storage, operation receipts | queued commands, load and migration, reads | reads are not queued, a storage write may fail, the worker restarts, migrations are repaired later | what is acknowledged stays; a command takes effect once; nothing deleted comes back; every mutation returns |
| **Publish and management flows** `ext/share/publish-flow.ts`, `management-flow.ts`, `ext/ui/share-dialog.ts` | pending creates and publication records in the local repository, operation ids in the dialogs | publish, activate, update, discard, delete | network waits between read and write-back, restart in the middle, concurrent dialogs | an active share has its key here; a record never claims what the server did not acknowledge; no key is forgotten too early |
| **Import into the extension** `ext/share/import-*.ts`, `provenance.ts`, `extension/entrypoints/import` | pending requests in memory, provenance list | request, confirm, cancel, commit, notify | second confirm, cancel, reload or expiry racing a commit | at most one playlist per request; the window tells the outcome |
| **Consent** `ext/share/consent.ts`, `ext/ui/consent-section.ts` | stored choice and browser permission | grant, decline | withdrawn in the middle of a flow | nothing is sent before the user agreed |
| **Player** `ext/player/{orchestrator,playlist-flow,mode-flow,resume-flow,runtime,enforcement}.ts` | the page's context, the stored playback | start, advance, jump, menu, resume, enforce a range | every await overlaps with the user and with other pages | what is stored leads back to what plays; the lock is never lost; a page that is handed over keeps the order |
| **Player window** `ext/player/window-manager.ts`, `background.ts` | the tab in memory, the window in the transient record | open, adopt, release, follow the browser's events | restart of the worker, tabs closed, moved and navigated | one player |
| **Popup** `ext/ui/popup*.ts` | what it shows | draw, start, stop, jump | drawings that read in several steps while commits arrive | at rest it shows what is stored |
| **Playlist domain** `ext/domain/*` | – | library operations, navigation, shuffle | boundaries, ids met twice | used by the modules above |
| **Options page** `ext/ui/options*.ts`, `import-merge.ts` | what it shows, the edits that wait in dialogs | create, rename, delete, copy, save, remove, reorder, toggle, import | the library changes while a dialog is open | an edit changes what it names and nothing else; a merged file is accepted |
| **Adapter, store page, panels, shared schemas, scripts** | – | DOM glue, rendering, validation, tooling | – | – |

How they interact: the extension's flows call the share service over HTTP, each
mutation with an `Idempotency-Key`; every share-service handler sweeps lapsed
provisional rows before its own work; the takedown command and the scheduled cleanup
change the same tables from outside the handlers; the flows and the pages read and write the local
repository, whose commands are serialized; the share page asks the extension, through
the content-script relay, to import; the popup, the options page, the background and the player page
share the transient record, which none of them locks.

`PROJECT.json` lists under `hazards` the places at which this code can go wrong in
ways a unit test would hardly reach, with the properties that cover each.

## 2. Modules

    share service
      PublicationLedger        what the share service promises about publications
          ^ implements
      PublicationStore         tables, guarded batches, sweep, pruning, takedown statements
          ^ EXTENDS, implements
      PublicationApi           concurrent handlers, retries, lost answers, takedown command
      ImportAccounting         the counting batch, its handler, and what empties the counters
      Discovery                ranking snapshots, cursors and pages
    extension
      LocalLibrary             the library's operations and what a storage command makes of it
        ^ EXTENDS
      Migration                import of the old format, and its later repair
        ^ EXTENDS                              ^ EXTENDS
      LocalRepository          single writer   LibraryImport    merging files into a library
                                                 ^ EXTENDS
      ShareManagement          EXTENDS         OptionsPage      the options page's edits
        LocalLibrary; publish, update, delete
      ShareImport              saving a shared playlist
      Navigation, Enforcement  moving through a playlist; keeping to a range
        ^ EXTENDS
      Player                   the player page
      PlayerWindow             one player tab, and the popup
    proofs, each beside the module it is named after
      PublicationProofs        PublicationStore and PublicationApi
      ImportAccountingProofs
      DiscoveryProofs
      LocalRepositoryProofs
      ShareManagementProofs
      ShareImportProofs
      PlayerProofs
      PlayerWindowProofs

`MC...` modules hold the values of small instances for TLC.  A module that stands on another one uses it at the
grain its own code can see: `ShareManagement` takes a request to the server as one step (what `PublicationApi`
shows of the handlers) and a vault write as one step that may fail (what `LocalRepository` shows of dispatch);
so do `ShareImport` and `OptionsPage`.

### PublicationStore

One D1 batch is one transaction, so a guarded batch is one action: `Submit(p)` is what
`runGuardedMutation` sends for the plan `p` (`GuardedMutationPlan`), and takes one of
`Create`, `Activate`, `Replace`, `Delete` when the guard insert yields a row and `Refuse`
when it does not.  The receipt's transient status `pending` exists only inside a batch and
is therefore not in the model; the assertions (`write_asserts`) that abort a batch whose
parent row did not move cannot fire when the guard holds, because guard and parent update
test the same predicates, and are left out.

| variable | code |
| --- | --- |
| `rows` | table `playlists`, by share id; `first` is `first_published_at`, `expires` is `activation_expires_at` |
| `tagLinks` | table `playlist_tags` |
| `receipts` | table `publication_operations`, by operation key |
| `nonce` | `newAttemptNonce()`: a counter, so nonces are distinct |
| `clock` | the present; a plan's `now` is any earlier or equal time |
| `log`, `taken` | history only: the batches that applied, the shares whose takedown has begun |

`StoreNext` lets any client send any well-formed plan of any age in any order. It is the
most general user of the tables; what is proved of it holds for every client that submits
such plans.  One restriction is made, `FreshShare`: share ids are 16 random bytes, so a create
never carries the id of another publication, and it meets its own earlier attempt (a busy
batch sent again) only while that attempt's receipt stands.

Data is abstracted to what the code tells apart: a playlist is a record of opaque content,
visibility, tags and derivedFrom; a content hash is the playlist, and a secret's hash is
the share it opens (or `WrongSecret`).

### PublicationApi

Each handler walks through the awaits of its code; `pc` names the next one:

    idle -> sweep -> lineage | precheck | batch -> receipt -> row -> current | details -> done -> idle

`plan` holds the request with the time captured at intake, `mine` the nonce of its last
batch, `seen` the receipt read back, `reply` the answer.  `past` is history: nonces used before
the request was taken in, and by it.  Anything may happen between two steps: other handlers, sweeps with
other times, the scheduled cleanup, the takedown command (`operator`), which sends its statements
one by one and may stop after each.  `Fail` is any rejected call (503), an answer may be lost in
`Respond`, and a batch may be reported busy or failed both after and without committing.
(Reporting *busy* after a commit is more than a local SQLite would do; over D1's network hop the code
itself cannot tell, and its regular expression also takes "timed out" for busy.)

`MayAsk` says what a client can send: new ids for a create; otherwise the secret it received with a
201, or a wrong one when `Forgers` is not empty.

### PublicationLedger

No tables, secrets, nonces, clock or receipts' times: a publication is unborn, provisional, public or
gone; each key takes at most one step until it is forgotten.  `PublicationStore` maps to it with
`Standing` and `Remembered`.

### ImportAccounting

The import counters share no row with the guarded batches except `playlists.import_count`, which those never
write, so they have a module of their own; of a publication it keeps only what counting can see (`shares`:
pending, public, unlisted, the stages of a takedown, gone).  One notification is `Arrive` (intake; `now` is read),
`Digest` (after the sweep was awaited, `actorDigest` reads the clock again and salts the actor with the
UTC day), `CountImport` (the batch, which may commit and still be reported busy) or `BatchAborts`, with `Retry` up
to `GUARD_MAX_ATTEMPTS`, and `Fail` at any await.  Every answer is 204 or 503, so answers are not in the model.

| variable | code |
| --- | --- |
| `shares` | state, visibility and blocked of `playlists` |
| `lifetime`, `daily` | `playlists.import_count`, table `import_daily` (no bucket is 0) |
| `eventReceipts`, `actorReceipts` | table `import_receipts`, whose keys are hashes in two domains: of an event id, and of actor, digest day and share |
| `request`, `clock` | the notifications in flight and the present |
| `batches`, `log` | how many batches were sent; history: every notification that counted |

Receipts carry the nonce of the batch that minted them and later statements of the batch ask for it: that is
"minted by this batch", so `Admits` and `Counts` stand for the whole chain of gates.  Instants and days are
related by the constant `Day`; `MCDay` makes a day of two instants.  Strings of days are compared as the code
does it: the cleanup's cutoff is a full timestamp, so a bucket is due when its day is the cutoff's or earlier
(`BucketDue`).


### Discovery

A read is one request of a `Reader`; its steps are the calls of the database, and between them shares are published, hidden,
deleted, blocked and taken down, imports come in and age, snapshots expire and are pruned.  A first page decides the
ranking (`Coverage`), looks for a snapshot to share (`FindReusable`) or makes one in two calls (`Materialize`,
`InsertSnapshot`), and pages through it with `ScanChunk` until the limit is full; a continuation starts with `Load`; `/explore` is
`Count` and `Slice` on live rows.  `shares` holds standing, visibility and stamps, `imports` the counted imports by window (scores are small
numbers), `snapshots` the table, `reads` the requests under way, `walks` what each reader was shown so far and which shares were public all along
(history).  A cursor is a snapshot and a position; its signature and encoding are left out.

### LocalLibrary and Migration

Pure operators.  `LocalLibrary` has the library's operations with their refusals (`domain/playlist.ts`, `identity.ts`) and
`ApplyStorageMutation`, what each storage command makes of the state.  `Migration` imports the old format with either importer (`Strict`, the one of v2.0.0, and
`Lenient`), puts aside what it cannot read, and repairs what an older importer had put aside.  Ids are sequences of tokens, because the
code derives ids from ids by suffixes and collisions matter.

### LocalRepository

The worker, its queue and its storage.  A command goes `queue` -> `writer` (`TakeCommand`, load if nothing is in memory, `Decide`,
`Commit`); a read answers from memory or loads by itself (`StartLoad`, `LoadStep`), which is not queued.  `io` and `answers` are the
requests to `browser.storage.local`, executed and answered in order.  `Restart` stops the worker: memory and queue are gone, requests already sent are
executed, pages see their messages fail.  `Resend` delivers a command a second time.  A `client` runs `runMutation`: read, build, dispatch,
and again on a conflict.  `applied` and `deleted` in the state are history carried along with it.  Deleting or replacing what plays goes on with `Reconcile`, a read and
a write of the playback record.  `RacingStartup` says whether a second load may start while a first one migrates: with it the
repository loses a command (finding 1), so the other properties are checked without it.

### ShareManagement

An actor is one opening of the share dialog, with its dialog's list of publications.  A dialog has one operation at a time (its busy flag), but it can be closed while busy (`modal.ts:104`), and
opening it again starts with a busy flag and operation ids of its own (`share-dialog.ts:61-84`), so the attempts of one page overlap like those of two pages.  `flow[p].at` is the await its background flow stands at,
named after the code's call.  `wire` holds requests on their way: `Serve` executes one, also after its sender gave up (`GiveUp`) and also twice when a retry carries its key.
`StopWorker` ends every flow.  `dialog` keeps what the dialog keeps: operation ids, whether its playlist's record is known to be unlinked, what it offers to force.
`Edit`, `DeletePlaylistLocally`, `Decline` are the user's other doings; `HourPasses` lets the activation window of a pending row lapse, and what is on its way then is lost.
`rivals` is history: the keys of attempts of which one passed the check while the other was between its check and its record.

### ShareImport

`book` is the book of pending imports, by token; `flows` the calls of the handler under way, each step of which is what runs on the answer to
its last await; `windows` what each confirmation window shows, and in `past` (history) whether its page was loaded anew, and over what.  `Rejects` is a storage read or write that fails: the call throws,
the entry stays as it was, and a window that waits for it stays with what it shows, because the page does not catch it.  `library.deleted` is history as well.  `Expire` and `Unthrottle` are the timers, `Snapshot` the fetch, `ReadLibrary` and
`Dispatch` the commit with its retries, `ReadRecords` and `AppendRecord` the provenance list, `Notify` the notification.  `WorkerStops` forgets the book and
every flow.  The consent section of the options page decides in steps of its own (`RenderSection`, `DecideInSection`, `BrowserAnswers`, `WriteDecision`).

### Navigation, Enforcement and Player

`Navigation` has the play orders (navigate, shuffle, reconcile) and the two mappings between item ids and stored positions; `Enforcement` the decision what to do at a position.
In `Player` a flow is a task: the list of steps it has still to take, each being the code between two awaits.  `line` orders the
transient calls of one page; `modal` is the dialog that is open; `urls` the pages the background has been asked to open.  Positions of the video are
inputs.  `Opens` loads a page: its context and its tasks are gone, the session flag and the stored record stay.  The popup and the options page start
playbacks as tasks that are not the page's (`remote`).  `page.late` is history, not state of the code: an op-ed write was under way when the generation began
(section 3, disagreements).

### PlayerWindow

`task` has the requests for a player, the release, the handlers of the browser's two events and the recovery; `at` is the
browser call each waits for.  `tabs` is the browser, `record` what is stored, `player` the worker's memory.  The popup draws in steps (`PopupReads`,
`PopupDraws`) and coalesces what comes meanwhile (`queued`, `news`); a drawing whose read is rejected (`PopupFails`) leaves the loop and drops what was queued.
The popup and a page may ask for a player at once, and beside the recovery of a worker that was started again.  `mine` is history: the tabs that the running worker opened or took up, counted since two searches for a player last met
(`spent.met`: two of them are under way).

### LibraryImport and OptionsPage

`LibraryImport` merges the playlists of a file into a library: names that conflict, ids in use, clips already held.  In `OptionsPage` an
edit is a flow: dialogs (`page.asking`), then `ReadFresh`, `Build` and `Dispatch`, again on a conflict; others commit in between (`Other`).  The page
draws in steps, and a card on it may be older than the library.  Reordering shows its result before it is stored (`MoveByKey`, `BeginDrag`, `DragTo`, `Drop`).

## 3. Runs

| run | instance | shows |
| --- | --- | --- |
| `store` | 1 share, 3 keys, 2 playlists with different tags, times 0..2, 4 batches | the store's invariants, and that every change of the tables is a step of the ledger |
| `conflicts` | 2 handlers, 1 share, 3 keys, 3 batches, with and without a derivedFrom, time stands still | acknowledgements are true, what applied is acknowledged to a retry, every step is a `PublicationStore` step, and derivedFrom stays |
| `lineage` | 2 shares, 1 handler at a time, 2 keys, playlists that claim revision 2 or 3 of the first share, wrong secrets, takedown of the first share, 2 attempts per request, times 0..1, 3 batches | what a create stores as lineage names what the parent was, only the owner learns a revision, nothing is public whose 201 was lost |
| `imports` | 1 share, 2 events, 1 actor, 2 overlapping requests, 2 attempts, times 0..5 (three days), 3 batches | counters are exact, an event and a digest count once, nothing is kept of what is gone |
| `discovery` | 3 shares, one a draft, one derived from another, two tagged; 1 reader, pages of 1, chunks of 2, snapshots of 2, times 1..3, 2 events, 3 requests | listings show what is public, whole and once, and cursors hold |
| `repository` | 2 pages, storage fresh, current, unreadable or of the older importer with parts deleted since; 1 receipt kept, 2 attempts, 1 restart, 1 failed write, 1 command delivered twice | what is acknowledged stays, replies are true, repairs bring back nothing deleted, every mutation returns |
| `startup_race` | as `repository`, no faults, two loads may overlap | violation: finding 1 |
| `sharing` | 2 dialogs, both of which may publish, 2 shares, 2 contents and an unpublishable one, 2 operations of one dialog and 1 of the other, 1 edit, 2 faults | keys and records are safe, two publications come only of overlapping attempts, every operation is answered |
| `share_import` | 2 requests for one share, 2 admissions, 2 calls at a time, 1 pending at most, 2 attempts, 1 fault, 3 clicks (loading a page anew is one), 1 event | a request is saved once, windows tell the truth, nothing is sent against the user's choice |
| `player` | 3 items in 2 videos, one a whole episode; 2 flows at a time, 2 events, 1 fault, 1 load | stored playback, the lock and handovers |
| `window` | 1 player url, the popup and a page that ask, 3 requests or restarts, 2 troubles, popup opened once, at most 3 of all these together, both window modes | one player; the popup at rest is right |
| `options` | 3 playlists, one of them the system's, 2 edits, of which one reorders, 1 commit of another page (which may rename a playlist to the system's name), 2 attempts; files with ids of a list and of the system's list | edits are exact, merged files are refused for nothing but an id of a system playlist |

### Bounds

`MaxTime` stops the clock; with an activation window of 1 and a receipt lifetime of 2, times
0..2 contain the instants just before, at and after both deadlines.  Four batches are what create,
activate, a change and a contender for it need; three are create, activate and one more.  One share is enough
for everything but lineage, since rows of different shares meet only in a key's receipt: two keys on one
share already give a key used for different requests, and `lineage` uses two shares.  Handlers, keys, events, requests and actors are
symmetric; symmetry is used in `store`, `conflicts`, `lineage` and `imports`, which check no liveness.
`GUARD_MAX_ATTEMPTS` is 3 in the code; 1 and 2 are checked, 2 being the first value with a retry.
`RequestLifetime < ReceiptTtl` is the assumption that a Worker request (seconds) ends before a receipt
of 24 hours does.

For the import counters a receipt lives 4 instants, a day has 2 and retention is 2 days: the same proportions as
48 hours, 24 hours and a retention of at least two days, and times 0..5 reach past the first receipt's end and the first
pruned day.  Three batches are two that could count twice and one between.  `RequestLifetime` is 1: a request may span an instant, and so midnight;
the assumption that matters, `LifetimeAssumption`, says a receipt outlives one day and two requests.

In `discovery` a snapshot is shared for one instant, lives two and the clock reaches 3; pages of 1 of a chunk of 2 make a page end inside
a chunk; a snapshot of at most 2 of 3 shares is a truncated one.  Three requests are a first page, its continuation, and one more.
In `repository`, `MaxReceipts` is 1, so the second command drops the receipt of the first one (256 in the code); 2 attempts are the first number with a
retry (4 in the code).  The old libraries are the cases the repair distinguishes: a clip only the newer importer reads, an entry without a name, an
entry that reuses an id, entries and items without ids or without shape, an item of which only one range could be read.  In `sharing` two dialogs that each publish are the two attempts that overlap; the first one's second operation is a retry, a completion, an update or a deletion.
Two faults are a lost answer and a stopped worker or failed write.  In `player` two items of one video and one of another make the three ways on: seek, stay, and load a page.
`window` has one url: a second one differs in nothing the manager looks at, since it sends any tab it owns to the url it is given.  Three doings are enough for a player opened, the worker stopped and another request, with the browser's
late events and the recovery between them.  In `conflicts` the playlist with a derivedFrom is one that only a replace can bring in, since with one share no create may claim it; `DerivationIsFixed` needs no more than that the two differ.
In `options` the second file has the id of the system playlist's item, as an export has that was made before the playlist got its name.

### Deadlock and fairness

The deadlock check is on for the publication and import modules.  `CHECK_DEADLOCK FALSE` is said where the users, visitors and faults are bounded
and nobody has to do anything: the extension's modules and `Discovery` may really stop when all of them are used up.

Two modules state fairness and check liveness.  `LocalRepository`: storage answers what it was sent, the writer goes on with the command it has, a load goes on, and a
page that waits for a reply takes it; nothing obliges a page to start a mutation or the browser to stop the worker.  `MutationReturns` then says that
neither a failed write or load in the promise chain nor a restart leaves a page waiting.  `ShareManagement`: a running flow goes on (JavaScript runs what is awaited once it settles),
and a request a flow waits for is answered or times out, because every request of `management-client.ts` carries a timeout; nothing is assumed of requests
nobody waits for.  `OperationsReturn` says that every operation of a dialog is answered, also that of one that was closed.

No liveness is stated for the share service: a handler answers or is evicted, and the code promises no
later event.  The one thing that should eventually happen, the removal of a lapsed provisional row, depends on
another request or on a cron trigger that is documented as not wired, so no fairness is justified.  Of the player and the windows the
code promises nothing that must happen without the user either.

### What the properties say

Share service

* `AtMostOncePerKey`: of two applications of one key the later commits after the earlier receipt ran out,
  unless an operator took the share down (which purges its receipts).
* `NoLostUpdate`, `RowIsNewestWrite`: compare-and-swap, and the row is the newest acknowledged write.
* `TagIndexAgrees`: the relational tag index is that of the row.
* `ImplementsLedger`: a publication is provisional, public, gone, in this order, and gone for good; `ImplementsStore`: the handlers are users of the store.
* `AcksAreCommitted`, `AppliedIsAcknowledged`: answers and commits, under retries. The second holds
  for requests made by the owner, of shares not taken down, while the receipt stands; a create refused by the
  lineage gate is its exception (disagreement 2 below).
* `RevisionDisclosedToOwner`: a conflict's details go to the owner only.
* `LineageFromPublished`: the derivedFrom that a create stores names a revision its parent had, of a parent published before the
  create was taken in.  What a replace may store is the next one's subject.
* `DerivationIsFixed`: a batch after the create leaves a derivedFrom the publication has had before.  Excepted is the replace that was taken in
  before the activation, which may store any link (disagreement 1); so of such a link nothing is claimed.
* `ActiveHasKeyHolder`: a public row's one-time secret reached a client.
* `WindowIsExact`: the daily counters against the history of what counted, as far as the longest ranking window reaches.
* `EventCountsOnce`, `ActorCountsOncePerDay`: what deduplication really gives. A removed publication is the exception of the first:
  its receipts are purged with it.
* `NothingKeptOfGone`: notifications racing a delete or a half-done takedown leave nothing behind.
* `ServedIsPublic`: what an answer shows was public at some time while it was made, the share as well as the parent it names, whatever the
  snapshot or the page number says.
* `WalkIsWhole`: the pages of a listing follow the frozen order, show nothing twice, and at their end have shown everything that was public all along.
* `CursorsHold`: a cursor is refused only under another query, after its snapshot's life, or when a share it names was taken away.

Extension

* `CommittedIsKept`, `RepliesAreTrue`, `AppliedOnce`: what a page was told is in storage for good and took effect once.
* `DeletedStaysDeleted`, `LegacyIsAccountedFor`: the migration and its later repair lose nothing and bring back nothing the user deleted.
* `MutationReturns`, `OperationsReturn`: liveness, above.
* `ActiveHasKey`, `KeyKeptUntilGone`: a share that is active has its key in the vault, and a key leaves only when its share is gone.
* `RecordIsAcknowledged`: a record's content was stored under its revision by the server and is what was sent, so a badge that says "clean" is right.
* `OnePublication`: as long as the playlist is there, two active publications of it come only of two attempts of which one passed the check while the other stood
  between its check and its record (disagreement 12).  So no attempt makes a second one beside a share that was recorded, and no attempt makes two by its retries.
* `SavedOnce`, `WindowsTellTheTruth`, `OnlyAsAgreed`: one playlist per request; a window says what happened; nothing is sent before the user agreed once,
  and only what was saved is counted.  The second is for every window and whatever is republished, edited or reloaded meanwhile, with two exceptions (disagreement 13): what a page shows
  that was loaded over a confirmation, and, for a page after the first, the revision it showed.
* `ResumesWherePlaying`, `HandoffKeepsOrder`: the record a page stored leads back to the item and order that play, and a page sent elsewhere finds its own.
  The first is for a playlist that is not edited (a record holds positions); its part about the item also for calls that succeed, nothing left to write, and no
  op-ed write that was under way when the playback began (disagreement 10).
* `AdvanceHasOneHolder`: the lock of `advancePlayback` is held by one flow, which will release it.
* `OnePlayer`: at rest at most one of the tabs that the running worker opened or took up shows a player.  It is counted from the worker's start, the recovered player included, and anew once two searches
  for a player have run at once, which may open one each (smaller ones, below).
* `PopupShowsPlayback`: a popup at rest shows what is stored, unless its last drawing failed.
* `EditsAreExact`: an edit of the options page leaves everything it does not name as it was when the edit was committed.
* `MergeIsAccepted`: a merged or separated import has no id twice in itself and keeps the library's ids and items, and the single writer refuses it for a duplicate exactly when
  it shares an id with the system playlists it is committed with (disagreement 11).

### Findings

1. `storage/repository.ts:88` loads with `state ??= await load()`, outside the queue. Two first calls migrate side by side; the slower one writes its
   migration over a state a dispatch has committed in between, and an acknowledged command is lost (`CommittedIsKept`, run `startup_race`;
   `tests/storage/repository.test.ts:7` says additions are not lost).

### Disagreements seen while modelling, not run

What follows was met while translating the code and is not checked by a run: the properties above are stated so that they hold beside it.

1. `services/mutations.ts:60-61` calls the pre-check of derivedFrom race-safe. It reads the row only when it is active (line 62). A replace
   that reads while its row is provisional has nothing to compare with; if the activate commits before its batch does,
   the batch applies and the stored lineage changes, to a link nobody has checked.  `DerivationIsFixed` excepts this replace and no other.
2. `docs/api.md:82` promises `409 CREATE_RECEIPT_UNAVAILABLE` to a create replayed after its answer was lost. The lineage
   gate runs first (`publication.ts:58`), so the replay is answered `422 SCHEMA_INVALID` when the parent has meanwhile gone from view.
3. `docs/api.md:86` says an actor moves a share's counters at most once per 48 h window. The actor's
   receipt is kept under a digest that is salted with the UTC day (`rate-limit.ts:119`), so the limit is once per day.
4. `repositories/maintenance.ts:44-45` calls `dayCutoff` the oldest retained day. The caller passes a timestamp of that day
   (`services/maintenance.ts:32`), which is greater than the day as a string, and the day is pruned. Rankings do not notice: the 90-day window starts one day later.
5. `snapshots/delete.ts:18-22` says delete purges every ranking snapshot that names the share. One that was materialized before and is inserted after
   (`discovery/engine.ts:194`) names it until it expires; what readers see is checked again (`ServedIsPublic`).
6. `docs/architecture.md:80-82`: a repaired migration does not bring back what the user removed. An old item may hold several ranges, and the
   quarantine names whole items: when one range could not be read and another was imported and deleted since, the repair brings back both (`migration.ts:230`).
   `DeletedStaysDeleted` excepts such clips (`HalfRead`), and nothing else.
7. `ui/management.ts:1-6`: deleting a playlist detaches its publication, which stays manageable. A publish or update that is waiting for the network links
   its record again (`publish-flow.ts:212`, `management-flow.ts:135`); a playlist with that id may then publish a second time.
8. `player/orchestrator.ts:4-6`: an ended flow changes nothing. `playlist-flow.ts:121` goes on after it persisted and switches native skipping off for a mode that has ended.
9. `ui/options-items.ts:3-4`: replace-library is built from fresh state. A merged import is built from the library read before its dialogs
   (`options-io.ts:163`), and what others commit meanwhile is dropped.
10. `player/transient-session.ts:125`: every write of the transient record preserves the fields it does not own. `mutateTransientState` reads, then writes back
   all it has read, and nothing keeps other writes out in between. A write of the op-ed mode (an op-ed start from a work page, a second stop) that has read the record when a playback is
   started or the next item is stored puts the older playback back, so the stored item is one behind what plays. Larger instances than the run's show
   it in two ways; a playback that begins beside such a write is marked (`page.late`), and `ResumesWherePlaying` says nothing of its item.
11. `ui/import-merge.ts:54-56` and 36-43: what is merged or added gets ids that nothing uses, so that the single writer accepts it. `options-io.ts:166` leaves the system playlists out of the ids that are repaired against, and lines 175-180
   append them to what is committed. A file that has the id of a system playlist or of one of its items is refused as a duplicate. One comes about when a playlist is renamed to a system name (`options.ts:337` does not
   refuse it) and an export from before is imported, or when that renaming happens while the dialogs of the import are open.
12. `share/publish-flow.ts:116-122`: a playlist that is published already is not published again. The check stands several awaits before the record is stored; a second attempt that passes it meanwhile, from another page or from
   the same dialog closed while busy and opened again, makes a second active publication of the playlist.
13. `entrypoints/import/main.ts:153-175` and `import-handler.ts:257-302`: the window tells the outcome. A page that is loaded anew over a confirmation still at work is shown a preview, or a failure, of what is then saved; a
   confirmation whose storage rejects leaves its page at "saving" for good (no catch), and a page loaded anew can confirm again. A call for the details of a page that is gone may fetch a newer revision
   after the page that followed has shown an older one; confirming sends only the token, so what is saved is then not what was shown.

Smaller ones:

* A playlist that is reordered while it plays leaves a record whose position means another item.
* The transient record is read and written without a lock by four contexts; clearing it may erase a newer record.
* The end menu that another dialog replaces answers nothing, which stops the playback.
* `docs/share.md` says the import window opens without prefetching; `import-handler.ts:182` prefetches once the user has agreed.
* `import-commit.ts:43`: a second confirmation after a worker restart is told of a conflict although the first one saved.
* `import-requests.ts:2-3` names a timeout of the confirmation window that the code does not have; a retry of the notification does not ask for consent again;
  two imports may overwrite each other's provenance record (`provenance.ts:97`; the list is advisory).
* `window-manager.ts`: a stop after a restart and before the recovery does not close the player (line 245, against `tests/player/window-manager.test.ts:180`);
  adoption takes the first tab of the stored window even if it shows no player (comment at 156-157); a player opened as a tab because a popup was refused
  is not recorded; a stop followed by a start closes the tab just used again.
* `window-manager.ts:81-85` keeps one player in memory. Two searches at once, for the popup, for a page or for the recovery of a worker just started, each open a player, and the later answer overwrites the earlier one;
  a recovery that ends late forgets the player a request has opened meanwhile; and a worker stopped between opening a window and recording it does not find it again. `OnePlayer` starts to count anew where two searches meet and where the worker starts.
* `ui/popup.ts:186-198`: a drawing that fails drops the one queued behind it, so the popup stays as it was until the next notice (`PopupShowsPlayback` excepts it).
* The last page of `/explore` lies beyond the cap of 1000 rows when more match.
* Cancelling the copy dialog counts as a choice of a target (`options-items.ts:230-256`); a page drawn anew loses the element the focus would return to (`options.ts:202-208`).
* The consent buttons stay active while the browser asks: an older grant that waits there overwrites a later decline.

## 4. Proofs

TLC shows a property on a small instance; the theorems below state it for every value of the constants that satisfies the
assumptions.  Each safety theorem follows one pattern: an inductive invariant, a lemma per action that keeps it, a theorem that it always holds, and the
property from it.  The inductive invariants of `PublicationApi`, `Discovery`, `LocalRepository`,
`ShareManagement`, `ShareImport`, `Player` and `PlayerWindow` were also evaluated by TLC on the instances of their runs, where they hold.

### PublicationStore

Theorems of `StoreSpec`, for any number of shares, keys, playlists, tags and batches and for any lifetimes:

| theorem | property | argument |
| --- | --- | --- |
| `TypeCorrect` | `StoreTypeOK` | inductive |
| `AtMostOnce` | `AtMostOncePerKey` | `KeyInv`: a log entry whose receipt is not due and whose share was not taken down still has its receipt (`Stands`), so the guard refuses its key |
| `RowsFollowTheLog` | `RowInv` | `RowInv` is the conjunction of the row and log properties with `WindowInv`; none of them is inductive alone |
| `NoUpdateIsLost`, `RowsAreAcknowledged`, `ActivationIsInTime` | `NoLostUpdate`, `RowIsNewestWrite`, `NoLateActivation` | from `RowInv` |
| `ReceiptsAgreeWithRows` | `ReceiptNeverContradictsRow`: what a replay would acknowledge is not ahead of, or different from, the row | `ReceiptInv`: a receipt's outcome is an entry of the log; with `RowInv` |
| `RemovalsAreJustified`, `GoneForGood` | `RemovalIsJustified`, `GoneStaysGone`: a row goes only by delete, takedown or a lapsed window, and for good | action properties, from the type invariant and `FreshShare` |
| `TagIndexIsExact` | `TagIndexAgrees` | inductive with the type invariant |
| `HistoryAccountsForTables` | `HistoryInv` | a receipt is that of one logged batch, each revision a row ever had was written by one, a row opens with the secret of its own share; what the handlers' proofs rest on |
| `LedgerIsImplemented` | `ImplementsLedger` | every step maps to one step of the ledger or to a stutter; needs `TakenInv` (what is being taken down had a batch and its row is blocked) to tell a takedown's delete from a lapse |

`NoLostUpdate` is not inductive because it says nothing of the row: a new write at revision *r + 1* could collide with an
older log entry. `RowIsNewestWrite` excludes that (the row's revision is the largest of its share), and in turn
needs that a share whose row is gone is never written again, which is where `FreshShare` enters.
`NoLateActivation` needs `WindowInv`: a provisional row's `expires` is that of its create.

### PublicationApi

Theorems of `ApiSpec`, for any number of requests at once, shares, keys, attempts and lost answers:

| theorem | property |
| --- | --- |
| `RequestsAgreeWithLog` | `ApiInv`, the inductive invariant |
| `StoreIsImplemented` | `ImplementsStore`: the handlers, the cleanup and the takedown command use the tables as `StoreSpec` allows, so that everything above holds of them |
| `ActiveIsHeld`, `AcksAreTrue`, `AppliedIsTold` | `ActiveHasKeyHolder`, `AcksAreCommitted`, `AppliedIsAcknowledged` |
| `RevisionIsTheOwners`, `LineageIsTrue`, `DerivationStays` | `RevisionDisclosedToOwner`, `LineageFromPublished`, `DerivationIsFixed` (action property) |

`ApiInv` follows one request through its awaits and says, at each of them, what its handler holds: the plan is well-formed and of the recent past
(`PlanInv`); only the create's own batches have touched the id minted for it (`BirthInv`, `MintInv`); a create past the lineage gate claims a parent that was public
(`GateInv`); a batch with the nonce of the last attempt is this request's (`AttemptInv`); what was read back is a batch of the log, and where the handler goes on to
look for a reason to refuse, no batch of the log did what it asks (`SeenInv`); and then the answer (`AnswerInv`).  A step of one request moves the log under all the others: the
bystander lemmas show that what they hold survives, since entries are only added and a new entry's nonce is new.  `AppliedIsAcknowledged` needs that a receipt outlives the request that
reads it: `RequestLifetime < ReceiptTtl` (`ApiAssumption`).
`DerivationStays` needs of a replace that goes on to its batch that it was taken in before the activation or has compared its link with the row's, and that the row of an activated publication never leaves it again for another link.

### ImportAccounting

Theorems of `ImportSpec`, for any number of shares, events, actors, concurrent requests and attempts, and any calendar `Day`:

| theorem | property | argument |
| --- | --- | --- |
| `ImportTypeCorrect` | `ImportTypeOK` | inductive |
| `EventCountsOnceCorrect` | `EventCountsOnce` | `HeldInv`: a counted entry's receipts stand, with their expiry, until they are due or the publication is removed (`ReceiptStands`), so a later batch does not count |
| `ActorCountsOnceCorrect` | `ActorCountsOncePerDay` | `HeldInv` and `TimeInv`: a request's digest day was read between its intake and the present, so two equal days are at most a day and two requests apart, which a receipt outlives |
| `LifetimeIsExactCorrect`, `WindowIsExactCorrect` | `LifetimeIsExact` (the lifetime counter is the number of notifications that counted), `WindowIsExact` | `CountInv`: the log is finite and counters are cardinalities of parts of it; an entry's id is new, and a cleanup's day is never after the clock's |
| `NothingKeptCorrect` | `NothingKeptOfGone` | `StagesClean`: each stage of a takedown keeps clean what the earlier ones emptied |

### Discovery

Theorems of `Spec`, for any number of shares, readers, requests and snapshots, any chunk and limits and any lifetimes with `ReuseSpan <= SnapshotSpan`:

| theorem | property |
| --- | --- |
| `WalksAgree` | `CursorInv`, the inductive invariant of cursors |
| `CursorsAreGood` | `CursorsHold` |
| `PagesGoOn` | `PageInv`, the inductive invariant of pages |
| `OnlyPublicIsServed` | `ServedIsPublic` |
| `WalksAreWhole` | `WalkIsWhole` |

A cursor is refused as expired when its snapshot is not found, and rows of snapshots vanish under a walk: they expire, and a share that is deleted or taken down takes the
rows that name it along. `CursorInv` says of every walk that its row is stored as the walk knows it (`WalkInv`), or that it has expired (`Over`) or names a share taken away
(`Robbed`); both last, because the clock does not go back and a share never returns. A cursor is refused as invalid when the fingerprints differ; the row's fingerprint is that
of the walk's query under the basis it was frozen with, and a fingerprint tells the query (`FingerprintTells`), so the query is another one. `StockInv` gives a new row an id that no
walk holds.

`PageInv` stands on `CursorInv` and says what pages show. `SeenInv`: whatever is public while a request runs has been seen by it, so what a query or a visibility check returns is seen. `PagesInv`: the entries of a walk are
distinct, and the pages served so far list them (`Lists`): every item is an entry before the cursor, in the order of the entries, and every entry before the cursor that was public all along is among the items. A chunk takes this on
from what was scanned to where its scan ends (`ListsMore`), because the places it shows are all the public ones between the two, in order (`AscendingIs`), and what is steady is public (`steady \subseteq Eligible`). The pages a reader gets back
are joined in the order they were asked for; a cursor used under another query shows nothing and moves nothing. The order itself is the query's: `InOrder` says what ORDER BY returns, and the proof needs of it only that each row comes once.

### LocalRepository

Theorems of `Spec`, for any number of pages, restarts, failed writes and repeated commands, whatever the pages ask for and whatever the two importers
find in an old library:

| theorem | property |
| --- | --- |
| `RepositoryAgrees` | `RepositoryInv`, the inductive invariant |
| `CommittedStaysStored` | `CommittedIsKept` |
| `EffectsHappenOnce` | `AppliedOnce` |
| `RepliesToldTrue` | `RepliesAreTrue` |

The reference point of `RepositoryInv` is `Base`: storage, or while a write is out, the state it started from.  `MemInv` says memory is `Base`.
`FlightInv` gives every request and answer on its way a process that waits for it and what it waits for, or names it an orphan of a stopped worker, which goes before anything a new
worker sends.  `WriteInv` says that one write of the state is on its way at a time and that it follows what is stored: a higher revision and every operation that had been applied.
`LoadInv` is the part that a second load breaks: while a load has something to write, nobody else loads and nothing is in memory.  `SentInv` accounts for every command that was
ever sent (applied, still queued, or spent for good), which is what a repeated delivery and a repeated round of the client's loop meet.  `LogInv` ties the acknowledgements to what is
stored.  The parts are not inductive one by one: an acknowledged command stays stored because the next write starts from memory, memory is what is stored, and no load writes in between.

Two hypotheses stand in these theorems.  `~RacingStartup` excludes the overlapping first loads of finding 1; the run `startup_race` shows that the property fails without it.
`NullsAreNoStates` says that `Absent` and `Unreadable` are not records with a state's fields, which TLC's model values satisfy and no finite evaluation can state.
What the mutations, the migration and the repair compute is used through a few lemmas (what fields they keep, that the parser's number grows), so nothing depends on
the library's contents.

### ShareManagement

Theorems of `Spec`, for any number of dialogs, shares, contents, clicks, edits and faults:

| theorem | property |
| --- | --- |
| `Agreement` | `IInv`, the inductive invariant |
| `ActiveHasKeyAlways` | `ActiveHasKey` |
| `KeyKept` | `KeyKeptUntilGone` (action property) |
| `RecordAcknowledged` | `RecordIsAcknowledged` |
| `OnePublicationAlways` | `OnePublication` |

`ActiveHasKey` alone says nothing of an activation that is on its way, perhaps of a flow that has long given up.  `IInv` follows the share through everything that may still act on it:
a request on the wire (`Carried`: an activation is only ever of a share whose key is kept), an answer not taken yet (`Truthful`), a receipt that may be repeated (`Repeats`: a deletion
confirmed once is confirmed for good), the record a flow holds until it writes it (`Sound`), and the row (`RowInv`, `HistoryInv`: only the activation leaves the content as it was).
`Keeps` is the step relation all actions meet: no key leaves while its share is there, and nothing acknowledged is taken back.

For `OnePublication` the invariant `OneInv` says that attempts between check and record have all met (`AttemptsMet`), and, as long as the playlist is there, that every share alive beside such an attempt was
made by one it has met (`Beside`), any two shares alive by two that met (`MetIn`), and that every flow that may put a record back works on a share that is still in the vault or gone.

### ShareImport

Theorems of `Spec`, for any number of requests, tokens, calls at a time, attempts, clicks and faults:

| theorem | property |
| --- | --- |
| `ImportsAgree` | `ImportInv` and `ReloadInv`, the inductive invariant |
| `RequestSavedOnce` | `SavedOnce` |
| `SentAsAgreed` | `OnlyAsAgreed` |
| `WindowsToldTrue` | `WindowsTellTheTruth` |

`ImportInv` is about a token: before it is admitted nothing knows of it (`TokenInv`); a window that was loaded once waits for one call, which acts for it and for nothing else
(`OneFlow`); the snapshot it shows is the one that will be saved, whatever other fetch is on its way (`SeenInv`); it says "saved" only when the library took that list, and says nothing else once
it did (`ShownInv`, `RecordedInv`).  A window that was loaded anew may have calls of an earlier page beside its own, so `ReloadInv` says less of it (`AgainOk`): as long as no page before it had confirmed, only the call it waits for saves for its
token, and what was saved for it is what it says.
`SavedOnce` comes from `LibraryInv`: a list has its receipt, and a call that dispatches replaces exactly the library it has read, or is refused.

### Player

Theorems of `Spec`, for any playlist without an id twice and edits of it, any number of flows, events and pages loaded, and any calls that fail:

| theorem | property |
| --- | --- |
| `LockIsKept` | `LockInv`, inductive |
| `AdvanceIsHeldOnce` | `AdvanceHasOneHolder` |
| `OrderIsKept` | `OrderInv`, inductive with `LockInv` |
| `HandoffIsInOrder` | `HandoffKeepsOrder` |
| `LineIsServed` | `ServedInv`, inductive with `LockInv` |
| `NewestIsKept` | `NewestInv`, inductive with the other three |
| `ResumesAsPlaying` | `ResumesWherePlaying` |

A flow is the list of steps it has still to take, so holding the lock is a fact about a list: its last step is the release.  `LockInv` says which lists occur: `advancePlayback` as it
starts; what it comes to after it has read the library (`OnTheWay`), with the release behind it or not; and the lists of all other flows, which have neither.  Every step takes the first
of a list, a failing call takes all up to the next step that follows a caught error (`Recovered`), and both leave the last (`TailLegal`, `EndOfList`); stopping and storing put their own
steps before it (`Prefixed`).  A flow is started with the lock only when nobody has it, and the end menu and a page loaded anew drop the release and the lock together.

`OrderInv` is about the playlist as long as it is `Start`.  `GoodPlayback`: what a page plays, a flow goes on from or a url was asked for with names every item once (`Enumerates`),
or is the list itself.  `Kept`: so does every record, wherever it is (stored, read, or about to be written), and the one with this page's token and generation has the order that plays (`Stores`).
`HandedOver`: a requested url names the position of the item the asking page plays.  That a record comes back as it was stored (`BackAgain`), that nothing is left to
reconcile in an order of all items, and that reshuffling behind the current item keeps what is before it are lemmas about `Navigation`, which picks elements at places
(`Picked`) and so needs no induction.  `HandoffKeepsOrder` and the part of `ResumesWherePlaying` about the order follow.

The part about the item is about time: two items of one generation are stored by two flows (`SwitchFound` keeps the generation), and the later one has to win.  `ServedInv` says that `line` has just the flows with a
transient call out, each once.  `NewestInv`: while no call fails and the page is not `late`, no write of the op-ed mode is under way, and each flow that has yet to store what this generation plays stores what plays now or is followed by one that does.
`Sooner` orders them: one whose read is answered writes before one that still reads, and otherwise the line decides.

### PlayerWindow

Theorems of `Spec`, for any number of urls, requests, restarts and openings:

| theorem | property |
| --- | --- |
| `PopupWillShow` | `PopupInv`, the inductive invariant |
| `PopupIsRight` | `PopupShowsPlayback` |
| `PlayersAreKnown` | `OneInv`, the inductive invariant |
| `OnePlayerIsShown` | `OnePlayer` |

A drawing reads the record and the library in two calls, so one of them may be old when it draws.  `PopupInv` says that then a notice is on its way or the next drawing is queued, or the last drawing failed.

`OneInv` says of every tab that counts (`mine`) who knows of it (`Known`): the worker's memory, the stop button on its way to remove it, or the request that opened its window and has yet to look up the tab.  It rests on these facts: as long as
no two searches have met, one surface or the recovery looks for a player at a time (`AloneInv`), and one that searches or opens finds no player in memory (`Asking`); what a removal tells of is gone for good, as ids are not used
again (`Gone`); and a tab opened for a player shows one until the user goes elsewhere in it (`TabsInv`).  So a player is forgotten only when its tab is gone, was used otherwise, or is about to be removed.  A worker that starts has no tab that counts but the one it takes up.

### Assumptions

The assumptions are the named ASSUMEs of the modules: `PlaylistAssumption`, `TimeAssumption`, `NullAssumption` (`PublicationStore`), `ApiAssumption`, `DayAssumption` (days are numbers
that never go back), `LifetimeAssumption`, `NullAssumption` (`ImportAccounting`), `DiscoveryAssumption`, `RepositoryAssumption`, `StorageAssumption` (storage starts absent, unreadable or with a well-formed
state), `ManagementAssumption`, `ShareImportAssumption`, `PlayerAssumption` (the playlist and its edits are lists of items, without an id twice at first; the page is not at a requested url at first), `AbsentAssumption`, `WindowAssumption`.  They say that bounds are natural numbers, lifetimes positive and in the order the code has them, and that null values lie outside
the sets they stand beside.  TLC evaluates them in every run of a module above them.

### Only model-checked

* `MutationReturns`, `OperationsReturn`: liveness under fairness (ENABLED).
* `DeletedStaysDeleted`, `LegacyIsAccountedFor`, `MergeIsAccepted`: what the folds of `Migration` and `LibraryImport` compute for every input needs induction over data.
* `EditsAreExact`: the edits are operations of `LocalLibrary` on sequences of playlists and items.

## 5. Not modelled

* The GET reader's projection (redaction of derivedFrom once the parent is hidden) and intake refusals: they change nothing.
  The reader's sweep is `OtherSweep`.
* Corrupt rows, durable `pending` receipts and the decoders' errors: the code treats them as corruption and answers 503.
* The rate limiter, whose counters are the platform's; origin checks; headers. They stand before the handlers and keep no state of their own.
* In `ImportAccounting`, the read that tells the caller of the repository whether the batch counted: its result is dropped by the handler.
* The insert into `operator_takedowns`, which nothing reads.
* In `ShareManagement`, the lookup of the parent a publication claims (an import record of the playlist, advisory) and the operations that only read (inspect, source).
* In `Player`, commands to the page's video (seek, play, pause) and the observers that report positions, which are inputs; the drawing of panels, keyboard and focus.
* In `OptionsPage`, export, toasts and layout; in `LibraryImport`, the parsing of times and names.
* The adapter to the video site, share pages, Open Graph images, tag suggestions, the store page and the build scripts: rendering, network glue and
  tooling without state a property above depends on. `PROJECT.json` lists each with its reason.

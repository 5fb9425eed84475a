--------------------------- MODULE PublicationStore ---------------------------
(***************************************************************************)
(* The share service's D1 tables and the atomic batches that change them.  *)
(*                                                                         *)
(* Every mutation of a publication is one D1 batch, that is one            *)
(* transaction: a receipt is inserted only when the operation key is       *)
(* unclaimed and the row satisfies the operation's predicates, and the     *)
(* dependent writes happen only under that receipt.  The batch is          *)
(* therefore one action here, and the receipt's transient status 'pending' *)
(* is never visible between actions.                                       *)
(*                                                                         *)
(* Submit(p) is what runGuardedMutation sends for the plan p.  p.now is    *)
(* the time the request captured at its intake: it may be older than       *)
(* clock, the time at which the batch commits.                             *)
(*                                                                         *)
(* Abstracted: titles, items and hashes (a playlist is a record of what    *)
(* the code tells apart, a content hash is the playlist, the hash of a     *)
(* share's secret is the share id itself), created_at and updated_at.      *)
(***************************************************************************)
EXTENDS Naturals

CONSTANTS
  ShareIds,          \* public ids of publications
  Keys,              \* Idempotency-Key header values (operation_key)
  Playlists,         \* the SharedPlaylist payloads clients submit
  Tags,
  WrongSecret,       \* the hash of a secret that opens no publication
  NoShare, NoPlaylist, NoRow, NoReceipt, NoTime, NoLink,
  ActivationWindow,  \* ACTIVATION_EXPIRES_AFTER_MS
  ReceiptTtl,        \* MUTATION_RECEIPT_TTL_MS
  Revisions,         \* the expectedRevision values clients send
  MaxTime,           \* bound: the clock stops here
  MaxBatches         \* bound: how many guarded batches are sent

Links == [share : ShareIds, revision : Nat \ {0}]
PlaylistShape ==
  [content : STRING, visibility : {"public", "unlisted"},
   tags : SUBSET Tags, derivedFrom : Links \cup {NoLink}]

Methods == {"create", "activate", "replace", "delete"}
Secrets == ShareIds \cup {WrongSecret}
Times   == Nat \cup {NoTime}

Plan == [method : Methods, key : Keys, share : ShareIds, secret : Secrets,
         expected : Nat, playlist : Playlists \cup {NoPlaylist}, now : Nat]

RequestShape == [method : Methods, share : ShareIds \cup {NoShare},
                 expected : Nat, playlist : Playlists \cup {NoPlaylist}]

Row == [state : {"pending", "active"}, revision : Nat, secret : Secrets,
        playlist : Playlists, blocked : BOOLEAN, first : Times, expires : Times]

Outcome == [share : ShareIds, revision : Nat,
            playlist : Playlists \cup {NoPlaylist}, first : Times]

Receipt == [share : ShareIds, request : RequestShape, secret : Secrets,
            nonce : Nat, outcome : Outcome, expires : Nat]

LogEntry == [key : Keys, share : ShareIds, request : RequestShape, nonce : Nat,
             outcome : Outcome, now : Nat, expires : Nat, at : Nat]

ASSUME PlaylistAssumption ==
  /\ Playlists \subseteq PlaylistShape
  /\ NoPlaylist \notin Playlists
ASSUME TimeAssumption ==
  /\ ActivationWindow \in Nat \ {0}
  /\ ReceiptTtl \in Nat \ {0}
  /\ MaxTime \in Nat
  /\ MaxBatches \in Nat
  /\ Revisions \subseteq Nat \ {0}
ASSUME NullAssumption ==
  /\ NoRow \notin Row
  /\ NoReceipt \notin Receipt
  /\ NoTime \notin Nat
  /\ NoShare \notin ShareIds
  /\ WrongSecret \notin ShareIds

VARIABLES
  clock,     \* the present; request times are captured from it
  rows,      \* table playlists, by share_id
  tagLinks,  \* table playlist_tags, by share_id
  receipts,  \* table publication_operations, by operation_key
  nonce,     \* the next attempt nonce
  log,       \* history: every guarded batch that applied
  taken      \* history: the shares an operator takedown has started on

storeVars == <<clock, rows, tagLinks, receipts, nonce, log, taken>>

(***************************************************************************)
(* What a plan asks and records.                                           *)
(***************************************************************************)

\* Delete does not bump the revision: its receipt names the deleted one.
NewRevision(p) == IF p.method = "delete" THEN p.expected ELSE p.expected + 1

\* The hash of a create request leaves out the server-generated share id.
RequestHash(p) ==
  [method   |-> p.method,
   share    |-> IF p.method = "create" THEN NoShare ELSE p.share,
   expected |-> p.expected,
   playlist |-> p.playlist]

(***************************************************************************)
(* The guard insert.                                                       *)
(***************************************************************************)

Unclaimed(p) == receipts[p.key] = NoReceipt

\* Mutant: the guard forgets the expected revision.
HeldAtAnyRevision(p) ==
  /\ rows[p.share] # NoRow
  /\ rows[p.share].secret = p.secret

Held(p) ==
  /\ rows[p.share] # NoRow
  /\ rows[p.share].secret = p.secret
  /\ rows[p.share].revision = p.expected

InWindow(p) ==
  /\ rows[p.share].expires # NoTime
  /\ rows[p.share].expires > p.now

\* Mutant: replace accepts a provisional row.
ReplaceGuardAnyState(p) == Unclaimed(p) /\ Held(p)

CreateGuard(p)   == Unclaimed(p) /\ rows[p.share] = NoRow
ActivateGuard(p) == Unclaimed(p) /\ Held(p) /\ rows[p.share].state = "pending"
                                 /\ InWindow(p)
ReplaceGuard(p)  == Unclaimed(p) /\ Held(p) /\ rows[p.share].state = "active"
DeleteGuard(p)   == Unclaimed(p) /\ Held(p)

GuardHolds(p) ==
  \/ p.method = "create"   /\ CreateGuard(p)
  \/ p.method = "activate" /\ ActivateGuard(p)
  \/ p.method = "replace"  /\ ReplaceGuard(p)
  \/ p.method = "delete"   /\ DeleteGuard(p)

(***************************************************************************)
(* The four guarded batches.                                               *)
(***************************************************************************)

\* Finalize: the receipt of the batch, completed with its outcome.
Finalize(p, outcome) ==
  /\ receipts' = [receipts EXCEPT ![p.key] =
       [share |-> p.share, request |-> RequestHash(p), secret |-> p.secret,
        nonce |-> nonce, outcome |-> outcome, expires |-> p.now + ReceiptTtl]]
  /\ log' = log \cup
       {[key |-> p.key, share |-> p.share, request |-> RequestHash(p),
         nonce |-> nonce, outcome |-> outcome, now |-> p.now,
         expires |-> p.now + ReceiptTtl, at |-> clock]}

\* The outcome of a batch that leaves a row behind is read from that row.
OutcomeOf(s, row) == [share |-> s, revision |-> row.revision,
                      playlist |-> row.playlist, first |-> row.first]

\* Mutant: a created row is public at once.
CreatedRowActive(p) ==
  [state |-> "active", revision |-> 1, secret |-> p.secret,
   playlist |-> p.playlist, blocked |-> FALSE, first |-> p.now,
   expires |-> NoTime]

CreatedRow(p) ==
  [state |-> "pending", revision |-> 1, secret |-> p.secret,
   playlist |-> p.playlist, blocked |-> FALSE, first |-> NoTime,
   expires |-> p.now + ActivationWindow]

ActivatedRow(p) ==
  [rows[p.share] EXCEPT !.state = "active", !.revision = NewRevision(p),
                        !.first = p.now, !.expires = NoTime]

ReplacedRow(p) ==
  [rows[p.share] EXCEPT !.playlist = p.playlist, !.revision = NewRevision(p)]

Create(p) ==
  /\ p.method = "create"
  /\ CreateGuard(p)
  /\ rows' = [rows EXCEPT ![p.share] = CreatedRow(p)]
  /\ tagLinks' = [tagLinks EXCEPT ![p.share] = p.playlist.tags]
  /\ Finalize(p, OutcomeOf(p.share, CreatedRow(p)))

Activate(p) ==
  /\ p.method = "activate"
  /\ ActivateGuard(p)
  /\ rows' = [rows EXCEPT ![p.share] = ActivatedRow(p)]
  /\ Finalize(p, OutcomeOf(p.share, ActivatedRow(p)))
  /\ UNCHANGED tagLinks

\* Mutant: the receipt is finalized before the parent row is written.
ReplaceFinalizedFirst(p) ==
  /\ p.method = "replace"
  /\ ReplaceGuard(p)
  /\ Finalize(p, OutcomeOf(p.share, rows[p.share]))
  /\ rows' = [rows EXCEPT ![p.share] = ReplacedRow(p)]
  /\ tagLinks' = [tagLinks EXCEPT ![p.share] = p.playlist.tags]

\* Mutant: the old tag links are not deleted before the new ones go in.
ReplaceKeepsOldLinks(p) ==
  /\ p.method = "replace"
  /\ ReplaceGuard(p)
  /\ rows' = [rows EXCEPT ![p.share] = ReplacedRow(p)]
  /\ tagLinks' = [tagLinks EXCEPT ![p.share] = @ \cup p.playlist.tags]
  /\ Finalize(p, OutcomeOf(p.share, ReplacedRow(p)))

Replace(p) ==
  /\ p.method = "replace"
  /\ ReplaceGuard(p)
  /\ rows' = [rows EXCEPT ![p.share] = ReplacedRow(p)]
  /\ tagLinks' = [tagLinks EXCEPT ![p.share] = p.playlist.tags]
  /\ Finalize(p, OutcomeOf(p.share, ReplacedRow(p)))

Delete(p) ==
  /\ p.method = "delete"
  /\ DeleteGuard(p)
  /\ rows' = [rows EXCEPT ![p.share] = NoRow]
  /\ tagLinks' = [tagLinks EXCEPT ![p.share] = {}]
  /\ Finalize(p, [share |-> p.share, revision |-> p.expected,
                  playlist |-> NoPlaylist, first |-> NoTime])

\* The guard inserted no row: every dependent write is gated off.
Refuse(p) ==
  /\ ~GuardHolds(p)
  /\ UNCHANGED <<rows, tagLinks, receipts, log>>

Submit(p) ==
  /\ nonce < MaxBatches
  /\ nonce' = nonce + 1
  /\ \/ Create(p)
     \/ Activate(p)
     \/ Replace(p)
     \/ Delete(p)
     \/ Refuse(p)
  /\ UNCHANGED <<clock, taken>>

(***************************************************************************)
(* Expiry, retention, and the statements of an operator takedown.          *)
(***************************************************************************)

Lapsed(row, now) ==
  /\ row # NoRow
  /\ row.state = "pending"
  /\ row.expires # NoTime
  /\ row.expires <= now

SweepPending(now) ==
  /\ rows' = [s \in ShareIds |->
                IF Lapsed(rows[s], now) THEN NoRow ELSE rows[s]]
  /\ tagLinks' = [s \in ShareIds |->
                    IF Lapsed(rows[s], now) THEN {} ELSE tagLinks[s]]
  /\ UNCHANGED <<clock, receipts, nonce, log, taken>>

\* Mutant: off by one, a receipt is pruned before its TTL is over.
ReceiptDueEarly(k, now) ==
  /\ receipts[k] # NoReceipt
  /\ receipts[k].expires <= now + 1

ReceiptDue(k, now) ==
  /\ receipts[k] # NoReceipt
  /\ receipts[k].expires <= now

PruneReceipts(now) ==
  /\ receipts' = [k \in Keys |->
                    IF ReceiptDue(k, now) THEN NoReceipt ELSE receipts[k]]
  /\ UNCHANGED <<clock, rows, tagLinks, nonce, log, taken>>

BlockRow(s) ==
  /\ rows' = [rows EXCEPT ![s] =
                IF @ = NoRow THEN NoRow ELSE [@ EXCEPT !.blocked = TRUE]]
  /\ taken' = taken \cup {s}
  /\ UNCHANGED <<clock, tagLinks, receipts, nonce, log>>

PurgeTags(s) ==
  /\ tagLinks' = [tagLinks EXCEPT ![s] = {}]
  /\ UNCHANGED <<clock, rows, receipts, nonce, log, taken>>

PurgeReceipts(s) ==
  /\ receipts' = [k \in Keys |->
       IF receipts[k] # NoReceipt /\ receipts[k].share = s
       THEN NoReceipt ELSE receipts[k]]
  /\ UNCHANGED <<clock, rows, tagLinks, nonce, log, taken>>

\* playlist_tags rows go with their parent (ON DELETE CASCADE).
RemoveRow(s) ==
  /\ rows' = [rows EXCEPT ![s] = NoRow]
  /\ tagLinks' = [tagLinks EXCEPT ![s] = {}]
  /\ UNCHANGED <<clock, receipts, nonce, log, taken>>

\* An operator names a publication that exists or once existed.
TakedownStatement(s) ==
  \/ (\E e \in log : e.share = s) /\ BlockRow(s)
  \/ s \in taken /\ (PurgeTags(s) \/ PurgeReceipts(s) \/ RemoveRow(s))

Tick ==
  /\ clock < MaxTime
  /\ clock' = clock + 1
  /\ UNCHANGED <<rows, tagLinks, receipts, nonce, log, taken>>

(***************************************************************************)
(* The store under any client: plans of any age, in any order.             *)
(***************************************************************************)

WellFormed(p) ==
  \/ /\ p.method = "create"
     /\ p.secret = p.share /\ p.expected = 0 /\ p.playlist # NoPlaylist
  \/ /\ p.method = "activate"
     /\ p.expected = 1 /\ p.playlist = NoPlaylist
  \/ /\ p.method = "replace"
     /\ p.expected \in Revisions /\ p.playlist # NoPlaylist
  \/ /\ p.method = "delete"
     /\ p.expected \in Revisions /\ p.playlist = NoPlaylist

\* Share ids are 16 random bytes, so a create carries an id of its own; it
\* can meet its own earlier attempt only while that attempt's receipt stands.
FreshShare(p) ==
  p.method = "create" =>
    \/ \A e \in log : e.share # p.share
    \/ ~Unclaimed(p)

Requests ==
  [method : Methods, key : Keys, share : ShareIds, secret : Secrets,
   expected : {0, 1} \cup Revisions, playlist : Playlists \cup {NoPlaylist},
   now : 0 .. MaxTime]

Plans == {p \in Requests : WellFormed(p)}

StoreInit ==
  /\ clock = 0
  /\ rows = [s \in ShareIds |-> NoRow]
  /\ tagLinks = [s \in ShareIds |-> {}]
  /\ receipts = [k \in Keys |-> NoReceipt]
  /\ nonce = 0
  /\ log = {}
  /\ taken = {}

StoreNext ==
  \/ \E p \in Plans : p.now <= clock /\ FreshShare(p) /\ Submit(p)
  \/ \E now \in 0 .. clock : SweepPending(now) \/ PruneReceipts(now)
  \/ \E s \in ShareIds : TakedownStatement(s)
  \/ Tick

StoreSpec == StoreInit /\ [][StoreNext]_storeVars

(***************************************************************************)
(* Properties.                                                             *)
(***************************************************************************)

\* Every table holds well-formed rows (the CHECK constraints and the row
\* decoders of rows.ts), and the history variables well-formed entries.
StoreTypeOK ==
  /\ clock \in Nat
  /\ rows \in [ShareIds -> Row \cup {NoRow}]
  /\ tagLinks \in [ShareIds -> SUBSET Tags]
  /\ receipts \in [Keys -> Receipt \cup {NoReceipt}]
  /\ nonce \in Nat
  /\ log \subseteq LogEntry
  /\ taken \subseteq ShareIds

Writes == {e \in log : e.request.method # "delete"}

\* One Idempotency-Key is applied at most once while its receipt is due to
\* stand: of two applications of a key the later one commits only after the
\* earlier one's receipt ran out, unless an operator took that share down.
AtMostOncePerKey ==
  \A e, f \in log :
    e.key = f.key /\ e.nonce < f.nonce => e.expires <= f.at \/ e.share \in taken

\* Compare-and-swap: no revision of a publication is ever written twice, so
\* no accepted replace is silently overwritten by one based on the same
\* revision (guard.ts: share, secret, expected revision and state together).
NoLostUpdate ==
  \A e, f \in Writes :
    e.share = f.share /\ e.outcome.revision = f.outcome.revision => e = f

\* A row is what the newest applied batch of its share acknowledged, and is
\* active exactly when an activate is among those batches.
RowIsNewestWrite ==
  \A s \in ShareIds :
    rows[s] # NoRow =>
      /\ \E e \in Writes : e.outcome = OutcomeOf(s, rows[s])
      /\ \A e \in Writes : e.share = s => e.outcome.revision <= rows[s].revision
      /\ rows[s].state = "active"
           <=> \E e \in Writes : e.share = s /\ e.request.method = "activate"

\* A replayed acknowledgement never contradicts the publication: the row has
\* not fallen behind the outcome a stored receipt would replay, and at that
\* very revision it still holds the acknowledged content (internal.ts: "the
\* recorded acknowledgement always matches persisted state").
ReceiptNeverContradictsRow ==
  \A k \in Keys :
    LET o == receipts[k].outcome
    IN  receipts[k] # NoReceipt /\ rows[o.share] # NoRow =>
          /\ o.revision <= rows[o.share].revision
          /\ o.revision = rows[o.share].revision
               => o.playlist = rows[o.share].playlist

\* A provisional publication is activated only by a request taken in before
\* its window closed, whatever the sweep has or has not removed by then.
NoLateActivation ==
  \A e, f \in log :
    /\ e.share = f.share
    /\ e.request.method = "create" /\ f.request.method = "activate"
    => f.now < e.now + ActivationWindow

\* The relational tag index agrees with the rows: no link without its row,
\* and exactly the row's tags unless a takedown is under way.
TagIndexAgrees ==
  \A s \in ShareIds :
    IF rows[s] = NoRow THEN tagLinks[s] = {}
    ELSE s \notin taken => tagLinks[s] = rows[s].playlist.tags

\* A publication disappears only by an authenticated delete, by a takedown,
\* or because its activation window is over by the present clock: the lazy
\* sweep, whatever stale time it runs with, never removes an active row.
RemovalIsJustified ==
  [][\A s \in ShareIds :
       rows[s] # NoRow /\ rows'[s] = NoRow =>
         \/ s \in taken
         \/ rows[s].state = "pending" /\ rows[s].expires <= clock
         \/ \E e \in log' \ log :
              e.share = s /\ e.request.method = "delete"]_storeVars

\* A publication that is gone stays gone: no replayed or late batch revives
\* a deleted, expired or removed share.
GoneStaysGone ==
  [][\A s \in ShareIds :
       rows[s] = NoRow /\ (\E e \in log : e.share = s) => rows'[s] = NoRow]_storeVars

(***************************************************************************)
(* What the tables promise, seen from outside (PublicationLedger).         *)
(***************************************************************************)

Standing(s) ==
  IF rows[s] # NoRow
  THEN [phase    |-> IF rows[s].state = "pending" THEN "provisional" ELSE "public",
        revision |-> rows[s].revision,
        playlist |-> rows[s].playlist,
        hidden   |-> rows[s].blocked]
  ELSE [phase    |-> IF \E e \in log : e.share = s THEN "gone" ELSE "unborn",
        revision |-> 0, playlist |-> NoPlaylist, hidden |-> FALSE]

Remembered(k) ==
  IF receipts[k] = NoReceipt THEN NoReceipt
  ELSE [method   |-> receipts[k].request.method,
        share    |-> receipts[k].share,
        revision |-> receipts[k].outcome.revision]

Ledger == INSTANCE PublicationLedger
            WITH pubs <- [s \in ShareIds |-> Standing(s)],
                 done <- [k \in Keys |-> Remembered(k)],
                 Unused <- NoReceipt

\* Whatever the tables do, seen from outside, is a step of the ledger: each
\* accepted batch is one idempotent step of one publication's life.
ImplementsLedger == Ledger!LedgerSpec
===============================================================================

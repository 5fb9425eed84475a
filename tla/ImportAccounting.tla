--------------------------- MODULE ImportAccounting ---------------------------
(***************************************************************************)
(* The anonymous import counters of the share service.                     *)
(*                                                                         *)
(* POST /api/v1/playlists/:shareId/import runs one D1 batch: it clears the *)
(* receipts of its event and its actor that have run out, mints an actor   *)
(* receipt if the share is public and the actor key unseen, mints an event *)
(* receipt if it has minted the actor receipt and the event is unseen, and *)
(* counts, in the bucket of the day and for life, if it has minted the     *)
(* event receipt.  Receipts carry the batch's fresh nonce, so "carries my  *)
(* nonce" is "minted by this batch", and the nonce is not in the model.    *)
(*                                                                         *)
(* The handler takes the time at its intake (p.now) and, one await later,  *)
(* the UTC day for the actor's digest (p.day).  Beside it run the life of  *)
(* the publications, the scheduled cleanup and the operator's takedown.    *)
(***************************************************************************)
EXTENDS Naturals, FiniteSets

CONSTANTS
  ShareIds,
  Events,           \* random event ids of clients
  Actors,           \* connecting addresses
  Requests,         \* concurrent import notifications
  NoReceipt, NoRequest, NoDay,
  Day(_),           \* the UTC day of an instant
  ReceiptTtl,       \* IMPORT_RECEIPT_TTL_MS
  RetentionDays,    \* DAY_BUCKET_RETENTION_DAYS, also the longest ranking window
  RequestLifetime,  \* no request is in flight longer than this
  MaxAttempts,      \* GUARD_MAX_ATTEMPTS
  MaxTime,          \* bound: the clock stops here
  MaxBatches        \* bound: how many batches are sent

Times == 0 .. MaxTime
Days  == {Day(t) : t \in Times}

ASSUME DayAssumption ==
  /\ MaxTime \in Nat
  /\ \A t \in Times : Day(t) \in Nat
  /\ \A t, u \in Times : t <= u => Day(t) <= Day(u)
  /\ NoDay \notin Nat
ASSUME LifetimeAssumption ==
  /\ ReceiptTtl \in Nat /\ RequestLifetime \in Nat
  /\ RetentionDays \in Nat \ {0}
  /\ MaxAttempts \in Nat \ {0} /\ MaxBatches \in Nat
  \* A receipt of 48 hours outlives a day and two requests of seconds.
  /\ \A t, u \in Times : Day(t) = Day(u) => u + 2 * RequestLifetime < t + ReceiptTtl

\* A row of playlists, as far as counting goes: "pending" before activation
\* (no row yet, or a provisional one), "blocked" to "purged" in the course of
\* an operator takedown.
Standings == {"pending", "public", "unlisted", "blocked", "emptied", "purged", "gone"}

ReceiptRow == [share : ShareIds, expires : Nat]

RequestState == [event : Events, actor : Actors, share : ShareIds, now : Times,
                 day : Days \cup {NoDay}, attempt : 0 .. MaxAttempts - 1]

ASSUME NullAssumption ==
  /\ NoReceipt \notin ReceiptRow
  /\ NoRequest \notin RequestState

VARIABLES
  clock,
  shares,         \* the standing of each publication
  lifetime,       \* playlists.import_count
  daily,          \* import_daily, 0 where there is no bucket
  eventReceipts,  \* import_receipts under event hashes
  actorReceipts,  \* import_receipts under actor hashes: actor, digest day and share
  request,        \* the notifications in flight
  batches,        \* how many batches were sent
  log             \* history: every notification that counted

tables == <<shares, lifetime, daily, eventReceipts, actorReceipts>>
importVars == <<clock, tables, request, batches, log>>

Entry == [id : Nat, event : Events, actor : Actors, share : ShareIds, now : Times,
          day : Days, at : Times]

(***************************************************************************)
(* The counting batch.                                                     *)
(***************************************************************************)

ActorKey(p) == <<p.actor, p.day, p.share>>

\* Mutant: off by one, a receipt runs out in its last instant.
LiveTooShort(receipt, now) == receipt # NoReceipt /\ receipt.expires > now + 1

\* What is left of a receipt when those that have run out are cleared.
Live(receipt, now) == receipt # NoReceipt /\ receipt.expires > now

\* Mutant: the actor's receipt does not stop a second event.
AdmitsEveryEvent(p) == shares[p.share] = "public"

\* The batch mints the actor receipt.
Admits(p) ==
  /\ shares[p.share] = "public"
  /\ ~Live(actorReceipts[ActorKey(p)], p.now)

\* The batch mints the event receipt too, and counts.
Counts(p) ==
  /\ Admits(p)
  /\ ~Live(eventReceipts[p.event], p.now)

Minted(p) == [share |-> p.share, expires |-> p.now + ReceiptTtl]

Kept(receipt, now) == IF Live(receipt, now) THEN receipt ELSE NoReceipt

Batch(p) ==
  /\ actorReceipts' = [actorReceipts EXCEPT ![ActorKey(p)] =
                         IF Admits(p) THEN Minted(p) ELSE Kept(@, p.now)]
  /\ eventReceipts' = [eventReceipts EXCEPT ![p.event] =
                         IF Counts(p) THEN Minted(p) ELSE Kept(@, p.now)]
  /\ IF Counts(p)
     THEN /\ daily' = [daily EXCEPT ![p.share][Day(p.now)] = @ + 1]
          /\ lifetime' = [lifetime EXCEPT ![p.share] = @ + 1]
          /\ log' = log \cup
               {[id |-> batches, event |-> p.event, actor |-> p.actor,
                 share |-> p.share, now |-> p.now, day |-> p.day, at |-> clock]}
     ELSE UNCHANGED <<daily, lifetime, log>>

(***************************************************************************)
(* The handler.                                                            *)
(***************************************************************************)

\* Any client names any share, with an event id of its own or one it has
\* used before (the extension sends a notification twice when it must).
Arrive(r, e, a, s) ==
  /\ request[r] = NoRequest
  /\ request' = [request EXCEPT ![r] =
       [event |-> e, actor |-> a, share |-> s, now |-> clock, day |-> NoDay,
        attempt |-> 0]]
  /\ UNCHANGED <<clock, tables, batches, log>>

\* actorDigest reads the clock itself, after the sweep was awaited.
Digest(r) ==
  /\ request[r] # NoRequest
  /\ request[r].day = NoDay
  /\ request' = [request EXCEPT ![r].day = Day(clock)]
  /\ UNCHANGED <<clock, tables, batches, log>>

\* The batch was busy: it is sent again while attempts are left.
Retry(r) ==
  /\ request[r].attempt + 1 < MaxAttempts
  /\ request' = [request EXCEPT ![r].attempt = @ + 1]

Finish(r) == request' = [request EXCEPT ![r] = NoRequest]

\* The batch commits, and is reported so or busy or failed.
CountImport(r) ==
  /\ request[r] # NoRequest
  /\ request[r].day # NoDay
  /\ batches < MaxBatches
  /\ batches' = batches + 1
  /\ Batch(request[r])
  /\ Finish(r) \/ Retry(r)
  /\ UNCHANGED <<clock, shares>>

\* The batch does not commit and is sent again.
BatchAborts(r) ==
  /\ request[r] # NoRequest
  /\ request[r].day # NoDay
  /\ Retry(r)
  /\ UNCHANGED <<clock, tables, batches, log>>

\* Any awaited call may fail for good: 503, and nothing is tried again.
Fail(r) ==
  /\ request[r] # NoRequest
  /\ Finish(r)
  /\ UNCHANGED <<clock, tables, batches, log>>

(***************************************************************************)
(* The publications, the takedown and the cleanup.                         *)
(***************************************************************************)

Stand(s, standing) == shares' = [shares EXCEPT ![s] = standing]

PurgeDaily(s) == daily' = [daily EXCEPT ![s] = [d \in Days |-> 0]]

\* Mutant: the receipts are left behind.
PurgeNoReceipts(s) == UNCHANGED <<eventReceipts, actorReceipts>>

PurgeReceipts(s) ==
  /\ eventReceipts' = [e \in Events |->
       IF eventReceipts[e] # NoReceipt /\ eventReceipts[e].share = s
       THEN NoReceipt ELSE eventReceipts[e]]
  /\ actorReceipts' = [k \in Actors \X Days \X ShareIds |->
       IF actorReceipts[k] # NoReceipt /\ actorReceipts[k].share = s
       THEN NoReceipt ELSE actorReceipts[k]]

RemoveRow(s) ==
  /\ Stand(s, "gone")
  /\ lifetime' = [lifetime EXCEPT ![s] = 0]

\* Activation makes a snapshot public or unlisted, a replace may change that.
Publish(s, standing) ==
  /\ shares[s] \in {"pending", "public", "unlisted"}
  /\ Stand(s, standing)
  /\ UNCHANGED <<clock, lifetime, daily, eventReceipts, actorReceipts, request,
                 batches, log>>

\* The owner's delete purges everything in one batch, whatever the state of
\* the row.  The sweep of a provisional row, which nothing was ever counted
\* for, has this effect too.
DeleteShare(s) ==
  /\ shares[s] # "gone"
  /\ RemoveRow(s) /\ PurgeDaily(s) /\ PurgeReceipts(s)
  /\ UNCHANGED <<clock, request, batches, log>>

\* The takedown's statements, one at a time; it may stop after any of them,
\* and starting over does again what is done.
Takedown(s) ==
  /\ \/ /\ shares[s] \in {"pending", "public", "unlisted"}
        /\ Stand(s, "blocked")
        /\ UNCHANGED <<lifetime, daily, eventReceipts, actorReceipts>>
     \/ /\ shares[s] = "blocked"
        /\ Stand(s, "emptied") /\ PurgeDaily(s)
        /\ UNCHANGED <<lifetime, eventReceipts, actorReceipts>>
     \/ /\ shares[s] = "emptied"
        /\ Stand(s, "purged") /\ PurgeReceipts(s)
        /\ UNCHANGED <<lifetime, daily>>
     \/ /\ shares[s] = "purged"
        /\ RemoveRow(s)
        /\ UNCHANGED <<daily, eventReceipts, actorReceipts>>
  /\ UNCHANGED <<clock, request, batches, log>>

\* Mutant: the last day of the longest ranking window goes too.
BucketDueEarly(d, now) == d + RetentionDays <= Day(now) + 1

\* day < dayCutoff, where dayCutoff is the timestamp RetentionDays before now:
\* as strings, the cutoff's own day is less than it too.
BucketDue(d, now) == d + RetentionDays <= Day(now)

Prune(now) ==
  /\ daily' = [s \in ShareIds |->
                 [d \in Days |-> IF BucketDue(d, now) THEN 0 ELSE daily[s][d]]]
  /\ eventReceipts' = [e \in Events |-> Kept(eventReceipts[e], now)]
  /\ actorReceipts' = [k \in Actors \X Days \X ShareIds |-> Kept(actorReceipts[k], now)]
  /\ UNCHANGED <<clock, shares, lifetime, request, batches, log>>

Tick ==
  /\ clock < MaxTime
  /\ \A r \in Requests :
       request[r] # NoRequest => clock < request[r].now + RequestLifetime
  /\ clock' = clock + 1
  /\ UNCHANGED <<tables, request, batches, log>>

ImportInit ==
  /\ clock = 0
  /\ shares = [s \in ShareIds |-> "pending"]
  /\ lifetime = [s \in ShareIds |-> 0]
  /\ daily = [s \in ShareIds |-> [d \in Days |-> 0]]
  /\ eventReceipts = [e \in Events |-> NoReceipt]
  /\ actorReceipts = [k \in Actors \X Days \X ShareIds |-> NoReceipt]
  /\ request = [r \in Requests |-> NoRequest]
  /\ batches = 0
  /\ log = {}

ImportNext ==
  \/ \E r \in Requests :
       \/ \E e \in Events, a \in Actors, s \in ShareIds : Arrive(r, e, a, s)
       \/ Digest(r) \/ CountImport(r) \/ BatchAborts(r) \/ Fail(r)
  \/ \E s \in ShareIds :
       \/ Publish(s, "public") \/ Publish(s, "unlisted")
       \/ DeleteShare(s) \/ Takedown(s)
  \/ \E now \in 0 .. clock : Prune(now)
  \/ Tick

ImportSpec == ImportInit /\ [][ImportNext]_importVars

(***************************************************************************)
(* Properties.                                                             *)
(***************************************************************************)

\* Tables, requests and history are well formed.
ImportTypeOK ==
  /\ clock \in Times
  /\ shares \in [ShareIds -> Standings]
  /\ lifetime \in [ShareIds -> Nat]
  /\ daily \in [ShareIds -> [Days -> Nat]]
  /\ eventReceipts \in [Events -> ReceiptRow \cup {NoReceipt}]
  /\ actorReceipts \in [Actors \X Days \X ShareIds -> ReceiptRow \cup {NoReceipt}]
  /\ request \in [Requests -> RequestState \cup {NoRequest}]
  /\ batches \in Nat
  /\ log \subseteq Entry

\* Standings in which the row and its buckets are as its life made them.
Settled(s) == shares[s] \in {"public", "unlisted", "blocked"}

\* The lifetime counter of a publication is the number of notifications that
\* counted for it, whatever was retried, pruned or refused in between.
LifetimeIsExact ==
  \A s \in ShareIds :
    Settled(s) => lifetime[s] = Cardinality({e \in log : e.share = s})

\* Every bucket that a ranking by day can look at holds what was counted on
\* its day: retention never reaches into the longest ranking window.
WindowIsExact ==
  \A s \in ShareIds, d \in Days :
    Settled(s) /\ Day(clock) < d + RetentionDays =>
      daily[s][d] = Cardinality({e \in log : e.share = s /\ Day(e.now) = d})

\* One event counts at most once while its receipt is due to stand, however
\* often it is sent, unless the publication it counted for was removed.
EventCountsOnce ==
  \A e, f \in log :
    e.event = f.event /\ e.id < f.id =>
      \/ e.now + ReceiptTtl <= f.at
      \/ shares[e.share] \in {"purged", "gone"}

\* An actor counts at most once for a share under the digest of one day,
\* with whatever events and however the requests overlap midnight.
ActorCountsOncePerDay ==
  \A e, f \in log :
    e.actor = f.actor /\ e.share = f.share /\ e.day = f.day => e = f

\* Nothing is kept, or ever recorded again, of a publication that is gone
\* (or not activated yet), whatever notifications were in flight when it went.
NothingKeptOfGone ==
  \A s \in ShareIds :
    shares[s] \in {"pending", "gone"} =>
      /\ lifetime[s] = 0
      /\ \A d \in Days : daily[s][d] = 0
      /\ \A e \in Events : eventReceipts[e] # NoReceipt => eventReceipts[e].share # s
      /\ \A k \in Actors \X Days \X ShareIds :
           actorReceipts[k] # NoReceipt => actorReceipts[k].share # s

===============================================================================

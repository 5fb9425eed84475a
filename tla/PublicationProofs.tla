--------------------------- MODULE PublicationProofs ---------------------------
(***************************************************************************)
(* Proofs about PublicationStore and about the handlers of PublicationApi  *)
(* that use it, for any number of concurrent requests, shares, keys,       *)
(* playlists, revisions and attempts, any windows and any answers lost.    *)
(*                                                                         *)
(* First the tables, for every client (StoreSpec), then the handlers.      *)
(***************************************************************************)
EXTENDS PublicationApi, TLAPS

(***************************************************************************)
(* Type correctness.                                                       *)
(***************************************************************************)

\* A well-formed plan is a request, and a plan that writes carries a playlist.
LEMMA PlanFacts ==
  ASSUME NEW p \in Plans
  PROVE  /\ p \in Plan /\ WellFormed(p)
         /\ RequestHash(p) \in RequestShape
         /\ NewRevision(p) \in Nat
         /\ p.method \in {"create", "replace"} => p.playlist \in Playlists
<1>1. /\ p.method \in Methods /\ p.key \in Keys /\ p.share \in ShareIds
      /\ p.secret \in Secrets /\ p.playlist \in Playlists \cup {NoPlaylist}
      /\ p.expected \in Nat /\ p.now \in Nat
  <2>1. p.expected \in {0, 1} \cup Revisions /\ p.now \in 0 .. MaxTime
    BY Zenon DEF Plans, Requests
  <2>2. (\A e \in {0, 1} \cup Revisions : e \in Nat) /\ 0 .. MaxTime \subseteq Nat
    BY TimeAssumption
  <2>3. QED
    BY <2>1, <2>2, Zenon DEF Plans, Requests
<1>2. p \in Plan
  <2>1. p = [method |-> p.method, key |-> p.key, share |-> p.share,
             secret |-> p.secret, expected |-> p.expected,
             playlist |-> p.playlist, now |-> p.now]
    BY DEF Plans, Requests
  <2>2. QED
    BY <1>1, <2>1 DEF Plan
<1>3. RequestHash(p) \in RequestShape
  BY <1>1 DEF RequestHash, RequestShape
<1>4. NewRevision(p) \in Nat
  BY <1>1 DEF NewRevision
<1>5. WellFormed(p) /\ (p.method \in {"create", "replace"} => p.playlist \in Playlists)
  BY <1>1 DEF Plans, Requests, WellFormed
<1>6. QED
  BY <1>2, <1>3, <1>4, <1>5

\* Finalize keeps the receipts and the log well formed.
LEMMA FinalizeType ==
  ASSUME StoreTypeOK, NEW p \in Plan, RequestHash(p) \in RequestShape,
         NEW o \in Outcome, Finalize(p, o)
  PROVE  /\ receipts' \in [Keys -> Receipt \cup {NoReceipt}]
         /\ log' \subseteq LogEntry
<1> USE TimeAssumption DEF Plan
<1>1. p.now + ReceiptTtl \in Nat
  OBVIOUS
<1>2. [share |-> p.share, request |-> RequestHash(p), secret |-> p.secret,
       nonce |-> nonce, outcome |-> o, expires |-> p.now + ReceiptTtl] \in Receipt
  BY <1>1 DEF StoreTypeOK, Receipt
<1>3. [key |-> p.key, share |-> p.share, request |-> RequestHash(p),
       nonce |-> nonce, outcome |-> o, now |-> p.now,
       expires |-> p.now + ReceiptTtl, at |-> clock] \in LogEntry
  BY <1>1 DEF StoreTypeOK, LogEntry
<1>4. QED
  BY <1>2, <1>3 DEF Finalize, StoreTypeOK

\* A row written by an accepted plan is a row, and its outcome an outcome.
LEMMA RowType ==
  ASSUME StoreTypeOK, NEW p \in Plans, WellFormed(p)
  PROVE  /\ p.method = "create" =>
              CreatedRow(p) \in Row /\ OutcomeOf(p.share, CreatedRow(p)) \in Outcome
         /\ p.method = "activate" /\ ActivateGuard(p) =>
              ActivatedRow(p) \in Row /\ OutcomeOf(p.share, ActivatedRow(p)) \in Outcome
         /\ p.method = "replace" /\ ReplaceGuard(p) =>
              ReplacedRow(p) \in Row /\ OutcomeOf(p.share, ReplacedRow(p)) \in Outcome
<1> USE PlanFacts DEF Plan, Row, Outcome, OutcomeOf, Times
<1>1. ASSUME p.method = "create"
      PROVE  CreatedRow(p) \in Row /\ OutcomeOf(p.share, CreatedRow(p)) \in Outcome
  BY <1>1, TimeAssumption DEF CreatedRow
<1>2. ASSUME rows[p.share] # NoRow
      PROVE  rows[p.share] \in Row
  BY <1>2 DEF StoreTypeOK
<1>3. ASSUME p.method = "activate", ActivateGuard(p)
      PROVE  ActivatedRow(p) \in Row /\ OutcomeOf(p.share, ActivatedRow(p)) \in Outcome
  BY <1>2, <1>3 DEF ActivatedRow, ActivateGuard, Held
<1>4. ASSUME p.method = "replace", ReplaceGuard(p)
      PROVE  ReplacedRow(p) \in Row /\ OutcomeOf(p.share, ReplacedRow(p)) \in Outcome
  BY <1>2, <1>4 DEF ReplacedRow, ReplaceGuard, Held
<1>5. QED
  BY <1>1, <1>3, <1>4

LEMMA SubmitType ==
  ASSUME StoreTypeOK, NEW p \in Plans, WellFormed(p), Submit(p)
  PROVE  StoreTypeOK'
<1>1. /\ p \in Plan
      /\ RequestHash(p) \in RequestShape
      /\ p.method \in {"create", "replace"} =>
           p.playlist \in Playlists /\ p.playlist.tags \subseteq Tags
  BY PlanFacts, PlaylistAssumption DEF PlaylistShape
<1>2. clock' \in Nat /\ nonce' \in Nat /\ taken' \subseteq ShareIds
  BY DEF StoreTypeOK, Submit
<1>3. CASE Create(p)
  <2>1. rows' \in [ShareIds -> Row \cup {NoRow}]
    BY <1>1, <1>3, RowType DEF Create, StoreTypeOK, Plan
  <2>2. tagLinks' \in [ShareIds -> SUBSET Tags]
    BY <1>1, <1>3 DEF Create, StoreTypeOK
  <2>3. receipts' \in [Keys -> Receipt \cup {NoReceipt}] /\ log' \subseteq LogEntry
    BY <1>1, <1>3, RowType, FinalizeType DEF Create
  <2>4. QED
    BY <1>2, <2>1, <2>2, <2>3 DEF StoreTypeOK
<1>4. CASE Activate(p)
  <2>1. rows' \in [ShareIds -> Row \cup {NoRow}] /\ tagLinks' \in [ShareIds -> SUBSET Tags]
    BY <1>1, <1>4, RowType DEF Activate, StoreTypeOK, Plan
  <2>2. receipts' \in [Keys -> Receipt \cup {NoReceipt}] /\ log' \subseteq LogEntry
    BY <1>1, <1>4, RowType, FinalizeType DEF Activate
  <2>3. QED
    BY <1>2, <2>1, <2>2 DEF StoreTypeOK
<1>5. CASE Replace(p)
  <2>1. rows' \in [ShareIds -> Row \cup {NoRow}]
    BY <1>1, <1>5, RowType DEF Replace, StoreTypeOK, Plan
  <2>2. tagLinks' \in [ShareIds -> SUBSET Tags]
    BY <1>1, <1>5 DEF Replace, StoreTypeOK
  <2>3. receipts' \in [Keys -> Receipt \cup {NoReceipt}] /\ log' \subseteq LogEntry
    BY <1>1, <1>5, RowType, FinalizeType DEF Replace
  <2>4. QED
    BY <1>2, <2>1, <2>2, <2>3 DEF StoreTypeOK
<1>6. CASE Delete(p)
  <2>1. rows' \in [ShareIds -> Row \cup {NoRow}] /\ tagLinks' \in [ShareIds -> SUBSET Tags]
    BY <1>6 DEF Delete, StoreTypeOK
  <2>2. [share |-> p.share, revision |-> p.expected,
         playlist |-> NoPlaylist, first |-> NoTime] \in Outcome
    BY <1>1 DEF Plan, Outcome, Times
  <2>3. receipts' \in [Keys -> Receipt \cup {NoReceipt}] /\ log' \subseteq LogEntry
    BY <1>1, <1>6, <2>2, FinalizeType DEF Delete
  <2>4. QED
    BY <1>2, <2>1, <2>3 DEF StoreTypeOK
<1>7. CASE Refuse(p)
  BY <1>2, <1>7 DEF Refuse, StoreTypeOK
<1>8. QED
  BY <1>3, <1>4, <1>5, <1>6, <1>7 DEF Submit

LEMMA TypeStep ==
  ASSUME StoreTypeOK, [StoreNext]_storeVars
  PROVE  StoreTypeOK'
<1>1. CASE \E p \in Plans : p.now <= clock /\ FreshShare(p) /\ Submit(p)
  BY <1>1, SubmitType, PlanFacts
<1>2. ASSUME NEW now \in 0 .. clock, SweepPending(now)
      PROVE  StoreTypeOK'
  BY <1>2 DEF SweepPending, StoreTypeOK
<1>3. ASSUME NEW now \in 0 .. clock, PruneReceipts(now)
      PROVE  StoreTypeOK'
  BY <1>3 DEF PruneReceipts, StoreTypeOK
<1>4. ASSUME NEW s \in ShareIds, TakedownStatement(s)
      PROVE  StoreTypeOK'
  <2>1. CASE BlockRow(s)
    <3>1. rows[s] # NoRow => [rows[s] EXCEPT !.blocked = TRUE] \in Row
      BY DEF StoreTypeOK, Row
    <3>2. rows' \in [ShareIds -> Row \cup {NoRow}]
      BY <2>1, <3>1 DEF BlockRow, StoreTypeOK
    <3>3. QED
      BY <2>1, <3>2 DEF BlockRow, StoreTypeOK
  <2>2. CASE PurgeTags(s)
    BY <2>2 DEF PurgeTags, StoreTypeOK
  <2>3. CASE PurgeReceipts(s)
    BY <2>3 DEF PurgeReceipts, StoreTypeOK
  <2>4. CASE RemoveRow(s)
    BY <2>4 DEF RemoveRow, StoreTypeOK
  <2>5. QED
    BY <1>4, <2>1, <2>2, <2>3, <2>4 DEF TakedownStatement
<1>5. CASE Tick
  BY <1>5 DEF Tick, StoreTypeOK
<1>6. CASE UNCHANGED storeVars
  BY <1>6 DEF storeVars, StoreTypeOK
<1>7. QED
  BY <1>1, <1>2, <1>3, <1>4, <1>5, <1>6 DEF StoreNext

\* The tables only ever hold well-formed rows, whatever clients send.
THEOREM TypeCorrect == StoreSpec => []StoreTypeOK
<1>1. StoreInit => StoreTypeOK
  BY DEF StoreInit, StoreTypeOK
<1>2. StoreTypeOK /\ [StoreNext]_storeVars => StoreTypeOK'
  BY TypeStep
<1>3. QED
  BY <1>1, <1>2, PTL DEF StoreSpec

(***************************************************************************)
(* What a step does to the log and to the rows.                            *)
(***************************************************************************)

\* The entry with which the plan p joins the log.
Entry(p, o) ==
  [key |-> p.key, share |-> p.share, request |-> RequestHash(p), nonce |-> nonce,
   outcome |-> o, now |-> p.now, expires |-> p.now + ReceiptTtl, at |-> clock]

AppliedOutcome(p) ==
  CASE p.method = "create"   -> OutcomeOf(p.share, CreatedRow(p))
    [] p.method = "activate" -> OutcomeOf(p.share, ActivatedRow(p))
    [] p.method = "replace"  -> OutcomeOf(p.share, ReplacedRow(p))
    [] p.method = "delete"   -> [share |-> p.share, revision |-> p.expected,
                                 playlist |-> NoPlaylist, first |-> NoTime]

Accepted(p) == Create(p) \/ Activate(p) \/ Replace(p) \/ Delete(p)

\* No row appears, and one that stays keeps all but its blocked flag.
RowsKept ==
  \A s \in ShareIds :
    rows'[s] # NoRow =>
      /\ rows[s] # NoRow
      /\ rows'[s].state = rows[s].state
      /\ rows'[s].revision = rows[s].revision
      /\ rows'[s].playlist = rows[s].playlist
      /\ rows'[s].first = rows[s].first
      /\ rows'[s].expires = rows[s].expires
      /\ rows'[s].secret = rows[s].secret

\* No receipt appears or changes.
ReceiptsKept ==
  \A k \in Keys : receipts'[k] # NoReceipt => receipts'[k] = receipts[k]

\* A step either applies one well-formed plan, or leaves the log alone.
LEMMA StepCases ==
  ASSUME StoreTypeOK, [StoreNext]_storeVars
  PROVE  \/ \E p \in Plans : /\ p.now <= clock /\ WellFormed(p) /\ FreshShare(p)
                             /\ Submit(p) /\ Accepted(p)
         \/ log' = log /\ RowsKept /\ ReceiptsKept
<1> DEFINE Goal == \/ \E p \in Plans : /\ p.now <= clock /\ WellFormed(p) /\ FreshShare(p)
                                       /\ Submit(p) /\ Accepted(p)
                   \/ log' = log /\ RowsKept /\ ReceiptsKept
<1>1. ASSUME NEW p \in Plans, p.now <= clock, FreshShare(p), Submit(p)
      PROVE  Goal
  <2>1. CASE Accepted(p)
    BY <1>1, <2>1, PlanFacts
  <2>2. CASE Refuse(p)
    BY <2>2 DEF Refuse, RowsKept, ReceiptsKept
  <2>3. QED
    BY <1>1, <2>1, <2>2 DEF Submit, Accepted
<1>2. ASSUME NEW now \in 0 .. clock, SweepPending(now) \/ PruneReceipts(now)
      PROVE  Goal
  BY <1>2 DEF SweepPending, PruneReceipts, RowsKept, ReceiptsKept
<1>3. ASSUME NEW s \in ShareIds, TakedownStatement(s)
      PROVE  Goal
  <2>1. CASE BlockRow(s)
    BY <2>1 DEF BlockRow, RowsKept, ReceiptsKept, StoreTypeOK, Row
  <2>2. CASE PurgeTags(s) \/ PurgeReceipts(s)
    BY <2>2 DEF PurgeTags, PurgeReceipts, RowsKept, ReceiptsKept
  <2>3. CASE RemoveRow(s)
    BY <2>3 DEF RemoveRow, RowsKept, ReceiptsKept, StoreTypeOK
  <2>4. QED
    BY <1>3, <2>1, <2>2, <2>3 DEF TakedownStatement
<1>4. CASE Tick \/ UNCHANGED storeVars
  BY <1>4 DEF Tick, storeVars, RowsKept, ReceiptsKept
<1>5. QED
  BY <1>1, <1>2, <1>3, <1>4 DEF StoreNext

\* An applied plan adds its own entry, under a key no receipt held.
LEMMA AcceptedEntry ==
  ASSUME NEW p, Accepted(p)
  PROVE  /\ Unclaimed(p)
         /\ log' = log \cup {Entry(p, AppliedOutcome(p))}
<1>1. ASSUME Create(p)
      PROVE  /\ p.method = "create" /\ Unclaimed(p)
             /\ Finalize(p, AppliedOutcome(p))
  BY <1>1 DEF Create, CreateGuard, AppliedOutcome
<1>2. ASSUME Activate(p)
      PROVE  /\ p.method = "activate" /\ Unclaimed(p)
             /\ Finalize(p, AppliedOutcome(p))
  BY <1>2 DEF Activate, ActivateGuard, AppliedOutcome
<1>3. ASSUME Replace(p)
      PROVE  /\ p.method = "replace" /\ Unclaimed(p)
             /\ Finalize(p, AppliedOutcome(p))
  BY <1>3 DEF Replace, ReplaceGuard, AppliedOutcome
<1>4. ASSUME Delete(p)
      PROVE  /\ p.method = "delete" /\ Unclaimed(p)
             /\ Finalize(p, AppliedOutcome(p))
  BY <1>4 DEF Delete, DeleteGuard, AppliedOutcome
<1>5. QED
  BY <1>1, <1>2, <1>3, <1>4 DEF Accepted, Finalize, Entry

LEMMA EntryFields ==
  ASSUME NEW p, NEW o
  PROVE  /\ Entry(p, o).key = p.key /\ Entry(p, o).share = p.share
         /\ Entry(p, o).request.method = p.method
         /\ Entry(p, o).nonce = nonce /\ Entry(p, o).outcome = o
         /\ Entry(p, o).now = p.now /\ Entry(p, o).at = clock
         /\ Entry(p, o).expires = p.now + ReceiptTtl
  BY DEF Entry, RequestHash

(***************************************************************************)
(* At most once per key.                                                   *)
(***************************************************************************)

\* The receipt of a logged batch still stands.
Stands(e) == /\ receipts[e.key] # NoReceipt
             /\ receipts[e.key].nonce = e.nonce
             /\ receipts[e.key].share = e.share
             /\ receipts[e.key].expires = e.expires

\* A batch's receipt stands until it has run out or its share is taken down:
\* this is what makes the guard's look at the key a look at the whole log.
KeyInv ==
  \A e \in log : /\ e.nonce < nonce
                 /\ e.at <= clock
                 /\ Stands(e) \/ e.expires <= clock \/ e.share \in taken

LEMMA AcceptedKeyInv ==
  ASSUME StoreTypeOK, KeyInv, AtMostOncePerKey,
         NEW p \in Plans, WellFormed(p), Submit(p), Accepted(p)
  PROVE  KeyInv' /\ AtMostOncePerKey'
<1>0. PICK n : n = Entry(p, AppliedOutcome(p))
  OBVIOUS
<1>1. /\ Unclaimed(p) /\ log' = log \cup {n}
      /\ n.key = p.key /\ n.share = p.share /\ n.nonce = nonce /\ n.at = clock
      /\ n.expires = p.now + ReceiptTtl
  BY <1>0, AcceptedEntry, EntryFields
<1>2. nonce' = nonce + 1 /\ clock' = clock /\ taken' = taken
  BY DEF Submit
<1>3. p.key \in Keys /\ nonce \in Nat /\ clock \in Nat
  BY DEF Plans, Requests, StoreTypeOK
<1>4. /\ \A k \in Keys : k # p.key => receipts'[k] = receipts[k]
      /\ receipts'[p.key] # NoReceipt
      /\ receipts'[p.key].nonce = nonce
      /\ receipts'[p.key].share = p.share
      /\ receipts'[p.key].expires = p.now + ReceiptTtl
  <2>1. \E o \in Outcome : Finalize(p, o)
    BY RowType, PlanFacts DEF Accepted, Create, Activate, Replace, Delete, Plan, Outcome, Times
  <2>2. receipts' \in [Keys -> Receipt \cup {NoReceipt}]
    BY SubmitType DEF StoreTypeOK
  <2>3. \A o \in Outcome : [share |-> p.share, request |-> RequestHash(p), secret |-> p.secret,
          nonce |-> nonce, outcome |-> o, expires |-> p.now + ReceiptTtl] \in Receipt
    BY <1>3, PlanFacts, TimeAssumption DEF Plan, Receipt
  <2>4. QED
    BY <1>3, <2>1, <2>3, NullAssumption DEF Finalize, StoreTypeOK
<1>5. \A e \in log : e.key \in Keys /\ e.nonce \in Nat /\ e.at \in Nat /\ e.expires \in Nat
  BY DEF StoreTypeOK, LogEntry
<1>6. \A e \in log : e.key = p.key => e.expires <= clock \/ e.share \in taken
  BY <1>1 DEF KeyInv, Stands, Unclaimed
<1>7. KeyInv'
  <2>1. ASSUME NEW e \in log
        PROVE  /\ e.nonce < nonce' /\ e.at <= clock'
               /\ Stands(e)' \/ e.expires <= clock' \/ e.share \in taken'
    BY <1>2, <1>3, <1>4, <1>5, <1>6 DEF KeyInv, Stands
  <2>2. n.nonce < nonce' /\ n.at <= clock' /\ Stands(n)'
    BY <1>1, <1>2, <1>3, <1>4 DEF Stands
  <2>3. QED
    BY <1>1, <2>1, <2>2 DEF KeyInv
<1>8. AtMostOncePerKey'
  <2>1. \A e \in log : e.nonce < n.nonce
    BY <1>1 DEF KeyInv
  <2>2. \A e \in log : e.key = n.key => e.expires <= n.at \/ e.share \in taken
    BY <1>1, <1>6
  <2>3. ~(n.nonce < n.nonce) /\ \A e \in log : ~(n.nonce < e.nonce)
    BY <1>1, <1>3, <1>5, <2>1
  <2>4. SUFFICES ASSUME NEW e \in log', NEW f \in log', e.key = f.key, e.nonce < f.nonce
                 PROVE  e.expires <= f.at \/ e.share \in taken
    BY <1>2, Zenon DEF AtMostOncePerKey
  <2>5. CASE e \in log /\ f \in log
    BY <2>4, <2>5 DEF AtMostOncePerKey
  <2>6. CASE e \in log /\ f = n
    BY <2>2, <2>4, <2>6
  <2>7. QED
    BY <1>1, <2>3, <2>4, <2>5, <2>6
<1>9. QED
  BY <1>7, <1>8

LEMMA QuietKeyInv ==
  ASSUME StoreTypeOK, KeyInv, AtMostOncePerKey, [StoreNext]_storeVars, log' = log
  PROVE  KeyInv' /\ AtMostOncePerKey'
<1>0. clock \in Nat /\ nonce \in Nat
      /\ \A e \in log : e.key \in Keys /\ e.nonce \in Nat /\ e.at \in Nat
                        /\ e.expires \in Nat /\ e.share \in ShareIds
  BY DEF StoreTypeOK, LogEntry
<1>1. clock <= clock' /\ clock' \in Nat /\ nonce <= nonce' /\ nonce' \in Nat
      /\ taken \subseteq taken'
  BY <1>0 DEF StoreNext, Submit, SweepPending, PruneReceipts, TakedownStatement, BlockRow,
     PurgeTags, PurgeReceipts, RemoveRow, Tick, storeVars
<1>2. \A e \in log : Stands(e) => Stands(e)' \/ e.expires <= clock \/ e.share \in taken
  <2>1. ASSUME NEW p \in Plans, Submit(p)
        PROVE  receipts' = receipts
    \* An accepted plan would have logged its entry, which has a new nonce.
    <3>1. ASSUME Accepted(p)
          PROVE  FALSE
      <4>1. Entry(p, AppliedOutcome(p)) \in log
        BY <3>1, AcceptedEntry
      <4>2. QED
        BY <1>0, <4>1, EntryFields DEF KeyInv
    <3>2. QED
      BY <2>1, <3>1 DEF Submit, Accepted, Refuse
  <2>2. ASSUME NEW now \in 0 .. clock, PruneReceipts(now), NEW e \in log, Stands(e)
        PROVE  Stands(e)' \/ e.expires <= clock
    BY <1>0, <2>2 DEF PruneReceipts, ReceiptDue, Stands
  <2>3. ASSUME NEW s \in ShareIds, TakedownStatement(s), NEW e \in log, Stands(e)
        PROVE  Stands(e)' \/ e.share \in taken
    BY <1>0, <2>3 DEF TakedownStatement, BlockRow, PurgeTags, PurgeReceipts, RemoveRow, Stands
  <2>4. CASE \/ \E now \in 0 .. clock : SweepPending(now)
             \/ Tick
             \/ UNCHANGED storeVars
    BY <2>4 DEF SweepPending, Tick, storeVars, Stands
  <2>5. QED
    BY <2>1, <2>2, <2>3, <2>4 DEF StoreNext, Stands
<1>3. KeyInv'
  BY <1>0, <1>1, <1>2 DEF KeyInv
<1>4. AtMostOncePerKey'
  BY <1>1 DEF AtMostOncePerKey
<1>5. QED
  BY <1>3, <1>4

LEMMA KeyStep ==
  ASSUME StoreTypeOK, KeyInv, AtMostOncePerKey, [StoreNext]_storeVars
  PROVE  KeyInv' /\ AtMostOncePerKey'
  BY StepCases, AcceptedKeyInv, QuietKeyInv

\* An Idempotency-Key is applied at most once while its receipt is due to
\* stand, for any number of clients, keys and shares and any receipt TTL.
THEOREM AtMostOnce == StoreSpec => []AtMostOncePerKey
<1> DEFINE Inv == StoreTypeOK /\ KeyInv /\ AtMostOncePerKey
<1>1. StoreInit => Inv
  BY DEF StoreInit, StoreTypeOK, KeyInv, AtMostOncePerKey
<1>2. Inv /\ [StoreNext]_storeVars => Inv'
  <2> SUFFICES ASSUME Inv, [StoreNext]_storeVars
               PROVE  Inv'
    OBVIOUS
  <2>1. StoreTypeOK'
    BY TypeStep
  <2>2. KeyInv' /\ AtMostOncePerKey'
    BY KeyStep
  <2>3. QED
    BY <2>1, <2>2
<1>3. QED
  BY <1>1, <1>2, PTL DEF StoreSpec

(***************************************************************************)
(* Compare-and-swap: rows, the log and the revisions written.              *)
(***************************************************************************)

\* While a row is pending its window ends where its create put it.
WindowInv ==
  \A e \in log :
    /\ e.request.method = "create"
    /\ rows[e.share] # NoRow
    /\ rows[e.share].state = "pending"
    => rows[e.share].expires = e.now + ActivationWindow

RowInv == RowIsNewestWrite /\ NoLostUpdate /\ WindowInv /\ NoLateActivation

\* What the rows become when a plan is applied, and what it adds to the log.
LEMMA AcceptedRow ==
  ASSUME StoreTypeOK, NEW p \in Plans, WellFormed(p), FreshShare(p), Accepted(p)
  PROVE  /\ \A s \in ShareIds : s # p.share => rows'[s] = rows[s]
         /\ p.method = "delete" => rows'[p.share] = NoRow
         /\ p.method # "delete" =>
              /\ rows'[p.share] # NoRow
              /\ AppliedOutcome(p) = OutcomeOf(p.share, rows'[p.share])
         /\ p.method = "create" =>
              /\ \A e \in log : e.share # p.share
              /\ rows'[p.share].state = "pending"
              /\ rows'[p.share].revision = 1
              /\ rows'[p.share].expires = p.now + ActivationWindow
         /\ p.method # "create" => rows[p.share] # NoRow
         /\ p.method \in {"activate", "replace"} =>
              /\ rows'[p.share].state = "active"
              /\ rows'[p.share].revision = rows[p.share].revision + 1
         /\ p.method = "activate" =>
              /\ rows[p.share].state = "pending"
              /\ rows[p.share].expires > p.now
         /\ p.method = "replace" => rows[p.share].state = "active"
<1>1. p \in Plan /\ p.share \in ShareIds
  BY PlanFacts DEF Plan
<1>2. CASE Create(p)
  <2>1. p.method = "create" /\ rows'[p.share] = CreatedRow(p) /\ CreatedRow(p) \in Row
    BY <1>1, <1>2, RowType DEF Create, StoreTypeOK
  <2>2. QED
    BY <1>1, <1>2, <2>1, NullAssumption
       DEF Create, CreateGuard, FreshShare, CreatedRow, AppliedOutcome, StoreTypeOK
<1>3. CASE Activate(p)
  <2>1. p.method = "activate" /\ rows'[p.share] = ActivatedRow(p) /\ ActivatedRow(p) \in Row
    BY <1>1, <1>3, RowType DEF Activate, StoreTypeOK
  <2>2. rows[p.share] \in Row
    BY <1>1, <1>3 DEF Activate, ActivateGuard, Held, StoreTypeOK
  <2>3. QED
    BY <1>1, <1>3, <2>1, <2>2, NullAssumption
       DEF Activate, ActivateGuard, Held, InWindow, ActivatedRow, NewRevision,
           AppliedOutcome, StoreTypeOK, Row
<1>4. CASE Replace(p)
  <2>1. p.method = "replace" /\ rows'[p.share] = ReplacedRow(p) /\ ReplacedRow(p) \in Row
    BY <1>1, <1>4, RowType DEF Replace, StoreTypeOK
  <2>2. rows[p.share] \in Row
    BY <1>1, <1>4 DEF Replace, ReplaceGuard, Held, StoreTypeOK
  <2>3. QED
    BY <1>1, <1>4, <2>1, <2>2, NullAssumption
       DEF Replace, ReplaceGuard, Held, ReplacedRow, NewRevision,
           AppliedOutcome, StoreTypeOK, Row
<1>5. CASE Delete(p)
  BY <1>1, <1>5 DEF Delete, DeleteGuard, Held, StoreTypeOK
<1>6. QED
  BY <1>2, <1>3, <1>4, <1>5 DEF Accepted

LEMMA AcceptedRowInv ==
  ASSUME StoreTypeOK, RowInv,
         NEW p \in Plans, WellFormed(p), FreshShare(p), Submit(p), Accepted(p)
  PROVE  RowInv'
<1>1. PICK n : n = Entry(p, AppliedOutcome(p))
  OBVIOUS
<1>2. /\ log' = log \cup {n} /\ n.share = p.share /\ n.request.method = p.method
      /\ n.outcome = AppliedOutcome(p) /\ n.now = p.now
  BY <1>1, AcceptedEntry, EntryFields
<1>3. p.share \in ShareIds /\ p.now \in Nat /\ p.method \in Methods
  BY PlanFacts DEF Plan
<1>4. \A e \in log : /\ e.share \in ShareIds /\ e.outcome.revision \in Nat
                     /\ e.now \in Nat /\ e.request.method \in Methods
  BY DEF StoreTypeOK, LogEntry, Outcome, RequestShape
<1>5. \A s \in ShareIds : rows[s] # NoRow => rows[s].revision \in Nat
  BY DEF StoreTypeOK, Row
\* A batch that leaves a row behind writes a revision above all before it.
<1>6. ASSUME p.method # "delete"
      PROVE  /\ n.outcome.share = p.share
             /\ n.outcome.revision = rows'[p.share].revision
             /\ rows'[p.share].revision \in Nat
             /\ \A e \in Writes : e.share = p.share =>
                  e.outcome.revision < rows'[p.share].revision
  <2>1. n.outcome.share = p.share /\ n.outcome.revision = rows'[p.share].revision
    BY <1>2, <1>6, AcceptedRow DEF OutcomeOf
  <2>2. rows'[p.share].revision \in Nat
    BY <1>3, <1>5, <1>6, AcceptedRow DEF Methods
  <2>3. \A e \in Writes : e.share = p.share => e.outcome.revision < rows'[p.share].revision
    BY <1>3, <1>4, <1>5, <1>6, AcceptedRow DEF Methods, RowInv, RowIsNewestWrite, Writes
  <2>4. QED
    BY <2>1, <2>2, <2>3
<1>7. RowIsNewestWrite'
  <2> SUFFICES ASSUME NEW s \in ShareIds, rows'[s] # NoRow
               PROVE  /\ \E e \in Writes' : e.outcome = OutcomeOf(s, rows'[s])
                      /\ \A e \in Writes' : e.share = s => e.outcome.revision <= rows'[s].revision
                      /\ rows'[s].state = "active"
                           <=> \E e \in Writes' : e.share = s /\ e.request.method = "activate"
    BY DEF RowIsNewestWrite, OutcomeOf
  <2>1. Writes' = IF p.method = "delete" THEN Writes ELSE Writes \cup {n}
    BY <1>2 DEF Writes
  <2>2. CASE s # p.share
    <3>1. rows'[s] = rows[s]
      BY <2>2, AcceptedRow
    <3>2. QED
      BY <1>2, <2>1, <2>2, <3>1 DEF RowInv, RowIsNewestWrite
  <2>3. CASE s = p.share
    <3>1. p.method # "delete"
      BY <2>3, AcceptedRow
    <3>2. n \in Writes' /\ n.outcome = OutcomeOf(s, rows'[s])
      BY <1>2, <2>1, <2>3, <3>1, AcceptedRow
    <3>3. \A e \in Writes' : e.share = s => e.outcome.revision <= rows'[s].revision
      BY <1>4, <1>6, <2>1, <2>3, <3>1 DEF Writes
    <3>4. rows'[s].state = "active"
            <=> \E e \in Writes' : e.share = s /\ e.request.method = "activate"
      BY <1>2, <1>3, <2>1, <2>3, <3>1, AcceptedRow DEF Methods, RowInv, RowIsNewestWrite, Writes
    <3>5. QED
      BY <3>2, <3>3, <3>4
  <2>4. QED
    BY <2>2, <2>3
<1>8. NoLostUpdate'
  <2> SUFFICES ASSUME NEW e \in Writes', NEW f \in Writes', e.share = f.share,
                      e.outcome.revision = f.outcome.revision
               PROVE  e = f
    BY DEF NoLostUpdate
  <2>1. CASE e \in Writes /\ f \in Writes
    BY <2>1 DEF RowInv, NoLostUpdate
  <2>2. CASE p.method = "delete"
    BY <1>2, <2>1, <2>2 DEF Writes
  <2>3. CASE p.method # "delete"
    BY <1>2, <1>4, <1>6, <2>1, <2>3 DEF Writes
  <2>4. QED
    BY <2>2, <2>3
<1>9. WindowInv'
  <2> SUFFICES ASSUME NEW e \in log', e.request.method = "create",
                      rows'[e.share] # NoRow, rows'[e.share].state = "pending"
               PROVE  rows'[e.share].expires = e.now + ActivationWindow
    BY DEF WindowInv
  <2>1. CASE e.share # p.share
    BY <1>2, <1>4, <2>1, AcceptedRow DEF RowInv, WindowInv
  <2>2. CASE e.share = p.share
    BY <1>2, <1>3, <2>2, AcceptedRow DEF Methods
  <2>3. QED
    BY <2>1, <2>2
<1>10. NoLateActivation'
  <2> SUFFICES ASSUME NEW e \in log', NEW f \in log', e.share = f.share,
                      e.request.method = "create", f.request.method = "activate"
               PROVE  f.now < e.now + ActivationWindow
    BY DEF NoLateActivation
  <2>1. CASE e \in log /\ f \in log
    BY <2>1 DEF RowInv, NoLateActivation
  <2>2. CASE e = n
    BY <1>2, <2>2, AcceptedRow
  <2>3. CASE e \in log /\ f = n
    BY <1>2, <2>3, AcceptedRow DEF RowInv, WindowInv
  <2>4. QED
    BY <1>2, <2>1, <2>2, <2>3
<1>11. QED
  BY <1>7, <1>8, <1>9, <1>10 DEF RowInv

LEMMA QuietRowInv ==
  ASSUME StoreTypeOK, RowInv, log' = log, RowsKept
  PROVE  RowInv'
<1>1. Writes' = Writes /\ \A e \in log : e.share \in ShareIds
  BY DEF Writes, StoreTypeOK, LogEntry
<1>2. RowIsNewestWrite'
  BY <1>1 DEF RowInv, RowIsNewestWrite, RowsKept, OutcomeOf
<1>3. NoLostUpdate'
  BY <1>1 DEF RowInv, NoLostUpdate
<1>4. WindowInv'
  BY <1>1 DEF RowInv, WindowInv, RowsKept
<1>5. NoLateActivation'
  BY DEF RowInv, NoLateActivation
<1>6. QED
  BY <1>2, <1>3, <1>4, <1>5 DEF RowInv

\* RowInv with the types is inductive, and holds in every reachable state.
THEOREM RowsFollowTheLog == StoreSpec => []RowInv
<1>1. StoreInit => StoreTypeOK /\ RowInv
  BY DEF StoreInit, StoreTypeOK, RowInv, RowIsNewestWrite, NoLostUpdate, Writes,
         WindowInv, NoLateActivation
<1>2. StoreTypeOK /\ RowInv /\ [StoreNext]_storeVars => (StoreTypeOK /\ RowInv)'
  BY TypeStep, StepCases, AcceptedRowInv, QuietRowInv
<1>3. QED
  BY <1>1, <1>2, PTL DEF StoreSpec

\* No revision of a publication is ever written twice.
THEOREM NoUpdateIsLost == StoreSpec => []NoLostUpdate
<1>1. RowInv => NoLostUpdate
  BY DEF RowInv
<1>2. QED
  BY <1>1, RowsFollowTheLog, PTL

\* A row is what the newest applied batch of its share acknowledged.
THEOREM RowsAreAcknowledged == StoreSpec => []RowIsNewestWrite
<1>1. RowInv => RowIsNewestWrite
  BY DEF RowInv
<1>2. QED
  BY <1>1, RowsFollowTheLog, PTL

\* No activate taken in at or after the end of the window is ever applied.
THEOREM ActivationIsInTime == StoreSpec => []NoLateActivation
<1>1. RowInv => NoLateActivation
  BY DEF RowInv
<1>2. QED
  BY <1>1, RowsFollowTheLog, PTL

(***************************************************************************)
(* Receipts and rows.                                                      *)
(***************************************************************************)

\* Every receipt records an applied batch, and a deleted share has no row.
ReceiptInv ==
  /\ \A k \in Keys : receipts[k] # NoReceipt =>
       \E e \in log : e.outcome = receipts[k].outcome
  /\ \A e \in log : /\ e.outcome.share = e.share
                    /\ e.request.method = "delete" => rows[e.share] = NoRow

LEMMA ReceiptStep ==
  ASSUME StoreTypeOK, ReceiptInv, [StoreNext]_storeVars
  PROVE  ReceiptInv'
<1>1. ASSUME NEW p \in Plans, WellFormed(p), FreshShare(p), Submit(p), Accepted(p)
      PROVE  ReceiptInv'
  <2>1. PICK n : n = Entry(p, AppliedOutcome(p))
    OBVIOUS
  <2>2. /\ log' = log \cup {n} /\ n.share = p.share /\ n.request.method = p.method
        /\ n.outcome = AppliedOutcome(p)
    BY <1>1, <2>1, AcceptedEntry, EntryFields
  <2>3. p.share \in ShareIds /\ p.key \in Keys
        /\ \A e \in log : e.share \in ShareIds
    BY DEF Plans, Requests, StoreTypeOK, LogEntry
  <2>4. /\ receipts' \in [Keys -> Receipt \cup {NoReceipt}]
        /\ \A k \in Keys : k # p.key => receipts'[k] = receipts[k]
        /\ receipts'[p.key].outcome = AppliedOutcome(p)
    <3>1. \E o : Finalize(p, o) /\ o = AppliedOutcome(p)
      BY <1>1 DEF Accepted, Create, Activate, Replace, Delete, AppliedOutcome
    <3>2. QED
      BY <1>1, <2>3, <3>1, SubmitType DEF Finalize, StoreTypeOK
  <2>5. AppliedOutcome(p).share = p.share
    BY <1>1 DEF Accepted, Create, Activate, Replace, Delete, AppliedOutcome, OutcomeOf
  <2>6. \A k \in Keys : receipts'[k] # NoReceipt =>
          \E e \in log' : e.outcome = receipts'[k].outcome
    BY <2>2, <2>4 DEF ReceiptInv
  <2>7. ASSUME NEW e \in log'
        PROVE  /\ e.outcome.share = e.share
               /\ e.request.method = "delete" => rows'[e.share] = NoRow
    <3>1. CASE e = n
      BY <1>1, <2>2, <2>5, <3>1, AcceptedRow
    <3>2. CASE e \in log
      BY <1>1, <2>3, <3>2, AcceptedRow DEF ReceiptInv
    <3>3. QED
      BY <2>2, <3>1, <3>2
  <2>8. QED
    BY <2>6, <2>7 DEF ReceiptInv
<1>2. ASSUME log' = log, RowsKept, ReceiptsKept
      PROVE  ReceiptInv'
  <2>1. \A e \in log : e.share \in ShareIds
    BY DEF StoreTypeOK, LogEntry
  <2>2. QED
    BY <1>2, <2>1 DEF ReceiptInv, RowsKept, ReceiptsKept
<1>3. QED
  BY <1>1, <1>2, StepCases

\* A stored receipt never replays an acknowledgement that the publication
\* contradicts: not from ahead of it, nor with other content at its revision.
THEOREM ReceiptsAgreeWithRows == StoreSpec => []ReceiptNeverContradictsRow
<1>1. StoreInit => ReceiptInv
  BY DEF StoreInit, ReceiptInv
<1>2. StoreTypeOK /\ ReceiptInv /\ [StoreNext]_storeVars => ReceiptInv'
  BY ReceiptStep
<1>3. ASSUME StoreTypeOK, ReceiptInv, RowInv
      PROVE  ReceiptNeverContradictsRow
  <2> SUFFICES ASSUME NEW k \in Keys, receipts[k] # NoReceipt,
                      rows[receipts[k].outcome.share] # NoRow
               PROVE  LET o == receipts[k].outcome
                      IN  /\ o.revision <= rows[o.share].revision
                          /\ o.revision = rows[o.share].revision
                               => o.playlist = rows[o.share].playlist
    BY DEF ReceiptNeverContradictsRow
  <2>1. PICK e \in log : e.outcome = receipts[k].outcome
    BY <1>3 DEF ReceiptInv
  <2>2. e.share = receipts[k].outcome.share /\ e.share \in ShareIds /\ e \in Writes
    BY <1>3, <2>1 DEF ReceiptInv, StoreTypeOK, LogEntry, Writes
  <2>3. PICK f \in Writes : f.outcome = OutcomeOf(e.share, rows[e.share])
    BY <1>3, <2>2 DEF RowInv, RowIsNewestWrite
  <2>4. f.share = e.share
    BY <1>3, <2>3 DEF ReceiptInv, Writes, OutcomeOf
  <2>5. e.outcome.revision <= rows[e.share].revision
    BY <1>3, <2>2 DEF RowInv, RowIsNewestWrite
  <2>6. e.outcome.revision = rows[e.share].revision => e = f
    BY <1>3, <2>2, <2>3, <2>4 DEF RowInv, NoLostUpdate, OutcomeOf
  <2>7. QED
    BY <2>1, <2>2, <2>3, <2>5, <2>6 DEF OutcomeOf
<1>4. QED
  BY <1>1, <1>2, <1>3, TypeCorrect, RowsFollowTheLog, PTL DEF StoreSpec

(***************************************************************************)
(* What a step never does.                                                 *)
(***************************************************************************)

\* The lazy sweep, run with however stale a time, never removes an active or
\* a live provisional publication, and nothing else removes one unasked.
THEOREM RemovalsAreJustified == StoreSpec => RemovalIsJustified
<1> DEFINE Justified ==
      \A s \in ShareIds :
        rows[s] # NoRow /\ rows'[s] = NoRow =>
          \/ s \in taken
          \/ rows[s].state = "pending" /\ rows[s].expires <= clock
          \/ \E e \in log' \ log : e.share = s /\ e.request.method = "delete"
<1>1. ASSUME StoreTypeOK, KeyInv, [StoreNext]_storeVars
      PROVE  Justified
  <2>1. ASSUME NEW p \in Plans, WellFormed(p), FreshShare(p), Submit(p), Accepted(p)
        PROVE  Justified
    <3>1. PICK n : n = Entry(p, AppliedOutcome(p))
      OBVIOUS
    <3>2. /\ n \in log' /\ n.share = p.share /\ n.request.method = p.method /\ n.nonce = nonce
      BY <2>1, <3>1, AcceptedEntry, EntryFields
    <3>3. n \notin log
      BY <1>1, <3>2 DEF KeyInv, StoreTypeOK
    <3>4. QED
      BY <1>1, <2>1, <3>2, <3>3, AcceptedRow
  <2>2. ASSUME NEW p \in Plans, Refuse(p)
        PROVE  Justified
    BY <2>2 DEF Refuse
  <2>3. ASSUME NEW now \in 0 .. clock, SweepPending(now)
        PROVE  Justified
    <3> SUFFICES ASSUME NEW s \in ShareIds, rows[s] # NoRow, rows'[s] = NoRow
                 PROVE  rows[s].state = "pending" /\ rows[s].expires <= clock
      OBVIOUS
    <3>1. rows[s] \in Row /\ clock \in Nat
      BY <1>1 DEF StoreTypeOK
    <3>2. Lapsed(rows[s], now)
      BY <2>3 DEF SweepPending
    <3>3. rows[s].expires \in Nat
      BY <3>1, <3>2 DEF Lapsed, Row, Times
    <3>4. QED
      BY <3>1, <3>2, <3>3 DEF Lapsed
  <2>4. ASSUME NEW s \in ShareIds, TakedownStatement(s)
        PROVE  Justified
    <3>1. CASE BlockRow(s)
      <4>1. rows[s] # NoRow => [rows[s] EXCEPT !.blocked = TRUE] \in Row
        BY <1>1 DEF StoreTypeOK, Row
      <4>2. QED
        BY <1>1, <3>1, <4>1, NullAssumption DEF BlockRow, StoreTypeOK
    <3>2. CASE PurgeTags(s) \/ PurgeReceipts(s)
      BY <3>2 DEF PurgeTags, PurgeReceipts
    <3>3. CASE s \in taken /\ RemoveRow(s)
      BY <1>1, <3>3 DEF RemoveRow, StoreTypeOK
    <3>4. QED
      BY <2>4, <3>1, <3>2, <3>3 DEF TakedownStatement
  <2>5. CASE (\E now \in 0 .. clock : PruneReceipts(now)) \/ Tick \/ UNCHANGED storeVars
    BY <2>5 DEF PruneReceipts, Tick, storeVars
  <2>6. QED
    BY <1>1, <2>1, <2>2, <2>3, <2>4, <2>5, PlanFacts DEF StoreNext, Submit, Accepted
<1>2. StoreSpec => [](StoreTypeOK /\ KeyInv)
  <2>1. StoreInit => StoreTypeOK /\ KeyInv /\ AtMostOncePerKey
    BY DEF StoreInit, StoreTypeOK, KeyInv, AtMostOncePerKey
  <2>2. StoreTypeOK /\ KeyInv /\ AtMostOncePerKey /\ [StoreNext]_storeVars
          => (StoreTypeOK /\ KeyInv /\ AtMostOncePerKey)'
    BY TypeStep, StepCases, AcceptedKeyInv, QuietKeyInv
  <2>3. QED
    BY <2>1, <2>2, PTL DEF StoreSpec
<1>3. StoreTypeOK /\ KeyInv /\ [StoreNext]_storeVars => [Justified]_storeVars
  BY <1>1
<1>4. QED
  BY <1>2, <1>3, PTL DEF StoreSpec, RemovalIsJustified

\* What is gone and was ever written does not come back.
LEMMA GoneStays ==
  ASSUME StoreTypeOK, [StoreNext]_storeVars, NEW s \in ShareIds,
         rows[s] = NoRow, \E e \in log : e.share = s
  PROVE  rows'[s] = NoRow
<1>1. ASSUME NEW p \in Plans, WellFormed(p), FreshShare(p), Accepted(p)
      PROVE  rows'[s] = NoRow
  BY <1>1, AcceptedRow, PlanFacts DEF Plan
<1>2. CASE RowsKept
  BY <1>2 DEF RowsKept
<1>3. QED
  BY <1>1, <1>2, StepCases

\* A publication that was deleted, swept or removed is never written again.
THEOREM GoneForGood == StoreSpec => GoneStaysGone
<1> DEFINE StaysGone ==
      \A s \in ShareIds :
        rows[s] = NoRow /\ (\E e \in log : e.share = s) => rows'[s] = NoRow
<1>1. StoreTypeOK /\ [StoreNext]_storeVars => [StaysGone]_storeVars
  BY GoneStays
<1>2. QED
  BY <1>1, TypeCorrect, PTL DEF StoreSpec, GoneStaysGone

(***************************************************************************)
(* The tag index.                                                          *)
(***************************************************************************)

LEMMA TagStep ==
  ASSUME StoreTypeOK, TagIndexAgrees, [StoreNext]_storeVars
  PROVE  TagIndexAgrees'
<1>1. ASSUME NEW p \in Plans, WellFormed(p), Submit(p)
      PROVE  TagIndexAgrees'
  <2>1. p.share \in ShareIds /\ taken' = taken
    BY <1>1 DEF Plans, Requests, Submit
  <2>2. CASE Create(p)
    <3>1. CreatedRow(p) # NoRow /\ CreatedRow(p).playlist.tags = p.playlist.tags
      BY <1>1, <2>2, RowType, NullAssumption DEF Create, CreatedRow
    <3>2. QED
      BY <2>1, <2>2, <3>1 DEF Create, TagIndexAgrees, StoreTypeOK
  <2>3. CASE Activate(p)
    <3>1. /\ ActivatedRow(p) # NoRow /\ rows[p.share] # NoRow
          /\ ActivatedRow(p).playlist = rows[p.share].playlist
      BY <1>1, <2>1, <2>3, RowType, NullAssumption
         DEF Activate, ActivateGuard, Held, ActivatedRow, StoreTypeOK, Row
    <3>2. QED
      BY <2>1, <2>3, <3>1 DEF Activate, TagIndexAgrees, StoreTypeOK
  <2>4. CASE Replace(p)
    <3>1. ReplacedRow(p) # NoRow /\ ReplacedRow(p).playlist = p.playlist
      BY <1>1, <2>1, <2>4, RowType, NullAssumption
         DEF Replace, ReplaceGuard, Held, ReplacedRow, StoreTypeOK, Row
    <3>2. QED
      BY <2>1, <2>4, <3>1 DEF Replace, TagIndexAgrees, StoreTypeOK
  <2>5. CASE Delete(p)
    BY <2>1, <2>5 DEF Delete, TagIndexAgrees, StoreTypeOK
  <2>6. CASE Refuse(p)
    BY <2>1, <2>6 DEF Refuse, TagIndexAgrees
  <2>7. QED
    BY <1>1, <2>2, <2>3, <2>4, <2>5, <2>6 DEF Submit
<1>2. ASSUME NEW now \in 0 .. clock, SweepPending(now) \/ PruneReceipts(now)
      PROVE  TagIndexAgrees'
  BY <1>2 DEF SweepPending, PruneReceipts, TagIndexAgrees
<1>3. ASSUME NEW s \in ShareIds, TakedownStatement(s)
      PROVE  TagIndexAgrees'
  <2>1. CASE BlockRow(s)
    <3>1. /\ \A q \in ShareIds : q # s => rows'[q] = rows[q]
          /\ s \in taken' /\ taken \subseteq taken' /\ tagLinks' = tagLinks
      BY <2>1 DEF BlockRow, StoreTypeOK
    <3>2. rows[s] # NoRow => [rows[s] EXCEPT !.blocked = TRUE] # NoRow
      BY NullAssumption DEF StoreTypeOK, Row
    <3>3. rows'[s] = NoRow <=> rows[s] = NoRow
      BY <2>1, <3>2 DEF BlockRow, StoreTypeOK
    <3>4. QED
      BY <3>1, <3>3 DEF TagIndexAgrees
  <2>2. CASE s \in taken /\ (PurgeTags(s) \/ PurgeReceipts(s) \/ RemoveRow(s))
    BY <2>2 DEF PurgeTags, PurgeReceipts, RemoveRow, TagIndexAgrees, StoreTypeOK
  <2>3. QED
    BY <1>3, <2>1, <2>2 DEF TakedownStatement
<1>4. CASE Tick \/ UNCHANGED storeVars
  BY <1>4 DEF Tick, storeVars, TagIndexAgrees
<1>5. QED
  BY <1>1, <1>2, <1>3, <1>4, PlanFacts DEF StoreNext

\* A tag search can trust the index: no link outlives its row, and none is
\* missing or left over after a replace.
THEOREM TagIndexIsExact == StoreSpec => []TagIndexAgrees
<1>1. StoreInit => TagIndexAgrees
  BY DEF StoreInit, TagIndexAgrees
<1>2. StoreTypeOK /\ TagIndexAgrees /\ [StoreNext]_storeVars => TagIndexAgrees'
  BY TagStep
<1>3. QED
  BY <1>1, <1>2, TypeCorrect, PTL DEF StoreSpec
(***************************************************************************)
(* What the log remembers of receipts and of rows.                         *)
(***************************************************************************)

\* The receipt of the key k is that of the logged batch e.
Records(receipt, k, e) ==
  /\ e.key = k
  /\ receipt.share = e.share /\ receipt.secret = e.share
  /\ receipt.request = e.request /\ receipt.outcome = e.outcome
  /\ receipt.nonce = e.nonce /\ receipt.expires = e.expires

\* A logged batch did to its share what its request asks.
EntryOK(e) ==
  /\ e.nonce < nonce
  /\ e.expires = e.now + ReceiptTtl
  /\ e.outcome.share = e.share
  /\ e.request.method # "create" => e.request.share = e.share
  /\ e.request.method = "create" => e.outcome.playlist = e.request.playlist
  /\ e.request.method = "activate" =>
       e.request.expected = 1 /\ e.request.playlist = NoPlaylist /\ e.outcome.revision = 2

\* A row opens with its own secret, every revision it ever had was written by
\* a batch, and an active one was published at the time it says.
RowOK(s) ==
  /\ rows[s].secret = s
  /\ \A r \in 1 .. rows[s].revision : \E e \in Writes : e.share = s /\ e.outcome.revision = r
  /\ rows[s].state = "active" =>
       \E e \in log : e.share = s /\ e.request.method = "activate" /\ e.now = rows[s].first

HistoryInv ==
  /\ \A e, f \in log : e.nonce = f.nonce => e = f
  /\ \A e \in log : EntryOK(e)
  /\ \A k \in Keys : receipts[k] # NoReceipt => \E e \in log : Records(receipts[k], k, e)
  /\ \A s \in ShareIds : rows[s] # NoRow => RowOK(s)

\* An applied plan carries the secret of its share, if the rows do.
LEMMA AcceptedSecret ==
  ASSUME NEW p \in Plans, WellFormed(p), Accepted(p), HistoryInv
  PROVE  /\ p.secret = p.share
         /\ p.method # "create" => rows[p.share] # NoRow /\ rows[p.share].revision = p.expected
<1>1. p.share \in ShareIds
  BY DEF Plans, Requests
<1>2. CASE Create(p)
  BY <1>2 DEF WellFormed, Create
<1>3. CASE ~Create(p)
  <2>1. Held(p) /\ p.method # "create"
    BY <1>3 DEF Accepted, Activate, ActivateGuard, Replace, ReplaceGuard, Delete, DeleteGuard
  <2>2. QED
    BY <1>1, <2>1 DEF Held, HistoryInv, RowOK
<1>4. QED
  BY <1>2, <1>3

LEMMA AcceptedHistory ==
  ASSUME StoreTypeOK, HistoryInv,
         NEW p \in Plans, WellFormed(p), FreshShare(p), Submit(p), Accepted(p)
  PROVE  HistoryInv'
<1>1. PICK n : n = Entry(p, AppliedOutcome(p))
  OBVIOUS
<1>2. /\ log' = log \cup {n} /\ n.key = p.key /\ n.share = p.share /\ n.now = p.now
      /\ n.request = RequestHash(p) /\ n.request.method = p.method /\ n.nonce = nonce
      /\ n.outcome = AppliedOutcome(p) /\ n.expires = p.now + ReceiptTtl
  BY <1>1, AcceptedEntry, EntryFields DEF Entry
<1>3. /\ p.share \in ShareIds /\ p.key \in Keys /\ p.now \in Nat /\ p.expected \in Nat
      /\ p.method \in Methods
  BY PlanFacts DEF Plan
<1>4. /\ nonce \in Nat /\ nonce' = nonce + 1
      /\ \A e \in log : e.share \in ShareIds /\ e.nonce \in Nat
  BY DEF StoreTypeOK, LogEntry, Submit
<1>5. p.secret = p.share /\ (p.method # "create" => rows[p.share].revision = p.expected)
  BY AcceptedSecret
<1>6. \A e, f \in log' : e.nonce = f.nonce => e = f
  BY <1>2, <1>4 DEF HistoryInv, EntryOK
<1>7. EntryOK(n)'
  <2>1. n.nonce < nonce' /\ n.expires = n.now + ReceiptTtl
    BY <1>2, <1>4
  <2>2. n.outcome.share = n.share
    BY <1>2 DEF Accepted, Create, Activate, Replace, Delete, AppliedOutcome, OutcomeOf
  <2>3. n.request.method # "create" => n.request.share = n.share
    BY <1>2 DEF RequestHash
  <2>4. n.request.method = "create" => n.outcome.playlist = n.request.playlist
    BY <1>2 DEF RequestHash, AppliedOutcome, OutcomeOf, CreatedRow
  <2>5. ASSUME n.request.method = "activate"
        PROVE  n.request.expected = 1 /\ n.request.playlist = NoPlaylist /\ n.outcome.revision = 2
    <3>1. p.method = "activate" /\ p.expected = 1 /\ p.playlist = NoPlaylist
      BY <1>2, <2>5 DEF WellFormed
    <3>2. rows'[p.share].revision = rows[p.share].revision + 1
          /\ AppliedOutcome(p) = OutcomeOf(p.share, rows'[p.share])
      BY <3>1, AcceptedRow
    <3>3. QED
      BY <1>2, <1>5, <3>1, <3>2 DEF RequestHash, OutcomeOf
  <2>6. QED
    BY <2>1, <2>2, <2>3, <2>4, <2>5 DEF EntryOK
<1>8. \A e \in log' : EntryOK(e)'
  <2>1. ASSUME NEW e \in log
        PROVE  EntryOK(e)'
    <3>1. e.nonce < nonce'
      BY <1>4, <2>1 DEF HistoryInv, EntryOK
    <3>2. QED
      BY <2>1, <3>1 DEF HistoryInv, EntryOK
  <2>2. QED
    BY <1>2, <1>7, <2>1
<1>9. \A k \in Keys : receipts'[k] # NoReceipt => \E e \in log' : Records(receipts'[k], k, e)
  <2>1. /\ \A k \in Keys : k # p.key => receipts'[k] = receipts[k]
        /\ Records(receipts'[p.key], p.key, n)
    <3>1. Finalize(p, AppliedOutcome(p))
      BY DEF Accepted, Create, Activate, Replace, Delete, AppliedOutcome
    <3>2. QED
      BY <1>2, <1>3, <1>5, <3>1 DEF Finalize, Records, StoreTypeOK
  <2>2. QED
    BY <1>2, <2>1 DEF HistoryInv
<1>10. ASSUME NEW s \in ShareIds, rows'[s] # NoRow
       PROVE  RowOK(s)'
  <2>1. log \subseteq log' /\ Writes \subseteq Writes'
    BY <1>2 DEF Writes
  <2>2. CASE s # p.share
    <3>1. rows'[s] = rows[s]
      BY <2>2, AcceptedRow
    <3>2. RowOK(s)
      BY <1>10, <3>1 DEF HistoryInv
    <3>3. QED
      BY <2>1, <3>1, <3>2 DEF RowOK
  <2>3. CASE s = p.share
    <3>1. /\ p.method # "delete" /\ n \in Writes' /\ n \in log'
          /\ AppliedOutcome(p) = OutcomeOf(s, rows'[s])
      BY <1>2, <1>10, <2>3, AcceptedRow DEF Writes
    <3>2. n.outcome.revision = rows'[s].revision
      BY <1>2, <3>1 DEF OutcomeOf
    <3>3. rows' \in [ShareIds -> Row \cup {NoRow}] /\ rows \in [ShareIds -> Row \cup {NoRow}]
      BY SubmitType DEF StoreTypeOK
    <3>4. CASE p.method = "create"
      <4>1. rows'[s] = CreatedRow(p)
        BY <1>3, <2>3, <3>3, <3>4 DEF Accepted, Create, Activate, Replace, Delete
      <4>2. rows'[s].secret = s /\ rows'[s].state = "pending" /\ rows'[s].revision = 1
        BY <1>5, <2>3, <4>1 DEF CreatedRow
      <4>3. QED
        BY <1>2, <2>3, <3>1, <3>2, <4>2 DEF RowOK
    <3>5. CASE p.method \in {"activate", "replace"}
      <4>1. rows[s] \in Row /\ RowOK(s) /\ rows[s].revision \in Nat
        BY <2>3, <3>3, <3>5, AcceptedRow DEF HistoryInv, Row
      <4>2. /\ rows'[s].revision = rows[s].revision + 1
            /\ p.method = "activate" => rows'[s].first = p.now
            /\ p.method = "replace" => /\ rows'[s].first = rows[s].first
                                       /\ rows[s].state = "active"
            /\ rows'[s].secret = rows[s].secret
        <5>1. CASE p.method = "activate"
          <6>1. rows'[s] = ActivatedRow(p)
            BY <1>3, <2>3, <3>3, <5>1 DEF Accepted, Create, Activate, Replace, Delete
          <6>2. QED
            BY <1>5, <2>3, <4>1, <5>1, <6>1 DEF ActivatedRow, NewRevision, Row
        <5>2. CASE p.method = "replace"
          <6>1. rows'[s] = ReplacedRow(p) /\ rows[s].state = "active"
            BY <1>3, <2>3, <3>3, <5>2
               DEF Accepted, Create, Activate, Replace, Delete, ReplaceGuard
          <6>2. QED
            BY <1>5, <2>3, <4>1, <5>2, <6>1 DEF ReplacedRow, NewRevision, Row
        <5>3. QED
          BY <3>5, <5>1, <5>2
      <4>3. ASSUME NEW r \in 1 .. rows'[s].revision
            PROVE  \E e \in Writes' : e.share = s /\ e.outcome.revision = r
        <5>1. r \in 1 .. rows[s].revision \/ r = rows'[s].revision
          BY <4>1, <4>2
        <5>2. QED
          BY <1>2, <2>1, <2>3, <3>1, <3>2, <4>1, <5>1 DEF RowOK
      <4>4. \E e \in log' : e.share = s /\ e.request.method = "activate" /\ e.now = rows'[s].first
        BY <1>2, <2>1, <2>3, <3>1, <3>5, <4>1, <4>2 DEF RowOK
      <4>5. QED
        BY <4>1, <4>2, <4>3, <4>4 DEF RowOK
    <3>6. QED
      BY <1>3, <3>1, <3>4, <3>5 DEF Methods
  <2>4. QED
    BY <2>2, <2>3
<1>11. QED
  BY <1>6, <1>8, <1>9, <1>10 DEF HistoryInv

LEMMA QuietHistory ==
  ASSUME StoreTypeOK, HistoryInv, nonce' \in Nat, nonce <= nonce',
         log' = log, RowsKept, ReceiptsKept
  PROVE  HistoryInv'
<1>1. ASSUME NEW e \in log
      PROVE  EntryOK(e)'
  <2>1. e.nonce < nonce'
    BY <1>1 DEF HistoryInv, EntryOK, StoreTypeOK, LogEntry
  <2>2. QED
    BY <1>1, <2>1 DEF HistoryInv, EntryOK
<1>2. \A k \in Keys : receipts'[k] # NoReceipt => \E e \in log' : Records(receipts'[k], k, e)
  BY DEF ReceiptsKept, HistoryInv
<1>3. ASSUME NEW s \in ShareIds, rows'[s] # NoRow
      PROVE  RowOK(s)'
  <2>1. RowOK(s) /\ Writes' = Writes
    BY <1>3 DEF RowsKept, HistoryInv, Writes
  <2>2. QED
    BY <1>3, <2>1 DEF RowOK, RowsKept
<1>4. QED
  BY <1>1, <1>2, <1>3 DEF HistoryInv

LEMMA HistoryStep ==
  ASSUME StoreTypeOK, HistoryInv, [StoreNext]_storeVars
  PROVE  HistoryInv'
<1>1. nonce' \in Nat /\ nonce <= nonce'
  BY DEF StoreTypeOK, StoreNext, Submit, SweepPending, PruneReceipts, TakedownStatement,
         BlockRow, PurgeTags, PurgeReceipts, RemoveRow, Tick, storeVars
<1>2. QED
  BY <1>1, StepCases, AcceptedHistory, QuietHistory

\* Whatever batches are sent and however old their plans, the log accounts
\* for everything stored: each receipt is that of one logged batch, each
\* revision a row ever had was written by one, and a row opens with the
\* secret of its own share only.
THEOREM HistoryAccountsForTables == StoreSpec => []HistoryInv
<1>1. StoreInit => HistoryInv
  BY DEF StoreInit, HistoryInv
<1>2. QED
  BY <1>1, HistoryStep, TypeCorrect, PTL DEF StoreSpec
(***************************************************************************)
(* The store implements the ledger.                                        *)
(***************************************************************************)

\* A share that is taken down had a batch applied, and while it has a row
\* that row is blocked.
TakenInv ==
  \A s \in taken : /\ \E e \in log : e.share = s
                   /\ rows[s] # NoRow => rows[s].blocked

LedgerInv == StoreTypeOK /\ RowInv /\ HistoryInv /\ TakenInv

LEMMA TakenStep ==
  ASSUME StoreTypeOK, TakenInv, [StoreNext]_storeVars
  PROVE  TakenInv'
<1>1. taken \subseteq ShareIds /\ rows \in [ShareIds -> Row \cup {NoRow}]
  BY DEF StoreTypeOK
<1>2. ASSUME NEW p \in Plans, WellFormed(p), FreshShare(p), Submit(p)
      PROVE  TakenInv'
  <2>1. CASE Accepted(p)
    <3>1. taken' = taken /\ log \subseteq log' /\ Unclaimed(p)
      BY <1>2, <2>1, AcceptedEntry DEF Submit
    <3>2. ASSUME NEW s \in taken, rows'[s] # NoRow
          PROVE  rows'[s].blocked
      <4>1. CASE Create(p)
        BY <1>1, <1>2, <3>1, <3>2, <4>1 DEF Create, FreshShare, TakenInv
      <4>2. CASE Activate(p)
        BY <1>1, <3>2, <4>2 DEF Activate, ActivateGuard, Held, ActivatedRow, TakenInv, Row
      <4>3. CASE Replace(p)
        BY <1>1, <3>2, <4>3 DEF Replace, ReplaceGuard, Held, ReplacedRow, TakenInv, Row
      <4>4. CASE Delete(p)
        BY <1>1, <3>2, <4>4 DEF Delete, TakenInv
      <4>5. QED
        BY <2>1, <4>1, <4>2, <4>3, <4>4 DEF Accepted
    <3>3. QED
      BY <3>1, <3>2 DEF TakenInv
  <2>2. CASE Refuse(p)
    BY <1>2, <2>2 DEF Refuse, Submit, TakenInv
  <2>3. QED
    BY <1>2, <2>1, <2>2 DEF Submit, Accepted
<1>3. ASSUME NEW now \in 0 .. clock, SweepPending(now) \/ PruneReceipts(now)
      PROVE  TakenInv'
  BY <1>1, <1>3 DEF SweepPending, PruneReceipts, TakenInv
<1>4. ASSUME NEW s \in ShareIds, TakedownStatement(s)
      PROVE  TakenInv'
  <2>1. CASE (\E e \in log : e.share = s) /\ BlockRow(s)
    BY <1>1, <2>1 DEF BlockRow, TakenInv, Row
  <2>2. CASE PurgeTags(s) \/ PurgeReceipts(s) \/ RemoveRow(s)
    BY <1>1, <2>2 DEF PurgeTags, PurgeReceipts, RemoveRow, TakenInv
  <2>3. QED
    BY <1>4, <2>1, <2>2 DEF TakedownStatement
<1>5. CASE Tick \/ UNCHANGED storeVars
  BY <1>5 DEF Tick, storeVars, TakenInv
<1>6. QED
  BY <1>2, <1>3, <1>4, <1>5, PlanFacts DEF StoreNext

Standings == [s \in ShareIds |-> Standing(s)]
Memories == [k \in Keys |-> Remembered(k)]

LEMMA GoneIs ==
  Ledger!Gone = [phase |-> "gone", revision |-> 0, playlist |-> NoPlaylist, hidden |-> FALSE]
<1>1. \A h \in BOOLEAN :
        [[phase |-> "unborn", revision |-> 0, playlist |-> NoPlaylist, hidden |-> h]
           EXCEPT !.phase = "gone"]
        = [phase |-> "gone", revision |-> 0, playlist |-> NoPlaylist, hidden |-> h]
  OBVIOUS
<1>2. QED
  BY <1>1 DEF Ledger!Gone, Ledger!Unborn

\* What the standing of a share says of its row.
LEMMA StandingIs ==
  ASSUME NEW s \in ShareIds, StoreTypeOK
  PROVE  /\ rows[s] = NoRow /\ (\E e \in log : e.share = s) => Standing(s) = Ledger!Gone
         /\ rows[s] = NoRow /\ (\A e \in log : e.share # s) => Standing(s) = Ledger!Unborn
         /\ rows[s] # NoRow =>
              /\ Standing(s).phase = (IF rows[s].state = "pending" THEN "provisional" ELSE "public")
              /\ Standing(s).revision = rows[s].revision
              /\ Standing(s).hidden = rows[s].blocked
              /\ Standing(s).phase \in {"provisional", "public"}
<1>2. CASE rows[s] = NoRow /\ \E e \in log : e.share = s
  BY <1>2, GoneIs DEF Standing
<1>3. CASE rows[s] = NoRow /\ \A e \in log : e.share # s
  BY <1>3 DEF Standing, Ledger!Unborn
<1>4. CASE rows[s] # NoRow
  BY <1>4, Zenon DEF Standing
<1>5. QED
  BY <1>2, <1>3, <1>4

\* The standing of a share depends on its row, and on whether it has a past.
LEMMA StandingStays ==
  ASSUME NEW s \in ShareIds, rows'[s] = rows[s], log \subseteq log',
         \A e \in log' \ log : e.share # s
  PROVE  Standing(s)' = Standing(s)
<1>1. (\E e \in log' : e.share = s) <=> (\E e \in log : e.share = s)
  OBVIOUS
<1>2. QED
  BY <1>1 DEF Standing

\* An accepted batch is remembered under its key, which was unused.
LEMMA AcceptedTake ==
  ASSUME StoreTypeOK, NEW p \in Plans, WellFormed(p), FreshShare(p), Submit(p), Accepted(p)
  PROVE  /\ Memories[p.key] = NoReceipt
         /\ Memories' = [Memories EXCEPT ![p.key] =
              [method |-> p.method, share |-> p.share,
               revision |-> AppliedOutcome(p).revision]]
         /\ \A s \in ShareIds : s # p.share => Standing(s)' = Standing(s)
<1>1. /\ p.key \in Keys /\ p.share \in ShareIds /\ Unclaimed(p)
      /\ log' = log \cup {Entry(p, AppliedOutcome(p))}
      /\ Entry(p, AppliedOutcome(p)).share = p.share
  BY AcceptedEntry, EntryFields DEF Plans, Requests
<1>2. Finalize(p, AppliedOutcome(p))
  BY DEF Accepted, Create, Activate, Replace, Delete, AppliedOutcome
<1>3. receipts' \in [Keys -> Receipt \cup {NoReceipt}] /\ receipts \in [Keys -> Receipt \cup {NoReceipt}]
  BY SubmitType DEF StoreTypeOK
<1>4. /\ \A k \in Keys : k # p.key => receipts'[k] = receipts[k]
      /\ receipts'[p.key] # NoReceipt
      /\ receipts'[p.key].request.method = p.method /\ receipts'[p.key].share = p.share
      /\ receipts'[p.key].outcome = AppliedOutcome(p)
  <2>1. receipts'[p.key] = [share |-> p.share, request |-> RequestHash(p), secret |-> p.secret,
          nonce |-> nonce, outcome |-> AppliedOutcome(p), expires |-> p.now + ReceiptTtl]
    BY <1>1, <1>2, <1>3 DEF Finalize
  <2>2. receipts'[p.key] # NoReceipt
    <3>1. p.secret \in Secrets /\ p.now \in Nat /\ nonce \in Nat /\ RequestHash(p) \in RequestShape
      BY PlanFacts DEF Plan, StoreTypeOK
    <3>2. AppliedOutcome(p) \in Outcome
      BY RowType, PlanFacts
         DEF Accepted, Create, Activate, Replace, Delete, AppliedOutcome, Plan, Outcome, Times
    <3>3. receipts'[p.key] \in Receipt
      BY <1>1, <2>1, <3>1, <3>2, TimeAssumption DEF Receipt
    <3>4. QED
      BY <3>3, NullAssumption
  <2>3. QED
    BY <1>1, <1>2, <2>1, <2>2 DEF Finalize, RequestHash
<1>5. Memories[p.key] = NoReceipt
  BY <1>1 DEF Memories, Remembered, Unclaimed
<1>6. \A k \in Keys : k # p.key => Remembered(k)' = Remembered(k)
  BY <1>4 DEF Remembered
<1>7. Remembered(p.key)' = [method |-> p.method, share |-> p.share,
                            revision |-> AppliedOutcome(p).revision]
  BY <1>4 DEF Remembered
<1>8. \A s \in ShareIds : s # p.share => Standing(s)' = Standing(s)
  BY <1>1, AcceptedRow, StandingStays
<1>9. QED
  BY <1>1, <1>5, <1>6, <1>7, <1>8 DEF Memories
\* A function that differs at one place only.
LEMMA OneStandingChanges ==
  ASSUME NEW s \in ShareIds, \A r \in ShareIds : r # s => Standing(r)' = Standing(r)
  PROVE  Standings' = [Standings EXCEPT ![s] = Standing(s)']
  BY DEF Standings

\* A standing is its four fields.
LEMMA StandingOf ==
  ASSUME NEW q, NEW phase, NEW revision, NEW playlist, NEW hidden,
         q = [x \in {"phase", "revision", "playlist", "hidden"} |-> q[x]],
         q.phase = phase, q.revision = revision, q.playlist = playlist, q.hidden = hidden
  PROVE  q = [phase |-> phase, revision |-> revision, playlist |-> playlist, hidden |-> hidden]
  OBVIOUS

\* The standings f after each change the ledger makes to that of s.
Published(f, s) == [f EXCEPT ![s].phase = "public", ![s].revision = @ + 1]
Revised(f, s, new) == [f EXCEPT ![s].playlist = new, ![s].revision = @ + 1]
Hidden(f, s) == [f EXCEPT ![s].hidden = TRUE]

\* Each is the same as putting the changed record there.
LEMMA StandingChanges ==
  ASSUME NEW s \in ShareIds,
         NEW phase, NEW n \in Nat, NEW list, NEW hidden, NEW new,
         Standings[s] = [phase |-> phase, revision |-> n, playlist |-> list, hidden |-> hidden]
  PROVE  /\ Published(Standings, s) = [Standings EXCEPT ![s] =
              [phase |-> "public", revision |-> n + 1, playlist |-> list, hidden |-> hidden]]
         /\ Revised(Standings, s, new) = [Standings EXCEPT ![s] =
              [phase |-> phase, revision |-> n + 1, playlist |-> new, hidden |-> hidden]]
<1>1. Published(Standings, s) = [Standings EXCEPT ![s] =
        [phase |-> "public", revision |-> n + 1, playlist |-> list, hidden |-> hidden]]
  <2>1. PICK q : q = [Standings[s] EXCEPT !.phase = "public", !.revision = @ + 1]
    OBVIOUS
  <2>2. q.phase = "public" /\ q.revision = n + 1 /\ q.playlist = list /\ q.hidden = hidden
    BY <2>1
  <2>3. q = [x \in {"phase", "revision", "playlist", "hidden"} |-> q[x]]
    BY <2>1
  <2>4. q = [phase |-> "public", revision |-> n + 1, playlist |-> list, hidden |-> hidden]
    BY <2>2, <2>3, StandingOf
  <2>5. Published(Standings, s) = [Standings EXCEPT ![s] = q]
    BY <2>1 DEF Published, Standings
  <2>6. QED
    BY <2>4, <2>5
<1>2. Revised(Standings, s, new) = [Standings EXCEPT ![s] =
        [phase |-> phase, revision |-> n + 1, playlist |-> new, hidden |-> hidden]]
  <2>1. PICK q : q = [Standings[s] EXCEPT !.playlist = new, !.revision = @ + 1]
    OBVIOUS
  <2>2. q.phase = phase /\ q.revision = n + 1 /\ q.playlist = new /\ q.hidden = hidden
    BY <2>1
  <2>3. q = [x \in {"phase", "revision", "playlist", "hidden"} |-> q[x]]
    BY <2>1
  <2>4. q = [phase |-> phase, revision |-> n + 1, playlist |-> new, hidden |-> hidden]
    BY <2>2, <2>3, StandingOf
  <2>5. Revised(Standings, s, new) = [Standings EXCEPT ![s] = q]
    BY <2>1 DEF Revised, Standings
  <2>6. QED
    BY <2>4, <2>5
<1>3. QED
  BY <1>1, <1>2

LEMMA HidingIs ==
  ASSUME NEW s \in ShareIds, NEW phase, NEW n, NEW list, NEW hidden, NEW new,
         Standings[s] = [phase |-> phase, revision |-> n, playlist |-> list, hidden |-> hidden],
         new = [phase |-> phase, revision |-> n, playlist |-> list, hidden |-> TRUE]
  PROVE  Hidden(Standings, s) = [Standings EXCEPT ![s] = new]
<1>1. PICK q : q = [Standings[s] EXCEPT !.hidden = TRUE]
  OBVIOUS
<1>2. q.phase = phase /\ q.revision = n /\ q.playlist = list /\ q.hidden = TRUE
  BY <1>1
<1>3. q = [x \in {"phase", "revision", "playlist", "hidden"} |-> q[x]]
  BY <1>1
<1>4. q = new
  BY <1>2, <1>3, StandingOf
<1>5. Hidden(Standings, s) = [Standings EXCEPT ![s] = q]
  BY <1>1 DEF Hidden, Standings
<1>6. QED
  BY <1>4, <1>5

LEMMA CreateProvisions ==
  ASSUME StoreTypeOK, NEW p \in Plans, WellFormed(p), FreshShare(p), Submit(p), Create(p)
  PROVE  Ledger!Provision(p.key, p.share, p.playlist)
<1>1. /\ Accepted(p) /\ p.share \in ShareIds /\ p.method = "create" /\ Unclaimed(p)
      /\ rows[p.share] = NoRow
  BY DEF Accepted, Plans, Requests, Create, CreateGuard
<1>2. Standings[p.share] = Ledger!Unborn
  BY <1>1, StandingIs DEF FreshShare, Standings
<1>3. AppliedOutcome(p).revision = 1 /\ rows'[p.share] = CreatedRow(p) /\ rows'[p.share] # NoRow
  BY <1>1, AcceptedRow DEF AppliedOutcome, OutcomeOf, CreatedRow, Create, StoreTypeOK
<1>4. Standing(p.share)' = [phase |-> "provisional", revision |-> 1,
                            playlist |-> p.playlist, hidden |-> FALSE]
  BY <1>3 DEF Standing, CreatedRow
<1>5. Standings' = [Standings EXCEPT ![p.share] = [phase |-> "provisional", revision |-> 1,
                                                   playlist |-> p.playlist, hidden |-> FALSE]]
  BY <1>1, <1>4, AcceptedTake, OneStandingChanges
<1>6. /\ Memories[p.key] = NoReceipt
      /\ Memories' = [Memories EXCEPT ![p.key] =
                        [method |-> "create", share |-> p.share, revision |-> 1]]
  BY <1>1, <1>3, AcceptedTake
<1>7. QED
  BY <1>2, <1>5, <1>6 DEF Ledger!Provision, Ledger!Take, Standings, Memories

LEMMA ActivatePublishes ==
  ASSUME StoreTypeOK, NEW p \in Plans, WellFormed(p), FreshShare(p), Submit(p), Activate(p)
  PROVE  Ledger!Publish(p.key, p.share)
<1>1. /\ Accepted(p) /\ p.share \in ShareIds /\ p.method = "activate"
      /\ rows[p.share] # NoRow /\ rows[p.share].state = "pending"
      /\ rows[p.share].revision = p.expected
  BY DEF Accepted, Plans, Requests, Activate, ActivateGuard, Held
<1>2. /\ rows[p.share] \in Row /\ rows'[p.share] = ActivatedRow(p) /\ rows'[p.share] # NoRow
      /\ p.expected \in Nat
  BY <1>1, AcceptedRow DEF Activate, StoreTypeOK, Row
<1>3. /\ rows'[p.share].state = "active" /\ rows'[p.share].revision = rows[p.share].revision + 1
      /\ rows'[p.share].playlist = rows[p.share].playlist
      /\ rows'[p.share].blocked = rows[p.share].blocked
  BY <1>1, <1>2 DEF ActivatedRow, NewRevision, Row
<1>4. Standings[p.share] = [phase |-> "provisional", revision |-> rows[p.share].revision,
                            playlist |-> rows[p.share].playlist, hidden |-> rows[p.share].blocked]
  BY <1>1, Zenon DEF Standings, Standing
<1>5. Standing(p.share)' = [phase |-> "public", revision |-> rows[p.share].revision + 1,
                            playlist |-> rows[p.share].playlist, hidden |-> rows[p.share].blocked]
  <2>1. Standing(p.share)' = [phase |-> IF rows'[p.share].state = "pending" THEN "provisional" ELSE "public",
                              revision |-> rows'[p.share].revision,
                              playlist |-> rows'[p.share].playlist,
                              hidden |-> rows'[p.share].blocked]
    BY <1>2, Zenon DEF Standing
  <2>2. QED
    BY <1>3, <2>1
<1>6. Standings' = Published(Standings, p.share)
  <2>1. Standings' = [Standings EXCEPT ![p.share] = Standing(p.share)']
    BY <1>1, AcceptedTake, OneStandingChanges
  <2>2. rows[p.share].revision \in Nat
    BY <1>2 DEF Row
  <2>3. Published(Standings, p.share) = [Standings EXCEPT ![p.share] =
          [phase |-> "public", revision |-> rows[p.share].revision + 1,
           playlist |-> rows[p.share].playlist, hidden |-> rows[p.share].blocked]]
    BY <1>1, <1>4, <2>2, StandingChanges
  <2>4. QED
    BY <1>5, <2>1, <2>3
<1>7. /\ Memories[p.key] = NoReceipt
      /\ Memories' = [Memories EXCEPT ![p.key] =
           [method |-> "activate", share |-> p.share, revision |-> Standings[p.share].revision + 1]]
  <2>1. AppliedOutcome(p).revision = rows[p.share].revision + 1
    BY <1>1, <1>2, <1>3 DEF AppliedOutcome, OutcomeOf
  <2>2. QED
    BY <1>1, <1>4, <2>1, AcceptedTake
<1>8. QED
  BY <1>4, <1>6, <1>7 DEF Ledger!Publish, Ledger!Take, Published, Standings, Memories
LEMMA ReplaceRevises ==
  ASSUME StoreTypeOK, NEW p \in Plans, WellFormed(p), FreshShare(p), Submit(p), Replace(p)
  PROVE  Ledger!Revise(p.key, p.share, p.playlist)
<1>1. /\ Accepted(p) /\ p.share \in ShareIds /\ p.method = "replace"
      /\ rows[p.share] # NoRow /\ rows[p.share].state = "active"
      /\ rows[p.share].revision = p.expected
  BY DEF Accepted, Plans, Requests, Replace, ReplaceGuard, Held
<1>2. /\ rows[p.share] \in Row /\ rows'[p.share] = ReplacedRow(p) /\ rows'[p.share] # NoRow
      /\ p.expected \in Nat
  BY <1>1, AcceptedRow DEF Replace, StoreTypeOK, Row
<1>3. /\ rows'[p.share].state = "active" /\ rows'[p.share].revision = rows[p.share].revision + 1
      /\ rows'[p.share].playlist = p.playlist
      /\ rows'[p.share].blocked = rows[p.share].blocked
  BY <1>1, <1>2 DEF ReplacedRow, NewRevision, Row
<1>4. Standings[p.share] = [phase |-> "public", revision |-> rows[p.share].revision,
                            playlist |-> rows[p.share].playlist, hidden |-> rows[p.share].blocked]
  <2>1. Standings[p.share] = [phase |-> IF rows[p.share].state = "pending" THEN "provisional" ELSE "public",
                              revision |-> rows[p.share].revision,
                              playlist |-> rows[p.share].playlist, hidden |-> rows[p.share].blocked]
    BY <1>1, Zenon DEF Standings, Standing
  <2>2. QED
    BY <1>1, <2>1
<1>5. Standing(p.share)' = [phase |-> "public", revision |-> rows[p.share].revision + 1,
                            playlist |-> p.playlist, hidden |-> rows[p.share].blocked]
  <2>1. Standing(p.share)' = [phase |-> IF rows'[p.share].state = "pending" THEN "provisional" ELSE "public",
                              revision |-> rows'[p.share].revision,
                              playlist |-> rows'[p.share].playlist,
                              hidden |-> rows'[p.share].blocked]
    BY <1>2, Zenon DEF Standing
  <2>2. QED
    BY <1>3, <2>1
<1>6. Standings' = Revised(Standings, p.share, p.playlist)
  <2>1. Standings' = [Standings EXCEPT ![p.share] = Standing(p.share)']
    BY <1>1, AcceptedTake, OneStandingChanges
  <2>2. rows[p.share].revision \in Nat
    BY <1>2 DEF Row
  <2>3. Revised(Standings, p.share, p.playlist) = [Standings EXCEPT ![p.share] =
          [phase |-> "public", revision |-> rows[p.share].revision + 1,
           playlist |-> p.playlist, hidden |-> rows[p.share].blocked]]
    BY <1>1, <1>4, <2>2, StandingChanges
  <2>4. QED
    BY <1>5, <2>1, <2>3
<1>7. /\ Memories[p.key] = NoReceipt
      /\ Memories' = [Memories EXCEPT ![p.key] =
           [method |-> "replace", share |-> p.share, revision |-> Standings[p.share].revision + 1]]
  <2>1. AppliedOutcome(p).revision = rows[p.share].revision + 1
    BY <1>1, <1>2, <1>3 DEF AppliedOutcome, OutcomeOf
  <2>2. QED
    BY <1>1, <1>4, <2>1, AcceptedTake
<1>8. QED
  BY <1>4, <1>6, <1>7 DEF Ledger!Revise, Ledger!Take, Revised, Standings, Memories

LEMMA DeleteWithdraws ==
  ASSUME StoreTypeOK, NEW p \in Plans, WellFormed(p), FreshShare(p), Submit(p), Delete(p)
  PROVE  Ledger!Withdraw(p.key, p.share)
<1>1. /\ Accepted(p) /\ p.share \in ShareIds /\ p.method = "delete"
      /\ rows[p.share] # NoRow /\ rows[p.share].revision = p.expected
      /\ rows'[p.share] = NoRow /\ StoreTypeOK'
  BY AcceptedRow, SubmitType DEF Accepted, Plans, Requests, Delete, DeleteGuard, Held
<1>2. Standings[p.share].phase \in {"provisional", "public"}
      /\ Standings[p.share].revision = p.expected
  BY <1>1, StandingIs DEF Standings
<1>3. Standing(p.share)' = Ledger!Gone
  <2>1. \E e \in log' : e.share = p.share
    BY <1>1, AcceptedEntry, EntryFields
  <2>2. Standing(p.share)' = [phase |-> IF \E e \in log' : e.share = p.share THEN "gone" ELSE "unborn",
                              revision |-> 0, playlist |-> NoPlaylist, hidden |-> FALSE]
    BY <1>1, Zenon DEF Standing
  <2>3. QED
    BY <2>1, <2>2, GoneIs
<1>4. Standings' = [Standings EXCEPT ![p.share] = Ledger!Gone]
  BY <1>1, <1>3, AcceptedTake, OneStandingChanges
<1>5. /\ Memories[p.key] = NoReceipt
      /\ Memories' = [Memories EXCEPT ![p.key] =
           [method |-> "delete", share |-> p.share, revision |-> Standings[p.share].revision]]
  BY <1>1, <1>2, AcceptedTake DEF AppliedOutcome
<1>6. QED
  BY <1>2, <1>4, <1>5 DEF Ledger!Withdraw, Ledger!Take, Standings, Memories

\* The sweep makes provisional publications lapse.
LEMMA SweepLapses ==
  ASSUME LedgerInv, NEW now \in 0 .. clock, SweepPending(now)
  PROVE  Ledger!Lapse
<1> DEFINE S == {s \in ShareIds : Lapsed(rows[s], now)}
<1>1. \A s \in S : Standings[s].phase = "provisional"
  BY StandingIs DEF LedgerInv, Lapsed, Standings
<1>2. ASSUME NEW s \in S
      PROVE  Standing(s)' = Ledger!Gone
  <2>1. rows'[s] = NoRow /\ log' = log /\ rows[s] # NoRow
    BY <1>2 DEF SweepPending, Lapsed
  <2>2. PICK e \in Writes : e.outcome = OutcomeOf(s, rows[s])
    BY <1>2, <2>1 DEF LedgerInv, RowInv, RowIsNewestWrite
  <2>3. e \in log /\ e.share = s
    BY <2>2 DEF Writes, LedgerInv, HistoryInv, EntryOK, OutcomeOf
  <2>4. Standing(s)' = [phase |-> IF \E f \in log' : f.share = s THEN "gone" ELSE "unborn",
                        revision |-> 0, playlist |-> NoPlaylist, hidden |-> FALSE]
    BY <2>1, Zenon DEF Standing
  <2>5. QED
    BY <2>1, <2>3, <2>4, GoneIs
<1>3. \A s \in ShareIds : s \notin S => Standing(s)' = Standing(s)
  <2>1. \A s \in ShareIds : s \notin S => rows'[s] = rows[s]
    BY DEF SweepPending
  <2>2. QED
    BY <2>1, StandingStays DEF SweepPending
<1>4. Standings' = [s \in ShareIds |-> IF s \in S THEN Ledger!Gone ELSE Standings[s]]
  BY <1>2, <1>3 DEF Standings
<1>5. Memories' = Memories
  BY DEF SweepPending, Memories, Remembered
<1>6. QED
  BY <1>1, <1>4, <1>5 DEF Ledger!Lapse, Standings, Memories

\* Seen from outside nothing happens while rows and log stay, or receipts do.
LEMMA Unseen ==
  /\ rows' = rows /\ log' = log => Standings' = Standings
  /\ receipts' = receipts => Memories' = Memories
<1>1. ASSUME rows' = rows, log' = log
      PROVE  Standings' = Standings
  BY <1>1, StandingStays DEF Standings
<1>2. ASSUME receipts' = receipts
      PROVE  Memories' = Memories
  BY <1>2 DEF Memories, Remembered
<1>3. QED
  BY <1>1, <1>2

\* Pruning and the receipt purge of a takedown only forget keys.
LEMMA ReceiptsAreForgotten ==
  ASSUME NEW K \in SUBSET Keys, rows' = rows, log' = log,
         receipts' = [k \in Keys |-> IF k \in K THEN NoReceipt ELSE receipts[k]]
  PROVE  Ledger!Forget
<1>1. Standings' = Standings
  BY Unseen
<1>2. Memories' = [k \in Keys |-> IF k \in K THEN NoReceipt ELSE Memories[k]]
  BY DEF Memories, Remembered
<1>3. QED
  BY <1>1, <1>2 DEF Ledger!Forget, Standings, Memories

LEMMA PruneForgets ==
  ASSUME NEW now \in 0 .. clock, PruneReceipts(now)
  PROVE  Ledger!Forget
<1> DEFINE K == {k \in Keys : ReceiptDue(k, now)}
<1>1. receipts' = [k \in Keys |-> IF k \in K THEN NoReceipt ELSE receipts[k]]
  BY DEF PruneReceipts
<1>2. QED
  BY <1>1, ReceiptsAreForgotten DEF PruneReceipts

LEMMA PurgeForgets ==
  ASSUME NEW s \in ShareIds, PurgeReceipts(s)
  PROVE  Ledger!Forget
<1> DEFINE K == {k \in Keys : receipts[k] # NoReceipt /\ receipts[k].share = s}
<1>1. receipts' = [k \in Keys |-> IF k \in K THEN NoReceipt ELSE receipts[k]]
  BY DEF PurgeReceipts
<1>2. QED
  BY <1>1, ReceiptsAreForgotten DEF PurgeReceipts

\* A block hides a publication, or names one that has no row.
LEMMA BlockHides ==
  ASSUME LedgerInv, NEW s \in ShareIds, BlockRow(s)
  PROVE  Ledger!Hide(s) \/ (Standings' = Standings /\ Memories' = Memories)
<1>1. /\ log' = log /\ Memories' = Memories
      /\ \A r \in ShareIds : r # s => rows'[r] = rows[r]
      /\ rows \in [ShareIds -> Row \cup {NoRow}]
  BY Unseen DEF BlockRow, LedgerInv, StoreTypeOK
<1>2. \A r \in ShareIds : r # s => Standing(r)' = Standing(r)
  BY <1>1, StandingStays
<1>3. CASE rows[s] = NoRow
  <2>1. rows' = rows
    BY <1>1, <1>3 DEF BlockRow
  <2>2. QED
    BY <1>1, <2>1, Unseen
<1>4. CASE rows[s] # NoRow
  <2>1. rows[s] \in Row /\ rows[s].revision \in Nat
    BY <1>1, <1>4 DEF Row
  <2>2. rows'[s] = [rows[s] EXCEPT !.blocked = TRUE]
    BY <1>1, <1>4 DEF BlockRow
  <2>3. /\ rows'[s].state = rows[s].state /\ rows'[s].revision = rows[s].revision
        /\ rows'[s].playlist = rows[s].playlist /\ rows'[s].blocked = TRUE
        /\ rows'[s] \in Row
    BY <2>1, <2>2 DEF Row
  <2>4. PICK phase : phase = IF rows[s].state = "pending" THEN "provisional" ELSE "public"
    OBVIOUS
  <2>5. Standings[s] = [phase |-> phase, revision |-> rows[s].revision,
                        playlist |-> rows[s].playlist, hidden |-> rows[s].blocked]
    BY <1>4, <2>4, Zenon DEF Standings, Standing
  <2>6. Standing(s)' = [phase |-> phase, revision |-> rows[s].revision,
                        playlist |-> rows[s].playlist, hidden |-> TRUE]
    <3>1. rows'[s] # NoRow
      BY <2>3, NullAssumption
    <3>2. Standing(s)' = [phase |-> IF rows'[s].state = "pending" THEN "provisional" ELSE "public",
                          revision |-> rows'[s].revision, playlist |-> rows'[s].playlist,
                          hidden |-> rows'[s].blocked]
      BY <3>1, Zenon DEF Standing
    <3>3. QED
      BY <2>3, <2>4, <3>2
  <2>7. Standings' = [Standings EXCEPT ![s] = Standing(s)']
    BY <1>2, OneStandingChanges
  <2>8. Hidden(Standings, s) = [Standings EXCEPT ![s] = Standing(s)']
    BY <2>5, <2>6, HidingIs
  <2>9. Standings' = Hidden(Standings, s)
    BY <2>7, <2>8
  <2>10. Standings[s].phase \in {"provisional", "public"}
    BY <2>4, <2>5
  <2>11. QED
    BY <1>1, <2>9, <2>10 DEF Ledger!Hide, Hidden, Standings, Memories
<1>5. QED
  BY <1>3, <1>4

\* The removal of a takedown ends a hidden publication, or finds no row.
LEMMA RemovalRemoves ==
  ASSUME LedgerInv, NEW s \in taken, RemoveRow(s)
  PROVE  Ledger!Remove(s) \/ (Standings' = Standings /\ Memories' = Memories)
<1>1. /\ s \in ShareIds /\ log' = log /\ Memories' = Memories
      /\ \A r \in ShareIds : r # s => rows'[r] = rows[r]
      /\ rows'[s] = NoRow
  BY Unseen DEF RemoveRow, LedgerInv, StoreTypeOK
<1>2. \A r \in ShareIds : r # s => Standing(r)' = Standing(r)
  BY <1>1, StandingStays
<1>3. CASE rows[s] = NoRow
  <2>1. rows' = rows
    BY <1>1, <1>3 DEF RemoveRow, LedgerInv, StoreTypeOK
  <2>2. QED
    BY <1>1, <2>1, Unseen
<1>4. CASE rows[s] # NoRow
  <2>1. (\E e \in log : e.share = s) /\ rows[s].blocked
    BY <1>4 DEF LedgerInv, TakenInv
  <2>2. Standings[s].hidden
    BY <1>1, <1>4, <2>1, StandingIs DEF LedgerInv, Standings
  <2>3. Standing(s)' = Ledger!Gone
    <3>1. Standing(s)' = [phase |-> IF \E e \in log' : e.share = s THEN "gone" ELSE "unborn",
                          revision |-> 0, playlist |-> NoPlaylist, hidden |-> FALSE]
      BY <1>1, Zenon DEF Standing
    <3>2. QED
      BY <1>1, <2>1, <3>1, GoneIs
  <2>4. Standings' = [Standings EXCEPT ![s] = Ledger!Gone]
    BY <1>1, <1>2, <2>3, OneStandingChanges
  <2>5. QED
    BY <1>1, <2>2, <2>4 DEF Ledger!Remove, Standings, Memories
<1>5. QED
  BY <1>3, <1>4

\* Every step of the tables is a step of the ledger, or none.
LEMMA LedgerStep ==
  ASSUME LedgerInv, [StoreNext]_storeVars
  PROVE  [Ledger!LedgerNext]_(Ledger!ledgerVars)
<1>1. Standings' = Standings /\ Memories' = Memories => UNCHANGED Ledger!ledgerVars
  BY DEF Ledger!ledgerVars, Standings, Memories
<1>2. ASSUME NEW p \in Plans, WellFormed(p), FreshShare(p), Submit(p)
      PROVE  Ledger!LedgerNext \/ UNCHANGED Ledger!ledgerVars
  <2>1. p.key \in Keys /\ p.share \in ShareIds
        /\ (p.method \in {"create", "replace"} => p.playlist \in Playlists)
    BY <1>2 DEF Plans, Requests, WellFormed
  <2>2. CASE Create(p)
    BY <1>2, <2>1, <2>2, CreateProvisions DEF Create, Ledger!LedgerNext, LedgerInv
  <2>3. CASE Activate(p)
    BY <1>2, <2>1, <2>3, ActivatePublishes DEF Ledger!LedgerNext, LedgerInv
  <2>4. CASE Replace(p)
    BY <1>2, <2>1, <2>4, ReplaceRevises DEF Replace, Ledger!LedgerNext, LedgerInv
  <2>5. CASE Delete(p)
    BY <1>2, <2>1, <2>5, DeleteWithdraws DEF Ledger!LedgerNext, LedgerInv
  <2>6. CASE Refuse(p)
    BY <1>1, <2>6, Unseen DEF Refuse
  <2>7. QED
    BY <1>2, <2>2, <2>3, <2>4, <2>5, <2>6 DEF Submit
<1>3. ASSUME NEW now \in 0 .. clock, SweepPending(now) \/ PruneReceipts(now)
      PROVE  Ledger!LedgerNext
  BY <1>3, SweepLapses, PruneForgets DEF Ledger!LedgerNext
<1>4. ASSUME NEW s \in ShareIds, TakedownStatement(s)
      PROVE  Ledger!LedgerNext \/ UNCHANGED Ledger!ledgerVars
  <2>1. CASE BlockRow(s)
    BY <1>1, <2>1, BlockHides DEF Ledger!LedgerNext
  <2>2. CASE PurgeTags(s)
    BY <1>1, <2>2, Unseen DEF PurgeTags
  <2>3. CASE PurgeReceipts(s)
    BY <2>3, PurgeForgets DEF Ledger!LedgerNext
  <2>4. CASE s \in taken /\ RemoveRow(s)
    BY <1>1, <2>4, RemovalRemoves DEF Ledger!LedgerNext
  <2>5. QED
    BY <1>4, <2>1, <2>2, <2>3, <2>4 DEF TakedownStatement
<1>5. CASE Tick \/ UNCHANGED storeVars
  BY <1>1, <1>5, Unseen DEF Tick, storeVars
<1>6. QED
  BY <1>2, <1>3, <1>4, <1>5, PlanFacts DEF StoreNext

LEMMA LedgerStarts ==
  ASSUME StoreInit
  PROVE  LedgerInv /\ Ledger!LedgerInit
<1>1. LedgerInv
  <2>1. StoreTypeOK
    BY DEF StoreInit, StoreTypeOK
  <2>2. RowInv
    BY DEF StoreInit, RowInv, RowIsNewestWrite, NoLostUpdate, Writes, WindowInv,
           NoLateActivation
  <2>3. HistoryInv /\ TakenInv
    BY DEF StoreInit, HistoryInv, TakenInv
  <2>4. QED
    BY <2>1, <2>2, <2>3 DEF LedgerInv
<1>2. Standings = [s \in ShareIds |-> Ledger!Unborn]
  <2>1. \A s \in ShareIds : Standing(s) = Ledger!Unborn
    BY <1>1, StandingIs DEF StoreInit, LedgerInv
  <2>2. QED
    BY <2>1 DEF Standings
<1>3. Memories = [k \in Keys |-> NoReceipt]
  BY DEF Memories, Remembered, StoreInit
<1>4. QED
  BY <1>1, <1>2, <1>3 DEF Ledger!LedgerInit, Standings, Memories

\* Seen from outside, the tables under any batches, sweeps and takedowns are
\* the ledger: a publication is born provisional, becomes public, is revised
\* one revision at a time and ends for good, each accepted batch being one
\* such step taken under a key that was not in use.
THEOREM LedgerIsImplemented == StoreSpec => ImplementsLedger
<1>1. StoreInit => LedgerInv /\ Ledger!LedgerInit
  BY LedgerStarts
<1>2. LedgerInv /\ [StoreNext]_storeVars => LedgerInv'
  BY TypeStep, StepCases, AcceptedRowInv, QuietRowInv, HistoryStep, TakenStep DEF LedgerInv
<1>3. LedgerInv /\ [StoreNext]_storeVars => [Ledger!LedgerNext]_(Ledger!ledgerVars)
  BY LedgerStep
<1>4. QED
  BY <1>1, <1>2, <1>3, PTL DEF StoreSpec, ImplementsLedger, Ledger!LedgerSpec

-----------------------------------------------------------------------------
(***************************************************************************)
(* The handlers.                                                           *)
(***************************************************************************)

Busy(h)     == pc[h] # "idle"
Creating(h) == Busy(h) /\ plan[h].method = "create"

(***************************************************************************)
(* The inductive invariant.                                                *)
(***************************************************************************)

StoreInv == StoreTypeOK /\ KeyInv /\ AtMostOncePerKey /\ RowInv /\ HistoryInv

HandlerTypeOK ==
  /\ pc \in [Handlers -> Steps]
  /\ plan \in [Handlers -> Plans \cup {NoPlan}]
  /\ attempt \in [Handlers -> Nat]
  /\ mine \in [Handlers -> Nat]
  /\ seen \in [Handlers -> Receipt \cup {NoReceipt}]
  /\ reply = [h \in Handlers |-> reply[h]]
  /\ past \in [Handlers -> SUBSET Nat]

\* Only a share whose secret reached its client was ever changed by anything
\* but its create, or taken down.
WorldInv ==
  /\ held \subseteq minted /\ taken \subseteq held
  /\ \A e \in log : e.share \in minted
  /\ \A e \in log : e.request.method # "create" => e.share \in held
  /\ operator \in [share : ShareIds \cup {NoShare}, next : {"none", "tags", "receipts", "row"}]
  /\ operator # NoTakedown => operator.share \in taken

\* Ids generated for two requests differ.
MintInv == \A g, h \in Handlers :
             Creating(g) /\ Creating(h) /\ plan[g].share = plan[h].share => g = h

\* What a request in flight asks.
PlanInv(h) ==
  LET p == plan[h]
  IN  /\ p \in Plans /\ WellFormed(p)
      /\ p.now <= clock /\ clock <= p.now + RequestLifetime
      /\ p.method = "create" => p.share \in minted \ held
      /\ p.method # "create" => p.secret \in Forgers \/ (p.secret = p.share /\ p.share \in held)
      /\ \A n \in past[h] : n < nonce

\* Only a create's own batches have touched the share generated for it.
BirthInv(h) ==
  plan[h].method = "create" =>
    \A e \in log : e.share = plan[h].share =>
      e.key = plan[h].key /\ e.expires = plan[h].now + ReceiptTtl

\* The parent a create claims, once the lineage gate let it through.
Sourced(link, share, now) ==
  /\ \E f \in log : /\ f.share = link.share /\ f.share # share
                    /\ f.request.method = "activate" /\ f.now < now
  /\ \E f \in Writes : f.share = link.share /\ f.outcome.revision = link.revision

\* The link has been the share's before, or the share is gone for good.
Settles(share, link) ==
  \/ rows[share] = NoRow /\ \E e \in log : e.share = share
  \/ \E f \in Writes : f.share = share /\ f.outcome.playlist.derivedFrom = link

GateInv(h) ==
  LET p == plan[h]
  IN  /\ pc[h] = "lineage" => p.method = "create" /\ p.playlist.derivedFrom # NoLink
      /\ pc[h] = "precheck" => p.method = "replace"
      /\ pc[h] = "batch" /\ p.method = "create" /\ p.playlist.derivedFrom # NoLink =>
           Sourced(p.playlist.derivedFrom, p.share, p.now)
      /\ pc[h] = "batch" /\ p.method = "replace" =>
           TakenInEarly(h) \/ Settles(p.share, p.playlist.derivedFrom)

\* A batch with the nonce of the last attempt is this request's.
AttemptInv(h) ==
  pc[h] = "receipt" =>
    /\ mine[h] < nonce
    /\ \A e \in log : e.nonce = mine[h] => /\ e.request = RequestHash(plan[h])
                                           /\ e.share = plan[h].share

\* The batch e did what the request of h asks, before it was taken in or in
\* an attempt of its own, and its receipt is due to stand.
Settled(h, e) ==
  LET p == plan[h]
  IN  /\ e.key = p.key /\ e.nonce \in past[h] /\ clock < e.expires
      /\ e.request = RequestHash(p) /\ e.share \notin taken
      /\ p.method # "create" => p.secret = e.share

\* What the handler has read is still true of the log when it goes on.
SeenInv(h) ==
  LET p == plan[h]
  IN  /\ pc[h] = "row" /\ seen[h] # NoReceipt =>
           \E e \in log : Records(seen[h], p.key, e)
      /\ pc[h] = "row" =>
           \A e \in log : Settled(h, e) => seen[h] # NoReceipt /\ Records(seen[h], p.key, e)
      /\ pc[h] \in {"current", "details"} =>
           /\ p.method # "create" /\ p.secret = p.share
           /\ \A e \in log : ~Settled(h, e)
      /\ pc[h] = "current" => p.method = "activate"

\* What an answer says.
AnswerInv(h) ==
  LET p == plan[h]
      r == reply[h]
  IN  pc[h] = "done" =>
        /\ r.code = "CREATED" => p.method = "create" /\ r.share = p.share
        /\ r.code \in Acknowledged =>
             \E e \in log : /\ e.request = RequestHash(p)
                            /\ e.share = r.share
                            /\ e.outcome.revision = r.revision
                            /\ e.outcome.playlist = r.playlist
        /\ r.code = "REVISION_CONFLICT" /\ r.revision # 0 => p.secret = p.share
        /\ r.code \in Definitive \ {"SCHEMA_INVALID"} =>
             \A e \in log : Settled(h, e) =>
               \/ r = Replayed(p, e.outcome)
               \/ r = Applied(p, e.outcome) /\ e.nonce = mine[h]

HandlerInv(h) ==
  Busy(h) => /\ PlanInv(h) /\ BirthInv(h) /\ GateInv(h) /\ AttemptInv(h)
             /\ SeenInv(h) /\ AnswerInv(h)

ApiInv ==
  /\ StoreInv /\ HandlerTypeOK /\ WorldInv /\ MintInv /\ LineageFromPublished
  /\ \A h \in Handlers : HandlerInv(h)
(***************************************************************************)
(* What a step leaves of the invariant.                                    *)
(***************************************************************************)

LEMMA StoreGrows ==
  ASSUME StoreInv, [StoreNext]_storeVars
  PROVE  /\ StoreInv'
         /\ clock \in Nat /\ clock' \in Nat /\ clock <= clock'
         /\ nonce \in Nat /\ nonce' \in Nat /\ nonce <= nonce'
         /\ log \subseteq log' /\ taken \subseteq taken'
<1>1. StoreTypeOK' /\ HistoryInv'
  BY TypeStep, HistoryStep DEF StoreInv
<1>2. RowInv'
  BY StepCases, AcceptedRowInv, QuietRowInv DEF StoreInv
<1>3. KeyInv' /\ AtMostOncePerKey'
  BY KeyStep DEF StoreInv
<1>4. /\ clock \in Nat /\ clock' \in Nat /\ clock <= clock'
      /\ nonce \in Nat /\ nonce' \in Nat /\ nonce <= nonce' /\ taken \subseteq taken'
  BY DEF StoreInv, StoreTypeOK, StoreNext, Submit, SweepPending, PruneReceipts,
         TakedownStatement, BlockRow, PurgeTags, PurgeReceipts, RemoveRow, Tick, storeVars
<1>5. log \subseteq log'
  BY StepCases, AcceptedEntry DEF StoreInv
<1>6. QED
  BY <1>1, <1>2, <1>3, <1>4, <1>5 DEF StoreInv

\* The parent a create claimed stays on record.
LEMMA SourcedStays ==
  ASSUME log \subseteq log', NEW link, NEW share, NEW now, Sourced(link, share, now)
  PROVE  Sourced(link, share, now)'
<1>1. Writes \subseteq Writes'
  BY DEF Writes
<1>2. QED
  BY <1>1 DEF Sourced

\* So does what the pre-check of a replace has found.
LEMMA SettlesStays ==
  ASSUME StoreTypeOK, [StoreNext]_storeVars, log \subseteq log',
         NEW share \in ShareIds, NEW link, Settles(share, link)
  PROVE  Settles(share, link)'
<1>1. Writes \subseteq Writes'
  BY DEF Writes
<1>2. CASE rows[share] = NoRow /\ \E e \in log : e.share = share
  BY <1>2, GoneStays DEF Settles
<1>3. CASE \E f \in Writes : f.share = share /\ f.outcome.playlist.derivedFrom = link
  BY <1>1, <1>3 DEF Settles
<1>4. QED
  BY <1>2, <1>3 DEF Settles

\* A request in flight does not notice what the others do: their batches have
\* later nonces and, if it is a create, other shares.
LEMMA Bystander ==
  ASSUME ApiInv, NEW h \in Handlers, [StoreNext]_storeVars,
         pc'[h] = pc[h], plan'[h] = plan[h], mine'[h] = mine[h],
         seen'[h] = seen[h], reply'[h] = reply[h], past'[h] = past[h],
         minted \subseteq minted', held \subseteq held',
         \A e \in log' \ log : e.nonce = nonce,
         Busy(h) => clock' <= plan[h].now + RequestLifetime,
         Creating(h) => /\ plan[h].share \notin held'
                        /\ \A e \in log' \ log : e.share # plan[h].share
  PROVE  HandlerInv(h)'
<1>1. CASE ~Busy(h)
  BY <1>1 DEF HandlerInv, Busy
<1>2. CASE Busy(h)
  <2>1. HandlerInv(h) /\ Busy(h)' /\ plan[h] \in Plans /\ plan[h].now \in Nat
    BY <1>2, PlanFacts DEF ApiInv, Busy, HandlerInv, PlanInv, Plan
  <2>2. /\ StoreInv /\ StoreInv' /\ log \subseteq log' /\ taken \subseteq taken'
        /\ clock \in Nat /\ clock' \in Nat /\ clock <= clock'
        /\ nonce \in Nat /\ nonce' \in Nat /\ nonce <= nonce'
    BY StoreGrows DEF ApiInv
  <2>3. past[h] \subseteq Nat /\ \A e \in log' : e.nonce \in Nat /\ e.expires \in Nat
    BY <2>2 DEF ApiInv, HandlerTypeOK, StoreInv, StoreTypeOK, LogEntry
  <2>4. PlanInv(h)'
    BY <1>2, <2>1, <2>2, <2>3 DEF HandlerInv, PlanInv, Creating
  <2>5. BirthInv(h)'
    BY <1>2, <2>1 DEF HandlerInv, BirthInv, Creating
  <2>6. GateInv(h)'
    <3>1. \A e \in log' \ log : e.nonce \notin past[h]
      BY <1>2, <2>1, <2>2, <2>3 DEF HandlerInv, PlanInv
    <3>2. TakenInEarly(h) => TakenInEarly(h)'
      BY <3>1 DEF TakenInEarly
    <3>3. plan[h].share \in ShareIds /\ StoreTypeOK
      BY <2>1, <2>2, PlanFacts DEF Plan, StoreInv
    <3>4. PICK link : link = plan[h].playlist.derivedFrom
      OBVIOUS
    <3>5. Settles(plan[h].share, link) => Settles(plan[h].share, link)'
      BY <2>2, <3>3, SettlesStays
    <3>6. Sourced(link, plan[h].share, plan[h].now) => Sourced(link, plan[h].share, plan[h].now)'
      BY <2>2, SourcedStays
    <3>7. QED
      BY <1>2, <2>1, <3>2, <3>4, <3>5, <3>6 DEF HandlerInv, GateInv
  <2>7. AttemptInv(h)'
    <3>1. mine[h] \in Nat
      BY DEF ApiInv, HandlerTypeOK
    <3>2. QED
      BY <1>2, <2>1, <2>2, <3>1 DEF HandlerInv, AttemptInv
  <2>8. ASSUME NEW e \in log', Settled(h, e)'
        PROVE  e \in log /\ Settled(h, e)
    <3>1. e.nonce < nonce
      BY <1>2, <2>1, <2>8 DEF HandlerInv, PlanInv, Settled
    <3>2. e \in log /\ clock < e.expires
      BY <2>2, <2>3, <2>8, <3>1 DEF Settled
    <3>3. QED
      BY <2>2, <2>8, <3>2 DEF Settled
  <2>9. SeenInv(h)'
    BY <1>2, <2>1, <2>2, <2>8 DEF HandlerInv, SeenInv
  <2>10. AnswerInv(h)'
    BY <1>2, <2>1, <2>2, <2>8 DEF HandlerInv, AnswerInv
  <2>11. QED
    BY <2>4, <2>5, <2>6, <2>7, <2>9, <2>10 DEF HandlerInv
<1>3. QED
  BY <1>1, <1>2

\* A batch that adds nothing to the log keeps the lineage on record.
LEMMA LineageStays ==
  ASSUME LineageFromPublished, log' = log
  PROVE  LineageFromPublished'
<1>1. Writes' = Writes
  BY DEF Writes
<1>2. QED
  BY <1>1 DEF LineageFromPublished

\* Steps of the cleanup, the operator and the clock.
LEMMA OutsideStep ==
  ASSUME ApiInv, [StoreNext]_storeVars, UNCHANGED <<handlerVars, minted, held>>,
         log' = log, taken' \subseteq held,
         operator' \in [share : ShareIds \cup {NoShare}, next : {"none", "tags", "receipts", "row"}],
         operator' # NoTakedown => operator'.share \in taken',
         \A h \in Handlers : Busy(h) => clock' <= plan[h].now + RequestLifetime
  PROVE  ApiInv'
<1>1. StoreInv'
  BY StoreGrows DEF ApiInv
<1>2. HandlerTypeOK'
  BY DEF ApiInv, HandlerTypeOK, handlerVars
<1>3. WorldInv' /\ LineageFromPublished'
  BY LineageStays DEF ApiInv, WorldInv
<1>4. MintInv'
  BY DEF ApiInv, MintInv, Creating, Busy, handlerVars
<1>5. ASSUME NEW h \in Handlers
      PROVE  HandlerInv(h)'
  <2>1. Creating(h) => plan[h].share \notin held'
    BY DEF ApiInv, HandlerInv, PlanInv, Creating
  <2>2. QED
    BY <2>1, Bystander DEF handlerVars
<1>6. QED
  BY <1>1, <1>2, <1>3, <1>4, <1>5 DEF ApiInv

\* A step of a handler that writes nothing: the facts about its request hold
\* on, so only what it read and answered is left to show.
LEMMA ReadingStep ==
  ASSUME ApiInv, NEW h \in Handlers, NEW step \in Steps \ {"idle"}, Busy(h),
         UNCHANGED <<storeVars, plan, mine, past, worldVars>>, Goto(h, step),
         attempt' \in [Handlers -> Nat],
         seen' \in [Handlers -> Receipt \cup {NoReceipt}],
         reply' = [g \in Handlers |-> reply'[g]],
         \A g \in Handlers \ {h} : seen'[g] = seen[g] /\ reply'[g] = reply[g],
         GateInv(h)', AttemptInv(h)', SeenInv(h)', AnswerInv(h)'
  PROVE  ApiInv'
<1>1. /\ pc' \in [Handlers -> Steps] /\ pc'[h] = step
      /\ \A g \in Handlers \ {h} : pc'[g] = pc[g]
  BY DEF Goto, ApiInv, HandlerTypeOK
<1>2. StoreInv' /\ [StoreNext]_storeVars /\ log' = log
  BY StoreGrows DEF ApiInv, storeVars
<1>3. HandlerTypeOK'
  BY <1>1 DEF ApiInv, HandlerTypeOK
<1>4. WorldInv' /\ LineageFromPublished'
  BY LineageStays DEF ApiInv, WorldInv, worldVars, storeVars
<1>5. \A g \in Handlers : Busy(g)' <=> Busy(g)
  BY <1>1 DEF Busy
<1>6. MintInv'
  BY <1>5 DEF ApiInv, MintInv, Creating
<1>7. ASSUME NEW g \in Handlers
      PROVE  HandlerInv(g)'
  <2>1. CASE g = h
    <3>1. PlanInv(h)' /\ BirthInv(h)'
      BY DEF ApiInv, HandlerInv, PlanInv, BirthInv, storeVars, worldVars
    <3>2. QED
      BY <2>1, <3>1 DEF HandlerInv
  <2>2. CASE g # h
    <3>1. /\ Busy(g) => clock' <= plan[g].now + RequestLifetime
          /\ Creating(g) => plan[g].share \notin held'
      BY DEF ApiInv, HandlerInv, PlanInv, Creating, storeVars, worldVars
    <3>2. QED
      BY <1>1, <1>2, <2>2, <3>1, Bystander DEF worldVars
  <2>3. QED
    BY <2>1, <2>2
<1>8. QED
  BY <1>2, <1>3, <1>4, <1>6, <1>7 DEF ApiInv
(***************************************************************************)
(* The steps of a handler that only read.                                  *)
(***************************************************************************)

\* A handler in flight: its plan, and the invariant at it.
LEMMA InFlight ==
  ASSUME ApiInv, NEW h \in Handlers, Busy(h)
  PROVE  /\ HandlerInv(h)
         /\ PlanInv(h) /\ BirthInv(h) /\ GateInv(h) /\ AttemptInv(h) /\ SeenInv(h)
         /\ plan[h] \in Plans /\ plan[h] \in Plan /\ WellFormed(plan[h])
         /\ plan[h].key \in Keys /\ plan[h].share \in ShareIds /\ plan[h].now \in Nat
         /\ StoreTypeOK /\ HistoryInv /\ RowInv /\ KeyInv
<1>1. HandlerInv(h) /\ PlanInv(h)
  BY DEF ApiInv, HandlerInv
<1>2. plan[h] \in Plans /\ WellFormed(plan[h])
  BY <1>1 DEF PlanInv
<1>3. plan[h] \in Plan
  BY <1>2, PlanFacts
<1>4. plan[h].key \in Keys /\ plan[h].share \in ShareIds /\ plan[h].now \in Nat
  BY <1>3 DEF Plan
<1>5. QED
  BY <1>1, <1>2, <1>3, <1>4 DEF ApiInv, StoreInv, HandlerInv

\* Two ways a read ends: an answer, or a further read.
LEMMA ReadAnswers ==
  ASSUME ApiInv, NEW h \in Handlers, NEW r, Busy(h), Answer(h, r),
         UNCHANGED <<storeVars, plan, attempt, mine, seen, past, worldVars>>,
         r.code = "CREATED" => plan[h].method = "create" /\ r.share = plan[h].share,
         r.code \in Acknowledged =>
           \E e \in log : /\ e.request = RequestHash(plan[h]) /\ e.share = r.share
                          /\ e.outcome.revision = r.revision
                          /\ e.outcome.playlist = r.playlist,
         r.code = "REVISION_CONFLICT" /\ r.revision # 0 => plan[h].secret = plan[h].share,
         r.code \in Definitive \ {"SCHEMA_INVALID"} =>
           \A e \in log : Settled(h, e) =>
             \/ r = Replayed(plan[h], e.outcome)
             \/ r = Applied(plan[h], e.outcome) /\ e.nonce = mine[h]
  PROVE  ApiInv'
<1>1. /\ pc' \in [Handlers -> Steps] /\ pc'[h] = "done" /\ Goto(h, "done")
      /\ reply' = [g \in Handlers |-> reply'[g]] /\ reply'[h] = r
      /\ \A g \in Handlers \ {h} : reply'[g] = reply[g]
  BY DEF Answer, Goto, ApiInv, HandlerTypeOK, Steps
<1>2. GateInv(h)' /\ AttemptInv(h)' /\ SeenInv(h)'
  BY <1>1 DEF GateInv, AttemptInv, SeenInv
<1>3. \A e \in log' : Settled(h, e)' => e \in log /\ Settled(h, e)
  BY DEF Settled, storeVars
<1>4. AnswerInv(h)'
  BY <1>1, <1>3 DEF AnswerInv, storeVars
<1>5. QED
  BY <1>1, <1>2, <1>4, ReadingStep DEF ApiInv, HandlerTypeOK, Steps

LEMMA ReadContinues ==
  ASSUME ApiInv, NEW h \in Handlers, NEW step \in Steps \ {"idle", "done", "receipt"},
         Busy(h), Goto(h, step),
         UNCHANGED <<storeVars, plan, attempt, mine, reply, past, worldVars>>,
         seen' \in [Handlers -> Receipt \cup {NoReceipt}],
         \A g \in Handlers \ {h} : seen'[g] = seen[g],
         GateInv(h)', SeenInv(h)'
  PROVE  ApiInv'
<1>1. pc'[h] = step
  BY DEF Goto, ApiInv, HandlerTypeOK
<1>2. AttemptInv(h)' /\ AnswerInv(h)'
  BY <1>1 DEF AttemptInv, AnswerInv
<1>3. QED
  BY <1>2, ReadingStep DEF ApiInv, HandlerTypeOK

\* A refusal acknowledges nothing and tells no revision.
LEMMA RefusalSays ==
  ASSUME NEW p, NEW code
  PROVE  /\ Refusal(p, code).code = code /\ Refusal(p, code).revision = 0
         /\ Refusal(p, code).share = p.share
  BY DEF Refusal

\* Any answer that refuses, when it may be given.
LEMMA ReadRefuses ==
  ASSUME ApiInv, NEW h \in Handlers, NEW code, Busy(h),
         Answer(h, Refusal(plan[h], code)), code \notin Acknowledged,
         UNCHANGED <<storeVars, plan, attempt, mine, seen, past, worldVars>>,
         code \in Definitive \ {"SCHEMA_INVALID"} => \A e \in log : ~Settled(h, e)
  PROVE  ApiInv'
<1>1. PICK r : r = Refusal(plan[h], code)
  OBVIOUS
<1>2. r.code = code /\ r.revision = 0
  BY <1>1, RefusalSays
<1>3. QED
  BY <1>1, <1>2, ReadAnswers DEF Acknowledged

\* A parent that is public now was published when its row says, and had every
\* revision up to the present one.
LEMMA GateSources ==
  ASSUME ApiInv, NEW h \in Handlers, pc[h] = "lineage", DerivedFromAcceptable(plan[h])
  PROVE  Sourced(plan[h].playlist.derivedFrom, plan[h].share, plan[h].now)
<1> DEFINE p    == plan[h]
           link == p.playlist.derivedFrom
<1>1. /\ p.method = "create" /\ link # NoLink /\ p \in Plan /\ WellFormed(p)
      /\ StoreTypeOK /\ HistoryInv
  BY InFlight DEF Busy, GateInv
<1>2. p.playlist \in Playlists
  BY <1>1 DEF Plan, WellFormed
<1>3. link \in Links
  BY <1>1, <1>2, PlaylistAssumption DEF PlaylistShape
<1>4. link.share \in ShareIds /\ link.revision \in Nat \ {0}
  BY <1>3 DEF Links
<1> HIDE DEF p
<1>5. /\ link.share # p.share /\ rows[link.share] # NoRow
      /\ rows[link.share].state = "active"
      /\ link.revision <= rows[link.share].revision
      /\ rows[link.share].first < p.now
  BY DEF DerivedFromAcceptable, Readable, p
<1>6. rows[link.share] \in Row /\ RowOK(link.share)
  BY <1>1, <1>4, <1>5 DEF StoreTypeOK, HistoryInv
<1>7. link.revision \in 1 .. rows[link.share].revision
  BY <1>4, <1>5, <1>6 DEF Row
<1>8. \E f \in Writes : f.share = link.share /\ f.outcome.revision = link.revision
  BY <1>6, <1>7 DEF RowOK
<1>9. \E f \in log : /\ f.share = link.share /\ f.share # p.share
                     /\ f.request.method = "activate" /\ f.now < p.now
  BY <1>5, <1>6 DEF RowOK
<1>10. QED
  BY <1>8, <1>9 DEF Sourced, p

LEMMA CheckLineageKeeps ==
  ASSUME ApiInv, NEW h \in Handlers, CheckLineage(h)
  PROVE  ApiInv'
<1>1. Busy(h) /\ pc[h] = "lineage"
  BY DEF CheckLineage, Busy
<1>2. CASE DerivedFromAcceptable(plan[h])
  <2>1. Goto(h, "batch") /\ pc'[h] = "batch"
    BY <1>2 DEF CheckLineage, Goto, ApiInv, HandlerTypeOK
  <2>2. Sourced(plan[h].playlist.derivedFrom, plan[h].share, plan[h].now)'
    BY <1>1, <1>2, GateSources, SourcedStays DEF CheckLineage, storeVars
  <2>3. GateInv(h)'
    BY <1>1, <2>1, <2>2, InFlight DEF GateInv, CheckLineage
  <2>4. SeenInv(h)'
    BY <2>1 DEF SeenInv
  <2>5. QED
    BY <1>1, <1>2, <2>1, <2>3, <2>4, ReadContinues
       DEF CheckLineage, Steps, ApiInv, HandlerTypeOK
<1>3. CASE ~DerivedFromAcceptable(plan[h])
  BY <1>1, <1>3, ReadRefuses DEF CheckLineage, Acknowledged
<1>4. QED
  BY <1>2, <1>3

\* A replace taken in after the activation that gets past the pre-check asks
\* for the link the publication has, if it is still there.
LEMMA PrecheckSettles ==
  ASSUME ApiInv, NEW h \in Handlers, pc[h] = "precheck",
         Readable(plan[h].share)
           => SameDerivedFrom(rows[plan[h].share].playlist.derivedFrom, plan[h].playlist.derivedFrom)
  PROVE  TakenInEarly(h) \/ Settles(plan[h].share, plan[h].playlist.derivedFrom)
<1>1. PICK s, link : s = plan[h].share /\ link = plan[h].playlist.derivedFrom
  OBVIOUS
<1>2. /\ s \in ShareIds /\ HistoryInv /\ RowIsNewestWrite
      /\ Readable(s) => rows[s].playlist.derivedFrom = link
  BY <1>1, InFlight DEF Busy, RowInv, SameDerivedFrom
<1>3. SUFFICES ASSUME NEW e \in log, e.share = s, e.request.method = "activate"
               PROVE  Settles(s, link)
  BY <1>1 DEF TakenInEarly
<1>4. CASE rows[s] = NoRow
  BY <1>3, <1>4 DEF Settles
<1>5. CASE rows[s] # NoRow
  <2>1. rows[s].playlist.derivedFrom = link
    BY <1>2, <1>3, <1>5 DEF RowIsNewestWrite, Writes, Readable
  <2>2. PICK f \in Writes : f.outcome = OutcomeOf(s, rows[s])
    BY <1>2, <1>5 DEF RowIsNewestWrite
  <2>3. f.outcome.share = f.share
    BY <1>2, <2>2 DEF HistoryInv, EntryOK, Writes
  <2>4. f.share = s /\ f.outcome.playlist = rows[s].playlist
    BY <2>2, <2>3 DEF OutcomeOf
  <2>5. QED
    BY <2>1, <2>2, <2>4 DEF Settles
<1>6. QED
  BY <1>4, <1>5

LEMMA PrecheckKeeps ==
  ASSUME ApiInv, NEW h \in Handlers, Precheck(h)
  PROVE  ApiInv'
<1>1. Busy(h) /\ pc[h] = "precheck"
  BY DEF Precheck, Busy
<1>2. CASE Goto(h, "batch") /\ UNCHANGED reply
  <2>1. pc'[h] = "batch" /\ plan[h].method # "create"
    BY <1>1, <1>2, InFlight DEF Goto, ApiInv, HandlerTypeOK, GateInv
  <2>2. \/ Answer(h, Refusal(plan[h], "SCHEMA_INVALID"))
        \/ TakenInEarly(h) \/ Settles(plan[h].share, plan[h].playlist.derivedFrom)
    BY <1>1, PrecheckSettles DEF Precheck
  <2>3. TakenInEarly(h)' \/ Settles(plan[h].share, plan[h].playlist.derivedFrom)'
    <3>1. \/ TakenInEarly(h) \/ Settles(plan[h].share, plan[h].playlist.derivedFrom)
      BY <2>1, <2>2 DEF Answer, Goto, ApiInv, HandlerTypeOK
    <3>2. QED
      BY <3>1 DEF Precheck, TakenInEarly, Settles, Writes, storeVars
  <2>4. GateInv(h)' /\ SeenInv(h)'
    BY <2>1, <2>3 DEF GateInv, SeenInv, Precheck
  <2>5. QED
    BY <1>1, <1>2, <2>4, ReadContinues DEF Precheck, Steps, ApiInv, HandlerTypeOK
<1>3. CASE Answer(h, Refusal(plan[h], "SCHEMA_INVALID"))
  BY <1>1, <1>3, ReadRefuses DEF Precheck, Acknowledged
<1>4. QED
  BY <1>2, <1>3 DEF Precheck

LEMMA FailKeeps ==
  ASSUME ApiInv, NEW h \in Handlers, Fail(h)
  PROVE  ApiInv'
  BY ReadRefuses DEF Fail, Busy, Acknowledged, Definitive
\* While a request waits for its answer, the receipt of a settled batch of it
\* stands, and is that batch's.
LEMMA SettledStands ==
  ASSUME ApiInv, NEW h \in Handlers, Busy(h), NEW e \in log, Settled(h, e)
  PROVE  /\ receipts[plan[h].key] # NoReceipt
         /\ Records(receipts[plan[h].key], plan[h].key, e)
<1>1. e.key = plan[h].key /\ plan[h].key \in Keys /\ e.share \notin taken /\ KeyInv /\ HistoryInv
  BY InFlight DEF Settled
<1>2. clock < e.expires /\ clock \in Nat /\ e.expires \in Nat
  BY DEF Settled, ApiInv, StoreInv, StoreTypeOK, LogEntry
<1>3. receipts[e.key] # NoReceipt /\ receipts[e.key].nonce = e.nonce
  BY <1>1, <1>2 DEF KeyInv, Stands
<1>4. PICK f \in log : Records(receipts[e.key], e.key, f)
  BY <1>1, <1>3 DEF HistoryInv
<1>5. f.nonce = e.nonce
  BY <1>3, <1>4 DEF Records
<1>6. f = e
  BY <1>1, <1>5 DEF HistoryInv
<1>7. QED
  BY <1>1, <1>3, <1>4, <1>6

\* The answer of an applied request is what the batch e recorded.
LEMMA AppliedSays ==
  ASSUME NEW p \in Plan, NEW o, NEW r, r = Applied(p, o)
  PROVE  /\ r.code \in Acknowledged
         /\ r.code = "CREATED" <=> p.method = "create"
         /\ r.share = o.share /\ r.revision = o.revision /\ r.playlist = o.playlist
  BY DEF Applied, Ack, Acknowledged, Plan, Methods

LEMMA ReadReceiptKeeps ==
  ASSUME ApiInv, NEW h \in Handlers, ReadReceipt(h)
  PROVE  ApiInv'
<1> DEFINE receipt == receipts[plan[h].key]
<1>1. /\ Busy(h) /\ pc[h] = "receipt" /\ HistoryInv
      /\ plan[h] \in Plan /\ plan[h].key \in Keys
      /\ UNCHANGED <<storeVars, plan, attempt, mine, past, worldVars>>
  BY InFlight DEF ReadReceipt, Busy
<1>2. CASE receipt # NoReceipt /\ receipt.nonce = mine[h]
  <2>1. PICK e \in log : Records(receipt, plan[h].key, e)
    BY <1>1, <1>2 DEF HistoryInv
  <2>2. /\ e.nonce = mine[h] /\ receipt.outcome = e.outcome
        /\ e.request = RequestHash(plan[h]) /\ e.share = plan[h].share
        /\ e.outcome.share = e.share
    BY <1>1, <1>2, <2>1, InFlight DEF Records, AttemptInv, HistoryInv, EntryOK
  <2>3. PICK r : r = Applied(plan[h], e.outcome)
    OBVIOUS
  <2>4. Answer(h, r) /\ UNCHANGED seen
    BY <1>2, <2>2, <2>3 DEF ReadReceipt
  <2>5. /\ r.code \in Acknowledged /\ (r.code = "CREATED" <=> plan[h].method = "create")
        /\ r.share = e.outcome.share /\ r.revision = e.outcome.revision
        /\ r.playlist = e.outcome.playlist
    BY <1>1, <2>3, AppliedSays
  <2>6. \A f \in log : Settled(h, f) => f = e
    BY <1>1, <2>1, SettledStands DEF Records, HistoryInv
  <2>7. QED
    BY <1>1, <2>2, <2>3, <2>4, <2>5, <2>6, ReadAnswers DEF Acknowledged
<1>3. CASE ~(receipt # NoReceipt /\ receipt.nonce = mine[h])
  <2>1. Goto(h, "row") /\ UNCHANGED reply /\ seen' = [seen EXCEPT ![h] = receipt]
    BY <1>3 DEF ReadReceipt
  <2>2. pc'[h] = "row" /\ seen'[h] = receipt
    BY <2>1 DEF Goto, ApiInv, HandlerTypeOK
  <2>3. receipt \in Receipt \cup {NoReceipt}
    BY <1>1, InFlight DEF StoreTypeOK
  <2>4. receipt # NoReceipt => \E e \in log : Records(receipt, plan[h].key, e)
    BY <1>1 DEF HistoryInv
  <2>5. \A e \in log' : Settled(h, e)' => e \in log /\ Settled(h, e)
    BY <1>1 DEF Settled, storeVars
  <2>6. SeenInv(h)'
    BY <1>1, <2>2, <2>4, <2>5, SettledStands DEF SeenInv, Records, storeVars
  <2>7. GateInv(h)'
    BY <2>2 DEF GateInv
  <2>8. QED
    BY <1>1, <2>1, <2>3, <2>6, <2>7, ReadContinues DEF Steps, ApiInv, HandlerTypeOK
<1>4. QED
  BY <1>2, <1>3

\* A settled batch is never judged to be someone else's or another request's.
LEMMA SettledIsReplayed ==
  ASSUME ApiInv, NEW h \in Handlers, pc[h] = "row", NEW e \in log, Settled(h, e)
  PROVE  /\ seen[h] # NoReceipt /\ seen[h].outcome = e.outcome
         /\ ReceiptVerdict(plan[h], seen[h]) = "REPLAYED"
<1>1. Busy(h) /\ seen[h] # NoReceipt /\ Records(seen[h], plan[h].key, e)
  BY InFlight DEF SeenInv, Busy
<1>2. /\ plan[h].method # "create" => e.request.share = e.share /\ plan[h].secret = e.share
      /\ e.request = RequestHash(plan[h]) /\ e.request.method = plan[h].method
  BY <1>1, InFlight DEF Settled, HistoryInv, EntryOK, RequestHash
<1>3. plan[h].method # "create" => e.share = plan[h].share
  BY <1>2 DEF RequestHash
<1>4. QED
  BY <1>1, <1>2, <1>3 DEF ReceiptVerdict, Records

\* The two verdicts about the state of a row are for its owner only.
LEMMA VerdictIs ==
  ASSUME NEW p, NEW receipt, NEW row
  PROVE  /\ ReceiptVerdict(p, receipt) \in {"UNAUTHORIZED", "IDEMPOTENCY_CONFLICT", "REPLAYED"}
         /\ RowVerdict(p, row) \in {"INVALID_STATE", "REVISION_CONFLICT"} =>
              p.method # "create" /\ row # NoRow /\ row.secret = p.secret
         /\ RowVerdict(p, row) \in {"INVALID_STATE", "REVISION_CONFLICT", "UNAUTHORIZED",
                                    "NOT_FOUND", "ACTIVATION_EXPIRED", "THROW"}
<1>1. ReceiptVerdict(p, receipt) \in {"UNAUTHORIZED", "IDEMPOTENCY_CONFLICT", "REPLAYED"}
  BY DEF ReceiptVerdict
<1>2. CASE p.method = "create"
  BY <1>1, <1>2 DEF RowVerdict
<1>3. CASE p.method # "create" /\ row = NoRow
  BY <1>1, <1>3 DEF RowVerdict
<1>4. CASE p.method # "create" /\ row # NoRow /\ row.secret # p.secret
  BY <1>1, <1>4 DEF RowVerdict
<1>5. CASE p.method # "create" /\ row # NoRow /\ row.secret = p.secret
  BY <1>1, <1>5 DEF RowVerdict
<1>6. QED
  BY <1>2, <1>3, <1>4, <1>5

LEMMA ReadRowKeeps ==
  ASSUME ApiInv, NEW h \in Handlers, ReadRow(h)
  PROVE  ApiInv'
<1> DEFINE p       == plan[h]
           row     == rows[p.share]
           verdict == Verdict(p, seen[h], row)
<1>1. /\ Busy(h) /\ pc[h] = "row" /\ p \in Plan /\ p.method \in Methods
      /\ p.share \in ShareIds /\ HistoryInv
      /\ UNCHANGED <<storeVars, plan, attempt, mine, seen, past, worldVars>>
  BY InFlight DEF ReadRow, Busy, Plan
<1>2. CASE verdict \in {"INVALID_STATE", "REVISION_CONFLICT"}
  \* No receipt was read, and the row opened with the secret of the request.
  <2>1. seen[h] = NoReceipt /\ p.method # "create" /\ row # NoRow /\ row.secret = p.secret
    BY <1>2, VerdictIs DEF Verdict
  <2>2. p.secret = p.share
    BY <1>1, <2>1 DEF HistoryInv, RowOK
  <2>3. \A e \in log : ~Settled(h, e)
    BY <1>1, <2>1, SettledIsReplayed
  <2>4. PICK step \in {"current", "details"} :
          Goto(h, step) /\ UNCHANGED reply /\ (step = "current" => p.method = "activate")
    <3>1. CASE verdict = "INVALID_STATE" /\ p.method = "activate"
      BY <3>1 DEF ReadRow
    <3>2. CASE ~(verdict = "INVALID_STATE" /\ p.method = "activate")
      BY <1>2, <3>2 DEF ReadRow
    <3>3. QED
      BY <3>1, <3>2
  <2>5. pc'[h] = step
    BY <2>4 DEF Goto, ApiInv, HandlerTypeOK
  <2>6. \A e \in log' : ~Settled(h, e)'
    BY <1>1, <2>3 DEF Settled, storeVars
  <2>7. SeenInv(h)' /\ GateInv(h)'
    BY <1>1, <2>1, <2>2, <2>4, <2>5, <2>6 DEF SeenInv, GateInv
  <2>8. QED
    BY <1>1, <2>4, <2>7, ReadContinues DEF Steps, ApiInv, HandlerTypeOK
<1>3. CASE verdict = "REPLAYED"
  <2>1. seen[h] # NoReceipt /\ seen[h].request = RequestHash(p)
    BY <1>3 DEF Verdict, ReceiptVerdict, RowVerdict
  <2>2. PICK e \in log : Records(seen[h], p.key, e)
    BY <1>1, <2>1, InFlight DEF SeenInv
  <2>3. e.request = RequestHash(p) /\ e.outcome = seen[h].outcome /\ e.outcome.share = e.share
    BY <1>1, <2>1, <2>2 DEF Records, HistoryInv, EntryOK
  <2>4. PICK r : r = Replayed(p, seen[h].outcome)
    OBVIOUS
  <2>5. Answer(h, r)
    BY <1>3, <2>4 DEF ReadRow, VerdictReply
  <2>6. \A f \in log : Settled(h, f) => r = Replayed(p, f.outcome)
    BY <1>1, <2>4, SettledIsReplayed
  <2>7. CASE p.method = "create"
    <3>1. r.code = "CREATE_RECEIPT_UNAVAILABLE"
      BY <2>4, <2>7, RefusalSays DEF Replayed
    <3>2. QED
      BY <1>1, <2>5, <2>6, <3>1, ReadAnswers DEF Acknowledged
  <2>8. CASE p.method # "create"
    <3>1. r = Applied(p, e.outcome)
      BY <2>3, <2>4, <2>8 DEF Replayed
    <3>2. /\ r.code \in Acknowledged /\ r.code # "CREATED" /\ r.share = e.share
          /\ r.revision = e.outcome.revision /\ r.playlist = e.outcome.playlist
      BY <1>1, <2>3, <2>8, <3>1, AppliedSays
    <3>3. QED
      BY <1>1, <2>3, <2>5, <2>6, <3>2, ReadAnswers DEF Acknowledged
  <2>9. QED
    BY <2>7, <2>8
<1>4. CASE verdict \in {"UNAUTHORIZED", "IDEMPOTENCY_CONFLICT", "NOT_FOUND",
                        "ACTIVATION_EXPIRED", "THROW"}
  <2>1. \A e \in log : ~Settled(h, e)
    BY <1>1, <1>4, SettledIsReplayed DEF Verdict
  <2>2. PICK code \in {"UNAUTHORIZED", "IDEMPOTENCY_CONFLICT", "NOT_FOUND", "TRANSIENT_FAILURE"} :
          VerdictReply(p, verdict, seen[h]) = Refusal(p, code)
    BY <1>4 DEF VerdictReply, CreateConflict, MutationConflict
  <2>3. Answer(h, Refusal(p, code))
    BY <1>4, <2>2 DEF ReadRow
  <2>4. QED
    BY <1>1, <2>1, <2>3, ReadRefuses DEF Acknowledged
<1>5. verdict \in {"INVALID_STATE", "REVISION_CONFLICT", "REPLAYED", "UNAUTHORIZED",
                   "IDEMPOTENCY_CONFLICT", "NOT_FOUND", "ACTIVATION_EXPIRED", "THROW"}
  BY VerdictIs DEF Verdict
<1>6. QED
  BY <1>2, <1>3, <1>4, <1>5
\* The row of a repeated activate is as its activate left it: the one batch
\* that wrote this revision is an activate, and asks what the request asks.
LEMMA RepeatIsCommitted ==
  ASSUME ApiInv, NEW h \in Handlers, pc[h] = "current",
         RepeatActivate(plan[h], rows[plan[h].share])
  PROVE  \E e \in log : /\ e.request = RequestHash(plan[h]) /\ e.share = plan[h].share
                        /\ e.outcome = OutcomeOf(plan[h].share, rows[plan[h].share])
<1> DEFINE p == plan[h]
<1>1. /\ p.method = "activate" /\ p \in Plan /\ WellFormed(p) /\ p.share \in ShareIds
      /\ StoreTypeOK /\ HistoryInv /\ RowInv
  BY InFlight DEF Busy, SeenInv
<1>2. p.expected = 1 /\ p.playlist = NoPlaylist
  BY <1>1 DEF WellFormed
<1>3. /\ rows[p.share] # NoRow /\ rows[p.share].state = "active"
      /\ rows[p.share].revision = p.expected + 1
  BY DEF RepeatActivate
<1>4. PICK e \in Writes : e.share = p.share /\ e.request.method = "activate"
  BY <1>1, <1>3 DEF RowInv, RowIsNewestWrite
<1>5. /\ e \in log /\ e.outcome.revision = 2 /\ e.request.share = e.share
      /\ e.request.expected = 1 /\ e.request.playlist = NoPlaylist
  BY <1>1, <1>4 DEF Writes, HistoryInv, EntryOK
<1>6. PICK f \in Writes : f.outcome = OutcomeOf(p.share, rows[p.share])
  BY <1>1, <1>3 DEF RowInv, RowIsNewestWrite
<1>7. f.share = p.share /\ f.outcome.revision = 2
  <2>1. f.outcome.share = f.share
    BY <1>1, <1>6 DEF Writes, HistoryInv, EntryOK
  <2>2. QED
    BY <1>2, <1>3, <1>6, <2>1 DEF OutcomeOf
<1>8. e = f
  BY <1>1, <1>4, <1>5, <1>6, <1>7 DEF RowInv, NoLostUpdate
<1>9. e.request = RequestHash(p)
  <2>1. e.request \in RequestShape
    BY <1>1, <1>5 DEF StoreTypeOK, LogEntry
  <2>2. QED
    BY <1>1, <1>2, <1>4, <1>5, <2>1 DEF RequestShape, RequestHash
<1>10. QED
  BY <1>4, <1>5, <1>6, <1>8, <1>9

LEMMA ReadCurrentKeeps ==
  ASSUME ApiInv, NEW h \in Handlers, ReadCurrent(h)
  PROVE  ApiInv'
<1> DEFINE p == plan[h]
<1>1. /\ Busy(h) /\ pc[h] = "current" /\ SeenInv(h)
      /\ UNCHANGED <<storeVars, plan, attempt, mine, seen, past, worldVars>>
  BY InFlight DEF ReadCurrent, Busy
<1>2. p.method # "create" /\ p.secret = p.share /\ \A e \in log : ~Settled(h, e)
  BY <1>1 DEF SeenInv
<1>3. CASE RepeatActivate(p, rows[p.share])
  <2>1. PICK e \in log : /\ e.request = RequestHash(p) /\ e.share = p.share
                         /\ e.outcome = OutcomeOf(p.share, rows[p.share])
    BY <1>1, <1>3, RepeatIsCommitted
  <2>2. PICK r : r = Ack("OK", OutcomeOf(p.share, rows[p.share]), NoShare)
    OBVIOUS
  <2>3. /\ r.code = "OK" /\ r.share = e.outcome.share /\ r.revision = e.outcome.revision
        /\ r.playlist = e.outcome.playlist /\ e.outcome.share = p.share
    BY <2>1, <2>2 DEF Ack, OutcomeOf
  <2>4. Answer(h, r)
    BY <1>3, <2>2 DEF ReadCurrent
  <2>5. QED
    BY <1>1, <1>2, <2>1, <2>3, <2>4, ReadAnswers DEF Acknowledged
<1>4. CASE ~RepeatActivate(p, rows[p.share])
  <2>1. Goto(h, "details") /\ UNCHANGED reply /\ pc'[h] = "details"
    BY <1>4 DEF ReadCurrent, Goto, ApiInv, HandlerTypeOK
  <2>2. \A e \in log' : ~Settled(h, e)'
    BY <1>1, <1>2 DEF Settled, storeVars
  <2>3. SeenInv(h)' /\ GateInv(h)'
    BY <1>1, <1>2, <2>1, <2>2 DEF SeenInv, GateInv
  <2>4. QED
    BY <1>1, <2>1, <2>3, ReadContinues DEF Steps, ApiInv, HandlerTypeOK
<1>5. QED
  BY <1>3, <1>4

LEMMA ReadDetailsKeeps ==
  ASSUME ApiInv, NEW h \in Handlers, ReadDetails(h)
  PROVE  ApiInv'
<1>1. Busy(h) /\ pc[h] = "details" /\ SeenInv(h)
  BY InFlight DEF ReadDetails, Busy
<1>2. plan[h].secret = plan[h].share /\ \A e \in log : ~Settled(h, e)
  BY <1>1 DEF SeenInv
<1>3. PICK r : r = Conflict(plan[h], rows[plan[h].share])
  OBVIOUS
<1>4. r.code = "REVISION_CONFLICT"
  BY <1>3 DEF Conflict, Refusal
<1>5. QED
  BY <1>1, <1>2, <1>3, <1>4, ReadAnswers DEF ReadDetails, Acknowledged

\* A batch that did not commit leaves everything but the count of attempts.
LEMMA BatchAbortsKeeps ==
  ASSUME ApiInv, NEW h \in Handlers, BatchAborts(h)
  PROVE  ApiInv'
<1>1. /\ Busy(h) /\ pc[h] = "batch" /\ GateInv(h)
      /\ attempt' \in [Handlers -> Nat]
      /\ UNCHANGED <<storeVars, plan, mine, seen, past, worldVars>>
  BY InFlight DEF BatchAborts, Busy, ApiInv, HandlerTypeOK
<1>2. CASE UNCHANGED <<pc, reply>>
  <2>1. Goto(h, "batch")
    BY <1>1, <1>2 DEF Goto, ApiInv, HandlerTypeOK
  <2>2. GateInv(h)'
    BY <1>1, <1>2, SourcedStays DEF GateInv, TakenInEarly, Settles, Writes, storeVars
  <2>3. AttemptInv(h)' /\ SeenInv(h)' /\ AnswerInv(h)'
    BY <1>1, <1>2 DEF AttemptInv, SeenInv, AnswerInv
  <2>4. QED
    BY <1>1, <1>2, <2>1, <2>2, <2>3, ReadingStep DEF Steps, ApiInv, HandlerTypeOK
<1>3. CASE Answer(h, Refusal(plan[h], "TRANSIENT_FAILURE"))
  <2>1. /\ pc'[h] = "done" /\ Goto(h, "done")
        /\ reply' = [g \in Handlers |-> reply'[g]]
        /\ reply'[h] = Refusal(plan[h], "TRANSIENT_FAILURE")
        /\ \A g \in Handlers \ {h} : reply'[g] = reply[g]
    BY <1>3 DEF Answer, Goto, ApiInv, HandlerTypeOK
  <2>2. reply'[h].code = "TRANSIENT_FAILURE"
    BY <2>1, RefusalSays
  <2>3. GateInv(h)' /\ AttemptInv(h)' /\ SeenInv(h)' /\ AnswerInv(h)'
    BY <2>1, <2>2 DEF GateInv, AttemptInv, SeenInv, AnswerInv, Acknowledged, Definitive
  <2>4. QED
    BY <1>1, <2>1, <2>3, ReadingStep DEF Steps, ApiInv, HandlerTypeOK
<1>4. QED
  BY <1>2, <1>3 DEF BatchAborts
(***************************************************************************)
(* The steps of a handler that write.                                      *)
(***************************************************************************)

LEMMA SweepKeeps ==
  ASSUME ApiInv, NEW h \in Handlers, Sweep(h)
  PROVE  ApiInv' /\ [StoreNext]_storeVars
<1>1. /\ Busy(h) /\ pc[h] = "sweep" /\ SweepPending(plan[h].now)
      /\ PlanInv(h) /\ BirthInv(h) /\ plan[h].now \in Nat /\ plan[h] \in Plan
      /\ UNCHANGED <<plan, attempt, mine, seen, reply, past, worldVars>>
  BY InFlight DEF Sweep, Busy
<1>2. /\ pc' \in [Handlers -> Steps] /\ pc'[h] = AfterSweep(plan[h])
      /\ AfterSweep(plan[h]) \in {"lineage", "precheck", "batch"}
      /\ \A g \in Handlers \ {h} : pc'[g] = pc[g]
  BY DEF Sweep, Goto, AfterSweep, Steps, ApiInv, HandlerTypeOK
<1>3. [StoreNext]_storeVars
  <2>1. plan[h].now \in 0 .. clock
    BY <1>1 DEF PlanInv, ApiInv, StoreInv, StoreTypeOK
  <2>2. QED
    BY <1>1, <2>1 DEF StoreNext
<1>4. StoreInv' /\ log' = log /\ clock' = clock /\ taken' = taken /\ nonce' = nonce
  BY <1>1, <1>3, StoreGrows DEF ApiInv, SweepPending
<1>5. HandlerTypeOK'
  BY <1>1, <1>2 DEF ApiInv, HandlerTypeOK
<1>6. WorldInv' /\ LineageFromPublished'
  BY <1>1, <1>4, LineageStays DEF ApiInv, WorldInv, worldVars
<1>7. \A g \in Handlers : Busy(g)' <=> Busy(g)
  BY <1>1, <1>2 DEF Busy
<1>8. MintInv'
  BY <1>1, <1>7 DEF ApiInv, MintInv, Creating
<1>9. HandlerInv(h)'
  <2>1. PlanInv(h)' /\ BirthInv(h)'
    BY <1>1, <1>4 DEF PlanInv, BirthInv, worldVars
  <2>2. GateInv(h)'
    BY <1>1, <1>2 DEF GateInv, AfterSweep
  <2>3. AttemptInv(h)' /\ SeenInv(h)' /\ AnswerInv(h)'
    BY <1>2 DEF AttemptInv, SeenInv, AnswerInv
  <2>4. QED
    BY <2>1, <2>2, <2>3 DEF HandlerInv
<1>10. ASSUME NEW g \in Handlers, g # h
       PROVE  HandlerInv(g)'
  <2>1. /\ Busy(g) => clock' <= plan[g].now + RequestLifetime
        /\ Creating(g) => plan[g].share \notin held'
    BY <1>1, <1>4 DEF ApiInv, HandlerInv, PlanInv, Creating, worldVars
  <2>2. QED
    BY <1>1, <1>2, <1>3, <1>4, <1>10, <2>1, Bystander DEF worldVars
<1>11. QED
  BY <1>3, <1>4, <1>5, <1>6, <1>8, <1>9, <1>10 DEF ApiInv

\* A create's share has no batch in the log but its own, whose receipt stands
\* for as long as the request can send another.
LEMMA CreateIsFresh ==
  ASSUME ApiInv, NEW h \in Handlers, Busy(h)
  PROVE  FreshShare(plan[h])
<1>1. /\ PlanInv(h) /\ BirthInv(h) /\ KeyInv /\ WorldInv
      /\ plan[h].now \in Nat /\ clock \in Nat
  BY InFlight DEF StoreTypeOK, ApiInv
<1>2. ASSUME plan[h].method = "create", NEW e \in log, e.share = plan[h].share
      PROVE  ~Unclaimed(plan[h])
  <2>1. e.key = plan[h].key /\ e.expires = plan[h].now + ReceiptTtl /\ e.share \notin taken
    BY <1>1, <1>2 DEF BirthInv, PlanInv, WorldInv
  <2>2. clock < e.expires /\ e.expires \in Nat
    BY <1>1, <2>1, ApiAssumption, TimeAssumption DEF PlanInv
  <2>3. Stands(e)
    BY <1>1, <2>1, <2>2 DEF KeyInv
  <2>4. QED
    BY <2>1, <2>3 DEF Stands, Unclaimed
<1>3. QED
  BY <1>2 DEF FreshShare

\* What the batch of h adds to the log.
LEMMA BatchAdds ==
  ASSUME ApiInv, NEW h \in Handlers, Busy(h), Submit(plan[h])
  PROVE  /\ [StoreNext]_storeVars
         /\ nonce \in Nat /\ nonce' = nonce + 1 /\ clock' = clock /\ taken' = taken
         /\ log \subseteq log'
         /\ \A n \in log' \ log :
              /\ n.key = plan[h].key /\ n.share = plan[h].share /\ n.now = plan[h].now
              /\ n.request = RequestHash(plan[h]) /\ n.nonce = nonce
              /\ n.expires = plan[h].now + ReceiptTtl
              /\ plan[h].method # "create" => plan[h].share \in held
<1> DEFINE p == plan[h]
<1>1. p \in Plans /\ WellFormed(p) /\ PlanInv(h) /\ HistoryInv /\ p.share \in ShareIds
  BY InFlight
<1>2. FreshShare(p) /\ p.now <= clock
  BY <1>1, CreateIsFresh DEF PlanInv
<1>3. [StoreNext]_storeVars
  BY <1>1, <1>2 DEF StoreNext
<1>4. nonce \in Nat /\ nonce' = nonce + 1 /\ clock' = clock /\ taken' = taken
  BY DEF Submit, ApiInv, StoreInv, StoreTypeOK
<1>5. CASE Accepted(p)
  <2>1. PICK n : n = Entry(p, AppliedOutcome(p))
    OBVIOUS
  <2>2. /\ log' = log \cup {n} /\ n.key = p.key /\ n.share = p.share /\ n.now = p.now
        /\ n.request = RequestHash(p) /\ n.nonce = nonce /\ n.expires = p.now + ReceiptTtl
    BY <1>5, <2>1, AcceptedEntry, EntryFields DEF Entry
  <2>3. p.method # "create" => p.share \in held
    <3>1. p.secret = p.share /\ p.secret # WrongSecret
      BY <1>1, <1>5, AcceptedSecret, NullAssumption
    <3>2. QED
      BY <1>1, <3>1, ApiAssumption DEF PlanInv
  <2>4. QED
    BY <1>3, <1>4, <2>2, <2>3
<1>6. CASE Refuse(p)
  BY <1>3, <1>4, <1>6 DEF Refuse
<1>7. QED
  BY <1>5, <1>6 DEF Submit, Accepted

\* The lineage gate has vouched for the parent of whatever create commits.
LEMMA BatchKeepsLineage ==
  ASSUME ApiInv, NEW h \in Handlers, pc[h] = "batch", Submit(plan[h])
  PROVE  LineageFromPublished'
<1>1. Busy(h) /\ GateInv(h)
  BY InFlight DEF Busy
<1>2. log \subseteq log' /\ Writes \subseteq Writes'
  BY <1>1, BatchAdds DEF Writes
<1>3. SUFFICES ASSUME NEW e \in log', e.request.method = "create",
                      e.outcome.playlist.derivedFrom # NoLink
               PROVE  Sourced(e.outcome.playlist.derivedFrom, e.share, e.now)'
  BY DEF LineageFromPublished, Sourced
<1>4. CASE e \in log
  <2>1. Sourced(e.outcome.playlist.derivedFrom, e.share, e.now)
    BY <1>3, <1>4 DEF ApiInv, LineageFromPublished, Sourced
  <2>2. QED
    BY <1>2, <2>1, SourcedStays
<1>5. CASE e \notin log
  <2>1. e.request = RequestHash(plan[h]) /\ e.share = plan[h].share /\ e.now = plan[h].now
    BY <1>1, <1>3, <1>5, BatchAdds
  <2>2. e.outcome.playlist = e.request.playlist
    BY <1>1, <1>3, BatchAdds, StoreGrows DEF ApiInv, StoreInv, HistoryInv, EntryOK
  <2>3. plan[h].method = "create" /\ e.outcome.playlist = plan[h].playlist
    BY <1>3, <2>1, <2>2 DEF RequestHash
  <2>4. Sourced(plan[h].playlist.derivedFrom, plan[h].share, plan[h].now)
    BY <1>1, <1>3, <2>3 DEF GateInv
  <2>5. QED
    BY <1>2, <2>1, <2>3, <2>4, SourcedStays
<1>6. QED
  BY <1>4, <1>5

LEMMA SendBatchKeeps ==
  ASSUME ApiInv, NEW h \in Handlers, SendBatch(h)
  PROVE  ApiInv' /\ [StoreNext]_storeVars
<1> DEFINE p == plan[h]
<1>1. /\ Busy(h) /\ pc[h] = "batch" /\ Submit(p)
      /\ PlanInv(h) /\ BirthInv(h) /\ GateInv(h) /\ p \in Plan
      /\ UNCHANGED <<plan, seen, worldVars>>
      /\ mine' = [mine EXCEPT ![h] = nonce]
      /\ past' = [past EXCEPT ![h] = @ \cup {nonce}]
  BY InFlight DEF SendBatch, Busy
<1>2. /\ [StoreNext]_storeVars /\ log \subseteq log'
      /\ nonce \in Nat /\ nonce' = nonce + 1 /\ clock' = clock /\ taken' = taken
      /\ \A n \in log' \ log :
           /\ n.key = p.key /\ n.share = p.share /\ n.request = RequestHash(p)
           /\ n.nonce = nonce /\ n.expires = p.now + ReceiptTtl
           /\ p.method # "create" => p.share \in held
  BY <1>1, BatchAdds
<1>3. StoreInv' /\ LineageFromPublished'
  BY <1>1, <1>2, StoreGrows, BatchKeepsLineage DEF ApiInv
<1>4. /\ pc'[h] \in {"receipt", "batch", "done"} /\ pc' \in [Handlers -> Steps]
      /\ \A g \in Handlers \ {h} : pc'[g] = pc[g] /\ reply'[g] = reply[g]
      /\ reply' = [g \in Handlers |-> reply'[g]]
      /\ pc'[h] = "done" => reply'[h] = Refusal(p, "TRANSIENT_FAILURE")
      /\ attempt' \in [Handlers -> Nat]
  <2>1. attempt' \in [Handlers -> Nat]
    BY DEF SendBatch, Report, ApiInv, HandlerTypeOK
  <2>2. CASE Goto(h, "receipt") /\ UNCHANGED reply
    BY <2>1, <2>2 DEF Goto, Steps, ApiInv, HandlerTypeOK
  <2>3. CASE UNCHANGED <<pc, reply>>
    BY <1>1, <2>1, <2>3 DEF ApiInv, HandlerTypeOK
  <2>4. CASE Answer(h, Refusal(p, "TRANSIENT_FAILURE"))
    BY <2>1, <2>4 DEF Answer, Goto, Steps, ApiInv, HandlerTypeOK
  <2>5. QED
    BY <2>2, <2>3, <2>4 DEF SendBatch, Report
<1>5. HandlerTypeOK'
  BY <1>1, <1>2, <1>4 DEF ApiInv, HandlerTypeOK
<1>6. WorldInv'
  <2>1. p.method = "create" => p.share \in minted
    BY <1>1 DEF PlanInv
  <2>2. ASSUME NEW n \in log'
        PROVE  n.share \in minted /\ (n.request.method # "create" => n.share \in held)
    <3>1. CASE n \in log
      BY <3>1 DEF ApiInv, WorldInv
    <3>2. CASE n \notin log
      BY <1>2, <2>1, <2>2, <3>2 DEF ApiInv, WorldInv, RequestHash
    <3>3. QED
      BY <3>1, <3>2
  <2>3. QED
    BY <1>1, <1>2, <2>2 DEF ApiInv, WorldInv, worldVars
<1>7. \A g \in Handlers : Busy(g)' <=> Busy(g)
  BY <1>1, <1>4 DEF Busy
<1>8. MintInv'
  BY <1>1, <1>7 DEF ApiInv, MintInv, Creating
<1>9. HandlerInv(h)'
  <2>1. mine'[h] = nonce /\ past'[h] = past[h] \cup {nonce} /\ past[h] \subseteq Nat
    BY <1>1 DEF ApiInv, HandlerTypeOK
  <2>2. PlanInv(h)'
    BY <1>1, <1>2, <2>1 DEF PlanInv, worldVars
  <2>3. BirthInv(h)'
    BY <1>1, <1>2 DEF BirthInv
  <2>4. GateInv(h)'
    <3>1. PICK link : link = p.playlist.derivedFrom
      OBVIOUS
    <3>2. Sourced(link, p.share, p.now) => Sourced(link, p.share, p.now)'
      BY <1>1, <1>2, SourcedStays
    <3>3. Settles(p.share, link) => Settles(p.share, link)'
      BY <1>1, <1>2, SettlesStays, InFlight
    <3>4. p.method = "replace" /\ TakenInEarly(h) => TakenInEarly(h)'
      <4>1. \A e \in log : e.nonce # nonce
        BY <1>2 DEF ApiInv, StoreInv, HistoryInv, EntryOK, StoreTypeOK, LogEntry
      <4>2. p.method = "replace" => \A e \in log' \ log : e.request.method # "activate"
        BY <1>2 DEF RequestHash
      <4>3. QED
        BY <1>1, <2>1, <4>1, <4>2 DEF TakenInEarly
    <3>5. QED
      BY <1>1, <1>4, <3>1, <3>2, <3>3, <3>4 DEF GateInv
  <2>5. AttemptInv(h)'
    <3>1. \A e \in log : e.nonce < nonce /\ e.nonce \in Nat
      BY DEF ApiInv, StoreInv, HistoryInv, EntryOK, StoreTypeOK, LogEntry
    <3>2. QED
      BY <1>1, <1>2, <2>1, <3>1 DEF AttemptInv
  <2>6. SeenInv(h)'
    BY <1>4 DEF SeenInv
  <2>7. AnswerInv(h)'
    BY <1>4, RefusalSays DEF AnswerInv, Acknowledged, Definitive
  <2>8. QED
    BY <2>2, <2>3, <2>4, <2>5, <2>6, <2>7 DEF HandlerInv
<1>10. ASSUME NEW g \in Handlers, g # h
       PROVE  HandlerInv(g)'
  <2>1. /\ Busy(g) => clock' <= plan[g].now + RequestLifetime
        /\ Creating(g) => plan[g].share \notin held
    BY <1>2 DEF ApiInv, HandlerInv, PlanInv, Creating
  <2>2. ASSUME Creating(g), NEW n \in log' \ log
        PROVE  n.share # plan[g].share
    BY <1>1, <1>2, <1>10, <2>1, <2>2 DEF ApiInv, MintInv, Creating
  <2>3. /\ mine'[g] = mine[g] /\ past'[g] = past[g]
    BY <1>1, <1>10 DEF ApiInv, HandlerTypeOK
  <2>4. QED
    BY <1>1, <1>2, <1>4, <1>10, <2>1, <2>2, <2>3, Bystander DEF worldVars
<1>11. QED
  BY <1>2, <1>3, <1>5, <1>6, <1>8, <1>9, <1>10 DEF ApiInv
\* A request comes in: nothing is logged of the id a create has generated.
LEMMA BeginKeeps ==
  ASSUME ApiInv, NEW h \in Handlers, NEW p \in Plans, Begin(h, p)
  PROVE  ApiInv' /\ [StoreNext]_storeVars
<1>1. /\ ~Busy(h) /\ MayAsk(p) /\ pc'[h] = "sweep" /\ plan'[h] = p /\ past'[h] = 0 .. nonce - 1
      /\ \A g \in Handlers \ {h} : pc'[g] = pc[g] /\ plan'[g] = plan[g] /\ past'[g] = past[g]
      /\ minted' = (IF p.method = "create" THEN minted \cup {p.share} ELSE minted)
      /\ UNCHANGED <<storeVars, attempt, mine, seen, reply, held, operator>>
  BY DEF Begin, Goto, Busy, ApiInv, HandlerTypeOK
<1>2. /\ [StoreNext]_storeVars /\ StoreInv' /\ log' = log /\ clock' = clock
      /\ nonce' = nonce /\ nonce \in Nat /\ clock \in Nat
  BY <1>1, StoreGrows DEF storeVars, ApiInv, StoreInv, StoreTypeOK
<1>3. HandlerTypeOK'
  BY <1>1, <1>2 DEF Begin, Goto, Steps, ApiInv, HandlerTypeOK
<1>4. minted \subseteq minted' /\ WorldInv' /\ LineageFromPublished'
  BY <1>1, <1>2, LineageStays DEF ApiInv, WorldInv, storeVars
<1>5. \A g \in Handlers \ {h} : Creating(g) => plan[g].share \in minted /\ plan[g].share \notin held
  BY DEF ApiInv, HandlerInv, PlanInv, Creating
<1>6. MintInv'
  <2>1. SUFFICES ASSUME NEW f \in Handlers, NEW g \in Handlers, Creating(f)', Creating(g)',
                        plan'[f].share = plan'[g].share
                 PROVE  f = g
    BY DEF MintInv
  <2>2. \A i \in Handlers \ {h} : Creating(i)' <=> Creating(i)
    BY <1>1 DEF Creating, Busy
  <2>3. Creating(h)' => p.share \notin minted
    BY <1>1 DEF Creating, MayAsk
  <2>4. QED
    BY <1>1, <1>5, <2>1, <2>2, <2>3 DEF ApiInv, MintInv
<1>7. HandlerInv(h)'
  <2>1. PlanInv(h)'
    <3>1. WellFormed(p) /\ p.now = clock
      BY <1>1, PlanFacts DEF MayAsk
    <3>2. p.method = "create" => p.share \in minted' \ held
      BY <1>1 DEF MayAsk, ApiInv, WorldInv
    <3>3. p.method # "create" => p.secret \in Forgers \/ (p.secret = p.share /\ p.share \in held)
      BY <1>1 DEF MayAsk
    <3>4. \A n \in 0 .. nonce - 1 : n < nonce
      BY <1>2
    <3>5. clock <= clock + RequestLifetime
      BY <1>2, ApiAssumption
    <3>6. QED
      BY <1>1, <1>2, <3>1, <3>2, <3>3, <3>4, <3>5 DEF PlanInv
  <2>2. BirthInv(h)'
    BY <1>1, <1>2 DEF BirthInv, MayAsk, ApiInv, WorldInv
  <2>3. GateInv(h)' /\ AttemptInv(h)' /\ SeenInv(h)' /\ AnswerInv(h)'
    BY <1>1 DEF GateInv, AttemptInv, SeenInv, AnswerInv
  <2>4. QED
    BY <2>1, <2>2, <2>3 DEF HandlerInv
<1>8. ASSUME NEW g \in Handlers, g # h
      PROVE  HandlerInv(g)'
  <2>1. Busy(g) => clock' <= plan[g].now + RequestLifetime
    BY <1>2 DEF ApiInv, HandlerInv, PlanInv
  <2>2. QED
    BY <1>1, <1>2, <1>4, <1>5, <1>8, <2>1, Bystander
<1>9. QED
  BY <1>2, <1>3, <1>4, <1>6, <1>7, <1>8 DEF ApiInv

\* An answer leaves: a client comes to hold a secret only with its own 201.
LEMMA RespondKeeps ==
  ASSUME ApiInv, NEW h \in Handlers, Respond(h)
  PROVE  ApiInv' /\ [StoreNext]_storeVars
<1>1. /\ Busy(h) /\ pc[h] = "done" /\ pc'[h] = "idle" /\ HandlerInv(h)
      /\ \A g \in Handlers \ {h} : /\ pc'[g] = pc[g] /\ plan'[g] = plan[g] /\ past'[g] = past[g]
                                   /\ mine'[g] = mine[g] /\ seen'[g] = seen[g]
                                   /\ reply'[g] = reply[g]
      /\ UNCHANGED <<storeVars, minted, operator>>
  BY InFlight DEF Respond, Busy, ApiInv, HandlerTypeOK
<1>2. /\ [StoreNext]_storeVars /\ StoreInv' /\ log' = log /\ clock' = clock
  BY <1>1, StoreGrows DEF storeVars, ApiInv
<1>3. HandlerTypeOK'
  BY <1>1 DEF Respond, Steps, ApiInv, HandlerTypeOK
<1>4. \/ held' = held
      \/ held' = held \cup {plan[h].share} /\ Creating(h)
  BY <1>1 DEF Respond, HandlerInv, AnswerInv, Creating
<1>5. held \subseteq held' /\ held' \subseteq minted
  BY <1>1, <1>4 DEF ApiInv, WorldInv, HandlerInv, PlanInv, Creating
<1>6. WorldInv' /\ LineageFromPublished'
  BY <1>1, <1>2, <1>5, LineageStays DEF ApiInv, WorldInv, storeVars
<1>7. \A g \in Handlers : Creating(g)' => Creating(g) /\ plan'[g] = plan[g]
  BY <1>1 DEF Creating, Busy
<1>8. MintInv'
  BY <1>7 DEF ApiInv, MintInv
<1>9. HandlerInv(h)'
  BY <1>1 DEF HandlerInv, Busy
<1>10. ASSUME NEW g \in Handlers, g # h
       PROVE  HandlerInv(g)'
  <2>1. /\ Busy(g) => clock' <= plan[g].now + RequestLifetime
        /\ Creating(g) => plan[g].share \notin held
    BY <1>2 DEF ApiInv, HandlerInv, PlanInv, Creating
  <2>2. Creating(g) => plan[g].share \notin held'
    BY <1>4, <1>10, <2>1 DEF ApiInv, MintInv
  <2>3. QED
    BY <1>1, <1>2, <1>5, <1>10, <2>1, <2>2, Bystander
<1>11. QED
  BY <1>2, <1>3, <1>6, <1>8, <1>9, <1>10 DEF ApiInv

(***************************************************************************)
(* Everything else that runs.                                              *)
(***************************************************************************)

LEMMA WorldKeeps ==
  ASSUME ApiInv,
         \/ OtherSweep \/ CleanupPrunes
         \/ (\E s \in Condemned : TakedownBegins(s)) \/ TakedownProceeds \/ TakedownStops
         \/ TimePasses
  PROVE  ApiInv' /\ [StoreNext]_storeVars
<1>1. /\ clock \in Nat /\ taken \subseteq ShareIds /\ taken \subseteq held
      /\ operator # NoTakedown => operator.share \in taken
      /\ operator \in [share : ShareIds \cup {NoShare}, next : {"none", "tags", "receipts", "row"}]
      /\ \A h \in Handlers : Busy(h) => clock <= plan[h].now + RequestLifetime
  BY DEF ApiInv, StoreInv, StoreTypeOK, WorldInv, HandlerInv, PlanInv
<1>2. CASE OtherSweep \/ CleanupPrunes
  <2>1. /\ [StoreNext]_storeVars /\ UNCHANGED <<handlerVars, minted, held>>
        /\ UNCHANGED <<log, clock, taken, operator>>
    BY <1>2 DEF OtherSweep, CleanupPrunes, StoreNext, SweepPending, PruneReceipts, worldVars
  <2>2. QED
    BY <1>1, <2>1, OutsideStep
<1>3. ASSUME NEW s \in Condemned, TakedownBegins(s)
      PROVE  ApiInv' /\ [StoreNext]_storeVars
  <2>1. s \in ShareIds /\ s \in held
    BY <1>3, ApiAssumption DEF TakedownBegins, ApiInv, WorldInv
  <2>2. /\ [StoreNext]_storeVars /\ UNCHANGED <<handlerVars, minted, held>>
        /\ UNCHANGED <<log, clock>> /\ taken' = taken \cup {s}
        /\ operator' = [share |-> s, next |-> "tags"]
    BY <1>3, <2>1 DEF TakedownBegins, StoreNext, TakedownStatement, BlockRow
  <2>3. QED
    BY <1>1, <2>1, <2>2, OutsideStep
<1>4. CASE TakedownProceeds
  <2>1. /\ operator.share \in taken /\ operator.share \in ShareIds
        /\ UNCHANGED <<handlerVars, minted, held>>
        /\ PurgeTags(operator.share) \/ PurgeReceipts(operator.share) \/ RemoveRow(operator.share)
        /\ \/ operator' = [operator EXCEPT !.next = "receipts"]
           \/ operator' = [operator EXCEPT !.next = "row"]
           \/ operator' = NoTakedown
    BY <1>1, <1>4 DEF TakedownProceeds
  <2>2. [StoreNext]_storeVars /\ UNCHANGED <<log, clock, taken>>
    BY <2>1 DEF StoreNext, TakedownStatement, PurgeTags, PurgeReceipts, RemoveRow
  <2>3. /\ operator' \in [share : ShareIds \cup {NoShare}, next : {"none", "tags", "receipts", "row"}]
        /\ operator' # NoTakedown => operator'.share \in taken'
    BY <1>1, <2>1, <2>2 DEF NoTakedown
  <2>4. QED
    BY <1>1, <2>1, <2>2, <2>3, OutsideStep
<1>5. CASE TakedownStops
  <2>1. /\ [StoreNext]_storeVars /\ UNCHANGED <<handlerVars, minted, held>>
        /\ UNCHANGED <<log, clock, taken>> /\ operator' = NoTakedown
    BY <1>5 DEF TakedownStops, storeVars
  <2>2. operator' \in [share : ShareIds \cup {NoShare}, next : {"none", "tags", "receipts", "row"}]
    BY <2>1 DEF NoTakedown
  <2>3. QED
    BY <1>1, <2>1, <2>2, OutsideStep
<1>6. CASE TimePasses
  <2>1. /\ [StoreNext]_storeVars /\ UNCHANGED <<handlerVars, minted, held>>
        /\ UNCHANGED <<log, taken, operator>> /\ clock' = clock + 1
        /\ \A h \in Handlers : Busy(h) => clock < plan[h].now + RequestLifetime
    BY <1>6 DEF TimePasses, StoreNext, Tick, worldVars, Busy
  <2>2. \A h \in Handlers : Busy(h) => plan[h].now \in Nat
    BY InFlight
  <2>3. \A h \in Handlers : Busy(h) => clock' <= plan[h].now + RequestLifetime
    BY <1>1, <2>1, <2>2, ApiAssumption
  <2>4. QED
    BY <1>1, <2>1, <2>3, OutsideStep
<1>7. QED
  BY <1>2, <1>3, <1>4, <1>5, <1>6

\* Every step keeps the invariant and is a step of the store, or none.
LEMMA ApiStep ==
  ASSUME ApiInv, [ApiNext]_apiVars
  PROVE  ApiInv' /\ [StoreNext]_storeVars
<1>1. ASSUME NEW h \in Handlers, HandlerStep(h)
      PROVE  ApiInv' /\ [StoreNext]_storeVars
  <2>1. CASE Sweep(h) \/ SendBatch(h) \/ Respond(h)
    BY <2>1, SweepKeeps, SendBatchKeeps, RespondKeeps
  <2>2. CASE \/ CheckLineage(h) \/ Precheck(h) \/ BatchAborts(h) \/ ReadReceipt(h)
             \/ ReadRow(h) \/ ReadCurrent(h) \/ ReadDetails(h) \/ Fail(h)
    <3>1. ApiInv'
      BY <2>2, CheckLineageKeeps, PrecheckKeeps, BatchAbortsKeeps, ReadReceiptKeeps,
         ReadRowKeeps, ReadCurrentKeeps, ReadDetailsKeeps, FailKeeps
    <3>2. UNCHANGED storeVars
      BY <2>2 DEF CheckLineage, Precheck, BatchAborts, ReadReceipt, ReadRow, ReadCurrent,
                  ReadDetails, Fail
    <3>3. QED
      BY <3>1, <3>2
  <2>3. QED
    BY <1>1, <2>1, <2>2 DEF HandlerStep
<1>2. ASSUME NEW h \in Handlers, NEW p \in Plans, Begin(h, p)
      PROVE  ApiInv' /\ [StoreNext]_storeVars
  BY <1>2, BeginKeeps
<1>3. CASE UNCHANGED apiVars
  <2>1. UNCHANGED storeVars /\ UNCHANGED <<handlerVars, minted, held>> /\ UNCHANGED operator
    BY <1>3 DEF apiVars, worldVars
  <2>2. UNCHANGED <<log, clock, taken>>
    BY <2>1 DEF storeVars
  <2>3. QED
    BY <2>1, <2>2, OutsideStep DEF ApiInv, WorldInv, HandlerInv, PlanInv
<1>4. QED
  BY <1>1, <1>2, <1>3, WorldKeeps DEF ApiNext

LEMMA ApiStarts ==
  ASSUME ApiInit
  PROVE  ApiInv /\ StoreInit
<1>1. StoreInv
  BY DEF ApiInit, StoreInit, StoreInv, StoreTypeOK, KeyInv, AtMostOncePerKey, RowInv,
         RowIsNewestWrite, NoLostUpdate, Writes, WindowInv, NoLateActivation, HistoryInv
<1>2. HandlerTypeOK
  BY DEF ApiInit, HandlerTypeOK, Steps
<1>3. WorldInv /\ MintInv /\ LineageFromPublished
  BY DEF ApiInit, StoreInit, WorldInv, NoTakedown, MintInv, Creating, Busy, LineageFromPublished
<1>4. \A h \in Handlers : HandlerInv(h)
  BY DEF ApiInit, HandlerInv, Busy
<1>5. QED
  BY <1>1, <1>2, <1>3, <1>4 DEF ApiInv, ApiInit

\* However many requests run at once, and whatever is lost, retried, swept or
\* taken down between their steps, each stays in agreement with the log.
THEOREM RequestsAgreeWithLog == ApiSpec => []ApiInv
<1>1. ApiInit => ApiInv
  BY ApiStarts
<1>2. ApiInv /\ [ApiNext]_apiVars => ApiInv'
  BY ApiStep
<1>3. QED
  BY <1>1, <1>2, PTL DEF ApiSpec

\* The handlers, the cleanup and the takedown command use the store as
\* PublicationStore allows: a create's share is fresh or its key is claimed,
\* times are of the past, and only what was seen published is taken down.
THEOREM StoreIsImplemented == ApiSpec => ImplementsStore
<1>1. ApiInit => StoreInit
  BY ApiStarts
<1>2. ApiInv /\ [ApiNext]_apiVars => [StoreNext]_storeVars
  BY ApiStep
<1>3. QED
  BY <1>1, <1>2, RequestsAgreeWithLog, PTL DEF ApiSpec, ImplementsStore, StoreSpec

\* A publication is public only after its one-time secret reached its client.
THEOREM ActiveIsHeld == ApiSpec => []ActiveHasKeyHolder
<1>1. ASSUME ApiInv
      PROVE  ActiveHasKeyHolder
  <2>1. SUFFICES ASSUME NEW s \in ShareIds, Readable(s)
                 PROVE  s \in held
    BY DEF ActiveHasKeyHolder
  <2>2. PICK e \in Writes : e.share = s /\ e.request.method = "activate"
    BY <1>1, <2>1 DEF Readable, ApiInv, StoreInv, RowInv, RowIsNewestWrite
  <2>3. QED
    BY <1>1, <2>2 DEF Writes, ApiInv, WorldInv
<1>2. QED
  BY <1>1, RequestsAgreeWithLog, PTL

\* No 2xx reports what was not committed.
THEOREM AcksAreTrue == ApiSpec => []AcksAreCommitted
<1>1. ApiInv => AcksAreCommitted
  BY DEF ApiInv, HandlerInv, AnswerInv, Busy, Done, AcksAreCommitted
<1>2. QED
  BY <1>1, RequestsAgreeWithLog, PTL

\* A request that was applied is answered with what was recorded, or with 503.
THEOREM AppliedIsTold == ApiSpec => []AppliedIsAcknowledged
<1>1. ApiInv => AppliedIsAcknowledged
  BY DEF ApiInv, HandlerInv, AnswerInv, Busy, Done, AppliedIsAcknowledged, Settled
<1>2. QED
  BY <1>1, RequestsAgreeWithLog, PTL

\* Only the owner of a publication is told its revision.
THEOREM RevisionIsTheOwners == ApiSpec => []RevisionDisclosedToOwner
<1>1. ApiInv => RevisionDisclosedToOwner
  BY DEF ApiInv, HandlerInv, AnswerInv, Busy, Done, RevisionDisclosedToOwner
<1>2. QED
  BY <1>1, RequestsAgreeWithLog, PTL

\* What a create stores as its source was public before, at that revision.
THEOREM LineageIsTrue == ApiSpec => []LineageFromPublished
<1>1. ApiInv => LineageFromPublished
  BY DEF ApiInv
<1>2. QED
  BY <1>1, RequestsAgreeWithLog, PTL

\* The link of what a batch writes: of an activate, that of the row; of a
\* replace, one its publication has had, unless it was taken in too early.
LEMMA BatchKeepsDerivation ==
  ASSUME ApiInv, NEW h \in Handlers, pc[h] = "batch", Submit(plan[h]),
         NEW e \in Writes' \ Writes, e.request.method # "create"
  PROVE  \/ \E f \in Writes : /\ f.share = e.share
                              /\ f.outcome.playlist.derivedFrom = e.outcome.playlist.derivedFrom
         \/ plan[h].method = "replace" /\ e.nonce = nonce /\ TakenInEarly(h)
<1> DEFINE p == plan[h]
<1>1. /\ Busy(h) /\ GateInv(h) /\ p \in Plans /\ WellFormed(p) /\ p.share \in ShareIds
      /\ StoreTypeOK /\ HistoryInv /\ RowIsNewestWrite /\ FreshShare(p)
  BY InFlight, CreateIsFresh DEF Busy, RowInv
<1>2. Accepted(p) /\ e \notin log
  BY DEF Writes, Submit, Accepted, Refuse
<1>3. PICK n : n = Entry(p, AppliedOutcome(p))
  OBVIOUS
<1>4. /\ e = n /\ e.share = p.share /\ e.request.method = p.method
      /\ e.outcome = AppliedOutcome(p) /\ e.nonce = nonce
  BY <1>2, <1>3, AcceptedEntry, EntryFields DEF Writes
<1>5. p.method \in {"activate", "replace"}
  BY <1>1, <1>4 DEF Writes, WellFormed
<1>6. CASE p.method = "activate"
  <2>1. rows[p.share] # NoRow /\ rows[p.share] \in Row
    BY <1>1, <1>2, <1>6, AcceptedRow DEF StoreTypeOK
  <2>2. e.outcome.playlist = rows[p.share].playlist
    BY <1>4, <1>6, <2>1 DEF AppliedOutcome, OutcomeOf, ActivatedRow, Row
  <2>3. PICK f \in Writes : f.outcome = OutcomeOf(p.share, rows[p.share])
    BY <1>1, <2>1 DEF RowIsNewestWrite
  <2>4. f.share = p.share /\ f.outcome.playlist = rows[p.share].playlist
    BY <1>1, <2>3 DEF OutcomeOf, HistoryInv, EntryOK, Writes
  <2>5. QED
    BY <1>4, <2>2, <2>4
<1>7. CASE p.method = "replace"
  <2>1. rows[p.share] # NoRow /\ rows[p.share] \in Row
    BY <1>1, <1>2, <1>7, AcceptedRow DEF StoreTypeOK
  <2>2. e.outcome.playlist = p.playlist
    BY <1>4, <1>7, <2>1 DEF AppliedOutcome, OutcomeOf, ReplacedRow, Row
  <2>3. QED
    BY <1>1, <1>4, <1>7, <2>1, <2>2 DEF GateInv, Settles
<1>8. QED
  BY <1>5, <1>6, <1>7

\* Only a batch of a handler adds to the log.
LEMMA OnlyBatchesWrite ==
  ASSUME ApiInv, [ApiNext]_apiVars, log' # log
  PROVE  \E h \in Handlers : pc[h] = "batch" /\ Submit(plan[h]) /\ mine'[h] = nonce
<1>1. SUFFICES ASSUME NEW h \in Handlers, HandlerStep(h)
               PROVE  pc[h] = "batch" /\ Submit(plan[h]) /\ mine'[h] = nonce
  BY DEF ApiNext, apiVars, storeVars, Begin, OtherSweep, CleanupPrunes, TakedownBegins,
         TakedownProceeds, TakedownStops, TimePasses, SweepPending, PruneReceipts,
         BlockRow, PurgeTags, PurgeReceipts, RemoveRow, Tick
<1>2. pc[h] = "batch" /\ Submit(plan[h]) /\ mine' = [mine EXCEPT ![h] = nonce]
  BY <1>1 DEF HandlerStep, Sweep, CheckLineage, Precheck, SendBatch, BatchAborts, ReadReceipt,
              ReadRow, ReadCurrent, ReadDetails, Fail, Respond, SweepPending, storeVars
<1>3. QED
  BY <1>2 DEF ApiInv, HandlerTypeOK

\* However updates, activations and resent batches overlap, only a replace
\* taken in before the activation can store another link than there was.
THEOREM DerivationStays == ApiSpec => DerivationIsFixed
<1> DEFINE Kept ==
      \A e \in Writes' \ Writes :
        \/ e.request.method = "create"
        \/ \E f \in Writes : /\ f.share = e.share
                             /\ f.outcome.playlist.derivedFrom = e.outcome.playlist.derivedFrom
        \/ \E h \in Handlers : /\ pc[h] = "batch" /\ plan[h].method = "replace"
                               /\ mine'[h] = e.nonce /\ TakenInEarly(h)
<1>1. ASSUME ApiInv, [ApiNext]_apiVars
      PROVE  Kept
  <2>1. SUFFICES ASSUME NEW e \in Writes' \ Writes, e.request.method # "create"
                 PROVE  \/ \E f \in Writes :
                              /\ f.share = e.share
                              /\ f.outcome.playlist.derivedFrom = e.outcome.playlist.derivedFrom
                        \/ \E h \in Handlers :
                              /\ pc[h] = "batch" /\ plan[h].method = "replace"
                              /\ mine'[h] = e.nonce /\ TakenInEarly(h)
    OBVIOUS
  <2>2. log' # log
    BY <2>1 DEF Writes
  <2>3. PICK h \in Handlers : pc[h] = "batch" /\ Submit(plan[h]) /\ mine'[h] = nonce
    BY <1>1, <2>2, OnlyBatchesWrite
  <2>4. QED
    BY <1>1, <2>1, <2>3, BatchKeepsDerivation
<1>2. ApiInv /\ [ApiNext]_apiVars => [Kept]_apiVars
  BY <1>1
<1>3. QED
  BY <1>2, RequestsAgreeWithLog, PTL DEF ApiSpec, DerivationIsFixed
===============================================================================

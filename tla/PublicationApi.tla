---------------------------- MODULE PublicationApi ----------------------------
(***************************************************************************)
(* The mutation handlers of /api/v1/playlists on top of the store: POST    *)
(* (create), PATCH (activate, replace) and DELETE, several at a time.      *)
(*                                                                         *)
(* A handler awaits the database several times, and anything may happen    *)
(* between two of its steps:                                               *)
(*                                                                         *)
(*   idle -> sweep -> lineage | precheck | batch -> receipt -> row         *)
(*                          -> current | details -> done -> idle           *)
(*                                                                         *)
(* A batch may be reported busy (then it is sent again with a new nonce,   *)
(* at most MaxAttempts times) or failed, in both cases with or without     *)
(* having committed; any step may fail, which answers 503; any answer may  *)
(* be lost, which is also what an evicted Worker looks like from outside.  *)
(* Beside the handlers run the scheduled cleanup, the takedown command     *)
(* line, which sends its statements one by one and may stop anywhere, and  *)
(* the sweeps of GET requests.                                             *)
(***************************************************************************)
EXTENDS PublicationStore

CONSTANTS
  Handlers,         \* concurrent requests
  Forgers,          \* {WrongSecret} when clients also try a wrong secret, or {}
  Condemned,        \* the shares an operator may take down
  NoPlan, NoReply,
  MaxAttempts,      \* GUARD_MAX_ATTEMPTS
  RequestLifetime   \* no request is in flight longer than this

ASSUME ApiAssumption ==
  /\ Forgers \subseteq {WrongSecret}
  /\ Condemned \subseteq ShareIds
  /\ MaxAttempts \in Nat \ {0}
  \* A Worker request lives for seconds, a receipt for 24 hours.
  /\ RequestLifetime \in Nat /\ RequestLifetime < ReceiptTtl
  /\ NoPlan \notin Plan

VARIABLES
  pc,        \* where each handler stands
  plan,      \* what it was asked, with the time captured at intake
  attempt,   \* batches it has sent
  mine,      \* the nonce of its last batch
  seen,      \* the receipt it has read back
  reply,     \* its answer
  past,      \* history: the nonces used before the request was taken in, and its own
  minted,    \* the share ids generated so far
  held,      \* the shares whose one-time secret reached its client
  operator   \* the takedown command line: its share and next statement

handlerVars == <<pc, plan, attempt, mine, seen, reply, past>>
worldVars   == <<minted, held, operator>>
apiVars     == <<storeVars, handlerVars, worldVars>>

NoTakedown == [share |-> NoShare, next |-> "none"]

Codes == {"CREATED", "OK", "NO_CONTENT", "UNAUTHORIZED", "NOT_FOUND",
          "SCHEMA_INVALID", "REVISION_CONFLICT", "IDEMPOTENCY_CONFLICT",
          "CREATE_RECEIPT_UNAVAILABLE", "TRANSIENT_FAILURE"}

Reply == [code : Codes, share : ShareIds, revision : Nat,
          playlist : Playlists \cup {NoPlaylist}, secret : Secrets \cup {NoShare}]

Steps == {"idle", "sweep", "lineage", "precheck", "batch", "receipt", "row",
          "current", "details", "done"}

(***************************************************************************)
(* Answers.                                                                *)
(***************************************************************************)

Refusal(p, code) == [code |-> code, share |-> p.share, revision |-> 0,
                     playlist |-> NoPlaylist, secret |-> NoShare]

\* 409 with the current revision in its details, 0 when the row is gone.
Conflict(p, row) ==
  [Refusal(p, "REVISION_CONFLICT") EXCEPT
     !.revision = IF row = NoRow THEN 0 ELSE row.revision]

Ack(code, outcome, secret) ==
  [code |-> code, share |-> outcome.share, revision |-> outcome.revision,
   playlist |-> outcome.playlist, secret |-> secret]

\* The answer of a batch that applied: only POST carries the secret.
Applied(p, outcome) ==
  CASE p.method = "create" -> Ack("CREATED", outcome, p.secret)
    [] p.method = "delete" -> Ack("NO_CONTENT", outcome, NoShare)
    [] OTHER               -> Ack("OK", outcome, NoShare)

\* The answer of a request whose receipt was already completed.
Replayed(p, outcome) ==
  IF p.method = "create"
  THEN Refusal(p, "CREATE_RECEIPT_UNAVAILABLE")
  ELSE Applied(p, outcome)

(***************************************************************************)
(* classify: why the batch of the plan p did not apply.                    *)
(***************************************************************************)

ReceiptVerdict(p, receipt) ==
  IF p.method # "create" /\ receipt.secret # p.secret THEN "UNAUTHORIZED"
  ELSE IF \/ receipt.request # RequestHash(p)
          \/ p.method # "create" /\ receipt.share # p.share
       THEN "IDEMPOTENCY_CONFLICT"
  ELSE "REPLAYED"

RequiredState(p) ==
  CASE p.method = "activate" -> {"pending"}
    [] p.method = "replace"  -> {"active"}
    [] OTHER                 -> {"pending", "active"}

\* Mutant: the state and the revision are looked at before the secret.
RowVerdictStateFirst(p, row) ==
  IF p.method = "create" THEN "THROW"
  ELSE IF row = NoRow THEN "NOT_FOUND"
  ELSE IF row.state \notin RequiredState(p) THEN "INVALID_STATE"
  ELSE IF row.revision # p.expected THEN "REVISION_CONFLICT"
  ELSE IF row.secret # p.secret THEN "UNAUTHORIZED"
  ELSE "THROW"

\* THROW stands for ALREADY_EXISTS and for a guard that refused although its
\* predicates hold by now: both end as 503.
RowVerdict(p, row) ==
  IF p.method = "create" THEN "THROW"
  ELSE IF row = NoRow THEN "NOT_FOUND"
  ELSE IF row.secret # p.secret THEN "UNAUTHORIZED"
  ELSE IF row.state \notin RequiredState(p) THEN "INVALID_STATE"
  ELSE IF row.revision # p.expected THEN "REVISION_CONFLICT"
  ELSE IF p.method = "activate" /\ row.expires # NoTime /\ row.expires <= p.now
       THEN "ACTIVATION_EXPIRED"
  ELSE "THROW"

\* Mutant: a row that is gone is reported before the receipt is looked at.
VerdictRowFirst(p, receipt, row) ==
  IF row = NoRow \/ receipt = NoReceipt
  THEN RowVerdict(p, row) ELSE ReceiptVerdict(p, receipt)

Verdict(p, receipt, row) ==
  IF receipt # NoReceipt THEN ReceiptVerdict(p, receipt) ELSE RowVerdict(p, row)

\* Of a create, only a used key is the client's fault.
CreateConflict(p, verdict) ==
  Refusal(p, IF verdict = "IDEMPOTENCY_CONFLICT" THEN verdict ELSE "TRANSIENT_FAILURE")

\* A window that has closed is a publication that is absent.
MutationConflict(p, verdict) ==
  Refusal(p, CASE verdict \in {"UNAUTHORIZED", "IDEMPOTENCY_CONFLICT"}  -> verdict
               [] verdict \in {"NOT_FOUND", "ACTIVATION_EXPIRED"} -> "NOT_FOUND"
               [] verdict = "THROW"                               -> "TRANSIENT_FAILURE")

\* Verdicts that are answered without reading the database again.
VerdictReply(p, verdict, receipt) ==
  IF verdict = "REPLAYED" THEN Replayed(p, receipt.outcome)
  ELSE IF p.method = "create" THEN CreateConflict(p, verdict) ELSE MutationConflict(p, verdict)

(***************************************************************************)
(* The steps of a handler.                                                 *)
(***************************************************************************)

Goto(h, step) == pc' = [pc EXCEPT ![h] = step]

Answer(h, r) ==
  /\ reply' = [reply EXCEPT ![h] = r]
  /\ Goto(h, "done")

\* What a client can send: a create gets ids generated for it, the other
\* methods carry the secret of a publication whose 201 was received, or a
\* wrong one.
MayAsk(p) ==
  /\ p.now = clock
  /\ IF p.method = "create" THEN p.share \notin minted
     ELSE p.secret \in Forgers \/ (p.secret = p.share /\ p.share \in held)

\* Intake up to "const now = new Date()".
Begin(h, p) ==
  /\ pc[h] = "idle"
  /\ MayAsk(p)
  /\ plan' = [plan EXCEPT ![h] = p]
  /\ past' = [past EXCEPT ![h] = 0 .. nonce - 1]
  /\ minted' = IF p.method = "create" THEN minted \cup {p.share} ELSE minted
  /\ Goto(h, "sweep")
  /\ UNCHANGED <<storeVars, attempt, mine, seen, reply, held, operator>>

AfterSweep(p) ==
  CASE p.method = "create" /\ p.playlist.derivedFrom # NoLink -> "lineage"
    [] p.method = "replace"                                   -> "precheck"
    [] OTHER                                                  -> "batch"

\* Mutant: the sweep takes the end of the window of a row created now.
SweepAhead(h) ==
  /\ pc[h] = "sweep"
  /\ SweepPending(plan[h].now + ActivationWindow)
  /\ Goto(h, AfterSweep(plan[h]))
  /\ UNCHANGED <<plan, attempt, mine, seen, reply, past, worldVars>>

\* expirePendingProvisionals, with the time captured at intake.
Sweep(h) ==
  /\ pc[h] = "sweep"
  /\ SweepPending(plan[h].now)
  /\ Goto(h, AfterSweep(plan[h]))
  /\ UNCHANGED <<plan, attempt, mine, seen, reply, past, worldVars>>

Readable(s) == /\ rows[s] # NoRow
               /\ rows[s].state = "active"

\* Mutant: the claimed parent revision is not compared with the parent's.
DerivedFromLoose(p) ==
  LET parent == p.playlist.derivedFrom.share
  IN  /\ parent # p.share
      /\ Readable(parent)
      /\ rows[parent].playlist.visibility = "public"
      /\ ~rows[parent].blocked
      /\ rows[parent].first < p.now

DerivedFromAcceptable(p) ==
  LET parent == p.playlist.derivedFrom.share
  IN  /\ parent # p.share
      /\ Readable(parent)
      /\ rows[parent].playlist.visibility = "public"
      /\ ~rows[parent].blocked
      /\ p.playlist.derivedFrom.revision <= rows[parent].revision
      /\ rows[parent].first < p.now

CheckLineage(h) ==
  /\ pc[h] = "lineage"
  /\ IF DerivedFromAcceptable(plan[h])
     THEN Goto(h, "batch") /\ UNCHANGED reply
     ELSE Answer(h, Refusal(plan[h], "SCHEMA_INVALID"))
  /\ UNCHANGED <<storeVars, plan, attempt, mine, seen, past, worldVars>>

\* Mutant: a publication that has no link yet may be given one.
SameDerivedFromIfLinked(stored, incoming) == stored = NoLink \/ stored = incoming

SameDerivedFrom(stored, incoming) == stored = incoming

\* A row that is not active (yet) has no link to compare with.
Precheck(h) ==
  LET p == plan[h]
  IN  /\ pc[h] = "precheck"
      /\ IF Readable(p.share)
             => SameDerivedFrom(rows[p.share].playlist.derivedFrom, p.playlist.derivedFrom)
         THEN Goto(h, "batch") /\ UNCHANGED reply
         ELSE Answer(h, Refusal(p, "SCHEMA_INVALID"))
      /\ UNCHANGED <<storeVars, plan, attempt, mine, seen, past, worldVars>>

\* The batch is reported: fine, busy (sent again while attempts are left), or
\* failed.
Report(h) ==
  /\ attempt' = [attempt EXCEPT ![h] = @ + 1]
  /\ \/ Goto(h, "receipt") /\ UNCHANGED reply
     \/ attempt[h] + 1 < MaxAttempts /\ UNCHANGED <<pc, reply>>
     \/ Answer(h, Refusal(plan[h], "TRANSIENT_FAILURE"))

SendBatch(h) ==
  /\ pc[h] = "batch"
  /\ Submit(plan[h])
  /\ mine' = [mine EXCEPT ![h] = nonce]
  /\ past' = [past EXCEPT ![h] = @ \cup {nonce}]
  /\ Report(h)
  /\ UNCHANGED <<plan, seen, worldVars>>

\* The batch did not commit, and is reported busy or failed.
BatchAborts(h) ==
  /\ pc[h] = "batch"
  /\ attempt' = [attempt EXCEPT ![h] = @ + 1]
  /\ IF attempt[h] + 1 < MaxAttempts THEN UNCHANGED <<pc, reply>>
     ELSE Answer(h, Refusal(plan[h], "TRANSIENT_FAILURE"))
  /\ UNCHANGED <<storeVars, plan, mine, seen, past, worldVars>>

\* Mutant: any receipt under the key is taken for this attempt's own.
ReadReceiptOfAnyNonce(h) ==
  LET receipt == receipts[plan[h].key]
  IN  /\ pc[h] = "receipt"
      /\ IF receipt # NoReceipt
         THEN /\ Answer(h, Applied(plan[h], receipt.outcome))
              /\ UNCHANGED seen
         ELSE /\ seen' = [seen EXCEPT ![h] = receipt]
              /\ Goto(h, "row")
              /\ UNCHANGED reply
      /\ UNCHANGED <<storeVars, plan, attempt, mine, past, worldVars>>

ReadReceipt(h) ==
  LET receipt == receipts[plan[h].key]
  IN  /\ pc[h] = "receipt"
      /\ IF receipt # NoReceipt /\ receipt.nonce = mine[h]
         THEN /\ Answer(h, Applied(plan[h], receipt.outcome))
              /\ UNCHANGED seen
         ELSE /\ seen' = [seen EXCEPT ![h] = receipt]
              /\ Goto(h, "row")
              /\ UNCHANGED reply
      /\ UNCHANGED <<storeVars, plan, attempt, mine, past, worldVars>>

\* readGuardRow and classify.
ReadRow(h) ==
  LET p       == plan[h]
      verdict == Verdict(p, seen[h], rows[p.share])
  IN  /\ pc[h] = "row"
      /\ CASE verdict = "INVALID_STATE" /\ p.method = "activate" ->
                Goto(h, "current") /\ UNCHANGED reply
           [] verdict \in {"INVALID_STATE", "REVISION_CONFLICT"}
                /\ ~(verdict = "INVALID_STATE" /\ p.method = "activate") ->
                Goto(h, "details") /\ UNCHANGED reply
           [] OTHER -> Answer(h, VerdictReply(p, verdict, seen[h]))
      /\ UNCHANGED <<storeVars, plan, attempt, mine, seen, past, worldVars>>

\* A repeated activate of a publication still as it was activated.
RepeatActivate(p, row) ==
  /\ row # NoRow
  /\ row.state = "active"
  /\ row.revision = p.expected + 1
  /\ row.first # NoTime

ReadCurrent(h) ==
  LET p == plan[h]
  IN  /\ pc[h] = "current"
      /\ IF RepeatActivate(p, rows[p.share])
         THEN Answer(h, Ack("OK", OutcomeOf(p.share, rows[p.share]), NoShare))
         ELSE Goto(h, "details") /\ UNCHANGED reply
      /\ UNCHANGED <<storeVars, plan, attempt, mine, seen, past, worldVars>>

ReadDetails(h) ==
  /\ pc[h] = "details"
  /\ Answer(h, Conflict(plan[h], rows[plan[h].share]))
  /\ UNCHANGED <<storeVars, plan, attempt, mine, seen, past, worldVars>>

\* Any awaited call may reject.
Fail(h) ==
  /\ pc[h] \notin {"idle", "done"}
  /\ Answer(h, Refusal(plan[h], "TRANSIENT_FAILURE"))
  /\ UNCHANGED <<storeVars, plan, attempt, mine, seen, past, worldVars>>

\* The answer leaves, and arrives or does not.
Respond(h) ==
  /\ pc[h] = "done"
  /\ \/ held' = IF reply[h].code = "CREATED" THEN held \cup {reply[h].share} ELSE held
     \/ UNCHANGED held
  /\ pc'      = [pc EXCEPT ![h] = "idle"]
  /\ plan'    = [plan EXCEPT ![h] = NoPlan]
  /\ attempt' = [attempt EXCEPT ![h] = 0]
  /\ mine'    = [mine EXCEPT ![h] = 0]
  /\ seen'    = [seen EXCEPT ![h] = NoReceipt]
  /\ reply'   = [reply EXCEPT ![h] = NoReply]
  /\ past'    = [past EXCEPT ![h] = {}]
  /\ UNCHANGED <<storeVars, minted, operator>>

HandlerStep(h) ==
  \/ Sweep(h) \/ CheckLineage(h) \/ Precheck(h) \/ SendBatch(h) \/ BatchAborts(h)
  \/ ReadReceipt(h) \/ ReadRow(h) \/ ReadCurrent(h) \/ ReadDetails(h)
  \/ Fail(h) \/ Respond(h)

(***************************************************************************)
(* Everything else that runs.                                              *)
(***************************************************************************)

\* GET and listing requests, and the cleanup, sweep with the time they captured.
OtherSweep ==
  /\ \E now \in 0 .. clock : SweepPending(now)
  /\ UNCHANGED <<handlerVars, worldVars>>

\* runScheduledCleanup: its batch of prunes, then OtherSweep.  It can be evicted
\* between the two, and a prune with nothing due changes nothing.
CleanupPrunes ==
  /\ \E now \in 0 .. clock : PruneReceipts(now)
  /\ UNCHANGED <<handlerVars, worldVars>>

\* runOperatorTakedown on a publication that has been public.
TakedownBegins(s) ==
  /\ operator = NoTakedown
  /\ \E e \in log : e.share = s /\ e.request.method = "activate"
  /\ BlockRow(s)
  /\ operator' = [share |-> s, next |-> "tags"]
  /\ UNCHANGED <<handlerVars, minted, held>>

TakedownProceeds ==
  /\ operator # NoTakedown
  /\ LET s == operator.share
     IN  \/ operator.next = "tags"     /\ PurgeTags(s)     /\ operator' = [operator EXCEPT !.next = "receipts"]
         \/ operator.next = "receipts" /\ PurgeReceipts(s) /\ operator' = [operator EXCEPT !.next = "row"]
         \/ operator.next = "row"      /\ RemoveRow(s)     /\ operator' = NoTakedown
  /\ UNCHANGED <<handlerVars, minted, held>>

\* A statement fails, or the operator's machine does.
TakedownStops ==
  /\ operator # NoTakedown
  /\ operator' = NoTakedown
  /\ UNCHANGED <<storeVars, handlerVars, minted, held>>

TimePasses ==
  /\ \A h \in Handlers : pc[h] # "idle" => clock < plan[h].now + RequestLifetime
  /\ Tick
  /\ UNCHANGED <<handlerVars, worldVars>>

ApiInit ==
  /\ StoreInit
  /\ pc = [h \in Handlers |-> "idle"]
  /\ plan = [h \in Handlers |-> NoPlan]
  /\ attempt = [h \in Handlers |-> 0]
  /\ mine = [h \in Handlers |-> 0]
  /\ seen = [h \in Handlers |-> NoReceipt]
  /\ reply = [h \in Handlers |-> NoReply]
  /\ past = [h \in Handlers |-> {}]
  /\ minted = {}
  /\ held = {}
  /\ operator = NoTakedown

ApiNext ==
  \/ \E h \in Handlers : HandlerStep(h) \/ \E p \in Plans : Begin(h, p)
  \/ OtherSweep \/ CleanupPrunes
  \/ (\E s \in Condemned : TakedownBegins(s)) \/ TakedownProceeds \/ TakedownStops
  \/ TimePasses

ApiSpec == ApiInit /\ [][ApiNext]_apiVars

(***************************************************************************)
(* Properties.                                                             *)
(***************************************************************************)

Done(h)      == pc[h] = "done"
Definitive   == Codes \ {"TRANSIENT_FAILURE"}
Acknowledged == {"CREATED", "OK", "NO_CONTENT"}

\* ADR 003: "No publicly visible snapshot can ever exist without a client-held
\* key".  A row is active only after its 201 reached the client, whatever was
\* lost or retried in between.
ActiveHasKeyHolder ==
  \A s \in ShareIds : Readable(s) => s \in held

\* A 2xx answer never reports what was not committed: a batch that applied
\* did to that share, at that revision and with that content, what this very
\* request asks.
AcksAreCommitted ==
  \A h \in Handlers :
    Done(h) /\ reply[h].code \in Acknowledged =>
      \E e \in log : /\ e.request = RequestHash(plan[h])
                     /\ e.share = reply[h].share
                     /\ e.outcome.revision = reply[h].revision
                     /\ e.outcome.playlist = reply[h].playlist

\* A request that was applied, by an earlier try of the client or by an
\* attempt of its own whose commit was reported as busy, is answered with the
\* recorded acknowledgement while the receipt stands, or with 503: never with
\* a conflict or a 404.  Not covered: a create whose claimed parent has gone
\* since, which the lineage gate refuses first, and a share taken down.
AppliedIsAcknowledged ==
  \A h \in Handlers :
    LET p == plan[h]
    IN  Done(h) /\ reply[h].code \in Definitive \ {"SCHEMA_INVALID"} =>
          \A e \in log :
            /\ e.key = p.key /\ e.nonce \in past[h] /\ clock < e.expires
            /\ e.request = RequestHash(p) /\ e.share \notin taken
            /\ p.method # "create" => p.secret = e.share
            => \/ reply[h] = Replayed(p, e.outcome)
               \/ reply[h] = Applied(p, e.outcome) /\ e.nonce = mine[h]

\* Only the owner learns the current revision of a publication
\* (mutation-conflicts.ts: the repository reports REVISION_CONFLICT or
\* INVALID_STATE "only ... after the secret hash matched").
RevisionDisclosedToOwner ==
  \A h \in Handlers :
    Done(h) /\ reply[h].code = "REVISION_CONFLICT" /\ reply[h].revision # 0 =>
      plan[h].secret = plan[h].share

\* The derivedFrom that a create stores names a revision its parent really
\* had, of a parent published strictly before that create was taken in; so as
\* published, lineage has no cycle and no self-reference.  What a replace may
\* store is DerivationIsFixed's subject.
LineageFromPublished ==
  \A e \in log :
    LET link == e.outcome.playlist.derivedFrom
    IN  e.request.method = "create" /\ link # NoLink =>
          /\ \E f \in log : /\ f.share = link.share /\ f.share # e.share
                            /\ f.request.method = "activate"
                            /\ f.now < e.now
          /\ \E f \in Writes : /\ f.share = link.share
                               /\ f.outcome.revision = link.revision

\* The request of h was taken in before its publication was activated.
TakenInEarly(h) ==
  \A e \in log : e.share = plan[h].share /\ e.request.method = "activate" =>
    e.nonce \notin past[h]

\* derivedFrom "is first-publication provenance and immutable"
\* (mutations.ts:57): a batch after the create leaves a link the publication
\* has had before, however updates overlap.  Excepted is the replace that was
\* taken in before the activation: its pre-check may have met a provisional
\* row and have compared nothing.
DerivationIsFixed ==
  [][\A e \in Writes' \ Writes :
       \/ e.request.method = "create"
       \/ \E f \in Writes : /\ f.share = e.share
                            /\ f.outcome.playlist.derivedFrom = e.outcome.playlist.derivedFrom
       \/ \E h \in Handlers : /\ pc[h] = "batch" /\ plan[h].method = "replace"
                              /\ mine'[h] = e.nonce /\ TakenInEarly(h)]_apiVars

\* Every step of the handlers, of the cleanup and of the takedown command is
\* a step of the store, so what holds of PublicationStore holds here.
ImplementsStore == StoreSpec

===============================================================================

--------------------------- MODULE LocalRepository ---------------------------
(***************************************************************************)
(* The single writer of the extension's stored state: src/apps/extension/  *)
(* src/storage/{repository,migration,driver,messages}.ts, and the loop its *)
(* clients mutate through, runMutation of src/ui/storage-client.ts.        *)
(*                                                                         *)
(* One background worker keeps `state` in memory; it may be stopped at any *)
(* moment and starts again with nothing in memory.  Commands are queued    *)
(* and handled one at a time; reads are not queued, and every one that     *)
(* finds no state in memory loads it by itself.  Every await is the border *)
(* of two actions.  browser.storage.local executes requests in the order   *)
(* in which they were sent and answers in that order.                      *)
(***************************************************************************)
EXTENDS Migration

CONSTANTS
  Clients,          \* pages that each run one mutation, named after its operation id
  BodyOf(_, _),     \* what each client's build() makes of the state it read
  InitialStorage,   \* the contents of storage the worker may first meet
  MaxReceipts,      \* MAX_OPERATION_RECEIPTS
  MaxAttempts,      \* MUTATION_MAX_ATTEMPTS
  MaxRestarts,      \* bound: stops of the worker
  MaxFailures,      \* bound: failed writes
  MaxResends,       \* bound: commands delivered once more
  RacingStartup,    \* whether a second load may run while the state is migrated
  Absent,           \* no canonical state: in storage, in memory
  Unreadable        \* a canonical state of a future schema, or a malformed one

ASSUME RepositoryAssumption ==
  /\ MaxReceipts \in Nat \ {0} /\ MaxAttempts \in Nat \ {0}
  /\ MaxRestarts \in Nat /\ MaxFailures \in Nat /\ MaxResends \in Nat
  /\ RacingStartup \in BOOLEAN
  /\ {Absent, Unreadable} \cap Clients = {} /\ Absent # Unreadable
  /\ "writer" \notin Clients \cup {Absent}

VARIABLES
  disk,      \* dop_v2_state in storage
  legacy,    \* dop_playlists in storage, which nobody writes any more
  pointer,   \* the playback pointer of dop_v2_transient in storage
  mem,       \* `state` of the worker
  io,        \* requests sent to storage, oldest first
  answers,   \* answers of storage not yet handled, oldest first
  load,      \* per process: where its own load of the state stands
  writer,    \* the command being handled
  queue,     \* commands behind it
  client,    \* per client: its mutation
  sent,      \* commands ever sent, for delivery once more
  log,       \* history: committed replies in the order of their commits
  bounds     \* restarts, failures and resends so far

storage == <<disk, legacy, pointer>>
vars == <<storage, mem, io, answers, load, writer, queue, client, sent, log, bounds>>

Writer    == "writer"
Processes == Clients \cup {Writer}

\* The stored state.  `applied` is a history variable carried along: the
\* operations whose effect the collections hold; `deleted` another: the clips
\* the user removed since the first migration.
ImportedState(imported, parser) ==
  [revision |-> 0, playlists |-> imported.playlists, publications |-> {},
   pendingCreates |-> {}, preferences |-> "window", shareConsent |-> "undecided",
   receipts |-> <<>>, quarantined |-> imported.quarantined, parser |-> parser,
   applied |-> {}, deleted |-> {}]

NewState(raw) == ImportedState(BuildMigrated(raw, Lenient), Lenient)

\* What the stored state always is, whatever its collections hold: every receipt
\* is that of a committed operation whose effect it holds.
StateFields ==
  {"revision", "playlists", "publications", "pendingCreates", "preferences", "shareConsent",
   "receipts", "quarantined", "parser", "applied", "deleted"}
IsSeq(s) == s \in Seq({s[i] : i \in DOMAIN s})
IsState(state) ==
  /\ DOMAIN state = StateFields
  /\ state.revision \in Nat /\ state.parser \in {Strict, Lenient}
  /\ IsSeq(state.receipts)
  /\ \A i \in DOMAIN state.receipts : /\ state.receipts[i].operationId \in state.applied
                                     /\ state.receipts[i].result.kind = "committed"

\* A stored state was written before any of these clients began its mutation.
ASSUME StorageAssumption ==
  \A first \in InitialStorage :
    first.state \notin {Absent, Unreadable} =>
      IsState(first.state) /\ first.state.applied \cap Clients = {}

NotLoading == [at |-> "no", state |-> Absent]
Idle       == [at |-> "idle", command |-> Absent, current |-> Absent, candidate |-> Absent]
Fresh      == [at |-> "idle", attempt |-> 0, read |-> Absent, reply |-> Absent]

Init ==
  /\ \E first \in InitialStorage :
       disk = first.state /\ legacy = first.legacy /\ pointer = first.pointer
  /\ mem = Absent
  /\ io = <<>> /\ answers = <<>> /\ queue = <<>> /\ log = <<>>
  /\ load = [p \in Processes |-> NotLoading]
  /\ writer = Idle
  /\ client = [c \in Clients |-> Fresh]
  /\ sent = {}
  /\ bounds = [restarts |-> 0, failures |-> 0, resends |-> 0]

-----------------------------------------------------------------------------
(* Storage.                                                                *)

Get(p, key)   == [who |-> p, op |-> "get", key |-> key, value |-> Absent]
Set(p, value) == [who |-> p, op |-> "set", key |-> "state", value |-> value]
SetPointer(p, value) == [Set(p, value) EXCEPT !.key = "transient"]

Stored(key) == CASE key = "state" -> disk [] key = "legacy" -> legacy [] OTHER -> pointer

Answered(p) == answers # <<>> /\ Head(answers).who = p

\* The oldest request is executed: a get, a set, or a set that fails.
Execute ==
  /\ io # <<>>
  /\ LET r == Head(io)
         Reply(ok, value) ==
           answers' = IF r.who = Absent THEN answers
                      ELSE Append(answers, [who |-> r.who, ok |-> ok, value |-> value])
     IN /\ io' = Tail(io)
        /\ \/ /\ r.op = "get"
              /\ Reply(TRUE, Stored(r.key))
              /\ UNCHANGED <<disk, pointer, bounds>>
           \/ /\ r.op = "set"
              /\ disk' = IF r.key = "state" THEN r.value ELSE disk
              /\ pointer' = IF r.key = "state" THEN pointer ELSE r.value
              /\ Reply(TRUE, Absent)
              /\ UNCHANGED bounds
           \/ /\ r.op = "set"
              /\ bounds.failures < MaxFailures
              /\ bounds' = [bounds EXCEPT !.failures = @ + 1]
              /\ Reply(FALSE, Absent)
              /\ UNCHANGED <<disk, pointer>>
  /\ UNCHANGED <<legacy, mem, load, writer, queue, client, sent, log>>

-----------------------------------------------------------------------------
(* initialized() and loadOrMigrateState, run by whoever needs the state.   *)

\* parseCanonicalState: a future or malformed state is not read.
Parsed(value) == value \notin {Absent, Unreadable}

NeedsRepair(state) == state.parser < Lenient

\* Bound: without RacingStartup, one load at a time while storage still holds
\* nothing or an older importer's state.
MayLoad ==
  /\ ~RacingStartup
  /\ disk = Absent \/ (Parsed(disk) /\ NeedsRepair(disk))
  => \A p \in Processes : load[p] = NotLoading

\* `state` is undefined: read the canonical key.
StartLoad(p) ==
  /\ mem = Absent /\ load[p] = NotLoading
  /\ MayLoad
  /\ load' = [load EXCEPT ![p].at = "state"]
  /\ io' = Append(io, Get(p, "state"))

NothingStored(value) == value = Absent

\* The repair merges what the importer now recovers and stamps its version.
Repaired(state) ==
  LET repair == RepairQuarantined(state.playlists, state.quarantined, legacy)
  IN [state EXCEPT !.revision = @ + 1, !.parser = Lenient,
                   !.playlists = repair.playlists, !.quarantined = repair.quarantined]

\* `state ??= await ...`: whatever this load returned becomes the state.
Loaded(p, state) ==
  /\ mem' = state
  /\ load' = [load EXCEPT ![p] = [at |-> "done", state |-> state]]

\* Each answer of storage moves the load on: canonical key, then either the
\* legacy keys and a write of the migrated state, or the repair.
LoadStep(p) ==
  /\ Answered(p)
  /\ LET a == Head(answers)  l == load[p] IN
     \/ /\ l.at = "state" /\ Parsed(a.value) /\ ~NeedsRepair(a.value)
        /\ Loaded(p, a.value) /\ UNCHANGED io
     \/ /\ l.at = "state" /\ Parsed(a.value) /\ NeedsRepair(a.value)
        /\ load' = [load EXCEPT ![p] = [at |-> "repair", state |-> a.value]]
        /\ io' = Append(io, Get(p, "legacy")) /\ UNCHANGED mem
     \/ /\ l.at = "repair"
        /\ load' = [load EXCEPT ![p].at = "repaired"]
        /\ io' = Append(io, Set(p, Repaired(l.state))) /\ UNCHANGED mem
     \/ /\ l.at = "repaired"       \* a failed write leaves the unrepaired state
        /\ Loaded(p, IF a.ok THEN Repaired(l.state) ELSE l.state) /\ UNCHANGED io
     \/ /\ l.at = "state" /\ NothingStored(a.value)
        /\ load' = [load EXCEPT ![p].at = "legacy"]
        /\ io' = Append(io, Get(p, "legacy")) /\ UNCHANGED mem
     \/ /\ l.at = "legacy"
        /\ load' = [load EXCEPT ![p].at = "migrated"]
        /\ io' = Append(io, Set(p, NewState(legacy))) /\ UNCHANGED mem
     \/ /\ l.at = "migrated" /\ a.ok
        /\ Loaded(p, NewState(legacy)) /\ UNCHANGED io
     \/ /\ \/ l.at = "migrated" /\ ~a.ok
           \/ l.at = "state" /\ a.value = Unreadable
        /\ load' = [load EXCEPT ![p] = [at |-> "threw", state |-> Absent]]
        /\ UNCHANGED <<mem, io>>
  /\ answers' = Tail(answers)
  /\ UNCHANGED <<storage, writer, queue, client, sent, log, bounds>>

-----------------------------------------------------------------------------
(* The clients: runMutation.                                               *)

\* A round starts: read the public state, from memory or by a load.
BeginRead(c) ==
  /\ \/ client[c].at = "idle"
     \/ /\ client[c].at = "answered" /\ client[c].reply.kind = "revision-conflict"
        /\ client[c].attempt < MaxAttempts
  /\ client' = [client EXCEPT ![c].at = "reading", ![c].attempt = @ + 1]
  /\ UNCHANGED <<storage, mem, io, answers, load, writer, queue, sent, log, bounds>>

ReadFromMemory(c) ==
  /\ client[c].at = "reading" /\ mem # Absent /\ load[c] = NotLoading
  /\ client' = [client EXCEPT ![c].at = "read", ![c].read = mem]
  /\ UNCHANGED <<storage, mem, io, answers, load, writer, queue, sent, log, bounds>>

ReadByLoad(c) ==
  /\ client[c].at = "reading"
  /\ StartLoad(c)
  /\ UNCHANGED <<storage, mem, answers, writer, queue, client, sent, log, bounds>>

Finished(c, reply) == [client EXCEPT ![c].at = "done", ![c].reply = reply, ![c].read = Absent]

ReadLoaded(c) ==
  /\ load[c].at \in {"done", "threw"}
  /\ load' = [load EXCEPT ![c] = NotLoading]
  /\ client' = IF load[c].at = "done"
               THEN [client EXCEPT ![c].at = "read", ![c].read = load[c].state]
               ELSE Finished(c, [kind |-> "threw"])
  /\ UNCHANGED <<storage, mem, io, answers, writer, queue, sent, log, bounds>>

\* build() declines, or its body is dispatched at the revision that was read.
Dispatch(c) ==
  /\ client[c].at = "read"
  /\ LET state == client[c].read
         body  == BodyOf(c, state.playlists)
         command == [body |-> body, operationId |-> c, expectedRevision |-> state.revision]
     IN IF body = Absent
        THEN /\ client' = Finished(c, [kind |-> "no-change"])
             /\ UNCHANGED <<queue, sent>>
        ELSE /\ client' = [client EXCEPT ![c].at = "dispatched", ![c].read = Absent]
             /\ queue' = Append(queue, command)
             /\ sent' = sent \cup {command}
  /\ UNCHANGED <<storage, mem, io, answers, load, writer, log, bounds>>

\* Any reply but a revision conflict ends the mutation, the fourth conflict too.
Return(c) ==
  /\ client[c].at = "answered"
  /\ client[c].reply.kind = "revision-conflict" => client[c].attempt = MaxAttempts
  /\ client' = Finished(c, client[c].reply)
  /\ UNCHANGED <<storage, mem, io, answers, load, writer, queue, sent, log, bounds>>

\* A command whose page is no longer waiting is delivered once more.
Resend ==
  /\ bounds.resends < MaxResends
  /\ bounds' = [bounds EXCEPT !.resends = @ + 1]
  /\ \E command \in sent : /\ client[command.operationId].at = "done"
                            /\ queue' = Append(queue, command)
  /\ UNCHANGED <<storage, mem, io, answers, load, writer, client, sent, log>>

-----------------------------------------------------------------------------
(* dispatch: one command at a time.                                        *)

TakeCommand ==
  /\ writer.at = "idle" /\ queue # <<>>
  /\ writer' = [writer EXCEPT !.at = "starting", !.command = Head(queue)]
  /\ queue' = Tail(queue)
  /\ UNCHANGED <<storage, mem, io, answers, load, client, sent, log, bounds>>

\* The state is there: it is what the command is judged by, however long the
\* digest takes.
WriterHasState ==
  /\ writer.at = "starting" /\ mem # Absent /\ load[Writer] = NotLoading
  /\ writer' = [writer EXCEPT !.at = "hashing", !.current = mem]
  /\ UNCHANGED <<storage, mem, io, answers, load, queue, client, sent, log, bounds>>

WriterLoads ==
  /\ writer.at = "starting"
  /\ StartLoad(Writer)
  /\ UNCHANGED <<storage, mem, answers, writer, queue, client, sent, log, bounds>>

\* The client that waits for this command's reply gets it.
Answer(command, reply) ==
  client' = IF client[command.operationId].at = "dispatched"
            THEN [client EXCEPT ![command.operationId].at = "answered",
                                ![command.operationId].reply = reply]
            ELSE client

WriterLoaded ==
  /\ load[Writer].at \in {"done", "threw"}
  /\ load' = [load EXCEPT ![Writer] = NotLoading]
  /\ IF load[Writer].at = "done"
     THEN /\ writer' = [writer EXCEPT !.at = "hashing", !.current = load[Writer].state]
          /\ UNCHANGED client
     ELSE /\ writer' = Idle
          /\ Answer(writer.command, [kind |-> "threw"])
  /\ UNCHANGED <<storage, mem, io, answers, queue, sent, log, bounds>>

\* SHA-256 of the command's JSON, taken as injective: the command itself.
RequestHash(command) == command

Prior(state, command) ==
  {i \in DOMAIN state.receipts : state.receipts[i].operationId = command.operationId}

Committed(command, revision) ==
  [kind |-> "committed", operationId |-> command.operationId, revision |-> revision]

LastOf(seq, n) == SubSeq(seq, IF Len(seq) > n THEN Len(seq) - n + 1 ELSE 1, Len(seq))

Clips(playlists) ==
  UNION {{playlists[k].items[i].body : i \in DOMAIN playlists[k].items} : k \in DOMAIN playlists}

\* The next state, stamped with the command's receipt.
Candidate(state, command, result) ==
  LET receipt == [operationId |-> command.operationId, requestHash |-> RequestHash(command),
                  result |-> Committed(command, state.revision + 1)]
  IN [result.state EXCEPT
        !.revision = state.revision + 1,
        !.receipts = LastOf(Append(state.receipts, receipt), MaxReceipts),
        !.applied  = @ \cup {command.operationId},
        !.deleted  = @ \cup (Clips(state.playlists) \ Clips(result.state.playlists))]

\* Mutant: a stale command is applied to whatever the state is now.
StaleNever(state, command) == FALSE

Stale(state, command) == state.revision # command.expectedRevision

\* What the writer answers without writing, or "write".
Verdict(state, command) ==
  LET prior  == Prior(state, command)
      result == ApplyStorageMutation(state, command.body)
  IN IF prior # {}
     THEN LET receipt == state.receipts[CHOOSE i \in prior : \A j \in prior : i <= j]
          IN IF receipt.requestHash = RequestHash(command) THEN receipt.result
             ELSE [kind |-> "operation-conflict", operationId |-> command.operationId]
     ELSE IF Stale(state, command)
     THEN [kind |-> "revision-conflict", actualRevision |-> state.revision]
     ELSE IF result.kind # "updated"
     THEN [kind |-> "mutation-rejected", reason |-> result.kind]
     ELSE [kind |-> "write"]

\* The digest is there: answer, or send the candidate to storage.
Decide ==
  /\ writer.at = "hashing"
  /\ LET command == writer.command
         state   == writer.current
         verdict == Verdict(state, command)
         candidate == Candidate(state, command, ApplyStorageMutation(state, command.body))
     IN IF verdict.kind = "write"
        THEN /\ writer' = [writer EXCEPT !.at = "writing", !.candidate = candidate]
             /\ io' = Append(io, Set(Writer, candidate))
             /\ UNCHANGED client
        ELSE /\ writer' = Idle
             /\ Answer(command, verdict)
             /\ UNCHANGED io
  /\ UNCHANGED <<storage, mem, answers, load, queue, sent, log, bounds>>

\* Mutant: a failed write counts as written.
ConfirmedAlways(answer) == TRUE

Confirmed(answer) == answer.ok

NextState == writer.candidate

\* Mutant: the page whose write failed is told that it was committed.
FailureReplyCommitted == Committed(writer.command, writer.candidate.revision)

FailureReply == [kind |-> "threw"]

\* Mutant: a command that throws stops the queue.
QueueGoesOnIfWritten(answer) == IF Confirmed(answer) THEN Idle ELSE writer

\* `tail` goes on whether the command returned or threw.
QueueGoesOn(answer) == Idle

WriterReply == Committed(writer.command, writer.candidate.revision)

\* Storage answered: the candidate is the state, or nothing happened.  After a
\* command that removes playlists the playback pointer is looked at first.
Commit ==
  /\ writer.at = "writing" /\ Answered(Writer)
  /\ answers' = Tail(answers)
  /\ LET ok        == Confirmed(Head(answers))
         reconcile == ok /\ writer.command.body.kind \in RemovesPlaylists
     IN /\ mem' = IF ok THEN NextState ELSE mem
        /\ log' = IF ok THEN Append(log, WriterReply) ELSE log
        /\ writer' = IF reconcile THEN [writer EXCEPT !.at = "reconciling"]
                     ELSE QueueGoesOn(Head(answers))
        /\ io' = IF reconcile THEN Append(io, Get(Writer, "transient")) ELSE io
        /\ IF reconcile THEN UNCHANGED client
           ELSE Answer(writer.command, IF ok THEN WriterReply ELSE FailureReply)
  /\ UNCHANGED <<storage, load, queue, sent, bounds>>

\* fromTransientPlayback(...) !== null, of a pointer without a shuffled order.
Resolves(target, playlists) ==
  \E k \in DOMAIN playlists : /\ playlists[k].id = target.playlistId
                               /\ target.index < Len(playlists[k].items)

NoPointer == [playlistId |-> NoPlaylist, index |-> 0]

\* reconcileTransientPlayback: a pointer that no longer resolves is cleared; a
\* failure is swallowed, the command stands.
Reconcile ==
  /\ writer.at \in {"reconciling", "clearing"} /\ Answered(Writer)
  /\ answers' = Tail(answers)
  /\ LET target  == Head(answers).value
         dangles == /\ writer.at = "reconciling" /\ target # NoPointer
                    /\ ~Resolves(target, writer.candidate.playlists)
     IN IF dangles
        THEN /\ writer' = [writer EXCEPT !.at = "clearing"]
             /\ io' = Append(io, SetPointer(Writer, NoPointer))
             /\ UNCHANGED client
        ELSE /\ writer' = Idle
             /\ Answer(writer.command, WriterReply)
             /\ UNCHANGED io
  /\ UNCHANGED <<storage, mem, load, queue, sent, log, bounds>>

-----------------------------------------------------------------------------
(* The browser stops the worker: memory and queue are gone, pages waiting  *)
(* for it see their messages fail, and what was already sent to storage is *)
(* executed with nobody waiting for the answer.                            *)

Orphan(r) == [r EXCEPT !.who = Absent]

Restart ==
  /\ bounds.restarts < MaxRestarts
  /\ bounds' = [bounds EXCEPT !.restarts = @ + 1]
  /\ mem' = Absent
  /\ io' = [i \in DOMAIN io |-> Orphan(io[i])]
  /\ answers' = <<>> /\ queue' = <<>>
  /\ writer' = Idle
  /\ load' = [p \in Processes |-> NotLoading]
  /\ client' = [c \in Clients |->
                  IF client[c].at \in {"reading", "dispatched"}
                  THEN Finished(c, [kind |-> "threw"])[c] ELSE client[c]]
  /\ UNCHANGED <<storage, sent, log>>

ClientStep(c) ==
  \/ BeginRead(c) \/ ReadFromMemory(c) \/ ReadByLoad(c) \/ ReadLoaded(c)
  \/ Dispatch(c) \/ Return(c)

WriterStep == TakeCommand \/ WriterHasState \/ WriterLoads \/ WriterLoaded \/ Decide \/ Commit
              \/ Reconcile

Next ==
  \/ \E c \in Clients : ClientStep(c)
  \/ WriterStep
  \/ \E p \in Processes : LoadStep(p)
  \/ Execute \/ Resend \/ Restart

\* Storage answers, the worker's event loop runs every callback that is ready,
\* and a page that awaits a reply goes on when it has one.  Nothing obliges a
\* page to start a mutation or the browser to stop the worker.
Fairness ==
  /\ WF_vars(Execute)
  /\ WF_vars(WriterStep)
  /\ WF_vars(LoadStep(Writer))
  /\ \A c \in Clients : WF_vars(LoadStep(c)) /\ WF_vars(client[c].at # "idle" /\ ClientStep(c))

Spec == Init /\ [][Next]_vars /\ Fairness

-----------------------------------------------------------------------------
(* Properties.                                                             *)

\* A clip the strict importer read, of an entry of which it could not read all.
HalfRead(clip) ==
  /\ clip[1] \in DOMAIN legacy
  /\ LET parts == legacy[clip[1]].items[clip[2]].parts
     IN Strict \in parts[clip[3]].reads /\ \E r \in DOMAIN parts : Strict \notin parts[r].reads

\* What the user deleted after the first migration stays deleted: the repair
\* brings back clips it could not read, never a removed playlist or clip.  (But a
\* clip that shares its entry with one that could not be read: entries are put
\* aside as a whole, migration.ts:230.)
DeletedStaysDeleted ==
  Parsed(disk) => \A clip \in Clips(disk.playlists) \cap disk.deleted : HalfRead(clip)

\* A stored state of this importer accounts for every readable clip of the legacy
\* data (in the library, deleted since, or kept out by an item with its id) and
\* keeps every unreadable one in quarantine.
LegacyIsAccountedFor ==
  Parsed(disk) /\ disk.parser = Lenient /\ disk.applied = {} /\ legacy # UnreadableLegacy =>
    \A p \in DOMAIN legacy : legacy[p].shaped =>
      \A i \in DOMAIN legacy[p].items : \A r \in DOMAIN legacy[p].items[i].parts :
        IF Lenient \in legacy[p].items[i].parts[r].reads
        THEN \/ <<p, i, r>> \in Clips(disk.playlists) \cup disk.deleted
             \/ legacy[p].items[i].id \in ItemIds(disk.playlists)
        ELSE QuarantinedItem(p, i) \in disk.quarantined

\* What was acknowledged as committed is in storage for good: no later load,
\* failed write or restart of the worker takes it out again.
CommittedIsKept ==
  \A i \in DOMAIN log : Parsed(disk) /\ log[i].operationId \in disk.applied

\* An operation takes effect once, even when its command is delivered again
\* after its receipt was dropped from the ledger or with a new revision.
AppliedOnce ==
  \A i, j \in DOMAIN log : log[i].operationId = log[j].operationId => i = j

\* A mutation told "committed" did commit, with the revision it was told; one
\* told that nothing changed left nothing behind.
RepliesAreTrue ==
  \A c \in Clients : client[c].at = "done" =>
    /\ client[c].reply.kind = "committed" =>
         \E i \in DOMAIN log : log[i] = client[c].reply
    /\ /\ client[c].reply.kind \in {"revision-conflict", "mutation-rejected", "no-change"}
       /\ Parsed(disk)
       => c \notin disk.applied

\* Every mutation that a page started comes back with a reply, however commands,
\* failing writes and restarts interleave.
MutationReturns ==
  \A c \in Clients : client[c].at = "reading" ~> client[c].at = "done"
=============================================================================

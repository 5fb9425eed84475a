--------------------------- MODULE ShareManagement ---------------------------
(***************************************************************************)
(* Publishing and managing one playlist from the extension: src/apps/      *)
(* extension/src/share/{publish-flow,management-flow,flow-helpers,         *)
(* management-client,management-handler}.ts, driven by the share dialogs   *)
(* of one or more options pages (src/ui/{share-dialog,management}.ts).     *)
(*                                                                         *)
(* A dialog waits for its call before it makes another (its busy flag).    *)
(* But it can be closed while it waits, and opening it anew starts with a  *)
(* flag, operation ids and a remembered revision of its own, while the     *)
(* first call goes on.  So each opening is a dialog of its own here: two   *)
(* of them are of one page or of two.  Between two awaits of a flow the    *)
(* others, the user's edits, and the server move.                          *)
(*                                                                         *)
(* A request travels in `wire`: it is executed late, or after its flow     *)
(* has given up, or never; a request that was executed may be reported as  *)
(* failed.  The vault is written by revision-checked commands, each of     *)
(* which is atomic (LocalRepository) and may fail.                         *)
(*                                                                         *)
(* The server is what PublicationApi promises of it: one atomic step per   *)
(* request.                                                                *)
(***************************************************************************)
EXTENDS LocalLibrary

CONSTANTS
  Dialogs,          \* openings of the playlist's share dialog, each with its dialog's list
  Playlist,         \* the local playlist all of this is about
  Contents,         \* what its projection may hash to
  Initially,        \* its content at first
  Unpublishable,    \* a content without a projection: empty, or with a full episode
  MaxShares,        \* bound: share ids the server mints
  MaxClicks,        \* bound: operations started from each dialog
  MaxEdits,         \* bound: local edits, deletions of the playlist, revocations of the
                    \*        share consent and activation windows that pass, together
  MaxFaults,        \* bound: requests given up, failed writes, stops of the worker
  None

ASSUME ManagementAssumption ==
  /\ Initially \in Contents
  /\ MaxShares \in Nat \ {0}
  /\ {MaxEdits, MaxFaults} \subseteq Nat /\ MaxClicks \in [Dialogs -> Nat]
  /\ None \notin Dialogs \cup Contents

Shares == 1 .. MaxShares

VARIABLES
  playlists,   \* the local library: the playlist, or nothing
  vault,       \* publications and pendingCreates of the stored state
  consent,     \* the stored share consent
  rows,        \* the server's publications
  receipts,    \* the server's idempotency receipts
  acked,       \* history: every <<share, revision, content>> the server stored
  wire,        \* requests on their way
  flow,        \* per dialog: its flow in the background
  dialog,      \* per dialog: its operation ids, and what it remembers and shows
  rivals,      \* history: the create keys, two by two, of attempts that overlapped
  used         \* bounds used up

world == <<playlists, consent, rivals>>
server == <<rows, receipts, acked>>
vars == <<world, vault, server, wire, flow, dialog, used>>

NoRow  == [state |-> "none", revision |-> 0, content |-> None]
GoneRow == [state |-> "gone", revision |-> 0, content |-> None]
NoRows == [s \in Shares |-> NoRow]
NoFlow == [at |-> "idle", kind |-> None, op |-> None, share |-> None, record |-> None,
           content |-> None, key |-> None, expected |-> 0, request |-> {}, answer |-> None]

Opened(p) == [ids |-> 1, publishOp |-> <<p, 0>>, updateOp |-> None, deleteOp |-> None,
              force |-> None, forced |-> [s \in Shares |-> None],
              unlinked |-> vault.publications = {}]

\* Published earlier, by an uninterrupted flow.
Published(s, c) ==
  /\ vault = [publications |-> {[shareId |-> s, localPlaylistId |-> Playlist, revision |-> 2,
                                 contentHash |-> c, sentSnapshot |-> c, acknowledgedHash |-> c,
                                 state |-> "active"]},
              pendingCreates |-> {}]
  /\ rows = [NoRows EXCEPT ![s] = [state |-> "active", revision |-> 2, content |-> c]]
  /\ acked = {<<s, 1, c>>, <<s, 2, c>>}

Init ==
  /\ playlists = <<[id |-> Playlist, content |-> Initially]>>
  /\ \/ /\ vault = [publications |-> {}, pendingCreates |-> {}]
        /\ rows = NoRows /\ acked = {}
     \/ \E c \in Contents \ {Unpublishable} : Published(1, c)
  /\ consent = "granted" /\ rivals = {}
  /\ receipts = {} /\ wire = {}
  /\ flow = [p \in Dialogs |-> NoFlow]
  /\ dialog = [p \in Dialogs |-> Opened(p)]
  /\ used = [clicks |-> [p \in Dialogs |-> 0], edits |-> 0, faults |-> 0]

Count(what) == used' = [used EXCEPT ![what] = @ + 1]
MayFail     == used.faults < MaxFaults

-----------------------------------------------------------------------------
(* The server, one request at a time.                                      *)

Request(p, kind, share, key, content, expected) ==
  [from |-> p, id |-> dialog[p].ids, kind |-> kind, share |-> share, key |-> key,
   content |-> content, expected |-> expected]

\* What a receipt compares a request by.
Hash(m) == <<m.kind, m.share, m.content, m.expected>>

Ok(m, row)       == [code |-> "OK", share |-> m.share, revision |-> row.revision,
                     content |-> row.content]
Failed(code)     == [code |-> code, share |-> None, revision |-> 0, content |-> None]
Conflict(row)    == [Failed("REVISION_CONFLICT") EXCEPT !.revision = row.revision]

Unminted == {s \in Shares : rows[s] = NoRow}

\* The row a request may write, or the refusal.
Outcome(m) ==
  LET row   == rows[m.share]
      write == CASE m.kind = "activate" -> [row EXCEPT !.state = "active", !.revision = @ + 1]
                 [] m.kind = "replace"  -> [row EXCEPT !.content = m.content, !.revision = @ + 1]
                 [] OTHER               -> GoneRow
      fits  == CASE m.kind = "activate" -> row.state = "pending"
                 [] m.kind = "replace"  -> row.state = "active"
                 [] OTHER               -> TRUE
  IN CASE row.state = "gone" -> [row |-> row, answer |-> Failed("NOT_FOUND")]
       [] fits /\ row.revision = m.expected /\ row.state # "gone" ->
            [row |-> write, answer |-> Ok(m, write)]
       [] m.kind = "activate" /\ row.state = "active" /\ row.revision = m.expected + 1 ->
            [row |-> row, answer |-> Ok(m, row)]
       [] OTHER -> [row |-> row, answer |-> Conflict(row)]

\* The flow that still waits for this request gets the answer.
Deliver(m, answer) ==
  flow' = IF m \in flow[m.from].request
          THEN [flow EXCEPT ![m.from].answer = answer, ![m.from].request = {}]
          ELSE flow

Prior(m) == {r \in receipts : m.key # None /\ r.key = m.key}

\* Bound: a server that has minted MaxShares ids is unavailable.
ServeCreate(m) ==
  LET s      == CHOOSE x \in Unminted : TRUE
      row    == [state |-> "pending", revision |-> 1, content |-> m.content]
      answer == [Ok(m, row) EXCEPT !.share = s]
  IN IF Unminted = {} THEN Deliver(m, Failed("UNKNOWN")) /\ UNCHANGED server
     ELSE /\ rows' = [rows EXCEPT ![s] = row]
          /\ acked' = acked \cup {<<s, 1, m.content>>}
          /\ receipts' = receipts \cup {[key |-> m.key, hash |-> Hash(m), answer |-> answer]}
          /\ Deliver(m, answer)

ServeOther(m) ==
  LET out == Outcome(m)
      applied == out.row # rows[m.share]
  IN /\ rows' = [rows EXCEPT ![m.share] = out.row]
     /\ acked' = IF applied /\ out.row.state = "active"
                 THEN acked \cup {<<m.share, out.row.revision, out.row.content>>} ELSE acked
     /\ receipts' = IF applied /\ m.key # None
                    THEN receipts \cup {[key |-> m.key, hash |-> Hash(m), answer |-> out.answer]}
                    ELSE receipts
     /\ Deliver(m, out.answer)

\* A request whose key has a receipt is answered from it; a create never twice.
ServeAgain(m) ==
  /\ UNCHANGED server
  /\ \E r \in Prior(m) :
       Deliver(m, IF r.hash # Hash(m) THEN Failed("IDEMPOTENCY_CONFLICT")
                  ELSE IF m.kind = "create" THEN Failed("CREATE_RECEIPT_UNAVAILABLE")
                  ELSE r.answer)

Serve(m) ==
  /\ m \in wire
  /\ wire' = wire \ {m}
  /\ IF Prior(m) # {} THEN ServeAgain(m)
     ELSE IF m.kind = "create" THEN ServeCreate(m) ELSE ServeOther(m)
  /\ UNCHANGED <<world, vault, dialog, used>>

\* An hour passes, which no request and no flow outlives (a request that nobody
\* waits for is executed before, or lost): pending rows expire, and the pending
\* creates recorded so far are older than the activation window.
HourPasses ==
  /\ used.edits < MaxEdits /\ Count("edits")
  /\ \A p \in Dialogs : flow[p] = NoFlow
  /\ wire' = {}
  /\ rows' = [s \in Shares |-> IF rows[s].state = "pending" THEN GoneRow ELSE rows[s]]
  /\ vault' = [vault EXCEPT !.pendingCreates = {[r EXCEPT !.old = TRUE] : r \in @}]
  /\ UNCHANGED <<world, receipts, acked, flow, dialog>>

-----------------------------------------------------------------------------
(* The steps every flow is made of.                                        *)

At(p, where) == flow[p].at = where

\* What a dialog shows: the playlist's publication; a detached one in its list.
Linked == {r \in vault.publications : r.localPlaylistId = Playlist /\ r.state # "local-deleted"}

\* The list of detached publications remembers the revision a conflict disclosed
\* until the share is gone (forceRevisions).
ListTakes(d, share, told) ==
  [d EXCEPT !.forced[share] = IF told.status \in {"deleted", "already-absent"} THEN None
                              ELSE IF told.status = "conflict" /\ told.revision # 0
                              THEN told.revision ELSE @]

\* What the dialog makes of an answer (applyReply).  After a deletion it closes,
\* and is opened anew.  It loads what it shows; a call that threw leaves that.
DialogTakes(p, d, told) ==
  LET settled == told.status \in {"published", "activated", "updated"}
      closes  == told.status \in {"deleted", "already-absent"}
      fresh   == closes \/ told.status = "receipt-unavailable"
  IN [d EXCEPT !.unlinked = (Linked = {}),
               !.ids = IF fresh THEN @ + 1 ELSE @,
               !.publishOp = IF fresh THEN <<p, d.ids>> ELSE @,
               !.updateOp = IF settled \/ closes \/ told.status \in {"unchanged", "conflict"}
                            THEN None ELSE @,
               !.deleteOp = IF closes \/ told.status = "conflict" THEN None ELSE @,
               !.force = IF settled \/ closes THEN None
                         ELSE IF told.status = "conflict" /\ told.revision # 0
                         THEN told.revision ELSE @]

\* The answer of the background.
Reply(p, told) ==
  /\ flow' = [flow EXCEPT ![p] = NoFlow]
  /\ dialog' = [dialog EXCEPT ![p] = IF flow[p].kind = "delete-remote" THEN ListTakes(@, flow[p].share, told)
                                 ELSE DialogTakes(p, @, told)]

Told(status)             == [status |-> status, share |-> None, revision |-> 0]
ToldOf(status, share, revision) == [status |-> status, share |-> share, revision |-> revision]

\* fetch() is called: the flow waits at `where` for the answer to its request
\* (the one member of .request, while it waits for one).
Send(p, m, where, changes) ==
  /\ wire' = wire \cup {m}
  /\ flow' = [flow EXCEPT ![p] = [changes EXCEPT !.at = where, !.request = {m}]]
  /\ dialog' = [dialog EXCEPT ![p].ids = @ + 1]

\* The time limit passes, or the connection breaks: executed or not.
GiveUp(p) ==
  /\ flow[p].request # {}
  /\ MayFail /\ Count("faults")
  /\ flow' = [flow EXCEPT ![p].request = {}, ![p].answer = Failed("UNKNOWN")]
  /\ UNCHANGED <<world, vault, server, wire, dialog>>

\* Mutant: a request that timed out is waited for.
AnsweredByServer(p, where) ==
  At(p, where) /\ flow[p].answer # None /\ flow[p].answer.code # "UNKNOWN"

Answered(p, where) == At(p, where) /\ flow[p].answer # None

\* networkFailure.
FailureReply(p) ==
  LET a == flow[p].answer
  IN Reply(p, CASE a.code = "NOT_FOUND"         -> Told("not-found")
                [] a.code = "REVISION_CONFLICT" -> ToldOf("conflict", None, a.revision)
                [] a.code = "UNKNOWN"           -> Told("offline")
                [] OTHER                        -> Told("failed"))

\* VaultCommitter.try: the command is committed, or the write fails (or four
\* attempts lose to other writers).
Commits(publications, pendingCreates) ==
  /\ vault' = [publications |-> publications, pendingCreates |-> pendingCreates]
  /\ UNCHANGED used
CommitFails == MayFail /\ Count("faults") /\ UNCHANGED vault

Puts(record)   == Commits(PutPublication(vault.publications, record), vault.pendingCreates)
Discards(share) ==
  Commits({r \in vault.publications : r.shareId # share}, vault.pendingCreates)
Drops(ops) ==
  Commits(vault.publications, {r \in vault.pendingCreates : r.operationId \notin ops})

Managed == {r.shareId : r \in vault.publications}
Local   == FindPlaylist(playlists, Playlist)
Exists  == Playlist \in PlaylistIds(playlists)

\* toPublishProjection refuses an empty playlist and items without a range.
Publishable(content) == content # Unpublishable

\* What the dialog's badge says of a record: the local playlist as it is now
\* against the hash the server acknowledged.
Dirty(r) ==
  IF r.localPlaylistId = NoPlaylist \/ ~Exists THEN "detached"
  ELSE IF ~Publishable(Local.content) THEN "unpublishable"
  ELSE IF Local.content = r.acknowledgedHash THEN "clean" ELSE "dirty"

Starts(p, f) ==
  /\ flow[p] = NoFlow /\ consent = "granted"
  /\ used.clicks[p] < MaxClicks[p] /\ used' = [used EXCEPT !.clicks[p] = @ + 1]
  /\ flow' = [flow EXCEPT ![p] = f]

-----------------------------------------------------------------------------
(* publishPlaylist.                                                        *)

\* readPublic; the vault is read by the next step.
PublishFlow(op) ==
  [NoFlow EXCEPT !.at = "check", !.kind = "publish", !.op = op, !.content = Local.content]

Publish(p) ==
  /\ Exists /\ (Linked = {} \/ dialog[p].unlinked)
  /\ Starts(p, PublishFlow(dialog[p].publishOp))
  /\ UNCHANGED <<world, vault, server, wire, dialog>>

\* Mutant: a playlist that is published already is published again.
AlreadyPublishedNever == FALSE

AlreadyPublished == Linked # {}

SameAttempt(p) ==
  {r \in vault.pendingCreates : r.operationId = flow[p].op /\ r.payloadHash = flow[p].content}

\* Attempts that have found the playlist unpublished, and not stored a share.
Creates == {"record", "create", "created", "persist"}
Creating == {p \in Dialogs : flow[p].at \in Creates}

\* Refused, or the key of the same attempt is taken again, or a new one.  Old
\* pending creates are dropped on the way, the one taken again included.
CheckPublish(p) ==
  /\ At(p, "check")
  /\ IF AlreadyPublished \/ ~Publishable(flow[p].content)
     THEN /\ Reply(p, Told(IF AlreadyPublished THEN "invalid-state" ELSE "unpublishable"))
          /\ UNCHANGED <<vault, rivals, used>>
     ELSE /\ \/ Drops({r.operationId : r \in {x \in vault.pendingCreates : x.old}})
             \/ (\E r \in vault.pendingCreates : r.old) /\ CommitFails
          /\ LET key == IF SameAttempt(p) # {}
                        THEN (CHOOSE r \in SameAttempt(p) : TRUE).idempotencyKey
                        ELSE <<p, dialog[p].ids>>
             IN /\ flow' = [flow EXCEPT ![p].key = key,
                              ![p].at = IF SameAttempt(p) # {} THEN "create" ELSE "record"]
                /\ rivals' = rivals \cup {{key, flow[q].key} : q \in Creating}
          /\ dialog' = [dialog EXCEPT ![p].ids = @ + 1]
  /\ UNCHANGED <<playlists, consent, server, wire>>

RecordPendingCreate(p) ==
  /\ At(p, "record")
  /\ \/ /\ Commits(vault.publications,
                   PutPendingCreate(vault.pendingCreates,
                     [operationId |-> flow[p].op, idempotencyKey |-> flow[p].key,
                      payloadHash |-> flow[p].content, old |-> FALSE]))
        /\ flow' = [flow EXCEPT ![p].at = "create"]
        /\ UNCHANGED dialog
     \/ CommitFails /\ Reply(p, Told("persist-failed"))
  /\ UNCHANGED <<world, server, wire>>

SendCreate(p) ==
  /\ At(p, "create")
  /\ Send(p, Request(p, "create", None, flow[p].key, flow[p].content, 0), "created", flow[p])
  /\ UNCHANGED <<world, vault, server, used>>

\* Mutant: the activation is sent before the key is in the vault.
AfterCreateActivate == "activate"

AfterCreate == "persist"

PendingRecord(p, a) ==
  [shareId |-> a.share, localPlaylistId |-> Playlist, revision |-> a.revision,
   contentHash |-> flow[p].content, sentSnapshot |-> flow[p].content,
   acknowledgedHash |-> a.content, state |-> "pending"]

Created(p) ==
  /\ Answered(p, "created")
  /\ LET a == flow[p].answer
     IN IF a.code = "OK"
        THEN /\ flow' = [flow EXCEPT ![p].at = AfterCreate, ![p].answer = None,
                                     ![p].share = a.share, ![p].record = PendingRecord(p, a)]
             /\ UNCHANGED dialog
        ELSE IF a.code = "CREATE_RECEIPT_UNAVAILABLE"
        THEN /\ flow' = [flow EXCEPT ![p].at = "abandon", ![p].answer = None]
             /\ UNCHANGED dialog
        ELSE FailureReply(p)
  /\ UNCHANGED <<world, vault, server, wire, used>>

\* The key of the attempt is lost for good; dropping its record is best effort.
Abandon(p) ==
  /\ At(p, "abandon")
  /\ Drops({flow[p].op}) \/ CommitFails
  /\ Reply(p, Told("receipt-unavailable"))
  /\ UNCHANGED <<world, server, wire>>

Persist(p) ==
  /\ At(p, "persist")
  /\ \/ Puts(flow[p].record) /\ flow' = [flow EXCEPT ![p].at = "activate"]
     \/ CommitFails /\ flow' = [flow EXCEPT ![p].at = "cleanup"]
  /\ UNCHANGED <<world, server, wire, dialog>>

\* The provisional share is deleted, its answer ignored.
SendCleanup(p) ==
  /\ At(p, "cleanup")
  /\ Send(p, Request(p, "delete", flow[p].share, None, None, 1), "cleaned", flow[p])
  /\ UNCHANGED <<world, vault, server, used>>

CleanedUp(p) ==
  /\ Answered(p, "cleaned")
  /\ Drops({flow[p].op}) \/ CommitFails
  /\ Reply(p, Told("persist-failed"))
  /\ UNCHANGED <<world, server, wire>>

SendActivate(p) ==
  /\ At(p, "activate")
  /\ Send(p, Request(p, "activate", flow[p].share, None, None, 1), "activated", flow[p])
  /\ UNCHANGED <<world, vault, server, used>>

-----------------------------------------------------------------------------
(* activate, update and deleteRemote.                                      *)

\* Only a record not acknowledged as active yet is activated.
ActivateFlow(r) ==
  [NoFlow EXCEPT !.at = "activate", !.kind = "activate", !.share = r.shareId, !.record = r]

Activate(p) ==
  /\ \E r \in Linked :
       /\ r.state = "pending" /\ r.revision = 1
       /\ Starts(p, ActivateFlow(r))
  /\ UNCHANGED <<world, vault, server, wire, dialog>>

ActivatedRecord(r, a) ==
  [r EXCEPT !.revision = a.revision, !.acknowledgedHash = a.content, !.state = "active"]

\* The answer of the activation, in the publish flow and on its own.
Activated(p) ==
  /\ Answered(p, "activated")
  /\ LET a == flow[p].answer
     IN IF a.code = "OK"
        THEN /\ flow' = [flow EXCEPT ![p].at = "finalize", ![p].answer = None,
                           ![p].record = ActivatedRecord(@, a)]
             /\ UNCHANGED dialog
        ELSE IF flow[p].kind = "publish" THEN Reply(p, Told("activate-pending"))
        ELSE FailureReply(p)
  /\ UNCHANGED <<world, vault, server, wire, used>>

\* The record as this flow knows it replaces whatever the vault holds by now.
Finalize(p) ==
  /\ At(p, "finalize")
  /\ \/ /\ Puts(flow[p].record)
        /\ IF flow[p].kind = "publish"
           THEN flow' = [flow EXCEPT ![p].at = "drop"] /\ UNCHANGED dialog
           ELSE Reply(p, ToldOf("activated", flow[p].share, flow[p].record.revision))
     \/ /\ CommitFails
        /\ Reply(p, Told(IF flow[p].kind = "publish" THEN "activate-pending"
                         ELSE "persist-failed"))
  /\ UNCHANGED <<world, server, wire>>

DropPendingCreate(p) ==
  /\ At(p, "drop")
  /\ Drops({flow[p].op}) \/ CommitFails
  /\ Reply(p, ToldOf("published", flow[p].share, flow[p].record.revision))
  /\ UNCHANGED <<world, server, wire>>

\* readVault, then readPublic in the next step.
UpdateFlow(r, key, force) ==
  [NoFlow EXCEPT !.at = "project", !.kind = "update", !.key = key, !.share = r.shareId,
                 !.record = r, !.expected = IF force = None THEN r.revision ELSE force]

\* The dialog keeps its key until an answer retires it.
Update(p) ==
  /\ \E r \in Linked :
       /\ r.state = "active"
       /\ LET op == IF dialog[p].updateOp = None THEN <<p, dialog[p].ids>> ELSE dialog[p].updateOp
          IN /\ Starts(p, UpdateFlow(r, op, dialog[p].force))
             /\ dialog' = [dialog EXCEPT ![p].updateOp = op, ![p].ids = @ + 1]
  /\ UNCHANGED <<world, vault, server, wire>>

\* Nothing is sent for an unchanged playlist unless a conflict is overridden.
SendReplace(p) ==
  /\ At(p, "project")
  /\ IF ~Exists THEN Reply(p, Told("invalid-state")) /\ UNCHANGED wire
     ELSE IF ~Publishable(Local.content)
     THEN Reply(p, Told("unpublishable")) /\ UNCHANGED wire
     ELSE IF Local.content = flow[p].record.acknowledgedHash /\ dialog[p].force = None
     THEN Reply(p, ToldOf("unchanged", flow[p].share, flow[p].record.revision))
          /\ UNCHANGED wire
     ELSE Send(p, Request(p, "replace", flow[p].share, flow[p].key, Local.content,
                          flow[p].expected),
               "replaced", [flow[p] EXCEPT !.content = Local.content])
  /\ UNCHANGED <<world, vault, server, used>>

\* Mutant: the record keeps the hash it would have now, not the one sent.
UpdatedRecordNow(p, a) ==
  [flow[p].record EXCEPT !.revision = a.revision, !.contentHash = flow[p].content,
                         !.sentSnapshot = flow[p].content,
                         !.acknowledgedHash = IF Exists THEN Local.content ELSE a.content]

UpdatedRecord(p, a) ==
  [flow[p].record EXCEPT !.revision = a.revision, !.contentHash = flow[p].content,
                         !.sentSnapshot = flow[p].content, !.acknowledgedHash = a.content]

Replaced(p) ==
  /\ Answered(p, "replaced")
  /\ LET a == flow[p].answer
     IN IF a.code = "OK"
        THEN /\ flow' = [flow EXCEPT ![p].at = "keep", ![p].answer = None,
                                     ![p].record = UpdatedRecord(p, a)]
             /\ UNCHANGED dialog
        ELSE FailureReply(p)
  /\ UNCHANGED <<world, vault, server, wire, used>>

KeepUpdate(p) ==
  /\ At(p, "keep")
  /\ \/ Puts(flow[p].record)
        /\ Reply(p, ToldOf("updated", flow[p].share, flow[p].record.revision))
     \/ CommitFails /\ Reply(p, Told("persist-failed"))
  /\ UNCHANGED <<world, server, wire>>

DeleteFlow(kind, r, key, force) ==
  [NoFlow EXCEPT !.at = "delete", !.kind = kind, !.share = r.shareId, !.key = key,
                 !.expected = IF force = None THEN r.revision ELSE force]

\* From the dialog, with a key it keeps.
Delete(p) ==
  /\ \E r \in Linked :
       LET op == IF dialog[p].deleteOp = None THEN <<p, dialog[p].ids>> ELSE dialog[p].deleteOp
       IN /\ Starts(p, DeleteFlow("delete", r, op, dialog[p].force))
          /\ dialog' = [dialog EXCEPT ![p].ids = @ + 1, ![p].deleteOp = op]
  /\ UNCHANGED <<world, vault, server, wire>>

\* From the list of what lost its playlist, with a new key for every click.  The
\* list has no busy flag: what one deletion was told another may send.
Listed == {r \in vault.publications : r.state = "local-deleted"}

DeleteRemote(p) ==
  /\ \E r \in Listed, q \in Dialogs :
       Starts(p, DeleteFlow("delete-remote", r, <<p, dialog[p].ids>>, dialog[q].forced[r.shareId]))
  /\ dialog' = [dialog EXCEPT ![p].ids = @ + 1]
  /\ UNCHANGED <<world, vault, server, wire>>

SendDelete(p) ==
  /\ At(p, "delete")
  /\ Send(p, Request(p, "delete", flow[p].share, flow[p].key, None, flow[p].expected),
          "deleted", flow[p])
  /\ UNCHANGED <<world, vault, server, used>>

\* Mutant: an answer that never came counts as an absence.
AbsentOrUnknown(a) == a.code \in {"OK", "NOT_FOUND", "UNKNOWN"}

ConfirmedAbsent(a) == a.code \in {"OK", "NOT_FOUND"}

\* The key goes only after a confirmed deletion or absence.
Deleted(p) ==
  /\ Answered(p, "deleted")
  /\ LET a == flow[p].answer
     IN IF ConfirmedAbsent(a)
        THEN \/ /\ Discards(flow[p].share)
                /\ Reply(p, ToldOf(IF a.code = "OK" THEN "deleted" ELSE "already-absent",
                                   flow[p].share, 0))
             \/ CommitFails /\ Reply(p, Told("persist-failed"))
        ELSE FailureReply(p) /\ UNCHANGED <<vault, used>>
  /\ UNCHANGED <<world, server, wire>>

-----------------------------------------------------------------------------
(* The user's other doings, and the browser.                               *)

Edit ==
  /\ Exists /\ used.edits < MaxEdits /\ Count("edits")
  /\ \E c \in (Contents \cup {Unpublishable}) \ {Local.content} :
       playlists' = <<[id |-> Playlist, content |-> c]>>
  /\ UNCHANGED <<rivals, consent, vault, server, wire, flow, dialog>>

\* delete-playlist, from any page: its publications are detached.
DeletePlaylistLocally ==
  /\ Exists /\ used.edits < MaxEdits /\ Count("edits")
  /\ playlists' = <<>>
  /\ vault' = [vault EXCEPT !.publications = Detached(@, <<>>)]
  /\ UNCHANGED <<rivals, consent, server, wire, flow, dialog>>

\* set-share-consent; flows that run go on.
Decline ==
  /\ consent = "granted" /\ used.edits < MaxEdits /\ Count("edits")
  /\ consent' = "declined"
  /\ UNCHANGED <<rivals, playlists, vault, server, wire, flow, dialog>>

\* The worker is stopped: its flows are gone, the dialogs are told of a failure.
StopWorker ==
  /\ \E p \in Dialogs : flow[p] # NoFlow
  /\ MayFail /\ Count("faults")
  /\ flow' = [p \in Dialogs |-> NoFlow]
  /\ UNCHANGED <<world, vault, server, wire, dialog>>

FlowStep(p) ==
  \/ CheckPublish(p) \/ RecordPendingCreate(p) \/ SendCreate(p) \/ Created(p) \/ Abandon(p)
  \/ Persist(p) \/ SendCleanup(p) \/ CleanedUp(p) \/ SendActivate(p) \/ Activated(p)
  \/ Finalize(p) \/ DropPendingCreate(p) \/ SendReplace(p) \/ Replaced(p) \/ KeepUpdate(p)
  \/ SendDelete(p) \/ Deleted(p)

Next ==
  \/ \E p \in Dialogs : \/ Publish(p) \/ Activate(p) \/ Update(p) \/ Delete(p) \/ DeleteRemote(p)
                      \/ FlowStep(p) \/ GiveUp(p)
  \/ \E m \in wire : Serve(m)
  \/ HourPasses \/ Edit \/ DeletePlaylistLocally \/ Decline \/ StopWorker

\* A running flow goes on, and a request is answered or times out.
Fairness ==
  /\ \A p \in Dialogs : WF_vars(FlowStep(p))
  /\ \A p \in Dialogs : WF_vars(\E m \in flow[p].request : Serve(m))

Spec == Init /\ [][Next]_vars /\ Fairness

-----------------------------------------------------------------------------
(* Properties.                                                             *)

\* ADR 003: "No publicly visible snapshot can ever exist without a client-held
\* key": whatever is lost, fails or stops, an active share has its record in
\* the vault.
ActiveHasKey == \A s \in Shares : rows[s].state = "active" => s \in Managed

\* A stored record never claims what the server did not acknowledge: its content
\* was stored under its revision, and is the snapshot it says was sent.  So a
\* badge that says "clean" is right about that revision, and a local edit made
\* while a request was under way still compares dirty.
RecordIsAcknowledged ==
  \A r \in vault.publications :
    /\ <<r.shareId, r.revision, r.acknowledgedHash>> \in acked
    /\ r.sentSnapshot = r.acknowledgedHash /\ r.contentHash = r.acknowledgedHash
    /\ Dirty(r) = "clean" => <<r.shareId, r.revision, Local.content>> \in acked

\* Publishing a playlist that is published already is refused (publish-flow.ts:
\* 116), but several awaits before the new share is stored.  What that leaves:
\* two active publications of one playlist come from two attempts of which one
\* passed the check while the other was between its check and its store.  So one
\* dialog never makes two, however often it is interrupted and retried, and no
\* attempt makes one beside a share another has stored.  This holds as long as
\* the playlist is there.  (An update that runs while it is deleted links its
\* record again, after an attempt to publish found none: management-flow.ts:135.)
CreatedAs(s, key) == \E r \in receipts : r.answer.share = s /\ r.key = key

OnePublication ==
  Exists => \A r, q \in Linked :
    \/ r = q \/ \E x \in {r, q} : rows[x.shareId].state # "active"
    \/ \E pair \in rivals : \A s \in {r.shareId, q.shareId} : \E key \in pair : CreatedAs(s, key)

\* The vault forgets a key only once its share is gone from the server.
KeyKeptUntilGone ==
  [][\A s \in Managed : s \notin Managed' => rows[s].state = "gone"]_vars

\* Every operation a dialog started is answered: it has nothing under way again
\* and again.
OperationsReturn == \A p \in Dialogs : []<>(flow[p] = NoFlow)

=============================================================================

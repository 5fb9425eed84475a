------------------------ MODULE ShareManagementProofs ------------------------
(***************************************************************************)
(* Proofs about ShareManagement, for any number of dialogs, shares, contents *)
(* and any bounds: no share is public without its key in the vault, a key  *)
(* leaves the vault only when its share is gone, a stored record claims    *)
(* only what the server acknowledged, and two active publications of the    *)
(* playlist come from attempts that overlapped.                             *)
(*                                                                         *)
(* The invariant follows a share through everything that may still act on  *)
(* it: its row and the revisions it had, the requests on their way, the    *)
(* receipts, the flows with what they know and wait for, and the vault.    *)
(***************************************************************************)
EXTENDS ShareManagement, TLAPS

Gone(s) == rows[s].state = "gone"
Kept(s) == s \in Managed \/ Gone(s)

RecordFields == {"shareId", "localPlaylistId", "revision", "contentHash", "sentSnapshot",
                 "acknowledgedHash", "state"}

\* A record of a share that claims what the server acknowledged.
Sound(r) ==
  /\ DOMAIN r = RecordFields /\ r.shareId \in Shares
  /\ <<r.shareId, r.revision, r.acknowledgedHash>> \in acked
  /\ r.sentSnapshot = r.acknowledgedHash /\ r.contentHash = r.acknowledgedHash

\* What the code relies on when it takes a value apart.
Shaped ==
  /\ DOMAIN rows = Shares /\ \A s \in Shares : DOMAIN rows[s] = DOMAIN NoRow
  /\ DOMAIN flow = Dialogs /\ \A p \in Dialogs : DOMAIN flow[p] = DOMAIN NoFlow
  /\ DOMAIN vault = {"publications", "pendingCreates"}

\* A row is the newest revision of its share, and only the activation leaves
\* the content as it was.
RowInv(s) ==
  LET row == rows[s] IN
  /\ row.state \in {"none", "pending", "active", "gone"}
  /\ row.state = "none" => row = NoRow /\ \A e \in acked : e[1] # s
  /\ row.state = "pending" =>
       /\ row.revision = 1 /\ <<s, 1, row.content>> \in acked
       /\ \A e \in acked : e[1] = s => e[2] = 1
  /\ row.state = "active" =>
       /\ row.revision \in Nat \ {0, 1} /\ <<s, row.revision, row.content>> \in acked
       /\ \A e \in acked : e[1] = s => e[2] \in 1 .. row.revision

HistoryInv ==
  \A d, e \in acked :
    d[1] = e[1] /\ (d[2] = e[2] \/ {d[2], e[2]} = {1, 2}) => d[3] = e[3]

\* Where a flow holds the record it has written or will write, and where it
\* waits for the server.
HoldsRecord == {"persist", "activate", "activated", "finalize", "project", "replaced", "keep"}
Waits == {"created", "cleaned", "activated", "replaced", "deleted"}

\* The flow works on a share the server minted, holds a record that is sound,
\* and has put the key into the vault before it activates the share.
FlowKeeps(p) ==
  LET f == flow[p] IN
  /\ f.at \in HoldsRecord => Sound(f.record) /\ f.record.shareId = f.share
  /\ f.at \in {"cleanup", "delete", "deleted"} => f.share \in Shares
  /\ f.at \in {"persist", "activate", "activated"} => f.record.revision = 1
  /\ f.at = "activate" => Kept(f.share)

\* What a flow waits for.
FlowWaits(p) ==
  LET f == flow[p] IN
  /\ f.at \notin Waits => f.request = {} /\ f.answer = None
  /\ f.answer # None => f.request = {}
  /\ \A m \in f.request :
       /\ f.at = "created" => m.kind = "create" /\ m.content = f.content
       /\ f.at = "activated" => m.kind = "activate" /\ m.share = f.share
       /\ f.at = "replaced" => m.kind = "replace" /\ m.share = f.share /\ m.content = f.content
       /\ f.at = "deleted" => m.kind = "delete" /\ m.share = f.share

\* What it may be told: an answer to the request of a flow f that waits at
\* `where`.
Truthful(f, a) ==
  /\ f.at = "created" /\ a.code = "OK" =>
       /\ a.share \in Shares /\ a.revision = 1 /\ a.content = f.content
       /\ <<a.share, 1, a.content>> \in acked
  /\ f.at = "activated" /\ a.code = "OK" =>
       a.revision = 2 /\ <<f.share, 2, a.content>> \in acked
  /\ f.at = "replaced" /\ a.code = "OK" =>
       a.content = f.content /\ <<f.share, a.revision, a.content>> \in acked
  /\ f.at = "deleted" /\ ConfirmedAbsent(a) => Gone(f.share)

FlowInv(p) ==
  /\ FlowKeeps(p) /\ FlowWaits(p)
  /\ flow[p].answer # None => Truthful(flow[p], flow[p].answer)

\* An activation on its way, however late, is of a share whose key is kept.
Carried(m) ==
  /\ m.from \in Dialogs
  /\ m.kind \in {"create", "activate", "replace", "delete"}
  /\ m.kind # "create" => m.share \in Shares
  /\ m.kind = "activate" => Kept(m.share) /\ m.key = None /\ m.expected = 1

\* A receipt repeats what was true, and a deletion confirmed once is confirmed
\* for good.
Repeats(r) ==
  /\ r.hash[1] = "delete" => r.hash[2] \in Shares /\ Gone(r.hash[2])
  /\ r.hash[1] = "replace" =>
       r.answer.content = r.hash[3] /\ <<r.hash[2], r.answer.revision, r.hash[3]>> \in acked

ServerInv  == HistoryInv /\ \A s \in Shares : RowInv(s)
VaultInv   == \A r \in vault.publications : Sound(r)
WireInv    == \A m \in wire : Carried(m)
ReceiptInv == \A r \in receipts : Repeats(r)

IInv ==
  /\ Shaped /\ ServerInv /\ VaultInv /\ WireInv /\ ReceiptInv
  /\ \A p \in Dialogs : FlowInv(p)
  /\ ActiveHasKey

\* What every step keeps: a share that is gone stays gone, a key stays unless
\* its share is gone, and what was acknowledged was acknowledged.
Keeps ==
  /\ \A s \in Shares : Gone(s) => Gone(s)'
  /\ \A s \in Managed : s \in Managed' \/ Gone(s)
  /\ acked \subseteq acked'

\* A step of a flow leaves the vault sound and forgets only what is gone.
VaultStep ==
  /\ DOMAIN vault' = DOMAIN vault
  /\ VaultInv'
  /\ \A s \in Managed : s \in Managed' \/ Gone(s)

-----------------------------------------------------------------------------
(* Initially.                                                              *)

\* There is a share to have been published.
LEMMA SharesFacts == 1 \in Shares
BY ManagementAssumption DEF Shares

\* The invariant holds of a library with nothing published, and of one whose
\* playlist was published before.
LEMMA InitInv == Init => IInv
<1> SUFFICES ASSUME Init PROVE IInv
  OBVIOUS
<1>1. \A p \in Dialogs : flow[p] = NoFlow
  BY DEF Init
<1>2. DOMAIN flow = Dialogs /\ receipts = {} /\ wire = {}
  BY DEF Init
<1>3. \A p \in Dialogs : FlowInv(p)
  BY <1>1 DEF FlowInv, FlowKeeps, FlowWaits, HoldsRecord, Waits, NoFlow
<1>4. WireInv /\ ReceiptInv
  BY <1>2 DEF WireInv, ReceiptInv
<1>5. CASE vault = [publications |-> {}, pendingCreates |-> {}] /\ rows = NoRows /\ acked = {}
  <2>1. Shaped
    BY <1>1, <1>2, <1>5 DEF Shaped, NoRows
  <2>2. ServerInv
    BY <1>5 DEF ServerInv, HistoryInv, RowInv, NoRows, NoRow
  <2>3. VaultInv /\ ActiveHasKey
    BY <1>5 DEF VaultInv, ActiveHasKey, NoRows, NoRow
  <2> QED
    BY <1>3, <1>4, <2>1, <2>2, <2>3 DEF IInv
<1>6. CASE \E c \in Contents \ {Unpublishable} : Published(1, c)
  <2> PICK c \in Contents \ {Unpublishable} : Published(1, c)
    BY <1>6
  <2>1. /\ rows = [NoRows EXCEPT ![1] = [state |-> "active", revision |-> 2, content |-> c]]
        /\ acked = {<<1, 1, c>>, <<1, 2, c>>}
        /\ DOMAIN vault = {"publications", "pendingCreates"}
    BY DEF Published
  <2> DEFINE r == [shareId |-> 1, localPlaylistId |-> Playlist, revision |-> 2,
                   contentHash |-> c, sentSnapshot |-> c, acknowledgedHash |-> c,
                   state |-> "active"]
  <2>2. vault.publications = {r} /\ Sound(r)
    BY <2>1, SharesFacts DEF Published, Sound, RecordFields
  <2>3. Shaped
    BY <1>1, <1>2, <2>1 DEF Shaped, NoRows, NoRow
  <2>4. HistoryInv
    BY <2>1 DEF HistoryInv
  <2>5. ASSUME NEW s \in Shares PROVE RowInv(s)
    BY <2>1 DEF RowInv, NoRows, NoRow
  <2>6. VaultInv
    BY <2>2 DEF VaultInv
  <2>7. ActiveHasKey
    BY <2>1, <2>2 DEF ActiveHasKey, NoRows, NoRow, Managed
  <2> QED
    BY <1>3, <1>4, <2>3, <2>4, <2>5, <2>6, <2>7 DEF IInv, ServerInv
<1> QED
  BY <1>5, <1>6 DEF Init

-----------------------------------------------------------------------------
(* The vault.                                                              *)

\* A write that fails leaves the vault alone.
LEMMA VaultSame == ASSUME IInv, UNCHANGED <<vault, acked>> PROVE VaultStep
BY DEF IInv, VaultInv, VaultStep, Sound, Managed

\* A sound record is put in place of the one of its share.
LEMMA PutsFacts ==
  ASSUME IInv, NEW r, Sound(r), Puts(r), UNCHANGED acked
  PROVE  VaultStep /\ r.shareId \in Managed'
<1>1. vault' = [publications |-> {q \in vault.publications : q.shareId # r.shareId} \cup {r},
                pendingCreates |-> vault.pendingCreates]
  BY DEF Puts, Commits, PutPublication
<1>2. vault'.publications = {q \in vault.publications : q.shareId # r.shareId} \cup {r}
  BY <1>1
<1>3. VaultInv'
  BY <1>2 DEF IInv, VaultInv, Sound
<1>4. r.shareId \in Managed' /\ \A s \in Managed : s \in Managed'
  BY <1>2 DEF Managed
<1> QED
  BY <1>1, <1>3, <1>4 DEF VaultStep, IInv, Shaped

\* Dropping pending creates touches no publication.
LEMMA DropsFacts ==
  ASSUME IInv, NEW ops, Drops(ops), UNCHANGED acked PROVE VaultStep
<1>1. vault'.publications = vault.publications /\ DOMAIN vault' = {"publications", "pendingCreates"}
  BY DEF Drops, Commits
<1> QED
  BY <1>1 DEF VaultStep, IInv, VaultInv, Sound, Managed, Shaped

\* A key is discarded only of a share that is gone.
LEMMA DiscardsFacts ==
  ASSUME IInv, NEW s, Gone(s), Discards(s), UNCHANGED acked PROVE VaultStep
<1>1. /\ vault'.publications = {r \in vault.publications : r.shareId # s}
      /\ DOMAIN vault' = {"publications", "pendingCreates"}
  BY DEF Discards, Commits
<1> QED
  BY <1>1 DEF VaultStep, IInv, VaultInv, Sound, Managed, Shaped

-----------------------------------------------------------------------------
(* A step of the flow of dialog p: the server does not move.                 *)

\* What a step of p has to show: its flow is as it should be afterwards, and so
\* is the request it may have sent.  Everything else follows.
FlowMoves(p) ==
  /\ UNCHANGED server
  /\ VaultStep
  /\ DOMAIN flow' = DOMAIN flow
  /\ \A q \in Dialogs \ {p} : flow'[q] = flow[q]
  /\ DOMAIN flow'[p] = DOMAIN NoFlow
  /\ FlowInv(p)'
  /\ \A m \in wire' : m \in wire \/ Carried(m)'

LEMMA FlowMovesKeep ==
  ASSUME IInv, NEW p \in Dialogs, FlowMoves(p) PROVE IInv' /\ Keeps
<1>1. \A s : Gone(s)' = Gone(s)
  BY DEF FlowMoves, server, Gone
<1>2. acked' = acked /\ rows' = rows /\ receipts' = receipts
  BY DEF FlowMoves, server
<1>3. Keeps
  BY <1>1, <1>2 DEF FlowMoves, VaultStep, Keeps
<1>4. Shaped' /\ VaultInv'
  BY <1>2 DEF FlowMoves, VaultStep, Shaped, IInv
<1>5. ServerInv' /\ ReceiptInv'
  BY <1>1, <1>2 DEF IInv, ServerInv, ReceiptInv, HistoryInv, RowInv, Repeats
<1>6. \A s : Kept(s) => Kept(s)'
  BY <1>1, <1>3 DEF Keeps, Kept
<1>7. WireInv'
  BY <1>6 DEF FlowMoves, IInv, WireInv, Carried
<1>8. ASSUME NEW q \in Dialogs PROVE FlowInv(q)'
  <2>1. CASE q = p
    BY <2>1 DEF FlowMoves
  <2>2. CASE q # p
    <3>1. flow'[q] = flow[q] /\ FlowInv(q)
      BY <2>2 DEF FlowMoves, IInv
    <3> QED
      BY <3>1, <1>1, <1>2, <1>6 DEF FlowInv, FlowKeeps, FlowWaits, Truthful, Sound
  <2> QED
    BY <2>1, <2>2
<1>9. ActiveHasKey'
  BY <1>2, <1>3 DEF IInv, ActiveHasKey, Keeps, Gone
<1> QED
  BY <1>3, <1>4, <1>5, <1>7, <1>8, <1>9 DEF IInv

\* A flow that has answered is over.
LEMMA ReplyMoves ==
  ASSUME IInv, NEW p \in Dialogs, NEW told, Reply(p, told), VaultStep, UNCHANGED <<server, wire>>
  PROVE  FlowMoves(p)
<1>1. flow' = [flow EXCEPT ![p] = NoFlow] /\ DOMAIN flow = Dialogs
  BY DEF Reply, IInv, Shaped
<1>2. flow'[p] = NoFlow
  BY <1>1
<1>3. FlowInv(p)'
  BY <1>2 DEF FlowInv, FlowKeeps, FlowWaits, HoldsRecord, Waits, NoFlow
<1> QED
  BY <1>1, <1>2, <1>3 DEF FlowMoves

\* The facts of one flow that its next step starts from.
LEMMA FlowFacts ==
  ASSUME IInv, NEW p \in Dialogs
  PROVE  /\ DOMAIN flow = Dialogs /\ DOMAIN flow[p] = DOMAIN NoFlow
         /\ FlowKeeps(p) /\ FlowWaits(p)
         /\ flow[p].answer # None => Truthful(flow[p], flow[p].answer)
BY DEF IInv, Shaped, FlowInv

\* Sending leaves to show that the flow may wait for the request it sent.
LEMMA Sent ==
  ASSUME IInv, NEW p \in Dialogs, NEW m, NEW where, NEW f, DOMAIN f = DOMAIN NoFlow,
         Send(p, m, where, f), Carried(m), UNCHANGED <<server, vault>>
  PROVE  FlowInv(p)' => FlowMoves(p)
<1>1. flow' = [flow EXCEPT ![p] = [f EXCEPT !.at = where, !.request = {m}]]
  BY DEF Send
<1>2. /\ DOMAIN flow' = DOMAIN flow /\ flow'[p] = [f EXCEPT !.at = where, !.request = {m}]
      /\ \A q \in Dialogs \ {p} : flow'[q] = flow[q]
  BY <1>1, FlowFacts
<1>3. DOMAIN flow'[p] = DOMAIN NoFlow
  BY <1>2
<1>4. \A x \in wire' : x \in wire \/ Carried(x)'
  BY DEF Send, Carried, Kept, Gone, Managed, server
<1>5. VaultStep
  BY VaultSame DEF server
<1> QED
  BY <1>2, <1>3, <1>4, <1>5 DEF FlowMoves

LEMMA SendCreateMoves ==
  ASSUME IInv, NEW p \in Dialogs, SendCreate(p) PROVE FlowMoves(p)
<1> DEFINE m == Request(p, "create", None, flow[p].key, flow[p].content, 0)
<1>1. m.kind = "create" /\ m.content = flow[p].content /\ Carried(m)
  BY DEF Request, Carried
<1> HIDE DEF m
<1>2. Send(p, m, "created", flow[p]) /\ flow[p].answer = None
  BY FlowFacts DEF SendCreate, m, At, FlowWaits, Waits
<1>3. flow'[p] = [flow[p] EXCEPT !.at = "created", !.request = {m}]
  BY <1>2, FlowFacts DEF Send
<1>4. UNCHANGED <<server, vault>>
  BY DEF SendCreate
<1>5. /\ flow'[p].at = "created" /\ flow'[p].request = {m}
      /\ flow'[p].answer = None /\ flow'[p].content = flow[p].content
  BY <1>2, <1>3, FlowFacts DEF NoFlow
<1>6. FlowInv(p)'
  BY <1>1, <1>5 DEF FlowInv, FlowKeeps, FlowWaits, HoldsRecord, Waits
<1> QED
  BY <1>1, <1>2, <1>4, <1>6, FlowFacts, Sent

LEMMA SendCleanupMoves ==
  ASSUME IInv, NEW p \in Dialogs, SendCleanup(p) PROVE FlowMoves(p)
<1> DEFINE m == Request(p, "delete", flow[p].share, None, None, 1)
<1>1. Carried(m)
  BY FlowFacts DEF Request, Carried, SendCleanup, At, FlowKeeps
<1> HIDE DEF m
<1>2. Send(p, m, "cleaned", flow[p]) /\ flow[p].answer = None
  BY FlowFacts DEF SendCleanup, m, At, FlowWaits, Waits
<1>3. flow'[p] = [flow[p] EXCEPT !.at = "cleaned", !.request = {m}]
  BY <1>2, FlowFacts DEF Send
<1>4. UNCHANGED <<server, vault>>
  BY DEF SendCleanup
<1>5. flow'[p].at = "cleaned" /\ flow'[p].answer = None
  BY <1>2, <1>3, FlowFacts DEF NoFlow
<1>6. FlowInv(p)'
  BY <1>5 DEF FlowInv, FlowKeeps, FlowWaits, HoldsRecord, Waits
<1> QED
  BY <1>1, <1>2, <1>4, <1>6, FlowFacts, Sent

LEMMA SendActivateMoves ==
  ASSUME IInv, NEW p \in Dialogs, SendActivate(p) PROVE FlowMoves(p)
<1> DEFINE m == Request(p, "activate", flow[p].share, None, None, 1)
<1>0. /\ flow[p].at = "activate" /\ flow[p].answer = None
      /\ Sound(flow[p].record) /\ flow[p].record.shareId = flow[p].share
      /\ flow[p].record.revision = 1 /\ Kept(flow[p].share)
  BY FlowFacts DEF SendActivate, At, FlowWaits, Waits, FlowKeeps, HoldsRecord
<1>1. Carried(m) /\ m.kind = "activate" /\ m.share = flow[p].share
  BY <1>0 DEF Request, Carried, Sound
<1> HIDE DEF m
<1>2. Send(p, m, "activated", flow[p])
  BY DEF SendActivate, m
<1>3. flow'[p] = [flow[p] EXCEPT !.at = "activated", !.request = {m}]
  BY <1>2, FlowFacts DEF Send
<1>4. UNCHANGED <<server, vault>>
  BY DEF SendActivate
<1>5. /\ flow'[p].at = "activated" /\ flow'[p].request = {m} /\ flow'[p].answer = None
      /\ flow'[p].share = flow[p].share /\ flow'[p].record = flow[p].record
  BY <1>0, <1>3, FlowFacts DEF NoFlow
<1>6. FlowInv(p)'
  BY <1>0, <1>1, <1>5
     DEF FlowInv, FlowKeeps, FlowWaits, HoldsRecord, Waits, Sound, SendActivate, server
<1> QED
  BY <1>1, <1>2, <1>4, <1>6, FlowFacts, Sent

LEMMA SendDeleteMoves ==
  ASSUME IInv, NEW p \in Dialogs, SendDelete(p) PROVE FlowMoves(p)
<1> DEFINE m == Request(p, "delete", flow[p].share, flow[p].key, None, flow[p].expected)
<1>0. flow[p].at = "delete" /\ flow[p].answer = None /\ flow[p].share \in Shares
  BY FlowFacts DEF SendDelete, At, FlowWaits, Waits, FlowKeeps
<1>1. Carried(m) /\ m.kind = "delete" /\ m.share = flow[p].share
  BY <1>0 DEF Request, Carried
<1> HIDE DEF m
<1>2. Send(p, m, "deleted", flow[p])
  BY DEF SendDelete, m
<1>3. flow'[p] = [flow[p] EXCEPT !.at = "deleted", !.request = {m}]
  BY <1>2, FlowFacts DEF Send
<1>4. UNCHANGED <<server, vault>>
  BY DEF SendDelete
<1>5. /\ flow'[p].at = "deleted" /\ flow'[p].request = {m} /\ flow'[p].answer = None
      /\ flow'[p].share = flow[p].share
  BY <1>0, <1>3, FlowFacts DEF NoFlow
<1>6. FlowInv(p)'
  BY <1>0, <1>1, <1>5 DEF FlowInv, FlowKeeps, FlowWaits, HoldsRecord, Waits
<1> QED
  BY <1>1, <1>2, <1>4, <1>6, FlowFacts, Sent

LEMMA SendReplaceMoves ==
  ASSUME IInv, NEW p \in Dialogs, SendReplace(p) PROVE FlowMoves(p)
<1> DEFINE m == Request(p, "replace", flow[p].share, flow[p].key, Local.content,
                        flow[p].expected)
           f == [flow[p] EXCEPT !.content = Local.content]
<1>1. CASE \E told : Reply(p, told) /\ UNCHANGED wire
  BY <1>1, VaultSame, ReplyMoves DEF SendReplace, server
<1>2. CASE Send(p, m, "replaced", f)
  <2>1. /\ flow[p].at = "project" /\ flow[p].answer = None
        /\ Sound(flow[p].record) /\ flow[p].record.shareId = flow[p].share
    BY FlowFacts DEF SendReplace, At, FlowWaits, Waits, FlowKeeps, HoldsRecord
  <2>2. Carried(m) /\ m.kind = "replace" /\ m.share = flow[p].share /\ m.content = Local.content
    BY <2>1 DEF Request, Carried, Sound
  <2>3. /\ DOMAIN f = DOMAIN NoFlow
        /\ f.answer = None /\ f.share = flow[p].share /\ f.record = flow[p].record
        /\ f.content = Local.content
    BY <2>1, FlowFacts DEF NoFlow
  <2> HIDE DEF m, f
  <2>4. flow'[p] = [f EXCEPT !.at = "replaced", !.request = {m}]
    BY <1>2, FlowFacts DEF Send
  <2>5. /\ flow'[p].at = "replaced" /\ flow'[p].request = {m} /\ flow'[p].answer = None
        /\ flow'[p].share = flow[p].share /\ flow'[p].record = flow[p].record
        /\ flow'[p].content = Local.content
    BY <2>3, <2>4 DEF NoFlow
  <2>6. FlowInv(p)'
    BY <2>1, <2>2, <2>5
       DEF FlowInv, FlowKeeps, FlowWaits, HoldsRecord, Waits, Sound, SendReplace, server
  <2>7. UNCHANGED <<server, vault>>
    BY DEF SendReplace
  <2> QED
    BY <1>2, <2>2, <2>3, <2>6, <2>7, Sent
<1> QED
  BY <1>1, <1>2 DEF SendReplace

\* A step that changes p's flow alone leaves to show that the flow is as it
\* should be.
LEMMA Moved ==
  ASSUME IInv, NEW p \in Dialogs, NEW f, DOMAIN f = DOMAIN NoFlow, flow' = [flow EXCEPT ![p] = f],
         FlowInv(p)', VaultStep, UNCHANGED <<server, wire>>
  PROVE  FlowMoves(p)
<1>1. DOMAIN flow' = DOMAIN flow /\ flow'[p] = f /\ \A q \in Dialogs \ {p} : flow'[q] = flow[q]
  BY FlowFacts
<1>2. DOMAIN flow'[p] = DOMAIN NoFlow
  BY <1>1
<1> QED
  BY <1>1, <1>2 DEF FlowMoves

\* The failure an answer tells of ends the flow.
LEMMA FailureMoves ==
  ASSUME IInv, NEW p \in Dialogs, FailureReply(p), VaultStep, UNCHANGED <<server, wire>>
  PROVE  FlowMoves(p)
BY ReplyMoves DEF FailureReply

LEMMA CheckPublishMoves ==
  ASSUME IInv, NEW p \in Dialogs, CheckPublish(p) PROVE FlowMoves(p)
<1>1. UNCHANGED <<server, wire>> /\ UNCHANGED acked
  BY DEF CheckPublish, server
<1>2. VaultStep
  BY <1>1, VaultSame, DropsFacts DEF CheckPublish, CommitFails
<1>3. CASE \E told : Reply(p, told)
  BY <1>1, <1>2, <1>3, ReplyMoves
<1>4. CASE \E k, w : /\ flow' = [flow EXCEPT ![p].key = k, ![p].at = w]
                     /\ w \in {"create", "record"}
  <2> PICK k, w : /\ flow' = [flow EXCEPT ![p].key = k, ![p].at = w]
                  /\ w \in {"create", "record"}
    BY <1>4
  <2> DEFINE f == [flow[p] EXCEPT !.key = k, !.at = w]
  <2>1. flow' = [flow EXCEPT ![p] = f] /\ DOMAIN f = DOMAIN NoFlow
    BY FlowFacts DEF NoFlow
  <2>2. f.at = w /\ f.request = flow[p].request /\ f.answer = flow[p].answer
    BY FlowFacts DEF NoFlow
  <2>3. f.request = {} /\ f.answer = None
    BY <2>2, FlowFacts DEF CheckPublish, At, FlowWaits, Waits
  <2> HIDE DEF f
  <2>4. flow'[p] = f
    BY <2>1, FlowFacts
  <2>5. FlowInv(p)'
    BY <2>2, <2>3, <2>4 DEF FlowInv, FlowKeeps, FlowWaits, HoldsRecord, Waits
  <2> QED
    BY <1>1, <1>2, <2>1, <2>5, Moved
<1> QED
  BY <1>3, <1>4 DEF CheckPublish

LEMMA RecordPendingCreateMoves ==
  ASSUME IInv, NEW p \in Dialogs, RecordPendingCreate(p) PROVE FlowMoves(p)
<1>1. UNCHANGED <<server, wire>> /\ UNCHANGED acked
  BY DEF RecordPendingCreate, server
<1>2. CASE CommitFails /\ Reply(p, Told("persist-failed"))
  BY <1>1, <1>2, VaultSame, ReplyMoves DEF CommitFails
<1>3. CASE /\ \E pending : Commits(vault.publications, pending)
           /\ flow' = [flow EXCEPT ![p].at = "create"]
  <2>1. VaultStep
    <3>1. /\ vault'.publications = vault.publications
          /\ DOMAIN vault' = {"publications", "pendingCreates"}
      BY <1>3 DEF Commits
    <3> QED
      BY <1>1, <3>1 DEF VaultStep, IInv, VaultInv, Sound, Managed, Shaped
  <2> DEFINE f == [flow[p] EXCEPT !.at = "create"]
  <2>2. flow' = [flow EXCEPT ![p] = f] /\ DOMAIN f = DOMAIN NoFlow
    BY <1>3, FlowFacts DEF NoFlow
  <2>3. f.at = "create" /\ f.request = {} /\ f.answer = None
    BY FlowFacts DEF NoFlow, RecordPendingCreate, At, FlowWaits, Waits
  <2> HIDE DEF f
  <2>4. flow'[p] = f
    BY <2>2, FlowFacts
  <2>5. FlowInv(p)'
    BY <2>3, <2>4 DEF FlowInv, FlowKeeps, FlowWaits, HoldsRecord, Waits
  <2> QED
    BY <1>1, <2>1, <2>2, <2>5, Moved
<1> QED
  BY <1>2, <1>3 DEF RecordPendingCreate

LEMMA CreatedMoves ==
  ASSUME IInv, NEW p \in Dialogs, Created(p) PROVE FlowMoves(p)
<1> DEFINE a == flow[p].answer
<1>1. UNCHANGED <<server, wire>> /\ UNCHANGED <<vault, acked>>
  BY DEF Created, server
<1>2. VaultStep
  BY <1>1, VaultSame
<1>3. flow[p].at = "created" /\ a # None /\ flow[p].request = {}
  BY FlowFacts DEF Created, Answered, At, FlowWaits
<1>4. CASE a.code = "OK"
  <2>1. /\ a.share \in Shares /\ a.revision = 1 /\ a.content = flow[p].content
        /\ <<a.share, 1, a.content>> \in acked
    BY <1>3, <1>4, FlowFacts DEF Truthful
  <2> DEFINE r == PendingRecord(p, a)
             f == [flow[p] EXCEPT !.at = "persist", !.answer = None, !.share = a.share,
                                  !.record = r]
  <2>2. Sound(r) /\ r.shareId = a.share /\ r.revision = 1
    BY <2>1 DEF PendingRecord, Sound, RecordFields
  <2> HIDE DEF r
  <2>3. flow' = [flow EXCEPT ![p] = f] /\ DOMAIN f = DOMAIN NoFlow
    BY <1>4, FlowFacts DEF Created, AfterCreate, NoFlow, r
  <2>4. f.at = "persist" /\ f.request = {} /\ f.answer = None /\ f.share = a.share /\ f.record = r
    BY <1>3, FlowFacts DEF NoFlow
  <2> HIDE DEF f
  <2>5. flow'[p] = f
    BY <2>3, FlowFacts
  <2>6. FlowInv(p)'
    BY <1>1, <2>2, <2>4, <2>5 DEF FlowInv, FlowKeeps, FlowWaits, HoldsRecord, Waits, Sound
  <2> QED
    BY <1>1, <1>2, <2>3, <2>6, Moved
<1>5. CASE a.code = "CREATE_RECEIPT_UNAVAILABLE" /\ a.code # "OK"
  <2> DEFINE f == [flow[p] EXCEPT !.at = "abandon", !.answer = None]
  <2>1. flow' = [flow EXCEPT ![p] = f] /\ DOMAIN f = DOMAIN NoFlow
    BY <1>5, FlowFacts DEF Created, NoFlow
  <2>2. f.at = "abandon" /\ f.request = {} /\ f.answer = None
    BY <1>3, FlowFacts DEF NoFlow
  <2> HIDE DEF f
  <2>3. flow'[p] = f
    BY <2>1, FlowFacts
  <2>4. FlowInv(p)'
    BY <2>2, <2>3 DEF FlowInv, FlowKeeps, FlowWaits, HoldsRecord, Waits
  <2> QED
    BY <1>1, <1>2, <2>1, <2>4, Moved
<1>6. CASE FailureReply(p)
  BY <1>1, <1>2, <1>6, FailureMoves
<1> QED
  BY <1>4, <1>5, <1>6 DEF Created

LEMMA AbandonMoves ==
  ASSUME IInv, NEW p \in Dialogs, Abandon(p) PROVE FlowMoves(p)
<1>1. UNCHANGED <<server, wire>> /\ UNCHANGED acked
  BY DEF Abandon, server
<1>2. VaultStep
  BY <1>1, VaultSame, DropsFacts DEF Abandon, CommitFails
<1> QED
  BY <1>1, <1>2, ReplyMoves DEF Abandon

LEMMA CleanedUpMoves ==
  ASSUME IInv, NEW p \in Dialogs, CleanedUp(p) PROVE FlowMoves(p)
<1>1. UNCHANGED <<server, wire>> /\ UNCHANGED acked
  BY DEF CleanedUp, server
<1>2. VaultStep
  BY <1>1, VaultSame, DropsFacts DEF CleanedUp, CommitFails
<1> QED
  BY <1>1, <1>2, ReplyMoves DEF CleanedUp

LEMMA DropPendingCreateMoves ==
  ASSUME IInv, NEW p \in Dialogs, DropPendingCreate(p) PROVE FlowMoves(p)
<1>1. UNCHANGED <<server, wire>> /\ UNCHANGED acked
  BY DEF DropPendingCreate, server
<1>2. VaultStep
  BY <1>1, VaultSame, DropsFacts DEF DropPendingCreate, CommitFails
<1> QED
  BY <1>1, <1>2, ReplyMoves DEF DropPendingCreate

\* The key is in the vault before the activation is sent.
LEMMA PersistMoves ==
  ASSUME IInv, NEW p \in Dialogs, Persist(p) PROVE FlowMoves(p)
<1>1. UNCHANGED <<server, wire>> /\ UNCHANGED acked
  BY DEF Persist, server
<1>2. /\ Sound(flow[p].record) /\ flow[p].record.shareId = flow[p].share
      /\ flow[p].record.revision = 1 /\ flow[p].request = {} /\ flow[p].answer = None
      /\ flow[p].share \in Shares
  BY FlowFacts DEF Persist, At, FlowKeeps, FlowWaits, HoldsRecord, Waits, Sound
<1>3. ASSUME NEW w \in {"activate", "cleanup"}, VaultStep,
             flow' = [flow EXCEPT ![p].at = w],
             w = "activate" => flow[p].share \in Managed'
      PROVE  FlowMoves(p)
  <2> DEFINE f == [flow[p] EXCEPT !.at = w]
  <2>1. flow' = [flow EXCEPT ![p] = f] /\ DOMAIN f = DOMAIN NoFlow
    BY <1>3, FlowFacts DEF NoFlow
  <2>2. /\ f.at = w /\ f.request = {} /\ f.answer = None /\ f.share = flow[p].share
        /\ f.record = flow[p].record
    BY <1>2, FlowFacts DEF NoFlow
  <2> HIDE DEF f
  <2>3. flow'[p] = f
    BY <2>1, FlowFacts
  <2>4. FlowKeeps(p)'
    BY <1>1, <1>2, <1>3, <2>2, <2>3 DEF FlowKeeps, HoldsRecord, Sound, Kept
  <2>5. FlowInv(p)'
    BY <1>3, <2>2, <2>3, <2>4 DEF FlowInv, FlowWaits, Waits
  <2> QED
    BY <1>1, <1>3, <2>1, <2>5, Moved
<1>4. CASE Puts(flow[p].record) /\ flow' = [flow EXCEPT ![p].at = "activate"]
  <2>1. VaultStep /\ flow[p].record.shareId \in Managed'
    BY <1>1, <1>2, <1>4, PutsFacts
  <2> QED
    BY <1>2, <1>3, <1>4, <2>1
<1>5. CASE CommitFails /\ flow' = [flow EXCEPT ![p].at = "cleanup"]
  BY <1>1, <1>3, <1>5, VaultSame DEF CommitFails
<1> QED
  BY <1>4, <1>5 DEF Persist

\* The activation leaves the content of the share as the creation stored it, so
\* the record may take it over.
LEMMA ActivatedMoves ==
  ASSUME IInv, NEW p \in Dialogs, Activated(p) PROVE FlowMoves(p)
<1> DEFINE a == flow[p].answer
           r == flow[p].record
<1>1. UNCHANGED <<server, wire>> /\ UNCHANGED <<vault, acked>>
  BY DEF Activated, server
<1>2. VaultStep
  BY <1>1, VaultSame
<1>3. /\ flow[p].at = "activated" /\ a # None /\ flow[p].request = {}
      /\ Sound(r) /\ r.shareId = flow[p].share /\ r.revision = 1
  BY FlowFacts DEF Activated, Answered, At, FlowWaits, FlowKeeps, HoldsRecord
<1>4. CASE a.code = "OK"
  <2>1. a.revision = 2 /\ <<r.shareId, 2, a.content>> \in acked
    BY <1>3, <1>4, FlowFacts DEF Truthful
  <2>2. r.acknowledgedHash = a.content
    <3>1. <<r.shareId, 1, r.acknowledgedHash>> \in acked
      BY <1>3 DEF Sound
    <3> QED
      BY <2>1, <3>1 DEF IInv, ServerInv, HistoryInv
  <2> DEFINE n == ActivatedRecord(r, a)
             f == [flow[p] EXCEPT !.at = "finalize", !.answer = None, !.record = n]
  <2>3. Sound(n) /\ n.shareId = r.shareId
    BY <1>3, <2>1, <2>2 DEF ActivatedRecord, Sound, RecordFields
  <2>4. flow' = [flow EXCEPT ![p] = f] /\ DOMAIN f = DOMAIN NoFlow
    BY <1>4, FlowFacts DEF Activated, NoFlow
  <2> HIDE DEF n
  <2>5. /\ f.at = "finalize" /\ f.request = {} /\ f.answer = None /\ f.share = flow[p].share
        /\ f.record = n
    BY <1>3, FlowFacts DEF NoFlow
  <2> HIDE DEF f
  <2>6. flow'[p] = f
    BY <2>4, FlowFacts
  <2>7. FlowInv(p)'
    BY <1>1, <1>3, <2>3, <2>5, <2>6
       DEF FlowInv, FlowKeeps, FlowWaits, HoldsRecord, Waits, Sound
  <2> QED
    BY <1>1, <1>2, <2>4, <2>7, Moved
<1>5. CASE \E told : Reply(p, told)
  BY <1>1, <1>2, <1>5, ReplyMoves
<1> QED
  BY <1>4, <1>5 DEF Activated, FailureReply

LEMMA FinalizeMoves ==
  ASSUME IInv, NEW p \in Dialogs, Finalize(p) PROVE FlowMoves(p)
<1>1. UNCHANGED <<server, wire>> /\ UNCHANGED acked
  BY DEF Finalize, server
<1>2. /\ Sound(flow[p].record) /\ flow[p].request = {} /\ flow[p].answer = None
  BY FlowFacts DEF Finalize, At, FlowKeeps, FlowWaits, HoldsRecord, Waits
<1>3. VaultStep
  BY <1>1, <1>2, VaultSame, PutsFacts DEF Finalize, CommitFails
<1>4. CASE flow' = [flow EXCEPT ![p].at = "drop"]
  <2> DEFINE f == [flow[p] EXCEPT !.at = "drop"]
  <2>1. flow' = [flow EXCEPT ![p] = f] /\ DOMAIN f = DOMAIN NoFlow
    BY <1>4, FlowFacts DEF NoFlow
  <2>2. f.at = "drop" /\ f.request = {} /\ f.answer = None
    BY <1>2, FlowFacts DEF NoFlow
  <2> HIDE DEF f
  <2>3. flow'[p] = f
    BY <2>1, FlowFacts
  <2>4. FlowInv(p)'
    BY <2>2, <2>3 DEF FlowInv, FlowKeeps, FlowWaits, HoldsRecord, Waits
  <2> QED
    BY <1>1, <1>3, <2>1, <2>4, Moved
<1>5. CASE \E told : Reply(p, told)
  BY <1>1, <1>3, <1>5, ReplyMoves
<1> QED
  BY <1>4, <1>5 DEF Finalize

\* The record takes the content that was sent, not the one the playlist has now.
LEMMA ReplacedMoves ==
  ASSUME IInv, NEW p \in Dialogs, Replaced(p) PROVE FlowMoves(p)
<1> DEFINE a == flow[p].answer
           r == flow[p].record
<1>1. UNCHANGED <<server, wire>> /\ UNCHANGED <<vault, acked>>
  BY DEF Replaced, server
<1>2. VaultStep
  BY <1>1, VaultSame
<1>3. /\ flow[p].at = "replaced" /\ a # None /\ flow[p].request = {}
      /\ Sound(r) /\ r.shareId = flow[p].share
  BY FlowFacts DEF Replaced, Answered, At, FlowWaits, FlowKeeps, HoldsRecord
<1>4. CASE a.code = "OK"
  <2>1. a.content = flow[p].content /\ <<r.shareId, a.revision, a.content>> \in acked
    BY <1>3, <1>4, FlowFacts DEF Truthful
  <2> DEFINE n == UpdatedRecord(p, a)
             f == [flow[p] EXCEPT !.at = "keep", !.answer = None, !.record = n]
  <2>2. Sound(n) /\ n.shareId = r.shareId
    BY <1>3, <2>1 DEF UpdatedRecord, Sound, RecordFields
  <2>3. flow' = [flow EXCEPT ![p] = f] /\ DOMAIN f = DOMAIN NoFlow
    BY <1>4, FlowFacts DEF Replaced, NoFlow
  <2> HIDE DEF n
  <2>4. /\ f.at = "keep" /\ f.request = {} /\ f.answer = None /\ f.share = flow[p].share
        /\ f.record = n
    BY <1>3, FlowFacts DEF NoFlow
  <2> HIDE DEF f
  <2>5. flow'[p] = f
    BY <2>3, FlowFacts
  <2>6. FlowInv(p)'
    BY <1>1, <1>3, <2>2, <2>4, <2>5
       DEF FlowInv, FlowKeeps, FlowWaits, HoldsRecord, Waits, Sound
  <2> QED
    BY <1>1, <1>2, <2>3, <2>6, Moved
<1>5. CASE FailureReply(p)
  BY <1>1, <1>2, <1>5, FailureMoves
<1> QED
  BY <1>4, <1>5 DEF Replaced

LEMMA KeepUpdateMoves ==
  ASSUME IInv, NEW p \in Dialogs, KeepUpdate(p) PROVE FlowMoves(p)
<1>1. UNCHANGED <<server, wire>> /\ UNCHANGED acked
  BY DEF KeepUpdate, server
<1>2. Sound(flow[p].record)
  BY FlowFacts DEF KeepUpdate, At, FlowKeeps, HoldsRecord
<1>3. VaultStep
  BY <1>1, <1>2, VaultSame, PutsFacts DEF KeepUpdate, CommitFails
<1> QED
  BY <1>1, <1>3, ReplyMoves DEF KeepUpdate

\* The key is discarded only after an answer that says the share is gone.
LEMMA DeletedMoves ==
  ASSUME IInv, NEW p \in Dialogs, Deleted(p) PROVE FlowMoves(p)
<1> DEFINE a == flow[p].answer
<1>1. UNCHANGED <<server, wire>> /\ UNCHANGED acked
  BY DEF Deleted, server
<1>2. flow[p].at = "deleted" /\ a # None
  BY DEF Deleted, Answered, At
<1>3. CASE ConfirmedAbsent(a)
  <2>1. Gone(flow[p].share)
    BY <1>2, <1>3, FlowFacts DEF Truthful
  <2>2. VaultStep
    BY <1>1, <1>3, <2>1, VaultSame, DiscardsFacts DEF Deleted, CommitFails
  <2> QED
    BY <1>1, <1>3, <2>2, ReplyMoves DEF Deleted
<1>4. CASE ~ConfirmedAbsent(a)
  BY <1>1, <1>4, VaultSame, FailureMoves DEF Deleted
<1> QED
  BY <1>3, <1>4

-----------------------------------------------------------------------------
(* What the user starts, and what gives up.                                *)

\* A flow starts with a record of the vault, which is sound and managed.
LEMMA StartMoves ==
  ASSUME IInv, NEW p \in Dialogs, NEW f, DOMAIN f = DOMAIN NoFlow,
         Starts(p, f), UNCHANGED <<server, wire>>, UNCHANGED vault,
         f.request = {}, f.answer = None, f.at \notin Waits \cup {"persist"},
         f.at \in HoldsRecord => Sound(f.record) /\ f.record.shareId = f.share,
         f.at \in {"cleanup", "delete"} => f.share \in Shares,
         f.at = "activate" => f.share \in Managed /\ f.record.revision = 1
  PROVE  FlowMoves(p)
<1>1. UNCHANGED <<vault, acked>> /\ flow' = [flow EXCEPT ![p] = f]
  BY DEF server, Starts
<1>2. flow'[p] = f
  BY <1>1, FlowFacts
<1>3. VaultStep
  BY <1>1, VaultSame
<1>4. FlowInv(p)'
  BY <1>1, <1>2
     DEF FlowInv, FlowKeeps, FlowWaits, HoldsRecord, Waits, Sound, Kept, Managed
<1> QED
  BY <1>1, <1>3, <1>4, Moved

LEMMA PublishMoves ==
  ASSUME IInv, NEW p \in Dialogs, Publish(p) PROVE FlowMoves(p)
<1> DEFINE f == PublishFlow(dialog[p].publishOp)
<1>1. /\ f.at = "check" /\ f.request = {} /\ f.answer = None
      /\ DOMAIN f = DOMAIN NoFlow
  BY DEF PublishFlow, NoFlow
<1> HIDE DEF f
<1>2. Starts(p, f)
  BY DEF Publish, f
<1>3. UNCHANGED <<server, wire>>
  BY DEF Publish
<1>4. UNCHANGED vault
  BY DEF Publish
<1> QED
  BY <1>1, <1>2, <1>3, <1>4, StartMoves DEF Waits, HoldsRecord

LEMMA ActivateMoves ==
  ASSUME IInv, NEW p \in Dialogs, Activate(p) PROVE FlowMoves(p)
<1> PICK r \in Linked : r.revision = 1 /\ Starts(p, ActivateFlow(r))
  BY DEF Activate
<1>1. Sound(r) /\ r.shareId \in Managed
  BY DEF Linked, Managed, IInv, VaultInv
<1> DEFINE f == ActivateFlow(r)
<1>2. /\ f.at = "activate" /\ f.request = {} /\ f.answer = None
      /\ f.share = r.shareId /\ f.record = r /\ DOMAIN f = DOMAIN NoFlow
  BY DEF ActivateFlow, NoFlow
<1>3. Starts(p, f)
  OBVIOUS
<1> HIDE DEF f
<1>4. UNCHANGED <<server, wire>>
  BY DEF Activate
<1>5. UNCHANGED vault
  BY DEF Activate
<1> QED
  BY <1>1, <1>2, <1>3, <1>4, <1>5, StartMoves DEF Waits, HoldsRecord

LEMMA UpdateMoves ==
  ASSUME IInv, NEW p \in Dialogs, Update(p) PROVE FlowMoves(p)
<1> PICK r \in Linked : \E op : Starts(p, UpdateFlow(r, op, dialog[p].force))
  BY DEF Update
<1> PICK op : Starts(p, UpdateFlow(r, op, dialog[p].force))
  OBVIOUS
<1>1. Sound(r)
  BY DEF Linked, IInv, VaultInv
<1> DEFINE f == UpdateFlow(r, op, dialog[p].force)
<1>2. /\ f.at = "project" /\ f.request = {} /\ f.answer = None
      /\ f.share = r.shareId /\ f.record = r /\ DOMAIN f = DOMAIN NoFlow
  BY DEF UpdateFlow, NoFlow
<1>3. Starts(p, f)
  OBVIOUS
<1> HIDE DEF f
<1>4. UNCHANGED <<server, wire>>
  BY DEF Update
<1>5. UNCHANGED vault
  BY DEF Update
<1> QED
  BY <1>1, <1>2, <1>3, <1>4, <1>5, StartMoves DEF Waits, HoldsRecord

LEMMA DeleteMoves ==
  ASSUME IInv, NEW p \in Dialogs, Delete(p) \/ DeleteRemote(p) PROVE FlowMoves(p)
<1> PICK r \in vault.publications :
           \E kind, op, force : Starts(p, DeleteFlow(kind, r, op, force))
  BY DEF Delete, DeleteRemote, Linked, Listed
<1> PICK kind, op, force : Starts(p, DeleteFlow(kind, r, op, force))
  OBVIOUS
<1>1. r.shareId \in Shares
  BY DEF IInv, VaultInv, Sound
<1> DEFINE f == DeleteFlow(kind, r, op, force)
<1>2. /\ f.at = "delete" /\ f.request = {} /\ f.answer = None
      /\ f.share = r.shareId /\ DOMAIN f = DOMAIN NoFlow
  BY DEF DeleteFlow, NoFlow
<1>3. Starts(p, f)
  OBVIOUS
<1> HIDE DEF f
<1>4. UNCHANGED <<server, wire>>
  BY DEF Delete, DeleteRemote
<1>5. UNCHANGED vault
  BY DEF Delete, DeleteRemote
<1> QED
  BY <1>1, <1>2, <1>3, <1>4, <1>5, StartMoves DEF Waits, HoldsRecord

\* A request given up is answered by nothing that claims anything.
LEMMA GiveUpMoves ==
  ASSUME IInv, NEW p \in Dialogs, GiveUp(p) PROVE FlowMoves(p)
<1> DEFINE u == Failed("UNKNOWN")
           f == [flow[p] EXCEPT !.request = {}, !.answer = u]
<1>1. UNCHANGED <<server, wire>> /\ UNCHANGED <<vault, acked>>
  BY DEF GiveUp, server
<1>2. VaultStep
  BY <1>1, VaultSame
<1>3. u.code = "UNKNOWN"
  BY DEF Failed
<1> HIDE DEF u
<1>4. flow' = [flow EXCEPT ![p] = f] /\ DOMAIN f = DOMAIN NoFlow
  BY FlowFacts DEF GiveUp, NoFlow, u
<1>5. /\ f.at = flow[p].at /\ f.request = {} /\ f.answer = u /\ f.share = flow[p].share
      /\ f.record = flow[p].record
  BY FlowFacts DEF NoFlow
<1> HIDE DEF f
<1>6. flow'[p] = f
  BY <1>4, FlowFacts
<1>7. f.at \in Waits
  BY <1>5, FlowFacts DEF FlowWaits, GiveUp
<1>8. FlowKeeps(p)'
  BY <1>1, <1>5, <1>6, <1>7, FlowFacts DEF FlowKeeps, HoldsRecord, Sound, Kept, Waits
<1>9. FlowInv(p)'
  BY <1>3, <1>5, <1>6, <1>7, <1>8 DEF FlowInv, FlowWaits, Truthful, ConfirmedAbsent
<1> QED
  BY <1>1, <1>2, <1>4, <1>9, Moved

-----------------------------------------------------------------------------
(* The server, and the world.                                              *)

\* What an answer to a request may claim, once it was served.
Fair(m, a) ==
  /\ m.kind = "create" /\ a.code = "OK" =>
       /\ a.share \in Shares /\ a.revision = 1 /\ a.content = m.content
       /\ <<a.share, 1, a.content>> \in acked'
  /\ m.kind = "activate" /\ a.code = "OK" =>
       a.revision = 2 /\ <<m.share, 2, a.content>> \in acked'
  /\ m.kind = "replace" /\ a.code = "OK" =>
       a.content = m.content /\ <<m.share, a.revision, a.content>> \in acked'
  /\ m.kind = "delete" /\ ConfirmedAbsent(a) => Gone(m.share)'

\* What a step of the server has to show, besides its own state: what it keeps,
\* and that the answer it gave is fair.
LEMMA ServedKeeps ==
  ASSUME IInv, NEW m \in wire, NEW a, Deliver(m, a), Fair(m, a), wire' = wire \ {m},
         Keeps, ServerInv', ReceiptInv', UNCHANGED vault,
         DOMAIN rows' = Shares, \A s \in Shares : DOMAIN rows'[s] = DOMAIN NoRow,
         ActiveHasKey'
  PROVE  IInv'
<1>1. m.from \in Dialogs /\ m.kind \in {"create", "activate", "replace", "delete"}
  BY DEF IInv, WireInv, Carried
<1>2. /\ DOMAIN flow' = Dialogs
      /\ \A p \in Dialogs : \/ flow'[p] = flow[p]
                          \/ /\ p = m.from /\ m \in flow[p].request
                             /\ flow'[p] = [flow[p] EXCEPT !.answer = a, !.request = {}]
  BY <1>1, FlowFacts DEF Deliver
<1>3. Shaped'
  <2>1. ASSUME NEW p \in Dialogs PROVE DOMAIN flow'[p] = DOMAIN NoFlow
    BY <1>2, FlowFacts
  <2> QED
    BY <1>2, <2>1 DEF IInv, Shaped
<1>4. VaultInv'
  BY DEF IInv, VaultInv, Sound, Keeps
<1>5. \A s \in Shares : Kept(s) => Kept(s)'
  BY DEF Keeps, Kept, Gone
<1>6. WireInv'
  BY <1>5 DEF IInv, WireInv, Carried
<1>7. ASSUME NEW p \in Dialogs PROVE FlowInv(p)'
  <2>1. CASE flow'[p] = flow[p]
    BY <1>5, <2>1, FlowFacts
       DEF FlowInv, FlowKeeps, FlowWaits, Truthful, Sound, Keeps, HoldsRecord, Waits
  <2>2. CASE /\ p = m.from /\ m \in flow[p].request
             /\ flow'[p] = [flow[p] EXCEPT !.answer = a, !.request = {}]
    <3> DEFINE g == flow'[p]
    <3>1. /\ g.at = flow[p].at /\ g.request = {} /\ g.answer = a /\ g.share = flow[p].share
          /\ g.record = flow[p].record /\ g.content = flow[p].content
      BY <2>2, FlowFacts DEF NoFlow
    <3>2. g.at \in Waits
      BY <2>2, <3>1, FlowFacts DEF FlowWaits
    <3>3. FlowKeeps(p)'
      BY <1>5, <3>1, <3>2, FlowFacts DEF FlowKeeps, HoldsRecord, Sound, Keeps, Waits
    <3>4. /\ g.at = "created" => m.kind = "create" /\ m.content = g.content
          /\ g.at = "activated" => m.kind = "activate" /\ m.share = g.share
          /\ g.at = "replaced" => m.kind = "replace" /\ m.share = g.share /\ m.content = g.content
          /\ g.at = "deleted" => m.kind = "delete" /\ m.share = g.share
      BY <2>2, <3>1, FlowFacts DEF FlowWaits
    <3> HIDE DEF g
    <3>5. Truthful(flow[p], flow[p].answer)'
      BY <3>1, <3>4 DEF Fair, Truthful, g
    <3> QED
      BY <3>1, <3>2, <3>3, <3>5 DEF FlowInv, FlowWaits, g
  <2> QED
    BY <1>2, <2>1, <2>2
<1> QED
  BY <1>3, <1>4, <1>6, <1>7 DEF IInv

\* A server that does not move keeps all it has.
LEMMA ServerSame ==
  ASSUME IInv, UNCHANGED <<receipts, acked>>, UNCHANGED vault,
         DOMAIN rows' = Shares, \A s \in Shares : rows'[s] = rows[s]
  PROVE  /\ Keeps /\ ServerInv' /\ ReceiptInv' /\ ActiveHasKey'
         /\ \A s \in Shares : DOMAIN rows'[s] = DOMAIN NoRow
<1>1. \A s \in Shares : Gone(s)' = Gone(s)
  BY DEF Gone
<1>2. Keeps /\ ActiveHasKey'
  BY <1>1 DEF IInv, Keeps, Managed, ActiveHasKey
<1>3. ServerInv' /\ ReceiptInv'
  BY <1>1 DEF IInv, ServerInv, ReceiptInv, HistoryInv, RowInv, Repeats
<1> QED
  BY <1>2, <1>3 DEF IInv, Shaped

LEMMA ServeAgainKeeps ==
  ASSUME IInv, NEW m \in wire, ServeAgain(m), wire' = wire \ {m}, UNCHANGED vault
  PROVE  IInv' /\ Keeps
<1>1. UNCHANGED <<receipts, acked>> /\ UNCHANGED rows /\ DOMAIN rows' = Shares
  BY DEF ServeAgain, server, IInv, Shaped
<1> PICK r \in Prior(m) :
       Deliver(m, IF r.hash # Hash(m) THEN Failed("IDEMPOTENCY_CONFLICT")
                  ELSE IF m.kind = "create" THEN Failed("CREATE_RECEIPT_UNAVAILABLE")
                  ELSE r.answer)
  BY DEF ServeAgain
<1> DEFINE a == IF r.hash # Hash(m) THEN Failed("IDEMPOTENCY_CONFLICT")
                ELSE IF m.kind = "create" THEN Failed("CREATE_RECEIPT_UNAVAILABLE")
                ELSE r.answer
<1>2. Carried(m) /\ m.key # None /\ Repeats(r)
  BY DEF Prior, IInv, WireInv, ReceiptInv
<1>3. Fair(m, a)
  <2>1. CASE r.hash # Hash(m) \/ m.kind = "create"
    <3>1. a.code \in {"IDEMPOTENCY_CONFLICT", "CREATE_RECEIPT_UNAVAILABLE"}
      BY <2>1 DEF Failed
    <3> HIDE DEF a
    <3> QED
      BY <3>1 DEF Fair, ConfirmedAbsent
  <2>2. CASE r.hash = Hash(m) /\ m.kind # "create"
    <3>1. a = r.answer /\ m.kind # "activate"
      BY <1>2, <2>2 DEF Carried
    <3>2. /\ r.hash[1] = m.kind /\ r.hash[2] = m.share /\ r.hash[3] = m.content
      BY <2>2 DEF Hash
    <3> HIDE DEF a
    <3> QED
      BY <1>1, <1>2, <2>2, <3>1, <3>2 DEF Fair, Repeats, Gone
  <2> QED
    BY <2>1, <2>2
<1>4. Deliver(m, a)
  OBVIOUS
<1> HIDE DEF a
<1> QED
  BY <1>1, <1>3, <1>4, ServerSame, ServedKeeps

LEMMA ServeCreateKeeps ==
  ASSUME IInv, NEW m \in wire, ServeCreate(m), m.kind = "create",
         wire' = wire \ {m}, UNCHANGED vault
  PROVE  IInv' /\ Keeps
<1>1. CASE Unminted = {}
  <2> DEFINE a == Failed("UNKNOWN")
  <2>1. UNCHANGED rows /\ DOMAIN rows' = Shares /\ Deliver(m, a)
    BY <1>1 DEF ServeCreate, server, IInv, Shaped
  <2>2. a.code = "UNKNOWN"
    BY DEF Failed
  <2> HIDE DEF a
  <2>3. Fair(m, a)
    BY <2>2 DEF Fair, ConfirmedAbsent
  <2>4. UNCHANGED <<receipts, acked>>
    BY <1>1 DEF ServeCreate, server
  <2> QED
    BY <2>1, <2>3, <2>4, ServerSame, ServedKeeps
<1>2. CASE Unminted # {}
  <2> DEFINE s == CHOOSE x \in Unminted : TRUE
             row == [state |-> "pending", revision |-> 1, content |-> m.content]
             a == [Ok(m, row) EXCEPT !.share = s]
             r == [key |-> m.key, hash |-> Hash(m), answer |-> a]
  <2>1. s \in Shares /\ rows[s] = NoRow
    BY <1>2 DEF Unminted
  <2>2. /\ rows' = [rows EXCEPT ![s] = row]
        /\ acked' = acked \cup {<<s, 1, m.content>>}
        /\ receipts' = receipts \cup {r}
        /\ Deliver(m, a)
    BY <1>2 DEF ServeCreate
  <2>3. a.code = "OK" /\ a.share = s /\ a.revision = 1 /\ a.content = m.content
    BY DEF Ok
  <2>4. r.hash[1] = "create"
    BY DEF Hash
  <2>5. row.state = "pending" /\ row.revision = 1 /\ row.content = m.content
        /\ DOMAIN row = DOMAIN NoRow
    BY DEF NoRow
  <2> HIDE DEF s, row, a, r
  <2>6. /\ DOMAIN rows' = Shares /\ rows'[s] = row
        /\ \A x \in Shares \ {s} : rows'[x] = rows[x]
        /\ \A x \in Shares : DOMAIN rows'[x] = DOMAIN NoRow
    BY <2>1, <2>2, <2>5 DEF IInv, Shaped
  <2>7. Keeps
    <3>1. \A x \in Shares : Gone(x) => x # s
      BY <2>1 DEF Gone, NoRow
    <3> QED
      BY <2>2, <2>6, <3>1 DEF Keeps, Gone, Managed
  <2>8. \A e \in acked : e[1] # s
    <3>1. rows[s].state = "none"
      BY <2>1 DEF NoRow
    <3> QED
      BY <2>1, <3>1 DEF IInv, ServerInv, RowInv
  <2>9. ServerInv'
    <3>1. HistoryInv'
      BY <2>2, <2>8 DEF IInv, ServerInv, HistoryInv
    <3>2. ASSUME NEW x \in Shares PROVE RowInv(x)'
      <4>1. CASE x = s
        BY <2>2, <2>5, <2>6, <2>8, <4>1 DEF RowInv
      <4>2. CASE x # s
        BY <2>2, <2>6, <4>2 DEF RowInv, IInv, ServerInv
      <4> QED
        BY <4>1, <4>2
    <3> QED
      BY <3>1, <3>2 DEF ServerInv
  <2>10. ReceiptInv'
    BY <2>2, <2>4, <2>7 DEF IInv, ReceiptInv, Repeats, Keeps
  <2>11. ActiveHasKey'
    BY <2>5, <2>6 DEF IInv, ActiveHasKey, Managed
  <2>12. Fair(m, a)
    BY <2>1, <2>2, <2>3 DEF Fair
  <2> QED
    BY <2>2, <2>6, <2>7, <2>9, <2>10, <2>11, <2>12, ServedKeeps
<1> QED
  BY <1>1, <1>2

\* What may become of a request that writes: it is refused or finds nothing,
\* it activates, replaces or deletes, or it was an activation already.
LEMMA OutcomeCases ==
  ASSUME NEW m, m.kind \in {"activate", "replace", "delete"},
         DOMAIN rows[m.share] = DOMAIN NoRow
  PROVE  LET row == rows[m.share]
             new == Outcome(m).row
             a   == Outcome(m).answer
         IN \/ /\ new = row
               /\ \/ a.code = "NOT_FOUND" /\ row.state = "gone"
                  \/ a.code = "REVISION_CONFLICT"
            \/ /\ m.kind = "activate" /\ row.state = "pending" /\ row.revision = m.expected
               /\ new.state = "active" /\ new.revision = row.revision + 1
               /\ new.content = row.content /\ DOMAIN new = DOMAIN NoRow
               /\ a = Ok(m, new)
            \/ /\ m.kind = "replace" /\ row.state = "active"
               /\ new.state = "active" /\ new.revision = row.revision + 1
               /\ new.content = m.content /\ DOMAIN new = DOMAIN NoRow
               /\ a = Ok(m, new)
            \/ /\ m.kind = "delete" /\ row.state # "gone"
               /\ new = GoneRow /\ a = Ok(m, new)
            \/ /\ m.kind = "activate" /\ row.state = "active"
               /\ row.revision = m.expected + 1
               /\ new = row /\ a = Ok(m, new)
<1> DEFINE row == rows[m.share]
           out == Outcome(m)
<1>1. CASE row.state = "gone"
  <2>1. out = [row |-> row, answer |-> Failed("NOT_FOUND")]
    BY <1>1 DEF Outcome
  <2> QED
    BY <1>1, <2>1 DEF Failed
<1>2. CASE m.kind = "activate" /\ row.state # "gone"
  BY <1>2 DEF Outcome, Conflict, Failed, NoRow
<1>3. CASE m.kind = "replace" /\ row.state # "gone"
  BY <1>3 DEF Outcome, Conflict, Failed, NoRow
<1>4. CASE m.kind = "delete" /\ row.state # "gone"
  BY <1>4 DEF Outcome, Conflict, Failed
<1> QED
  BY <1>1, <1>2, <1>3, <1>4

\* A request that writes, one case per outcome.
LEMMA ServeOtherKeeps ==
  ASSUME IInv, NEW m \in wire, ServeOther(m), m.kind # "create",
         wire' = wire \ {m}, UNCHANGED vault
  PROVE  IInv' /\ Keeps
<1> DEFINE s == m.share
           row == rows[s]
           new == Outcome(m).row
           a == Outcome(m).answer
<1>1. /\ s \in Shares /\ m.kind \in {"activate", "replace", "delete"}
      /\ m.kind = "activate" => Kept(s) /\ m.key = None /\ m.expected = 1
  BY DEF IInv, WireInv, Carried
<1>2. /\ rows' = [rows EXCEPT ![s] = new]
      /\ acked' = IF new # row /\ new.state = "active"
                  THEN acked \cup {<<s, new.revision, new.content>>} ELSE acked
      /\ receipts' = IF new # row /\ m.key # None
                     THEN receipts \cup {[key |-> m.key, hash |-> Hash(m), answer |-> a]}
                     ELSE receipts
      /\ Deliver(m, a)
  BY DEF ServeOther
<1>3. DOMAIN rows = Shares /\ DOMAIN row = DOMAIN NoRow /\ RowInv(s)
  BY <1>1 DEF IInv, Shaped, ServerInv
<1>4. \/ /\ new = row
         /\ \/ a.code = "NOT_FOUND" /\ row.state = "gone"
            \/ a.code = "REVISION_CONFLICT"
      \/ /\ m.kind = "activate" /\ row.state = "pending" /\ row.revision = m.expected
         /\ new.state = "active" /\ new.revision = row.revision + 1
         /\ new.content = row.content /\ DOMAIN new = DOMAIN NoRow
         /\ a = Ok(m, new)
      \/ /\ m.kind = "replace" /\ row.state = "active"
         /\ new.state = "active" /\ new.revision = row.revision + 1
         /\ new.content = m.content /\ DOMAIN new = DOMAIN NoRow
         /\ a = Ok(m, new)
      \/ m.kind = "delete" /\ row.state # "gone" /\ new = GoneRow /\ a = Ok(m, new)
      \/ /\ m.kind = "activate" /\ row.state = "active" /\ row.revision = m.expected + 1
         /\ new = row /\ a = Ok(m, new)
  BY <1>1, <1>3, OutcomeCases
<1> HIDE DEF s, new, a
<1>5. /\ DOMAIN rows' = Shares /\ rows'[s] = new
      /\ \A x \in Shares \ {s} : rows'[x] = rows[x]
  BY <1>1, <1>2, <1>3
<1>6. \A x : Ok(m, x).code = "OK" /\ Ok(m, x).revision = x.revision /\ Ok(m, x).content = x.content
  BY DEF Ok
<1>7. Hash(m)[1] = m.kind /\ Hash(m)[2] = s /\ Hash(m)[3] = m.content
  BY DEF Hash, s
<1>8. CASE new = row
  <2>1. UNCHANGED <<receipts, acked>>
    BY <1>2, <1>8
  <2>2. \A x \in Shares : rows'[x] = rows[x]
    BY <1>5, <1>8
  <2>3. Fair(m, a)
    <3>1. CASE a.code = "NOT_FOUND" /\ row.state = "gone"
      BY <1>1, <2>2, <3>1 DEF Fair, Gone, s
    <3>2. CASE a.code = "REVISION_CONFLICT"
      BY <3>2 DEF Fair, ConfirmedAbsent
    <3>3. CASE /\ m.kind = "activate" /\ row.state = "active" /\ row.revision = m.expected + 1
               /\ a = Ok(m, new)
      BY <1>1, <1>3, <1>6, <1>8, <2>1, <3>3 DEF Fair, RowInv, s
    <3>4. row.state = "active" => new.revision # row.revision + 1
      BY <1>3, <1>8 DEF RowInv
    <3>5. row.state # "gone" => new # GoneRow
      BY <1>8 DEF GoneRow
    <3> QED
      BY <1>4, <1>8, <3>1, <3>2, <3>3, <3>4, <3>5
  <2> QED
    BY <1>2, <1>5, <2>1, <2>2, <2>3, ServerSame, ServedKeeps
<1>9. ASSUME new # row, DOMAIN new = DOMAIN NoRow, row.state # "gone",
             Keeps, ServerInv', ReceiptInv', ActiveHasKey', Fair(m, a)
      PROVE  IInv' /\ Keeps
  <2>1. \A x \in Shares : DOMAIN rows'[x] = DOMAIN NoRow
    BY <1>5, <1>9 DEF IInv, Shaped
  <2> QED
    BY <1>2, <1>5, <1>9, <2>1, ServedKeeps
<1>10. ASSUME row.state # "gone" PROVE \A x \in Shares : Gone(x) => x # s /\ Gone(x)'
  BY <1>5, <1>10 DEF Gone
<1>11. CASE /\ m.kind = "activate" /\ row.state = "pending" /\ row.revision = m.expected
            /\ new.state = "active" /\ new.revision = row.revision + 1
            /\ new.content = row.content /\ DOMAIN new = DOMAIN NoRow
            /\ a = Ok(m, new)
  <2>1. /\ new.state = "active" /\ new.revision = 2 /\ new.content = row.content
        /\ DOMAIN new = DOMAIN NoRow
    BY <1>1, <1>11
  <2>2. acked' = acked \cup {<<s, 2, row.content>>} /\ receipts' = receipts
    BY <1>1, <1>2, <1>11, <2>1
  <2>3. Keeps
    BY <1>10, <1>11, <2>2 DEF Keeps, Managed
  <2>4. <<s, 1, row.content>> \in acked /\ \A e \in acked : e[1] = s => e[2] = 1
    BY <1>3, <1>11 DEF RowInv
  <2>5. HistoryInv'
    <3>1. \A e \in acked : e[1] = s => e[3] = row.content
      BY <2>4 DEF IInv, ServerInv, HistoryInv
    <3> QED
      BY <2>2, <3>1, <2>4 DEF IInv, ServerInv, HistoryInv
  <2>6. ASSUME NEW x \in Shares PROVE RowInv(x)'
    <3>1. CASE x = s
      BY <1>5, <2>1, <2>2, <2>4, <3>1 DEF RowInv
    <3>2. CASE x # s
      BY <1>5, <2>2, <3>2 DEF RowInv, IInv, ServerInv
    <3> QED
      BY <3>1, <3>2
  <2>7. ReceiptInv'
    BY <1>10, <1>11, <2>2 DEF IInv, ReceiptInv, Repeats
  <2>8. s \in Managed
    BY <1>1, <1>11 DEF Kept, Gone
  <2>9. ActiveHasKey'
    BY <1>5, <2>8 DEF IInv, ActiveHasKey, Managed
  <2>10. Fair(m, a)
    BY <1>6, <1>11, <2>1, <2>2 DEF Fair, s
  <2>11. new # row
    BY <1>11, <2>1
  <2>12. ServerInv'
    BY <2>5, <2>6 DEF ServerInv
  <2> QED
    BY <1>9, <1>11, <2>1, <2>3, <2>7, <2>9, <2>10, <2>11, <2>12
<1>12. CASE /\ m.kind = "replace" /\ row.state = "active"
            /\ new.state = "active" /\ new.revision = row.revision + 1
            /\ new.content = m.content /\ DOMAIN new = DOMAIN NoRow
            /\ a = Ok(m, new)
  <2>1. /\ new.state = "active" /\ new.revision = row.revision + 1 /\ new.content = m.content
        /\ DOMAIN new = DOMAIN NoRow
    BY <1>12
  <2>2. row.revision \in Nat \ {0, 1} /\ \A e \in acked : e[1] = s => e[2] \in 1 .. row.revision
    BY <1>3, <1>12 DEF RowInv
  <2>3. acked' = acked \cup {<<s, new.revision, m.content>>} /\ new # row
    BY <1>2, <2>1, <2>2
  <2>4. Keeps
    BY <1>10, <1>12, <2>3 DEF Keeps, Managed
  <2>5. HistoryInv'
    <3>1. \A e \in acked : e[1] = s => e[2] # new.revision /\ e[2] \in Nat
      BY <2>1, <2>2
    <3>2. new.revision \in Nat \ {1, 2}
      BY <2>1, <2>2
    <3>3. ASSUME NEW e \in acked, e[1] = s
          PROVE  e[2] # new.revision /\ {e[2], new.revision} # {1, 2}
                 /\ {new.revision, e[2]} # {1, 2}
      BY <3>1, <3>2, <3>3
    <3> HIDE DEF row
    <3> QED
      BY <2>3, <3>2, <3>3 DEF IInv, ServerInv, HistoryInv
  <2>6. ASSUME NEW x \in Shares PROVE RowInv(x)'
    <3>1. CASE x = s
      BY <1>5, <2>1, <2>2, <2>3, <3>1 DEF RowInv
    <3>2. CASE x # s
      BY <1>5, <2>3, <3>2 DEF RowInv, IInv, ServerInv
    <3> QED
      BY <3>1, <3>2
  <2>7. ReceiptInv'
    <3>1. ASSUME NEW r \in receipts PROVE Repeats(r)'
      BY <1>10, <1>12, <2>3 DEF IInv, ReceiptInv, Repeats
    <3>2. a.content = m.content /\ <<s, a.revision, m.content>> \in acked'
      BY <1>6, <1>12, <2>1, <2>3
    <3>3. \A r \in receipts' : r \in receipts \/ (r.answer = a /\ r.hash = Hash(m))
      BY <1>2
    <3>4. ASSUME NEW r, r.answer = a, r.hash = Hash(m) PROVE Repeats(r)'
      BY <1>7, <1>12, <3>2, <3>4 DEF Repeats
    <3> QED
      BY <3>1, <3>3, <3>4 DEF ReceiptInv
  <2>8. ActiveHasKey'
    BY <1>1, <1>5, <1>12 DEF IInv, ActiveHasKey, Managed
  <2>9. Fair(m, a)
    BY <1>6, <1>12, <2>1, <2>3 DEF Fair, s
  <2>10. ServerInv'
    BY <2>5, <2>6 DEF ServerInv
  <2> QED
    BY <1>9, <1>12, <2>1, <2>3, <2>4, <2>7, <2>8, <2>9, <2>10
<1>13. CASE m.kind = "delete" /\ row.state # "gone" /\ new = GoneRow /\ a = Ok(m, new)
  <2>1. new.state = "gone" /\ DOMAIN new = DOMAIN NoRow /\ new # row
    BY <1>13 DEF GoneRow, NoRow
  <2>2. acked' = acked /\ Gone(s)'
    BY <1>2, <1>5, <2>1 DEF Gone
  <2>3. Keeps
    BY <1>10, <1>13, <2>2 DEF Keeps, Managed
  <2>4. HistoryInv'
    BY <2>2 DEF IInv, ServerInv, HistoryInv
  <2>5. ASSUME NEW x \in Shares PROVE RowInv(x)'
    <3>1. CASE x = s
      BY <1>5, <2>1, <3>1 DEF RowInv
    <3>2. CASE x # s
      BY <1>5, <2>2, <3>2 DEF RowInv, IInv, ServerInv
    <3> QED
      BY <3>1, <3>2
  <2>6. ReceiptInv'
    <3>1. ASSUME NEW r \in receipts PROVE Repeats(r)'
      BY <1>10, <1>13, <2>2 DEF IInv, ReceiptInv, Repeats
    <3>2. \A r \in receipts' : r \in receipts \/ r.hash = Hash(m)
      BY <1>2
    <3>3. ASSUME NEW r, r.hash = Hash(m) PROVE Repeats(r)'
      BY <1>1, <1>7, <1>13, <2>2, <3>3 DEF Repeats, Gone
    <3> QED
      BY <3>1, <3>2, <3>3 DEF ReceiptInv
  <2>7. ActiveHasKey'
    BY <1>1, <1>5, <2>1 DEF IInv, ActiveHasKey, Managed
  <2>8. Fair(m, a)
    BY <1>13, <2>2 DEF Fair, s
  <2>9. ServerInv'
    BY <2>4, <2>5 DEF ServerInv
  <2> QED
    BY <1>9, <1>13, <2>1, <2>3, <2>6, <2>7, <2>8, <2>9
<1> QED
  BY <1>4, <1>8, <1>11, <1>12, <1>13

LEMMA ServeKeeps ==
  ASSUME IInv, NEW m \in wire, Serve(m) PROVE IInv' /\ Keeps
<1>1. wire' = wire \ {m} /\ UNCHANGED vault
  BY DEF Serve
<1>2. CASE ServeAgain(m)
  BY <1>1, <1>2, ServeAgainKeeps
<1>3. CASE m.kind = "create" /\ ServeCreate(m)
  BY <1>1, <1>3, ServeCreateKeeps
<1>4. CASE m.kind # "create" /\ ServeOther(m)
  BY <1>1, <1>4, ServeOtherKeeps
<1> QED
  BY <1>2, <1>3, <1>4 DEF Serve

\* A step that leaves the server and the flows alone.
LEMMA WorldMoves ==
  ASSUME IInv, UNCHANGED <<receipts, acked>>, UNCHANGED <<rows, flow>>, wire' \subseteq wire,
         VaultStep
  PROVE  IInv' /\ Keeps
<1>1. \A s : Gone(s)' = Gone(s)
  BY DEF Gone
<1>2. Keeps /\ ActiveHasKey'
  BY <1>1 DEF VaultStep, IInv, ActiveHasKey, Keeps, Gone
<1>3. Shaped' /\ ServerInv' /\ ReceiptInv'
  BY <1>1 DEF IInv, Shaped, ServerInv, ReceiptInv, HistoryInv, RowInv, Repeats, VaultStep
<1>4. \A s : Kept(s) => Kept(s)'
  BY <1>1 DEF VaultStep, Kept
<1>5. WireInv'
  BY <1>4 DEF IInv, WireInv, Carried
<1>6. ASSUME NEW p \in Dialogs PROVE FlowInv(p)'
  BY <1>1, <1>4 DEF IInv, FlowInv, FlowKeeps, FlowWaits, Truthful, Sound
<1> QED
  BY <1>2, <1>3, <1>5, <1>6 DEF IInv, VaultStep

\* A playlist deleted locally leaves its records detached, with their keys.
LEMMA DetachedFacts ==
  ASSUME IInv, UNCHANGED acked,
         vault' = [vault EXCEPT !.publications = Detached(@, <<>>)]
  PROVE  VaultStep
<1>1. /\ DOMAIN vault' = DOMAIN vault
      /\ vault'.publications = Detached(vault.publications, <<>>)
  BY DEF IInv, Shaped
<1>2. ASSUME NEW r \in vault.publications
      PROVE  LET n == [r EXCEPT !.localPlaylistId = NoPlaylist, !.state = "local-deleted"]
             IN Sound(n) /\ n.shareId = r.shareId
  BY DEF IInv, VaultInv, Sound, RecordFields
<1>3. VaultInv'
  BY ZenonT(40), <1>1, <1>2 DEF Detached, IInv, VaultInv, Sound
<1>4. \A s \in Managed : s \in Managed'
  BY ZenonT(40), <1>1, <1>2 DEF Detached, Managed
<1> QED
  BY <1>1, <1>3, <1>4 DEF VaultStep

\* When an hour has passed, nothing is on its way and no flow runs.
LEMMA HourPassesKeeps == ASSUME IInv, HourPasses PROVE IInv' /\ Keeps
<1>1. /\ \A s \in Shares : \/ rows'[s] = rows[s] /\ rows[s].state # "pending"
                           \/ rows'[s] = GoneRow /\ rows[s].state = "pending"
      /\ DOMAIN rows' = Shares
  BY DEF HourPasses
<1>2. UNCHANGED <<receipts, acked>> /\ UNCHANGED flow /\ wire' = {}
      /\ \A p \in Dialogs : flow[p] = NoFlow
  BY DEF HourPasses
<1>3. /\ vault'.publications = vault.publications /\ DOMAIN vault' = DOMAIN vault
  BY DEF HourPasses, IInv, Shaped
<1>4. GoneRow.state = "gone" /\ DOMAIN GoneRow = DOMAIN NoRow
  BY DEF GoneRow, NoRow
<1>5. Keeps
  BY <1>1, <1>2, <1>3, <1>4 DEF Keeps, Gone, Managed
<1>6. Shaped' /\ VaultInv'
  BY <1>1, <1>2, <1>3, <1>4 DEF IInv, Shaped, VaultInv, Sound
<1>7. ServerInv'
  <2>1. HistoryInv'
    BY <1>2 DEF IInv, ServerInv, HistoryInv
  <2>2. ASSUME NEW s \in Shares PROVE RowInv(s)'
    BY <1>1, <1>2, <1>4 DEF IInv, ServerInv, RowInv
  <2> QED
    BY <2>1, <2>2 DEF ServerInv
<1>8. WireInv' /\ ReceiptInv'
  BY <1>2, <1>5 DEF IInv, WireInv, ReceiptInv, Repeats, Keeps
<1>9. ASSUME NEW p \in Dialogs PROVE FlowInv(p)'
  BY <1>2 DEF FlowInv, FlowKeeps, FlowWaits, HoldsRecord, Waits, NoFlow
<1>10. ActiveHasKey'
  BY <1>1, <1>3, <1>4 DEF IInv, ActiveHasKey, Managed
<1> QED
  BY <1>5, <1>6, <1>7, <1>8, <1>9, <1>10 DEF IInv

\* The worker takes its flows with it; the vault is stored.
LEMMA StopWorkerKeeps == ASSUME IInv, StopWorker PROVE IInv' /\ Keeps
<1>1. /\ UNCHANGED <<receipts, acked>> /\ UNCHANGED <<rows, vault>> /\ wire' = wire
      /\ DOMAIN flow' = Dialogs /\ \A p \in Dialogs : flow'[p] = NoFlow
  BY DEF StopWorker, server
<1>2. \A s : Gone(s)' = Gone(s) /\ Kept(s)' = Kept(s)
  BY <1>1 DEF Gone, Kept, Managed
<1>3. Keeps
  BY <1>1, <1>2 DEF Keeps, Managed
<1>4. Shaped' /\ VaultInv' /\ ActiveHasKey'
  BY <1>1 DEF IInv, Shaped, VaultInv, Sound, ActiveHasKey, Managed
<1>5. ServerInv' /\ WireInv' /\ ReceiptInv'
  BY <1>1, <1>2
     DEF IInv, ServerInv, HistoryInv, RowInv, WireInv, Carried, ReceiptInv, Repeats
<1>6. ASSUME NEW p \in Dialogs PROVE FlowInv(p)'
  BY <1>1 DEF FlowInv, FlowKeeps, FlowWaits, HoldsRecord, Waits, NoFlow
<1> QED
  BY <1>3, <1>4, <1>5, <1>6 DEF IInv

-----------------------------------------------------------------------------
(* The theorems.                                                           *)

\* Every step keeps the invariant, and what is gone and what is kept.
LEMMA StepKeeps == ASSUME IInv, [Next]_vars PROVE IInv' /\ Keeps
<1>1. ASSUME NEW p \in Dialogs, FlowStep(p) PROVE IInv' /\ Keeps
  BY <1>1, FlowMovesKeep, CheckPublishMoves, RecordPendingCreateMoves, SendCreateMoves,
     CreatedMoves, AbandonMoves, PersistMoves, SendCleanupMoves, CleanedUpMoves,
     SendActivateMoves, ActivatedMoves, FinalizeMoves, DropPendingCreateMoves,
     SendReplaceMoves, ReplacedMoves, KeepUpdateMoves, SendDeleteMoves, DeletedMoves
     DEF FlowStep
<1>2. ASSUME NEW p \in Dialogs,
             Publish(p) \/ Activate(p) \/ Update(p) \/ Delete(p) \/ DeleteRemote(p) \/ GiveUp(p)
      PROVE  IInv' /\ Keeps
  BY <1>2, FlowMovesKeep, PublishMoves, ActivateMoves, UpdateMoves, DeleteMoves, GiveUpMoves
<1>3. ASSUME NEW m \in wire, Serve(m) PROVE IInv' /\ Keeps
  BY <1>3, ServeKeeps
<1>4. CASE HourPasses
  BY <1>4, HourPassesKeeps
<1>5. CASE Edit \/ Decline \/ UNCHANGED vars
  <2>1. UNCHANGED <<receipts, acked>> /\ UNCHANGED <<vault, acked>>
    BY <1>5 DEF Edit, Decline, vars, server
  <2>2. UNCHANGED <<rows, flow>> /\ wire' \subseteq wire
    BY <1>5 DEF Edit, Decline, vars, server
  <2> QED
    BY <2>1, <2>2, VaultSame, WorldMoves
<1>6. CASE DeletePlaylistLocally
  <2>1. UNCHANGED <<receipts, acked>> /\ UNCHANGED <<rows, flow>>
    BY <1>6 DEF DeletePlaylistLocally, server
  <2>2. wire' \subseteq wire /\ VaultStep
    BY <1>6, <2>1, DetachedFacts DEF DeletePlaylistLocally
  <2> QED
    BY <2>1, <2>2, WorldMoves
<1>7. CASE StopWorker
  BY <1>7, StopWorkerKeeps
<1> QED
  BY <1>1, <1>2, <1>3, <1>4, <1>5, <1>6, <1>7 DEF Next

\* What a share, its key and everything that may still act on the two agree on,
\* always.
THEOREM Agreement == Spec => []IInv
<1>1. Init => IInv
  BY InitInv
<1>2. IInv /\ [Next]_vars => IInv'
  BY StepKeeps
<1> QED
  BY <1>1, <1>2, PTL DEF Spec

\* ADR 003: "No publicly visible snapshot can ever exist without a client-held
\* key", whatever is lost, repeated, late, failed or stopped.
THEOREM ActiveHasKeyAlways == Spec => []ActiveHasKey
<1>1. IInv => ActiveHasKey
  BY DEF IInv
<1> QED
  BY <1>1, Agreement, PTL

\* The vault forgets a key only when its share is gone from the server.
THEOREM KeyKept == Spec => KeyKeptUntilGone
<1>1. IInv /\ [Next]_vars => [\A s \in Managed : s \notin Managed' => rows[s].state = "gone"]_vars
  BY StepKeeps DEF Keeps, Gone
<1> QED
  BY <1>1, Agreement, PTL DEF Spec, KeyKeptUntilGone

\* A stored record claims only what the server acknowledged, and a badge that
\* says "clean" is right about the revision the record names.
THEOREM RecordAcknowledged == Spec => []RecordIsAcknowledged
<1>1. ASSUME IInv PROVE RecordIsAcknowledged
  <2> SUFFICES ASSUME NEW r \in vault.publications
               PROVE  /\ <<r.shareId, r.revision, r.acknowledgedHash>> \in acked
                      /\ r.sentSnapshot = r.acknowledgedHash
                      /\ r.contentHash = r.acknowledgedHash
                      /\ Dirty(r) = "clean" => <<r.shareId, r.revision, Local.content>> \in acked
    BY DEF RecordIsAcknowledged
  <2>1. Sound(r)
    BY <1>1 DEF IInv, VaultInv
  <2>2. Dirty(r) = "clean" => Local.content = r.acknowledgedHash
    BY DEF Dirty
  <2> QED
    BY <2>1, <2>2 DEF Sound
<1> QED
  BY <1>1, Agreement, PTL


(***************************************************************************)
(* One dialog never makes two active publications of its playlist          *)
(* (OnePublication), however its attempts are interrupted, retried,        *)
(* answered late or not at all.                                            *)
(*                                                                         *)
(* As long as the playlist is there, every record is linked to it, so a    *)
(* share that is not gone and whose key is in the vault keeps a publish    *)
(* flow from creating another one; and no flow can put a record back into  *)
(* the vault unless its share is still there or gone.                      *)
(***************************************************************************)


Linkable(r) == r.localPlaylistId = Playlist /\ r.state # "local-deleted"

\* The shares that can still be active.
Live == {s \in Managed : ~Gone(s)}

\* Two attempts that overlapped; a share made beside the attempt with this key;
\* two shares made by two such attempts.
Met(j, k)    == \E pair \in rivals : j \in pair /\ k \in pair
Beside(s, k) == \E pair \in rivals : k \in pair /\ \E key \in pair : CreatedAs(s, key)
MetIn(s, t)  == \E pair \in rivals : \A x \in {s, t} : \E key \in pair : CreatedAs(x, key)

FlowOne(p) ==
  LET f == flow[p] IN
  /\ f.at \in HoldsRecord => Linkable(f.record)
  /\ f.at \in HoldsRecord \ {"persist"} => Kept(f.share)
  /\ f.at = "created" =>
       /\ \A m \in f.request : m.key = f.key
       /\ f.answer # None /\ f.answer.code = "OK" => CreatedAs(f.answer.share, f.key)
  /\ f.at = "persist" => CreatedAs(f.share, f.key)
  /\ Exists /\ f.at \in Creates => \A s \in Live : Beside(s, f.key)

VaultOne ==
  /\ \A r, q \in vault.publications : r.shareId = q.shareId => r = q
  /\ Exists => \A r \in vault.publications : Linkable(r)

\* Whatever is made is made by attempts that met.
AttemptsMet == \A p, q \in Creating : p = q \/ Met(flow[p].key, flow[q].key)

OneInv ==
  /\ VaultOne /\ AttemptsMet
  /\ \A p \in Dialogs : FlowOne(p)
  /\ Exists => \A s, t \in Live : s = t \/ MetIn(s, t)

\* What a step of a flow does to the vault, except when it persists a new share.
VaultKeeps == VaultOne' /\ Live' \subseteq Live

\* What was made, and which attempts met, stays so.
History == receipts \subseteq receipts' /\ rivals \subseteq rivals'

LEMMA Remembers ==
  ASSUME History
  PROVE  /\ \A s, k : CreatedAs(s, k) => CreatedAs(s, k)'
         /\ \A j, k : Met(j, k) => Met(j, k)'
         /\ \A s, k : Beside(s, k) => Beside(s, k)'
         /\ \A s, t : MetIn(s, t) => MetIn(s, t)'
<1>1. \A s, k : CreatedAs(s, k) => CreatedAs(s, k)'
  BY DEF History, CreatedAs
<1>2. \A j, k : Met(j, k) => Met(j, k)'
  BY DEF History, Met
<1>3. \A s, k : Beside(s, k) => Beside(s, k)'
  BY <1>1 DEF History, Beside
<1>4. \A s, t : MetIn(s, t) => MetIn(s, t)'
  BY <1>1 DEF History, MetIn
<1> QED
  BY <1>1, <1>2, <1>3, <1>4

LEMMA InitOne == Init => OneInv
<1> SUFFICES ASSUME Init PROVE OneInv
  OBVIOUS
<1>1. \A p \in Dialogs : FlowOne(p)
  BY DEF Init, FlowOne, NoFlow, HoldsRecord, Creates
<1>2. \/ vault.publications = {}
      \/ \E r : vault.publications = {r} /\ Linkable(r)
  <2>1. CASE vault = [publications |-> {}, pendingCreates |-> {}]
    BY <2>1
  <2>2. CASE \E c \in Contents \ {Unpublishable} : Published(1, c)
    <3> PICK c \in Contents \ {Unpublishable} : Published(1, c)
      BY <2>2
    <3> DEFINE r == [shareId |-> 1, localPlaylistId |-> Playlist, revision |-> 2,
                     contentHash |-> c, sentSnapshot |-> c, acknowledgedHash |-> c,
                     state |-> "active"]
    <3>1. vault.publications = {r} /\ Linkable(r)
      BY DEF Published, Linkable
    <3> QED
      BY <3>1
  <2> QED
    BY <2>1, <2>2 DEF Init
<1>3. AttemptsMet
  BY DEF Init, AttemptsMet, Creating, Creates, NoFlow
<1> QED
  BY <1>1, <1>2, <1>3 DEF OneInv, VaultOne, Live, Managed

-----------------------------------------------------------------------------
(* The vault, while the server does not move.                              *)

LEMMA SameOne ==
  ASSUME IInv, OneInv, UNCHANGED <<vault, rows>>, UNCHANGED playlists PROVE VaultKeeps
BY DEF OneInv, VaultKeeps, VaultOne, Live, Managed, Gone, Exists

\* A record put back is of a share that is still in the vault, or gone.
LEMMA PutsOne ==
  ASSUME IInv, OneInv, NEW r, Linkable(r), Kept(r.shareId), Puts(r),
         UNCHANGED rows, UNCHANGED playlists
  PROVE  VaultKeeps
<1>1. vault'.publications = {q \in vault.publications : q.shareId # r.shareId} \cup {r}
  BY DEF Puts, Commits, PutPublication
<1>2. VaultOne'
  BY <1>1 DEF OneInv, VaultOne, Exists
<1>3. Live' \subseteq Live
  BY <1>1 DEF Live, Managed, Gone, Kept
<1> QED
  BY <1>2, <1>3 DEF VaultKeeps

LEMMA DropsOne ==
  ASSUME IInv, OneInv, NEW pending, Commits(vault.publications, pending),
         UNCHANGED rows, UNCHANGED playlists
  PROVE  VaultKeeps
<1>1. vault'.publications = vault.publications
  BY DEF Commits
<1> QED
  BY <1>1 DEF OneInv, VaultKeeps, VaultOne, Live, Managed, Gone, Exists

LEMMA DiscardsOne ==
  ASSUME IInv, OneInv, NEW s, Discards(s), UNCHANGED rows, UNCHANGED playlists
  PROVE  VaultKeeps
<1>1. vault'.publications = {r \in vault.publications : r.shareId # s}
  BY DEF Discards, Commits
<1> QED
  BY <1>1 DEF OneInv, VaultKeeps, VaultOne, Live, Managed, Gone, Exists

-----------------------------------------------------------------------------
(* A step of one flow.                                                     *)

LEMMA FlowOneFacts ==
  ASSUME IInv, OneInv, NEW p \in Dialogs
  PROVE  FlowOne(p) /\ DOMAIN flow = Dialogs /\ DOMAIN flow[p] = DOMAIN NoFlow /\ FlowKeeps(p)
BY FlowFacts DEF OneInv

\* Which leaves to show where the flow is afterwards, and that an attempt that is
\* new has met those under way.
LEMMA OneMoves ==
  ASSUME IInv, OneInv, NEW p \in Dialogs, FlowMoves(p), UNCHANGED playlists,
         rivals \subseteq rivals', VaultKeeps, FlowOne(p)',
         flow'[p].at \in Creates =>
           \A q \in Creating \ {p} : Met(flow[p].key, flow[q].key)'
  PROVE  OneInv'
<1>1. Keeps /\ History
  BY FlowMovesKeep DEF FlowMoves, server, History
<1>2. ASSUME NEW q \in Dialogs PROVE FlowOne(q)'
  <2>1. CASE q = p
    BY <2>1
  <2>2. CASE q # p
    <3>1. flow'[q] = flow[q] /\ FlowOne(q) /\ FlowKeeps(q)
      BY <2>2, FlowOneFacts DEF FlowMoves
    <3>2. Kept(flow[q].share) => Kept(flow[q].share)'
      BY <1>1, <3>1 DEF Keeps, Kept, FlowMoves, server, Gone
    <3>3. \A s : Beside(s, flow[q].key) => Beside(s, flow[q].key)'
      BY <1>1, <3>1 DEF Beside, History, CreatedAs
    <3>4. CreatedAs(flow[q].share, flow[q].key) => CreatedAs(flow[q].share, flow[q].key)'
      BY <1>1, <3>1 DEF History, CreatedAs
    <3>5. CreatedAs(flow[q].answer.share, flow[q].key)
            => CreatedAs(flow[q].answer.share, flow[q].key)'
      BY <1>1, <3>1 DEF History, CreatedAs
    <3> QED
      BY <3>1, <3>2, <3>3, <3>4, <3>5 DEF FlowOne, VaultKeeps, Exists
  <2> QED
    BY <2>1, <2>2
<1>3. AttemptsMet'
  <2>1. \A q \in Dialogs \ {p} : flow'[q] = flow[q]
    BY DEF FlowMoves
  <2>2. Creating' \subseteq Creating \cup {p}
    BY <2>1 DEF Creating
  <2>3. ASSUME NEW a \in Creating', NEW b \in Creating', a # b
        PROVE  Met(flow[a].key, flow[b].key)'
    <3>1. CASE a # p /\ b # p
      <4>1. Met(flow[a].key, flow[b].key)
        BY <2>2, <2>3, <3>1 DEF OneInv, AttemptsMet
      <4>2. flow'[a] = flow[a] /\ flow'[b] = flow[b]
        BY <2>1, <3>1 DEF Creating
      <4> QED
        BY <1>1, <4>1, <4>2 DEF Met, History
    <3>2. CASE a = p
      <4>1. b \in Creating \ {p} /\ flow'[b] = flow[b] /\ flow'[p].at \in Creates
        BY <2>1, <2>2, <2>3, <3>2 DEF Creating
      <4> QED
        BY <3>2, <4>1 DEF Met
    <3>3. CASE b = p
      <4>1. a \in Creating \ {p} /\ flow'[a] = flow[a] /\ flow'[p].at \in Creates
        BY <2>1, <2>2, <2>3, <3>3 DEF Creating
      <4> QED
        BY <3>3, <4>1 DEF Met
    <3> QED
      BY <3>1, <3>2, <3>3
  <2> QED
    BY <2>3 DEF AttemptsMet
<1>4. Exists' => \A s, t \in Live' : s = t \/ MetIn(s, t)'
  BY <1>1, Remembers DEF OneInv, VaultKeeps, Exists
<1> QED
  BY <1>2, <1>3, <1>4 DEF OneInv, VaultKeeps

\* Where nothing is asked of the record or the share.
Free == {"idle", "check", "abandon", "cleanup", "cleaned", "drop", "delete", "deleted"}

LEMMA OneFree ==
  ASSUME IInv, OneInv, NEW p \in Dialogs, FlowMoves(p), UNCHANGED playlists, UNCHANGED rivals,
         VaultKeeps, flow'[p].at \in Free
  PROVE  OneInv'
<1>1. FlowOne(p)' /\ flow'[p].at \notin Creates
  BY DEF FlowOne, Free, HoldsRecord, Creates
<1> QED
  BY <1>1, OneMoves

\* A flow that answers is over.
LEMMA ReplyOne ==
  ASSUME IInv, OneInv, NEW p \in Dialogs, FlowMoves(p), UNCHANGED playlists, UNCHANGED rivals,
         VaultKeeps, NEW told, Reply(p, told)
  PROVE  OneInv'
<1>1. flow'[p].at = "idle"
  BY FlowOneFacts DEF Reply, NoFlow
<1> QED
  BY <1>1, OneFree DEF Free

\* A record that stays with its flow, whose share is kept.
LEMMA OneHolds ==
  ASSUME IInv, OneInv, NEW p \in Dialogs, FlowMoves(p), UNCHANGED playlists, UNCHANGED rivals,
         VaultKeeps, flow'[p].at \in HoldsRecord \ {"persist"}, Linkable(flow'[p].record),
         Kept(flow'[p].share)
  PROVE  OneInv'
<1>1. Kept(flow[p].share)'
  <2> DEFINE s == flow'[p].share
  <2>1. Keeps /\ rows' = rows
    BY FlowMovesKeep DEF FlowMoves, server
  <2> QED
    BY <2>1 DEF Keeps, Kept, Gone
<1>2. FlowOne(p)' /\ flow'[p].at \notin Creates
  BY <1>1 DEF FlowOne, Linkable, HoldsRecord, Creates
<1> QED
  BY <1>2, OneMoves

\* What an attempt that has passed the check is known to have met.
Meets(p, k) ==
  /\ Exists => \A s \in Live : Beside(s, k)
  /\ \A q \in Creating \ {p} : Met(k, flow[q].key)

LEMMA MeetsKept ==
  ASSUME IInv, OneInv, NEW p \in Dialogs, flow[p].at \in Creates
  PROVE  Meets(p, flow[p].key)
BY FlowOneFacts DEF Meets, OneInv, AttemptsMet, Creating, FlowOne

\* The publish flow goes on with its key, and has met what it met.
LEMMA OneCreates ==
  ASSUME IInv, OneInv, NEW p \in Dialogs, FlowMoves(p), UNCHANGED playlists, UNCHANGED rivals,
         VaultKeeps, Meets(p, flow[p].key), flow'[p].key = flow[p].key,
         \/ flow'[p].at \in {"record", "create"}
         \/ /\ flow'[p].at = "created" /\ flow'[p].answer = None
            /\ \A m \in flow'[p].request : m.key = flow[p].key
         \/ /\ flow'[p].at = "persist" /\ Linkable(flow'[p].record)
            /\ CreatedAs(flow'[p].share, flow[p].key)
  PROVE  OneInv'
<1>1. History
  BY DEF FlowMoves, server, History
<1>2. \A k : \A q \in Creating : Met(k, flow[q].key) => Met(k, flow[q].key)'
  BY DEF Met, FlowMoves, Creating
<1>3. CreatedAs(flow'[p].share, flow[p].key) => CreatedAs(flow[p].share, flow[p].key)'
  BY DEF CreatedAs, FlowMoves, server
<1>4. Exists' => \A s \in Live' : Beside(s, flow[p].key)'
  BY <1>1 DEF Meets, VaultKeeps, Exists, Beside, CreatedAs, History
<1>5. FlowOne(p)'
  BY <1>3, <1>4 DEF FlowOne, HoldsRecord, Creates, Linkable
<1>6. \A q \in Creating \ {p} : Met(flow[p].key, flow[q].key)'
  BY DEF Meets, Met, FlowMoves, Creating
<1> QED
  BY <1>5, <1>6, OneMoves

-----------------------------------------------------------------------------
(* The steps of a flow, one by one.                                        *)

LEMMA CheckPublishOne ==
  ASSUME IInv, OneInv, NEW p \in Dialogs, CheckPublish(p) PROVE OneInv'
<1>1. FlowMoves(p) /\ UNCHANGED playlists
  BY CheckPublishMoves DEF CheckPublish
<1>2. UNCHANGED rows
  BY DEF CheckPublish, server
<1>3. VaultKeeps
  <2>1. CASE UNCHANGED vault
    BY <1>1, <1>2, <2>1, SameOne
  <2>2. CASE \E pending : Commits(vault.publications, pending)
    BY <1>1, <1>2, <2>2, DropsOne
  <2> QED
    BY <2>1, <2>2 DEF CheckPublish, CommitFails, Drops
<1>4. CASE (\E told : Reply(p, told)) /\ UNCHANGED rivals
  BY <1>1, <1>3, <1>4, ReplyOne
<1>5. CASE /\ ~AlreadyPublished
           /\ \E k, w : /\ flow' = [flow EXCEPT ![p].key = k, ![p].at = w]
                        /\ w \in {"create", "record"}
                        /\ rivals' = rivals \cup {{k, flow[q].key} : q \in Creating}
  <2> PICK k, w : /\ flow' = [flow EXCEPT ![p].key = k, ![p].at = w]
                  /\ w \in {"create", "record"}
                  /\ rivals' = rivals \cup {{k, flow[q].key} : q \in Creating}
    BY <1>5
  <2>1. /\ flow'[p].at \in {"record", "create"} /\ flow'[p].key = k
        /\ \A q \in Dialogs \ {p} : flow'[q] = flow[q]
    BY FlowOneFacts DEF NoFlow
  <2>2. Exists => Live = {}
    BY <1>5 DEF AlreadyPublished, Linked, OneInv, VaultOne, Linkable, Live, Managed
  <2>3. FlowOne(p)'
    BY <1>1, <1>3, <2>1, <2>2 DEF FlowOne, HoldsRecord, Creates, VaultKeeps, Exists
  <2>4. ASSUME NEW q \in Creating \ {p} PROVE Met(flow[p].key, flow[q].key)'
    <3>1. flow'[q] = flow[q] /\ {k, flow[q].key} \in rivals'
      BY <2>1 DEF Creating
    <3> QED
      BY <2>1, <3>1 DEF Met
  <2>5. rivals \subseteq rivals'
    OBVIOUS
  <2> QED
    BY <1>1, <1>3, <2>3, <2>4, <2>5, OneMoves
<1>6. CASE AlreadyPublished \/ ~Publishable(flow[p].content)
  BY <1>4, <1>6 DEF CheckPublish
<1>7. CASE ~(AlreadyPublished \/ ~Publishable(flow[p].content))
  <2> DEFINE k == IF SameAttempt(p) # {} THEN (CHOOSE r \in SameAttempt(p) : TRUE).idempotencyKey
                  ELSE <<p, dialog[p].ids>>
             w == IF SameAttempt(p) # {} THEN "create" ELSE "record"
  <2>1. /\ flow' = [flow EXCEPT ![p].key = k, ![p].at = w]
        /\ rivals' = rivals \cup {{k, flow[q].key} : q \in Creating}
    BY <1>7 DEF CheckPublish
  <2>2. w \in {"create", "record"}
    OBVIOUS
  <2> HIDE DEF k, w
  <2> QED
    BY <1>5, <1>7, <2>1, <2>2
<1> QED
  BY <1>6, <1>7

LEMMA RecordPendingCreateOne ==
  ASSUME IInv, OneInv, NEW p \in Dialogs, RecordPendingCreate(p) PROVE OneInv'
<1>1. FlowMoves(p) /\ UNCHANGED playlists /\ UNCHANGED rivals
  BY RecordPendingCreateMoves DEF RecordPendingCreate, world
<1>2. UNCHANGED rows
  BY DEF RecordPendingCreate, server
<1>3. CASE CommitFails /\ Reply(p, Told("persist-failed"))
  <2>1. UNCHANGED <<vault, rows>>
    BY <1>2, <1>3 DEF CommitFails
  <2> QED
    BY <1>1, <1>3, <2>1, SameOne, ReplyOne
<1>4. CASE /\ \E pending : Commits(vault.publications, pending)
           /\ flow' = [flow EXCEPT ![p].at = "create"]
  <2>1. VaultKeeps
    BY <1>1, <1>2, <1>4, DropsOne
  <2>2. flow'[p].at = "create" /\ flow'[p].key = flow[p].key
    BY <1>4, FlowOneFacts DEF NoFlow
  <2>3. Meets(p, flow[p].key)
    BY MeetsKept DEF RecordPendingCreate, At, Creates
  <2> QED
    BY <1>1, <2>1, <2>2, <2>3, OneCreates
<1> QED
  BY <1>3, <1>4 DEF RecordPendingCreate

LEMMA SendCreateOne ==
  ASSUME IInv, OneInv, NEW p \in Dialogs, SendCreate(p) PROVE OneInv'
<1>1. FlowMoves(p) /\ UNCHANGED playlists /\ UNCHANGED rivals
  BY SendCreateMoves DEF SendCreate, world
<1>2. UNCHANGED <<vault, rows>>
  BY DEF SendCreate, server
<1>3. /\ flow'[p].at = "created" /\ flow'[p].key = flow[p].key
      /\ flow'[p].answer = flow[p].answer
      /\ flow'[p].request = {Request(p, "create", None, flow[p].key, flow[p].content, 0)}
  BY FlowOneFacts DEF SendCreate, Send, NoFlow
<1>4. Meets(p, flow[p].key) /\ flow[p].answer = None
  BY MeetsKept, FlowFacts DEF SendCreate, At, Creates, FlowWaits, Waits
<1>5. \A m \in flow'[p].request : m.key = flow[p].key
  BY <1>3 DEF Request
<1>6. VaultKeeps
  BY <1>1, <1>2, SameOne
<1> QED
  BY <1>1, <1>3, <1>4, <1>5, <1>6, OneCreates

LEMMA CreatedOne ==
  ASSUME IInv, OneInv, NEW p \in Dialogs, Created(p) PROVE OneInv'
<1>1. FlowMoves(p) /\ UNCHANGED playlists /\ UNCHANGED rivals
  BY CreatedMoves DEF Created, world
<1>2. UNCHANGED <<vault, rows>>
  BY DEF Created, server
<1>3. VaultKeeps
  BY <1>1, <1>2, SameOne
<1>4. CASE \E told : Reply(p, told)
  BY <1>1, <1>3, <1>4, ReplyOne
<1>5. CASE flow' = [flow EXCEPT ![p].at = "abandon", ![p].answer = None]
  <2>1. flow'[p].at = "abandon"
    BY <1>5, FlowOneFacts DEF NoFlow
  <2> QED
    BY <1>1, <1>3, <2>1, OneFree DEF Free
<1>6. CASE /\ flow[p].answer.code = "OK"
           /\ flow' = [flow EXCEPT ![p].at = AfterCreate, ![p].answer = None,
                         ![p].share = flow[p].answer.share,
                         ![p].record = PendingRecord(p, flow[p].answer)]
  <2>1. /\ flow'[p].at = "persist" /\ flow'[p].record = PendingRecord(p, flow[p].answer)
        /\ flow'[p].key = flow[p].key /\ flow'[p].share = flow[p].answer.share
    BY <1>6, FlowOneFacts DEF NoFlow, AfterCreate
  <2>2. Linkable(PendingRecord(p, flow[p].answer))
    BY DEF Linkable, PendingRecord
  <2>3. Meets(p, flow[p].key)
    BY MeetsKept DEF Created, Answered, At, Creates
  <2>4. CreatedAs(flow[p].answer.share, flow[p].key)
    BY <1>6, FlowOneFacts DEF Created, Answered, At, FlowOne
  <2> QED
    BY <1>1, <1>3, <2>1, <2>2, <2>3, <2>4, OneCreates
<1> QED
  BY <1>4, <1>5, <1>6 DEF Created, FailureReply

\* The one step that adds a share to the vault: what was live there was made by
\* attempts this one met, and so were those under way.
LEMMA PersistOne == ASSUME IInv, OneInv, NEW p \in Dialogs, Persist(p) PROVE OneInv'
<1>1. FlowMoves(p) /\ UNCHANGED playlists /\ UNCHANGED rivals
  BY PersistMoves DEF Persist, world
<1>2. UNCHANGED rows
  BY DEF Persist, server
<1> DEFINE r == flow[p].record
           s == flow[p].share
           k == flow[p].key
<1>3. /\ flow[p].at = "persist" /\ Linkable(r) /\ r.shareId = s
      /\ CreatedAs(s, k) /\ Meets(p, k)
  BY MeetsKept, FlowOneFacts DEF Persist, At, FlowOne, HoldsRecord, Creates, FlowKeeps
<1>4. CASE CommitFails /\ flow' = [flow EXCEPT ![p].at = "cleanup"]
  <2>1. UNCHANGED <<vault, rows>>
    BY <1>2, <1>4 DEF CommitFails
  <2>2. flow'[p].at = "cleanup"
    BY <1>4, FlowOneFacts DEF NoFlow
  <2> QED
    BY <1>1, <2>1, <2>2, SameOne, OneFree DEF Free
<1>5. CASE Puts(r) /\ flow' = [flow EXCEPT ![p].at = "activate"]
  <2>1. vault'.publications = {q \in vault.publications : q.shareId # r.shareId} \cup {r}
    BY <1>5 DEF Puts, Commits, PutPublication
  <2>2. VaultOne'
    BY <1>1, <1>3, <2>1 DEF OneInv, VaultOne, Exists
  <2>3. Live' \subseteq Live \cup {s}
    BY <1>2, <1>3, <2>1 DEF Live, Managed, Gone
  <2>4. /\ flow'[p].at = "activate" /\ flow'[p].share = s /\ flow'[p].record = r
    BY <1>5, FlowOneFacts DEF NoFlow
  <2>5. s \in Managed' /\ History
    BY <1>1, <1>3, <2>1 DEF Managed, FlowMoves, server, History
  <2>6. FlowOne(p)'
    BY <1>3, <2>4, <2>5 DEF FlowOne, Linkable, HoldsRecord, Creates, Kept
  <2>7. ASSUME NEW q \in Dialogs, q # p PROVE FlowOne(q)'
    <3>1. flow'[q] = flow[q] /\ FlowOne(q) /\ FlowKeeps(q)
      BY <1>1, <2>7, FlowOneFacts DEF FlowMoves
    <3>2. Kept(flow[q].share) => Kept(flow[q].share)'
      BY <1>1, <3>1 DEF FlowMoves, VaultStep, server, Kept, Gone
    <3>3. \A x : Beside(x, flow[q].key) => Beside(x, flow[q].key)'
      BY <2>5, <3>1 DEF Beside, History, CreatedAs
    <3>4. /\ CreatedAs(flow[q].share, flow[q].key) => CreatedAs(flow[q].share, flow[q].key)'
          /\ CreatedAs(flow[q].answer.share, flow[q].key)
               => CreatedAs(flow[q].answer.share, flow[q].key)'
      BY <2>5, <3>1 DEF History, CreatedAs
    <3>5. flow[q].at \in Creates => Beside(s, flow[q].key)
      BY <1>3, <2>7 DEF Meets, Creating, Met, Beside
    <3> QED
      BY <1>1, <2>3, <3>1, <3>2, <3>3, <3>4, <3>5 DEF FlowOne, Exists
  <2>8. AttemptsMet'
    <3>1. Creating' \subseteq Creating /\ \A q \in Creating' : flow'[q] = flow[q]
      BY <1>1, <2>4 DEF Creating, Creates, FlowMoves
    <3> QED
      BY <1>1, <3>1 DEF OneInv, AttemptsMet, Met
  <2>9. Exists' => \A x, y \in Live' : x = y \/ MetIn(x, y)'
    <3>1. \A x \in Live : Exists => MetIn(x, s) /\ MetIn(s, x)
      BY <1>3 DEF Meets, Beside, MetIn
    <3>2. \A x, y : MetIn(x, y) => MetIn(x, y)'
      BY <2>5, Remembers
    <3> QED
      BY <1>1, <2>3, <3>1, <3>2 DEF OneInv, Exists
  <2> QED
    BY <2>2, <2>6, <2>7, <2>8, <2>9 DEF OneInv
<1> QED
  BY <1>4, <1>5 DEF Persist

LEMMA AbandonOne == ASSUME IInv, OneInv, NEW p \in Dialogs, Abandon(p) PROVE OneInv'
<1>1. FlowMoves(p) /\ UNCHANGED playlists /\ UNCHANGED rivals
  BY AbandonMoves DEF Abandon, world
<1>2. UNCHANGED rows
  BY DEF Abandon, server
<1>3. VaultKeeps
  <2>1. CASE UNCHANGED vault
    BY <1>1, <1>2, <2>1, SameOne
  <2>2. CASE \E pending : Commits(vault.publications, pending)
    BY <1>1, <1>2, <2>2, DropsOne
  <2> QED
    BY <2>1, <2>2 DEF Abandon, CommitFails, Drops
<1> QED
  BY <1>1, <1>3, ReplyOne DEF Abandon

LEMMA CleanedUpOne == ASSUME IInv, OneInv, NEW p \in Dialogs, CleanedUp(p) PROVE OneInv'
<1>1. FlowMoves(p) /\ UNCHANGED playlists /\ UNCHANGED rivals
  BY CleanedUpMoves DEF CleanedUp, world
<1>2. UNCHANGED rows
  BY DEF CleanedUp, server
<1>3. VaultKeeps
  <2>1. CASE UNCHANGED vault
    BY <1>1, <1>2, <2>1, SameOne
  <2>2. CASE \E pending : Commits(vault.publications, pending)
    BY <1>1, <1>2, <2>2, DropsOne
  <2> QED
    BY <2>1, <2>2 DEF CleanedUp, CommitFails, Drops
<1> QED
  BY <1>1, <1>3, ReplyOne DEF CleanedUp

LEMMA DropPendingCreateOne == ASSUME IInv, OneInv, NEW p \in Dialogs, DropPendingCreate(p) PROVE OneInv'
<1>1. FlowMoves(p) /\ UNCHANGED playlists /\ UNCHANGED rivals
  BY DropPendingCreateMoves DEF DropPendingCreate, world
<1>2. UNCHANGED rows
  BY DEF DropPendingCreate, server
<1>3. VaultKeeps
  <2>1. CASE UNCHANGED vault
    BY <1>1, <1>2, <2>1, SameOne
  <2>2. CASE \E pending : Commits(vault.publications, pending)
    BY <1>1, <1>2, <2>2, DropsOne
  <2> QED
    BY <2>1, <2>2 DEF DropPendingCreate, CommitFails, Drops
<1> QED
  BY <1>1, <1>3, ReplyOne DEF DropPendingCreate

LEMMA SendCleanupOne == ASSUME IInv, OneInv, NEW p \in Dialogs, SendCleanup(p) PROVE OneInv'
<1>1. FlowMoves(p) /\ UNCHANGED playlists /\ UNCHANGED rivals
  BY SendCleanupMoves DEF SendCleanup, world
<1>2. UNCHANGED rows
  BY DEF SendCleanup, server
<1>3. UNCHANGED <<vault, rows>>
  BY DEF SendCleanup, server
<1>4. flow'[p].at = "cleaned"
  BY FlowOneFacts DEF SendCleanup, Send, NoFlow
<1> QED
  BY <1>1, <1>3, <1>4, SameOne, OneFree DEF Free

LEMMA SendDeleteOne == ASSUME IInv, OneInv, NEW p \in Dialogs, SendDelete(p) PROVE OneInv'
<1>1. FlowMoves(p) /\ UNCHANGED playlists /\ UNCHANGED rivals
  BY SendDeleteMoves DEF SendDelete, world
<1>2. UNCHANGED rows
  BY DEF SendDelete, server
<1>3. UNCHANGED <<vault, rows>>
  BY DEF SendDelete, server
<1>4. flow'[p].at = "deleted"
  BY FlowOneFacts DEF SendDelete, Send, NoFlow
<1> QED
  BY <1>1, <1>3, <1>4, SameOne, OneFree DEF Free

LEMMA SendActivateOne == ASSUME IInv, OneInv, NEW p \in Dialogs, SendActivate(p) PROVE OneInv'
<1>1. FlowMoves(p) /\ UNCHANGED playlists /\ UNCHANGED rivals
  BY SendActivateMoves DEF SendActivate, world
<1>2. UNCHANGED rows
  BY DEF SendActivate, server
<1>3. UNCHANGED <<vault, rows>>
  BY DEF SendActivate, server
<1>4. Linkable(flow[p].record) /\ Kept(flow[p].share)
  BY FlowOneFacts DEF SendActivate, At, FlowOne, HoldsRecord
<1>5. /\ flow'[p].at = "activated" /\ flow'[p].record = flow[p].record
      /\ flow'[p].share = flow[p].share
  BY FlowOneFacts DEF SendActivate, Send, NoFlow
<1> QED
  BY <1>1, <1>3, <1>4, <1>5, SameOne, OneHolds DEF HoldsRecord

LEMMA ActivatedOne == ASSUME IInv, OneInv, NEW p \in Dialogs, Activated(p) PROVE OneInv'
<1>1. FlowMoves(p) /\ UNCHANGED playlists /\ UNCHANGED rivals
  BY ActivatedMoves DEF Activated, world
<1>2. UNCHANGED rows
  BY DEF Activated, server
<1>3. UNCHANGED <<vault, rows>>
  BY DEF Activated, server
<1>4. CASE \E told : Reply(p, told)
  BY <1>1, <1>3, <1>4, SameOne, ReplyOne
<1>5. CASE flow' = [flow EXCEPT ![p].at = "finalize", ![p].answer = None,
                                ![p].record = ActivatedRecord(@, flow[p].answer)]
  <2>1. /\ Linkable(flow[p].record) /\ Kept(flow[p].share) /\ DOMAIN flow[p].record = RecordFields
    BY FlowOneFacts DEF Activated, Answered, At, FlowOne, HoldsRecord, FlowKeeps, Sound
  <2>2. /\ flow'[p].at = "finalize" /\ flow'[p].share = flow[p].share
        /\ flow'[p].record = ActivatedRecord(flow[p].record, flow[p].answer)
    BY <1>5, FlowOneFacts DEF NoFlow
  <2>3. Linkable(flow'[p].record)
    BY <2>1, <2>2 DEF ActivatedRecord, Linkable, RecordFields
  <2> QED
    BY <1>1, <1>3, <2>1, <2>2, <2>3, SameOne, OneHolds DEF HoldsRecord
<1> QED
  BY <1>4, <1>5 DEF Activated, FailureReply

LEMMA FinalizeOne == ASSUME IInv, OneInv, NEW p \in Dialogs, Finalize(p) PROVE OneInv'
<1>1. FlowMoves(p) /\ UNCHANGED playlists /\ UNCHANGED rivals
  BY FinalizeMoves DEF Finalize, world
<1>2. UNCHANGED rows
  BY DEF Finalize, server
<1>3. Linkable(flow[p].record) /\ Kept(flow[p].record.shareId)
  BY FlowOneFacts DEF Finalize, At, FlowOne, HoldsRecord, FlowKeeps
<1>4. VaultKeeps
  <2>1. CASE UNCHANGED vault
    BY <1>1, <1>2, <2>1, SameOne
  <2>2. CASE Puts(flow[p].record)
    BY <1>1, <1>2, <1>3, <2>2, PutsOne
  <2> QED
    BY <2>1, <2>2 DEF Finalize, CommitFails
<1>5. CASE flow' = [flow EXCEPT ![p].at = "drop"]
  <2>1. flow'[p].at = "drop"
    BY <1>5, FlowOneFacts DEF NoFlow
  <2> QED
    BY <1>1, <1>4, <2>1, OneFree DEF Free
<1>6. CASE \E told : Reply(p, told)
  BY <1>1, <1>4, <1>6, ReplyOne
<1> QED
  BY <1>5, <1>6 DEF Finalize

LEMMA SendReplaceOne == ASSUME IInv, OneInv, NEW p \in Dialogs, SendReplace(p) PROVE OneInv'
<1>1. FlowMoves(p) /\ UNCHANGED playlists /\ UNCHANGED rivals
  BY SendReplaceMoves DEF SendReplace, world
<1>2. UNCHANGED rows
  BY DEF SendReplace, server
<1>3. UNCHANGED <<vault, rows>>
  BY DEF SendReplace, server
<1>4. CASE \E told : Reply(p, told)
  BY <1>1, <1>3, <1>4, SameOne, ReplyOne
<1>5. CASE \E m, c : Send(p, m, "replaced", [flow[p] EXCEPT !.content = c])
  <2>1. Linkable(flow[p].record) /\ Kept(flow[p].share)
    BY FlowOneFacts DEF SendReplace, At, FlowOne, HoldsRecord
  <2>2. /\ flow'[p].at = "replaced" /\ flow'[p].record = flow[p].record
        /\ flow'[p].share = flow[p].share
    BY <1>5, FlowOneFacts DEF Send, NoFlow
  <2> QED
    BY <1>1, <1>3, <2>1, <2>2, SameOne, OneHolds DEF HoldsRecord
<1> QED
  BY <1>4, <1>5 DEF SendReplace

LEMMA ReplacedOne == ASSUME IInv, OneInv, NEW p \in Dialogs, Replaced(p) PROVE OneInv'
<1>1. FlowMoves(p) /\ UNCHANGED playlists /\ UNCHANGED rivals
  BY ReplacedMoves DEF Replaced, world
<1>2. UNCHANGED rows
  BY DEF Replaced, server
<1>3. UNCHANGED <<vault, rows>>
  BY DEF Replaced, server
<1>4. CASE \E told : Reply(p, told)
  BY <1>1, <1>3, <1>4, SameOne, ReplyOne
<1>5. CASE flow' = [flow EXCEPT ![p].at = "keep", ![p].answer = None,
                                ![p].record = UpdatedRecord(p, flow[p].answer)]
  <2>1. /\ Linkable(flow[p].record) /\ Kept(flow[p].share) /\ DOMAIN flow[p].record = RecordFields
    BY FlowOneFacts DEF Replaced, Answered, At, FlowOne, HoldsRecord, FlowKeeps, Sound
  <2>2. /\ flow'[p].at = "keep" /\ flow'[p].share = flow[p].share
        /\ flow'[p].record = UpdatedRecord(p, flow[p].answer)
    BY <1>5, FlowOneFacts DEF NoFlow
  <2>3. Linkable(flow'[p].record)
    BY <2>1, <2>2 DEF UpdatedRecord, Linkable, RecordFields
  <2> QED
    BY <1>1, <1>3, <2>1, <2>2, <2>3, SameOne, OneHolds DEF HoldsRecord
<1> QED
  BY <1>4, <1>5 DEF Replaced, FailureReply

LEMMA KeepUpdateOne == ASSUME IInv, OneInv, NEW p \in Dialogs, KeepUpdate(p) PROVE OneInv'
<1>1. FlowMoves(p) /\ UNCHANGED playlists /\ UNCHANGED rivals
  BY KeepUpdateMoves DEF KeepUpdate, world
<1>2. UNCHANGED rows
  BY DEF KeepUpdate, server
<1>3. Linkable(flow[p].record) /\ Kept(flow[p].record.shareId)
  BY FlowOneFacts DEF KeepUpdate, At, FlowOne, HoldsRecord, FlowKeeps
<1>4. VaultKeeps
  <2>1. CASE UNCHANGED vault
    BY <1>1, <1>2, <2>1, SameOne
  <2>2. CASE Puts(flow[p].record)
    BY <1>1, <1>2, <1>3, <2>2, PutsOne
  <2> QED
    BY <2>1, <2>2 DEF KeepUpdate, CommitFails
<1> QED
  BY <1>1, <1>4, ReplyOne DEF KeepUpdate

LEMMA DeletedOne == ASSUME IInv, OneInv, NEW p \in Dialogs, Deleted(p) PROVE OneInv'
<1>1. FlowMoves(p) /\ UNCHANGED playlists /\ UNCHANGED rivals
  BY DeletedMoves DEF Deleted, world
<1>2. UNCHANGED rows
  BY DEF Deleted, server
<1>3. VaultKeeps
  <2>1. CASE UNCHANGED vault
    BY <1>1, <1>2, <2>1, SameOne
  <2>2. CASE Discards(flow[p].share)
    BY <1>1, <1>2, <2>2, DiscardsOne
  <2> QED
    BY <2>1, <2>2 DEF Deleted, CommitFails
<1>4. \E told : Reply(p, told)
  BY DEF Deleted, FailureReply
<1> QED
  BY <1>1, <1>3, <1>4, ReplyOne

-----------------------------------------------------------------------------
(* What the user starts, and what gives up.                                *)

LEMMA PublishOne == ASSUME IInv, OneInv, NEW p \in Dialogs, Publish(p) PROVE OneInv'
<1>1. FlowMoves(p) /\ UNCHANGED playlists /\ UNCHANGED rivals
  BY PublishMoves DEF Publish, world
<1>2. UNCHANGED <<vault, rows>>
  BY DEF Publish, server
<1>3. flow'[p].at = "check"
  BY FlowOneFacts DEF Publish, Starts, PublishFlow, NoFlow
<1> QED
  BY <1>1, <1>2, <1>3, SameOne, OneFree DEF Free

LEMMA ActivateOne == ASSUME IInv, OneInv, NEW p \in Dialogs, Activate(p) PROVE OneInv'
<1>1. FlowMoves(p) /\ UNCHANGED playlists /\ UNCHANGED rivals
  BY ActivateMoves DEF Activate, world
<1>2. UNCHANGED <<vault, rows>>
  BY DEF Activate, server
<1>3. PICK r \in Linked : Starts(p, ActivateFlow(r))
  BY DEF Activate
<1>4. flow'[p].at = "activate" /\ flow'[p].record = r /\ flow'[p].share = r.shareId
  BY <1>3, FlowOneFacts DEF Starts, ActivateFlow, NoFlow
<1>5. Linkable(r) /\ Kept(r.shareId)
  BY DEF Linked, Linkable, Kept, Managed
<1> QED
  BY <1>1, <1>2, <1>4, <1>5, SameOne, OneHolds DEF HoldsRecord

LEMMA UpdateOne == ASSUME IInv, OneInv, NEW p \in Dialogs, Update(p) PROVE OneInv'
<1>1. FlowMoves(p) /\ UNCHANGED playlists /\ UNCHANGED rivals
  BY UpdateMoves DEF Update, world
<1>2. UNCHANGED <<vault, rows>>
  BY DEF Update, server
<1>3. PICK r \in Linked : \E op : Starts(p, UpdateFlow(r, op, dialog[p].force))
  BY DEF Update
<1>4. flow'[p].at = "project" /\ flow'[p].record = r /\ flow'[p].share = r.shareId
  BY <1>3, FlowOneFacts DEF Starts, UpdateFlow, NoFlow
<1>5. Linkable(r) /\ Kept(r.shareId)
  BY DEF Linked, Linkable, Kept, Managed
<1> QED
  BY <1>1, <1>2, <1>4, <1>5, SameOne, OneHolds DEF HoldsRecord

LEMMA DeleteOne ==
  ASSUME IInv, OneInv, NEW p \in Dialogs, Delete(p) \/ DeleteRemote(p) PROVE OneInv'
<1>1. FlowMoves(p) /\ UNCHANGED playlists /\ UNCHANGED rivals
  BY DeleteMoves DEF Delete, DeleteRemote, world
<1>2. UNCHANGED <<vault, rows>>
  BY DEF Delete, DeleteRemote, server
<1>3. flow'[p].at = "delete"
  <2>1. \E kind, r, op, force : flow' = [flow EXCEPT ![p] = DeleteFlow(kind, r, op, force)]
    BY DEF Delete, DeleteRemote, Starts
  <2> QED
    BY <2>1, FlowOneFacts DEF DeleteFlow, NoFlow
<1> QED
  BY <1>1, <1>2, <1>3, SameOne, OneFree DEF Free

LEMMA GiveUpOne == ASSUME IInv, OneInv, NEW p \in Dialogs, GiveUp(p) PROVE OneInv'
<1>1. FlowMoves(p) /\ UNCHANGED playlists /\ UNCHANGED rivals
  BY GiveUpMoves DEF GiveUp, world
<1>2. UNCHANGED <<vault, rows>>
  BY DEF GiveUp, server
<1>3. VaultKeeps
  BY <1>1, <1>2, SameOne
<1>4. /\ flow'[p].at = flow[p].at /\ flow'[p].share = flow[p].share
      /\ flow'[p].record = flow[p].record /\ flow'[p].key = flow[p].key
      /\ flow'[p].request = {} /\ flow'[p].answer.code # "OK"
      /\ \A q \in Dialogs \ {p} : flow'[q] = flow[q]
  BY FlowOneFacts DEF GiveUp, NoFlow, Failed
<1>5. Kept(flow[p].share) => Kept(flow[p].share)'
  BY <1>2, <1>4 DEF Kept, Gone, Managed
<1>6. /\ \A s : CreatedAs(s, flow[p].key) => CreatedAs(s, flow[p].key)'
      /\ \A s : Beside(s, flow[p].key) => Beside(s, flow[p].key)'
      /\ CreatedAs(flow[p].share, flow[p].key) => CreatedAs(flow[p].share, flow[p].key)'
  BY <1>1, <1>4 DEF CreatedAs, Beside, FlowMoves, server
<1>7. FlowOne(p)'
  BY <1>1, <1>3, <1>4, <1>5, <1>6, FlowOneFacts DEF FlowOne, VaultKeeps, Exists
<1>8. flow[p].at \in Creates => \A q \in Creating \ {p} : Met(flow[p].key, flow[q].key)'
  BY <1>1, <1>4, MeetsKept DEF Meets, Met, Creating
<1> QED
  BY <1>1, <1>3, <1>4, <1>7, <1>8, OneMoves

-----------------------------------------------------------------------------
(* The server, and the world.                                              *)

\* A step that leaves the publications alone, and a flow where it is, unless it
\* is over, with its record, its share and its key; a share it is told of was
\* made with that key.
FlowStays(p) ==
  LET f == flow[p] IN
  /\ flow'[p].at = f.at /\ flow'[p].share = f.share /\ flow'[p].record = f.record
  /\ flow'[p].key = f.key /\ flow'[p].request \subseteq f.request
  /\ \/ flow'[p].answer = f.answer
     \/ f.at = "created" /\ flow'[p].answer.code = "OK" =>
          \E r \in receipts' : r.answer.share = flow'[p].answer.share /\ r.key = f.key

LEMMA WorldOne ==
  ASSUME IInv, OneInv, Keeps, vault'.publications = vault.publications, Exists' => Exists,
         receipts \subseteq receipts', rivals' = rivals,
         \A p \in Dialogs : flow'[p].at = "idle" \/ FlowStays(p)
  PROVE  OneInv'
<1>1. Managed' = Managed /\ Managed \subseteq Shares
  BY DEF Managed, IInv, VaultInv, Sound
<1>2. Live' \subseteq Live /\ History
  BY <1>1 DEF Live, Keeps, History
<1>3. VaultOne'
  BY DEF OneInv, VaultOne
<1>4. ASSUME NEW p \in Dialogs PROVE FlowOne(p)'
  <2>1. CASE flow'[p].at = "idle"
    BY <2>1 DEF FlowOne, HoldsRecord, Creates
  <2>2. CASE FlowStays(p)
    <3>1. flow[p].at \in HoldsRecord => flow[p].share \in Shares
      BY FlowOneFacts DEF FlowKeeps, Sound
    <3>2. flow[p].at \in HoldsRecord /\ Kept(flow[p].share) => Kept(flow[p].share)'
      BY <1>1, <2>2, <3>1 DEF Keeps, Kept, Gone, FlowStays
    <3>3. flow[p].at \in Creates /\ Exists' => \A s \in Live' : Beside(s, flow[p].key)'
      <4>1. \A s : Beside(s, flow[p].key) => Beside(s, flow[p].key)'
        BY <1>2, <2>2 DEF Beside, CreatedAs, History, FlowStays
      <4> QED
        BY <1>2, <4>1, FlowOneFacts DEF FlowOne
    <3>4. flow[p].at = "persist" => CreatedAs(flow[p].share, flow[p].key)'
      <4>1. flow[p].at = "persist" => CreatedAs(flow[p].share, flow[p].key)
        BY FlowOneFacts DEF FlowOne
      <4> QED
        BY <1>2, <2>2, <4>1 DEF CreatedAs, History, FlowStays
    <3>5. flow[p].at = "created" /\ flow'[p].answer # None /\ flow'[p].answer.code = "OK"
            => CreatedAs(flow[p].answer.share, flow[p].key)'
      <4>1. CASE flow'[p].answer = flow[p].answer
        <5>1. flow[p].at = "created" /\ flow[p].answer # None /\ flow[p].answer.code = "OK"
                => CreatedAs(flow[p].answer.share, flow[p].key)
          BY FlowOneFacts DEF FlowOne
        <5> QED
          BY <1>2, <2>2, <4>1, <5>1 DEF CreatedAs, History, FlowStays
      <4>2. CASE flow'[p].answer # flow[p].answer
        BY <2>2, <4>2 DEF CreatedAs, FlowStays
      <4> QED
        BY <4>1, <4>2
    <3>6. /\ flow'[p].at = flow[p].at /\ flow'[p].share = flow[p].share
          /\ flow'[p].record = flow[p].record /\ flow'[p].key = flow[p].key
          /\ flow'[p].request \subseteq flow[p].request
      BY <2>2 DEF FlowStays
    <3> QED
      BY <3>2, <3>3, <3>4, <3>5, <3>6, FlowOneFacts DEF FlowOne, Linkable
  <2> QED
    BY <2>1, <2>2
<1>5. AttemptsMet'
  <2>1. \A p \in Creating' : p \in Creating /\ flow'[p].key = flow[p].key
    BY DEF Creating, Creates, FlowStays
  <2> QED
    BY <2>1 DEF OneInv, AttemptsMet, Met
<1>6. Exists' => \A s, t \in Live' : s = t \/ MetIn(s, t)'
  BY <1>2, Remembers DEF OneInv
<1> QED
  BY <1>3, <1>4, <1>5, <1>6 DEF OneInv

\* An answer that tells of a new share tells of one made with the key of the
\* request: a create is answered once.
LEMMA ServeOne == ASSUME IInv, OneInv, NEW m \in wire, Serve(m) PROVE OneInv'
<1>1. Keeps /\ vault'.publications = vault.publications /\ (Exists' => Exists)
      /\ rivals' = rivals
  BY ServeKeeps DEF Serve, world, Exists
<1>2. receipts \subseteq receipts'
  BY DEF Serve, ServeAgain, ServeCreate, ServeOther, server
<1>3. m.from \in Dialogs
  BY DEF IInv, WireInv, Carried
<1>4. PICK a : /\ Deliver(m, a)
               /\ m.kind = "create" /\ a.code = "OK" =>
                    \E r \in receipts' : r.answer.share = a.share /\ r.key = m.key
  <2>1. CASE Prior(m) # {}
    <3>1. PICK r \in Prior(m) :
            Deliver(m, IF r.hash # Hash(m) THEN Failed("IDEMPOTENCY_CONFLICT")
                       ELSE IF m.kind = "create" THEN Failed("CREATE_RECEIPT_UNAVAILABLE")
                       ELSE r.answer)
      BY <2>1 DEF Serve, ServeAgain
    <3> QED
      BY <3>1 DEF Failed
  <2>2. CASE Prior(m) = {} /\ m.kind = "create"
    <3>1. ServeCreate(m)
      BY <2>2 DEF Serve
    <3> DEFINE s == CHOOSE x \in Unminted : TRUE
               row == [state |-> "pending", revision |-> 1, content |-> m.content]
               a == [Ok(m, row) EXCEPT !.share = s]
    <3>2. CASE Unminted = {}
      BY <3>1, <3>2 DEF ServeCreate, Failed
    <3>3. CASE Unminted # {}
      <4>1. /\ Deliver(m, a)
            /\ receipts' = receipts \cup {[key |-> m.key, hash |-> Hash(m), answer |-> a]}
        BY <3>1, <3>3 DEF ServeCreate
      <4> HIDE DEF a
      <4> DEFINE n == [key |-> m.key, hash |-> Hash(m), answer |-> a]
      <4>2. n.key = m.key /\ n.answer = a
        OBVIOUS
      <4>3. n \in receipts'
        BY <4>1
      <4> HIDE DEF n
      <4>4. \E r \in receipts' : r.answer.share = a.share /\ r.key = m.key
        BY <4>2, <4>3
      <4> QED
        BY <4>1, <4>4
    <3> QED
      BY <3>2, <3>3
  <2>3. CASE Prior(m) = {} /\ m.kind # "create"
    <3>1. ServeOther(m)
      BY <2>3 DEF Serve
    <3> QED
      BY <2>3, <3>1 DEF ServeOther
  <2> QED
    BY <2>1, <2>2, <2>3
<1>5. ASSUME NEW p \in Dialogs PROVE FlowStays(p)
  <2>1. CASE p = m.from /\ m \in flow[p].request
    <3>1. flow' = [flow EXCEPT ![p].answer = a, ![p].request = {}]
      BY <1>4, <2>1 DEF Deliver
    <3>2. /\ flow'[p].at = flow[p].at /\ flow'[p].share = flow[p].share
          /\ flow'[p].record = flow[p].record /\ flow'[p].key = flow[p].key
          /\ flow'[p].request = {} /\ flow'[p].answer = a
      BY <3>1, FlowOneFacts DEF NoFlow
    <3>3. flow[p].at = "created" => m.kind = "create" /\ m.key = flow[p].key
      BY <2>1, FlowFacts, FlowOneFacts DEF FlowWaits, FlowOne
    <3> QED
      BY <1>4, <3>2, <3>3 DEF FlowStays
  <2>2. CASE p # m.from \/ m \notin flow[p].request
    <3>1. flow'[p] = flow[p]
      BY <1>3, <1>4, <2>2, FlowOneFacts DEF Deliver
    <3> QED
      BY <3>1 DEF FlowStays
  <2> QED
    BY <2>1, <2>2
<1> QED
  BY <1>1, <1>2, <1>5, WorldOne

\* The playlist is deleted: its records are detached, one by one.
LEMMA DeletePlaylistLocallyOne ==
  ASSUME IInv, OneInv, DeletePlaylistLocally PROVE OneInv'
<1>1. ~Exists'
  BY DEF DeletePlaylistLocally, Exists, PlaylistIds
<1>2. vault'.publications = Detached(vault.publications, <<>>)
  BY DEF DeletePlaylistLocally, IInv, Shaped
<1>3. ASSUME NEW r \in vault.publications
      PROVE  [r EXCEPT !.localPlaylistId = NoPlaylist, !.state = "local-deleted"].shareId = r.shareId
  BY DEF IInv, VaultInv, Sound, RecordFields
<1>4. VaultOne'
  <2> DEFINE D(r) == IF r.localPlaylistId # NoPlaylist /\ r.localPlaylistId \notin PlaylistIds(<<>>)
                     THEN [r EXCEPT !.localPlaylistId = NoPlaylist, !.state = "local-deleted"]
                     ELSE r
  <2>1. vault'.publications = {D(r) : r \in vault.publications}
    BY <1>2 DEF Detached
  <2>2. \A r \in vault.publications : D(r).shareId = r.shareId
    BY <1>3
  <2> HIDE DEF D
  <2>3. ASSUME NEW x \in vault'.publications, NEW y \in vault'.publications,
               x.shareId = y.shareId
        PROVE  x = y
    <3>1. PICK r \in vault.publications : x = D(r)
      BY <2>1
    <3>2. PICK q \in vault.publications : y = D(q)
      BY <2>1
    <3> QED
      BY <2>2, <2>3, <3>1, <3>2 DEF OneInv, VaultOne
  <2> QED
    BY <1>1, <2>3 DEF VaultOne
<1>5. ASSUME NEW p \in Dialogs PROVE FlowOne(p)'
  <2>1. flow' = flow /\ rows' = rows /\ acked' = acked
    BY DEF DeletePlaylistLocally, server
  <2>2. Kept(flow[p].share) => Kept(flow[p].share)'
    <3>1. VaultStep
      BY <2>1, DetachedFacts DEF DeletePlaylistLocally
    <3> QED
      BY <2>1, <3>1 DEF VaultStep, Kept, Gone
  <2>3. \A s, k : CreatedAs(s, k)' = CreatedAs(s, k)
    BY DEF DeletePlaylistLocally, server, CreatedAs
  <2> QED
    BY <1>1, <2>1, <2>2, <2>3, FlowOneFacts DEF FlowOne, CreatedAs
<1>6. AttemptsMet'
  BY DEF DeletePlaylistLocally, OneInv, AttemptsMet, Creating, Met
<1> QED
  BY <1>1, <1>4, <1>5, <1>6 DEF OneInv

LEMMA StepOne ==
  ASSUME IInv, OneInv, [Next]_vars PROVE OneInv'
<1>1. ASSUME NEW p \in Dialogs, FlowStep(p) PROVE OneInv'
  BY <1>1, CheckPublishOne, RecordPendingCreateOne, SendCreateOne, CreatedOne, AbandonOne,
     PersistOne, SendCleanupOne, CleanedUpOne, SendActivateOne, ActivatedOne, FinalizeOne,
     DropPendingCreateOne, SendReplaceOne, ReplacedOne, KeepUpdateOne, SendDeleteOne, DeletedOne
     DEF FlowStep
<1>2. ASSUME NEW p \in Dialogs,
             Publish(p) \/ Activate(p) \/ Update(p) \/ Delete(p) \/ DeleteRemote(p) \/ GiveUp(p)
      PROVE  OneInv'
  BY <1>2, PublishOne, ActivateOne, UpdateOne, DeleteOne, GiveUpOne
<1>3. ASSUME NEW m \in wire, Serve(m) PROVE OneInv'
  BY <1>3, ServeOne
<1>4. Keeps
  BY StepKeeps
<1>5. CASE Edit \/ Decline \/ UNCHANGED vars
  <2>1. /\ vault' = vault /\ (Exists' => Exists) /\ flow' = flow
        /\ receipts' = receipts /\ rivals' = rivals
    BY <1>5 DEF Edit, Decline, vars, world, server, Exists
  <2> QED
    BY <1>4, <2>1, WorldOne DEF FlowStays
<1>6. CASE HourPasses
  <2>1. vault'.publications = vault.publications
    BY <1>6 DEF HourPasses, IInv, Shaped
  <2>2. playlists' = playlists /\ flow' = flow /\ receipts' = receipts /\ rivals' = rivals
    BY <1>6 DEF HourPasses, world
  <2> QED
    BY <1>4, <2>1, <2>2, WorldOne DEF Exists, FlowStays
<1>7. CASE StopWorker
  <2>1. /\ vault' = vault /\ playlists' = playlists /\ \A p \in Dialogs : flow'[p].at = "idle"
        /\ receipts' = receipts /\ rivals' = rivals
    BY <1>7 DEF StopWorker, world, server, NoFlow
  <2> QED
    BY <1>4, <2>1, WorldOne DEF Exists
<1>8. CASE DeletePlaylistLocally
  BY <1>8, DeletePlaylistLocallyOne
<1> QED
  BY <1>1, <1>2, <1>3, <1>5, <1>6, <1>7, <1>8 DEF Next

-----------------------------------------------------------------------------
\* Two of the records linked to the playlist are of active shares only if they
\* were made by attempts that overlapped, as long as the playlist is there
\* (publish-flow.ts refuses what is published already, and stores the share
\* later; management-flow.ts puts no key back that is gone).
THEOREM OnePublicationAlways == Spec => []OnePublication
<1>1. Init => OneInv
  BY InitOne
<1>2. IInv /\ OneInv /\ [Next]_vars => OneInv'
  BY StepOne
<1>3. IInv /\ OneInv => OnePublication
  BY DEF OneInv, VaultOne, OnePublication, Linked, Live, Managed, Gone, MetIn
<1> QED
  BY <1>1, <1>2, <1>3, Agreement, PTL DEF Spec
==============================================================================

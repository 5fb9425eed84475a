----------------------------- MODULE ShareImport -----------------------------
(***************************************************************************)
(* Saving a shared playlist from its page: the relay's requests, the book  *)
(* of pending imports, the confirmation windows, the commit, the record of *)
(* provenance and the anonymous notification.  src/apps/extension/src/     *)
(* share/{import-handler,import-requests,import-commit,import-notify,      *)
(* provenance,consent}.ts, src/apps/extension/entrypoints/import/main.ts   *)
(* and src/apps/web/public/share-page.js.                                  *)
(*                                                                         *)
(* A flow is one call of the background handler; a step of it is what runs *)
(* on the answer to its last await.  Every window is a page of its own: it *)
(* shows what its last call was answered.  Loading it anew forgets that    *)
(* call, which goes on all the same.                                       *)
(***************************************************************************)
EXTENDS Naturals, Integers, Sequences, FiniteSets

CONSTANTS
  Requests,     \* request ids the share page mints
  ShareOf,      \* the share each of them is about
  Tokens,       \* bound: imports admitted, 1 .. n
  Flows,        \* bound: calls of the handler at a time, 1 .. n
  MaxPending,   \* maxPending of the book
  MaxAttempts,  \* maxAttempts of commitImport
  MaxFaults,    \* bound: calls and writes that fail, workers that stop
  MaxClicks,    \* bound: what the user does besides the first choice in a window
  MaxEvents,    \* bound: other writes to the library, new revisions of the share
  None

ASSUME ShareImportAssumption ==
  /\ {MaxPending, MaxAttempts, MaxFaults, MaxClicks, MaxEvents} \subseteq Nat
  /\ Tokens \subseteq Nat \ {0} /\ 0 \notin Flows
  /\ ShareOf \in [Requests -> UNION {{ShareOf[r]} : r \in Requests}]

VARIABLES
  book,       \* pending: what is known of each token
  recent,     \* shares admitted within the throttle
  inflight,   \* tokens whose snapshot is being fetched
  flows,      \* the calls under way
  windows,    \* the confirmation windows, by token
  library,    \* [revision, lists, receipts] of the local repository; what was deleted of it
  records,    \* provenance
  consent,    \* the stored choice, the browser's grant, whether it was ever granted;
              \* what the options page shows of it and is deciding
  remote,     \* revision of the shares at the service
  sent,       \* what has been sent to the service
  used        \* bounds used up

vars == <<book, recent, inflight, flows, windows, library, records, consent, remote, sent, used>>

NoEntry == [state |-> "none", request |-> None, old |-> FALSE, preview |-> 0]
NoFlow  == [step |-> "idle", token |-> 0, request |-> None, preview |-> 0, list |-> 0,
            base |-> {}, revision |-> 0, attempt |-> 0, read |-> {}]
\* A window whose page was loaded once, or anew: with no confirmation behind it that
\* could have been saved, or with one, which it has forgotten.
NoWindow == [shows |-> "none", seen |-> 0, flow |-> 0, past |-> "once"]

Init ==
  /\ book = [t \in Tokens |-> NoEntry]
  /\ recent = {} /\ inflight = {}
  /\ flows = [f \in Flows |-> NoFlow]
  /\ windows = [t \in Tokens |-> NoWindow]
  /\ library = [revision |-> 1, lists |-> {}, receipts |-> {}, deleted |-> {}]
  /\ records = {}
  /\ \E choice \in {"granted", "undecided"} :
       consent = [choice |-> choice, native |-> TRUE, ever |-> choice = "granted",
                  shown |-> choice, deciding |-> {}]
  /\ remote = 1
  /\ sent = {}
  /\ used = [faults |-> 0, clicks |-> 0, events |-> 0, lists |-> 0, tokens |-> 0]

-----------------------------------------------------------------------------
(* The book                                                                *)

\* Entries past their lifetime go whenever the book is asked.
Swept(b) == [t \in Tokens |-> IF b[t].old THEN NoEntry ELSE b[t]]

Admission(b, request) ==
  IF \E t \in Tokens : b[t].request = request THEN "duplicate"
  ELSE IF ShareOf[request] \in recent THEN "throttled"
  ELSE IF Cardinality({t \in Tokens : b[t] # NoEntry}) >= MaxPending THEN "full"
  ELSE "accepted"

\* The first terminal state of an entry stands.
Settled(b, t, state) == [b EXCEPT ![t].state = IF @ = "awaiting" THEN state ELSE @]

Attached(b, t, revision) == [b EXCEPT ![t].preview = IF b[t].state = "awaiting" THEN revision ELSE @]

Effective == IF consent.choice = "granted" /\ ~consent.native THEN "undecided" ELSE consent.choice

-----------------------------------------------------------------------------
(* Flows                                                                   *)

Free    == {f \in Flows : flows[f].step = "idle"}
NewFlow == CHOOSE f \in Free : TRUE

Calls(flow) == Free # {} /\ flows' = [flows EXCEPT ![NewFlow] = flow]
At(f, step) == flows[f].step = step
Goes(f, step) == flows' = [flows EXCEPT ![f].step = step]
Ends(f)       == flows' = [flows EXCEPT ![f] = NoFlow]

\* What the window of token t shows once flow f has answered, if it still waits for it.
Answered(w, f, t, shows, seen) ==
  IF w[t].flow = f
  THEN [w EXCEPT ![t] = [shows |-> shows, flow |-> 0, past |-> w[t].past,
                         seen |-> IF seen = 0 THEN w[t].seen ELSE seen]]
  ELSE w
Answer(f, shows) == windows' = Answered(windows, f, flows[f].token, shows, 0)

Fault == used.faults < MaxFaults /\ used' = [used EXCEPT !.faults = @ + 1]
Click == used.clicks < MaxClicks /\ used' = [used EXCEPT !.clicks = @ + 1]
Event == used.events < MaxEvents /\ used' = [used EXCEPT !.events = @ + 1]

\* The share page asks; a declined user's request ends before the book is asked.
Request(r) ==
  /\ Click
  /\ Calls([NoFlow EXCEPT !.step = "begin", !.request = r])
  /\ UNCHANGED <<book, recent, inflight, windows, library, records, consent, remote, sent>>

\* Mutant: the snapshot is prefetched whatever the decision.
PrefetchesAlways == TRUE
Prefetches == Effective = "granted"

\* Consent has been read: a request is admitted and its snapshot prefetched.
Begin(f) ==
  /\ At(f, "begin")
  /\ LET b       == Swept(book)
         request == flows[f].request
         token   == used.tokens + 1
     IN IF Effective = "declined" THEN Ends(f) /\ UNCHANGED <<book, recent, inflight, sent, used>>
        ELSE IF Admission(b, request) # "accepted"
        THEN Ends(f) /\ book' = b /\ UNCHANGED <<recent, inflight, sent, used>>
        ELSE /\ token \in Tokens
             /\ used' = [used EXCEPT !.tokens = token]
             /\ book' = [b EXCEPT ![token] = [NoEntry EXCEPT !.state = "awaiting",
                                                             !.request = request]]
             /\ recent' = recent \cup {ShareOf[request]}
             /\ flows' = [flows EXCEPT ![f].step = "open", ![f].token = token]
             /\ IF Prefetches
                THEN inflight' = inflight \cup {token} /\ sent' = sent \cup {[kind |-> "get", request |-> request]}
                ELSE UNCHANGED <<inflight, sent>>
  /\ UNCHANGED <<windows, library, records, consent, remote>>

\* The window opens and asks for the details, or cannot be opened.
Open(f) ==
  /\ At(f, "open")
  /\ \/ /\ windows' = [windows EXCEPT ![flows[f].token] = [NoWindow EXCEPT !.shows = "opened"]]
        /\ UNCHANGED <<book, used>>
     \/ /\ Fault
        /\ book' = Settled(book, flows[f].token, "failed")
        /\ UNCHANGED windows
  /\ Ends(f)
  /\ UNCHANGED <<recent, inflight, library, records, consent, remote, sent>>

\* A window's call about its token, answered at once when the token is not pending.
Asks(t, step, shows) ==
  LET b == Swept(book)
  IN /\ book' = b
     /\ IF b[t].state = "awaiting"
        THEN /\ Calls([NoFlow EXCEPT !.step = step, !.token = t, !.request = b[t].request,
                                     !.preview = b[t].preview])
             /\ windows' = [windows EXCEPT ![t].shows = shows, ![t].flow = NewFlow]
        ELSE /\ windows' = [windows EXCEPT ![t].shows = "failed", ![t].flow = 0]
             /\ UNCHANGED flows
     /\ UNCHANGED <<recent, inflight, library, records, remote, sent>>

LoadWindow(t) ==
  /\ windows[t].shows = "opened" /\ UNCHANGED <<used, consent>>
  /\ Asks(t, "details", "loading")

\* What was ever saved for a token.
EverSaved(t) == {l \in library.lists \cup library.deleted : l.token = t}

ReloadWindow(t) ==
  /\ Click /\ windows[t].shows \notin {"none", "opened", "closed"}
  /\ LET confirmed == \/ EverSaved(t) # {}
                      \/ windows[t].shows = "saving" /\ windows[t].flow # 0
         past      == IF windows[t].past = "forgot" \/ confirmed THEN "forgot" ELSE "again"
     IN windows' = [windows EXCEPT ![t] = [NoWindow EXCEPT !.shows = "opened", !.past = past]]
  /\ UNCHANGED <<book, recent, inflight, flows, library, records, consent, remote, sent>>

-----------------------------------------------------------------------------
(* The snapshot                                                            *)

\* ensureSnapshot: at hand, being fetched for another flow, or to be fetched.
Ensures(f, have, wait) ==
  IF flows[f].preview # 0 THEN have /\ UNCHANGED <<inflight, sent>>
  ELSE /\ wait
       /\ inflight' = inflight \cup {flows[f].token}
       /\ sent' = sent \cup {[kind |-> "get", request |-> flows[f].request]}

Details(f) ==
  /\ At(f, "details")
  /\ LET t == flows[f].token
     IN IF Effective # "granted"
        THEN Answer(f, "consent") /\ Ends(f) /\ UNCHANGED <<inflight, sent>>
        ELSE Ensures(f, /\ windows' = Answered(windows, f, t, "preview", flows[f].preview)
                        /\ Ends(f),
                     Goes(f, "shown") /\ UNCHANGED windows)
  /\ UNCHANGED <<book, recent, library, records, consent, remote, used>>

\* The service answers: with its current revision, or not at all.  Every flow
\* that waits for this snapshot goes on.
Snapshot(t) ==
  /\ t \in inflight
  /\ inflight' = inflight \ {t}
  /\ \E revision \in {remote, 0} :
       LET waits(step) == {f \in Flows : At(f, step) /\ flows[f].token = t}
           ok          == revision # 0
       IN /\ IF ok THEN UNCHANGED used ELSE Fault
          /\ book' = IF ok THEN Attached(book, t, revision) ELSE book
          /\ flows' = [f \in Flows |->
               IF f \in waits("shown") \/ (f \in waits("snapshot") /\ ~ok) THEN NoFlow
               ELSE IF f \in waits("snapshot")
               THEN [flows[f] EXCEPT !.step = "read", !.preview = revision]
               ELSE flows[f]]
          /\ windows' = IF windows[t].flow \in waits("shown") \cup (IF ok THEN {} ELSE waits("snapshot"))
                        THEN Answered(windows, windows[t].flow, t,
                                      IF ok THEN "preview" ELSE "failed", revision)
                        ELSE windows
  /\ UNCHANGED <<recent, library, records, consent, remote, sent>>

-----------------------------------------------------------------------------
(* The decision                                                            *)

\* Agreeing asks the browser first; when it refuses, nothing is sent.
Decide(t, choice) ==
  /\ windows[t].shows = "consent" /\ Click
  /\ consent' = [consent EXCEPT !.native = @ \/ choice = "granted"]
  /\ Asks(t, choice, "deciding")

\* The decision is stored: the request ends, or goes on as the details do.
Decided(f) ==
  /\ \/ At(f, "granted") /\ Goes(f, "details") /\ UNCHANGED <<book, windows>>
     \/ /\ At(f, "declined")
        /\ book' = Settled(book, flows[f].token, "cancelled")
        /\ Answer(f, "declined") /\ Ends(f)
  /\ consent' = [consent EXCEPT !.choice = flows[f].step, !.ever = @ \/ At(f, "granted")]
  /\ library' = [library EXCEPT !.revision = @ + 1]
  /\ UNCHANGED <<recent, inflight, records, remote, sent, used>>

Undecided(f) ==
  /\ Fault
  /\ flows[f].step \in {"granted", "declined"}
  /\ Answer(f, IF At(f, "granted") THEN "failed" ELSE "declined") /\ Ends(f)
  /\ UNCHANGED <<book, recent, inflight, library, records, consent, remote, sent>>

-----------------------------------------------------------------------------
(* Confirmation                                                            *)

Confirm(t) ==
  /\ windows[t].shows = "preview" /\ UNCHANGED <<used, consent>>
  /\ Asks(t, "confirm", "saving")

Confirmed(f) ==
  /\ At(f, "confirm")
  /\ IF Effective # "granted"
     THEN Answer(f, "consent") /\ Ends(f) /\ UNCHANGED <<inflight, sent>>
     ELSE Ensures(f, Goes(f, "read"), Goes(f, "snapshot")) /\ UNCHANGED windows
  /\ UNCHANGED <<book, recent, library, records, consent, remote, used>>

\* commitImport mints the playlist once, and reads the library on every attempt.
ReadLibrary(f) ==
  /\ At(f, "read")
  /\ LET fresh == flows[f].list = 0
         list  == IF fresh THEN used.lists + 1 ELSE flows[f].list
     IN /\ used' = [used EXCEPT !.lists = IF fresh THEN @ + 1 ELSE @]
        /\ flows' = [flows EXCEPT ![f].step = "dispatch", ![f].list = list,
                                  ![f].base = library.lists, ![f].revision = library.revision,
                                  ![f].attempt = @ + 1]
  /\ UNCHANGED <<book, recent, inflight, windows, library, records, consent, remote, sent>>

\* Mutant: the receipt of an earlier command with this operation id is not looked up.
ConflictsNever(f) == FALSE
\* The request id has been used for another playlist.
Conflicts(f) == flows[f].request \in library.receipts

ListOf(f) == [id |-> flows[f].list, request |-> flows[f].request, token |-> flows[f].token,
              revision |-> flows[f].preview]

Failed(f) ==
  /\ book' = Settled(book, flows[f].token, "failed")
  /\ Answer(f, "failed") /\ Ends(f) /\ UNCHANGED library

\* replace-library with the request id for an operation id.
Dispatch(f) ==
  /\ At(f, "dispatch")
  /\ CASE Conflicts(f) -> Failed(f)
       [] ~Conflicts(f) /\ flows[f].revision # library.revision ->
            IF flows[f].attempt < MaxAttempts
            THEN Goes(f, "read") /\ UNCHANGED <<book, windows, library>> ELSE Failed(f)
       [] OTHER ->
            /\ library' = [library EXCEPT !.revision = @ + 1,
                                          !.lists    = flows[f].base \cup {ListOf(f)},
                                          !.receipts = @ \cup {flows[f].request}]
            /\ Goes(f, "records") /\ UNCHANGED <<book, windows>>
  /\ UNCHANGED <<recent, inflight, records, consent, remote, sent, used>>

\* A read or a write of the storage rejects: so does the call, which leaves the entry
\* as it was and a window that waits for it with what it shows.
Rejects(f) ==
  /\ flows[f].step \in {"begin", "details", "confirm", "read", "dispatch", "notify"} /\ Fault
  /\ windows' = [t \in Tokens |->
                   IF windows[t].flow = f THEN [windows[t] EXCEPT !.flow = 0] ELSE windows[t]]
  /\ Ends(f)
  /\ UNCHANGED <<book, recent, inflight, library, records, consent, remote, sent>>

ReadRecords(f) ==
  /\ At(f, "records")
  /\ flows' = [flows EXCEPT ![f].step = "append", ![f].read = records]
  /\ UNCHANGED <<book, recent, inflight, windows, library, records, consent, remote, sent, used>>

\* The entry is settled, the window is told, and the notification goes its own way.
Saved(f) ==
  /\ book' = Settled(book, flows[f].token, "committed")
  /\ Answer(f, "saved")
  /\ Goes(f, "notify")

\* The record goes to what was read, less what the library read before did not hold.
AppendRecord(f) ==
  /\ At(f, "append")
  /\ records' = {r \in flows[f].read : r.id \in {l.id : l \in flows[f].base}} \cup {ListOf(f)}
  /\ Saved(f)
  /\ UNCHANGED <<recent, inflight, library, consent, remote, sent, used>>

\* Mutant: the import fails with its record.
RecordFailsAll(f) ==
  /\ flows[f].step \in {"records", "append"} /\ Fault
  /\ Failed(f)
  /\ UNCHANGED <<recent, inflight, records, consent, remote, sent>>

RecordFails(f) ==
  /\ flows[f].step \in {"records", "append"} /\ Fault
  /\ Saved(f)
  /\ UNCHANGED <<recent, inflight, library, records, consent, remote, sent>>

\* One event per commit, sent again once when the first is not answered.
Notify(f) ==
  /\ At(f, "notify")
  /\ IF Effective = "granted"
     THEN Goes(f, "sending") /\ sent' = sent \cup {[kind |-> "event", request |-> flows[f].request]}
     ELSE Ends(f) /\ UNCHANGED sent
  /\ UNCHANGED <<book, recent, inflight, windows, library, records, consent, remote, used>>

Notified(f) ==
  /\ At(f, "sending") /\ Ends(f)
  /\ UNCHANGED <<book, recent, inflight, windows, library, records, consent, remote, sent, used>>

\* Cancel, or close what has been said: the window closes whatever is answered.
Cancel(t) ==
  /\ windows[t].shows \in {"loading", "consent", "deciding", "preview", "failed", "saved", "declined"}
  /\ Click
  /\ book' = Settled(book, t, "cancelled")
  /\ windows' = [windows EXCEPT ![t] = [@ EXCEPT !.shows = "closed", !.flow = 0]]
  /\ UNCHANGED <<recent, inflight, flows, library, records, consent, remote, sent>>

-----------------------------------------------------------------------------
(* The rest of the world                                                   *)

\* The throttle of 1.5 seconds, and the lifetime of a minute.
Unthrottle ==
  /\ recent # {} /\ recent' = {}
  /\ UNCHANGED <<book, inflight, flows, windows, library, records, consent, remote, sent, used>>

Expire(t) ==
  /\ Event
  /\ book[t] # NoEntry /\ ~book[t].old
  /\ book' = [book EXCEPT ![t].old = TRUE]
  /\ UNCHANGED <<recent, inflight, flows, windows, library, records, consent, remote, sent>>

\* The browser's own grant is withdrawn.
Revoke ==
  /\ Event
  /\ consent.native /\ consent' = [consent EXCEPT !.native = FALSE]
  /\ UNCHANGED <<book, recent, inflight, flows, windows, library, records, remote, sent>>

\* The consent section of the options page, drawn again after a change.
RenderSection ==
  /\ consent.shown # consent.choice
  /\ consent' = [consent EXCEPT !.shown = consent.choice]
  /\ UNCHANGED <<book, recent, inflight, flows, windows, library, records, remote, sent, used>>

Offered == IF consent.shown = "granted" THEN {"declined"}
           ELSE IF consent.shown = "declined" THEN {"granted"} ELSE {"granted", "declined"}

\* Buttons stay active until the section is drawn again: decisions may overlap.
\* A grant asks the browser first.
DecideInSection ==
  /\ Event
  /\ \E choice \in Offered :
       consent' = [consent EXCEPT !.deciding = @ \cup {IF choice = "granted" THEN "asking" ELSE choice}]
  /\ UNCHANGED <<book, recent, inflight, flows, windows, library, records, remote, sent>>

\* The browser agrees, or the user refuses there or does not answer in time.
BrowserAnswers ==
  /\ "asking" \in consent.deciding
  /\ \E agrees \in BOOLEAN :
       consent' = [consent EXCEPT !.native = @ \/ agrees,
                                  !.deciding = (@ \ {"asking"}) \cup (IF agrees THEN {"granted"} ELSE {})]
  /\ UNCHANGED <<book, recent, inflight, flows, windows, library, records, remote, sent, used>>

WriteDecision ==
  \E choice \in consent.deciding \cap {"granted", "declined"} :
    /\ \/ /\ consent' = [consent EXCEPT !.choice = choice, !.ever = @ \/ choice = "granted",
                                        !.deciding = @ \ {choice}]
          /\ library' = [library EXCEPT !.revision = @ + 1]
          /\ UNCHANGED used
       \/ /\ Fault
          /\ consent' = [consent EXCEPT !.deciding = @ \ {choice}]
          /\ UNCHANGED library
    /\ UNCHANGED <<book, recent, inflight, flows, windows, records, remote, sent>>

EditLibrary ==
  /\ Event
  /\ \E lists \in {library.lists} \cup {library.lists \ {l} : l \in library.lists} :
       library' = [library EXCEPT !.revision = @ + 1, !.lists = lists,
                                  !.deleted = @ \cup (library.lists \ lists)]
  /\ UNCHANGED <<book, recent, inflight, flows, windows, records, consent, remote, sent>>

Republish ==
  /\ Event /\ remote' = remote + 1
  /\ UNCHANGED <<book, recent, inflight, flows, windows, library, records, consent, sent>>

\* The background worker stops: what it held in memory is gone, and the call of a
\* window that waited for it is rejected, which leaves the window as it was.
WorkerStops ==
  /\ Fault
  /\ book' = [t \in Tokens |-> NoEntry]
  /\ recent' = {} /\ inflight' = {}
  /\ flows' = [f \in Flows |-> NoFlow]
  /\ windows' = [t \in Tokens |-> [windows[t] EXCEPT !.flow = 0]]
  /\ UNCHANGED <<library, records, consent, remote, sent>>

-----------------------------------------------------------------------------
Runs(f) ==
  \/ Begin(f) \/ Open(f) \/ Details(f) \/ Decided(f) \/ Confirmed(f) \/ ReadLibrary(f)
  \/ Dispatch(f) \/ ReadRecords(f) \/ AppendRecord(f) \/ Notify(f) \/ Notified(f)

Next ==
  \/ \E r \in Requests : Request(r)
  \/ \E f \in Flows : Runs(f) \/ Undecided(f) \/ Rejects(f) \/ RecordFails(f)
  \/ \E t \in Tokens : \/ LoadWindow(t) \/ ReloadWindow(t) \/ Confirm(t) \/ Cancel(t)
                       \/ Decide(t, "granted") \/ Decide(t, "declined")
                       \/ Snapshot(t) \/ Expire(t)
  \/ Unthrottle \/ Revoke \/ RenderSection \/ DecideInSection \/ BrowserAnswers \/ WriteDecision
  \/ EditLibrary \/ Republish \/ WorkerStops

Spec == Init /\ [][Next]_vars

-----------------------------------------------------------------------------

\* A request is saved once, however often its windows are loaded and confirmed,
\* its lifetime ends and it is asked again, or the library changes underneath.
SavedOnce ==
  \A l, m \in library.lists : l.request = m.request => l = m

Tells(t) ==
  LET w == windows[t]
  IN /\ w.shows = "saved" => \E l \in EverSaved(t) : w.past = "once" => l.revision = w.seen
     /\ w.shows \in {"failed", "declined", "preview", "consent"} /\ w.past # "forgot"
          => EverSaved(t) = {}

\* A window says what became of its import, whatever was published, deleted or
\* expired meanwhile and though its page was loaded anew: saved, when the library took
\* it (and the revision shown, unless a page before this one fetched another); failed,
\* declined or still to be confirmed, when it did not.  A page loaded over a confirmation
\* that saved or was still at work has forgotten it: what it then shows may be wrong.
WindowsTellTheTruth == \A t \in Tokens : Tells(t)

\* Nothing reaches the service before the user has agreed once, and an import is
\* counted there only when it was saved here.
OnlyAsAgreed ==
  \A s \in sent : consent.ever /\ (s.kind = "event" => s.request \in library.receipts)
=============================================================================

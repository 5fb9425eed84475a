-------------------------- MODULE ShareImportProofs --------------------------
(***************************************************************************)
(* Proofs about ShareImport, for any number of requests, tokens, calls of  *)
(* the handler and any bounds: a request is saved once, a window tells     *)
(* what became of its import, and the service hears of nothing before the  *)
(* user agreed.                                                            *)
(*                                                                         *)
(* The invariant follows a token from its admission to its answer: the one *)
(* call that acts for its window, the snapshot that call and that window   *)
(* hold, and what of it is in the library.  What becomes of a window whose *)
(* page was loaded anew is a second part of it.                            *)
(***************************************************************************)
EXTENDS ShareImport, TLAPS

BookStates == {"none", "awaiting", "cancelled", "committed", "failed"}

\* Where a flow acts for a window, and where it saves for one.
Confirming == {"confirm", "snapshot", "read", "dispatch"}
Recording  == {"records", "append"}
Serving    == {"details", "shown", "granted", "declined"} \cup Confirming \cup Recording
Notifying  == {"notify", "sending"}

Shown == {"none", "opened", "loading", "consent", "deciding", "preview", "saving", "saved",
          "failed", "declined", "closed"}

List == [id : Nat, request : Requests \cup {None}, token : Tokens \cup {0}, revision : Nat]
Entry == [state : BookStates, request : Requests \cup {None}, old : BOOLEAN, preview : Nat]
Flow == [step : {"idle", "begin", "open"} \cup Serving \cup Notifying,
         token : Tokens \cup {0}, request : Requests \cup {None}, preview : Nat, list : Nat,
         base : SUBSET List, revision : Nat, attempt : Nat, read : SUBSET List]
Window == [shows : Shown, seen : Nat, flow : Flows \cup {0}, past : {"once", "again", "forgot"}]

Library == [revision : Nat, lists : SUBSET List, receipts : SUBSET (Requests \cup {None}),
            deleted : SUBSET List]

Shape ==
  /\ book \in [Tokens -> Entry]
  /\ inflight \subseteq Tokens
  /\ flows \in [Flows -> Flow]
  /\ windows \in [Tokens -> Window]
  /\ library \in Library
  /\ records \subseteq List
  /\ remote \in Nat \ {0}
  /\ used \in [faults : Nat, clicks : Nat, events : Nat, lists : Nat, tokens : Nat]

\* The library a flow has read is the one it replaces, or an older revision.
\* Whatever is in the library has its receipt.
LibraryInv ==
  /\ SavedOnce
  /\ \A l \in library.lists : l.request \in library.receipts
  /\ \A f \in Flows : At(f, "dispatch") =>
       /\ flows[f].revision <= library.revision
       /\ flows[f].revision = library.revision => flows[f].base = library.lists

\* What has been saved has its receipt, and agreement is remembered.
ConsentInv ==
  /\ consent.choice = "granted" => consent.ever
  /\ \A f \in Flows : flows[f].step \in Recording \cup Notifying =>
                        flows[f].request \in library.receipts
  /\ OnlyAsAgreed

\* The token has not been admitted, or its window is still to be opened.
Unborn(t) ==
  /\ windows[t] = NoWindow /\ t \notin {l.token : l \in library.lists \cup library.deleted}

TokenInv ==
  /\ \A t \in Tokens : t > used.tokens =>
       /\ Unborn(t) /\ book[t].preview = 0 /\ t \notin inflight
       /\ \A f \in Flows : flows[f].token # t
  /\ \A f \in Flows :
       /\ flows[f].step \in {"idle", "begin"} => flows[f].token = 0
       /\ flows[f].step \notin {"idle", "begin"} => flows[f].token \in Tokens
       /\ At(f, "open") => /\ Unborn(flows[f].token)
                           /\ \A g \in Flows \ {f} : flows[g].token # flows[f].token

\* The steps a window may be waiting at for its flow.
WaitsAt(shows) ==
  IF shows = "loading" THEN {"details", "shown"}
  ELSE IF shows = "deciding" THEN {"granted", "declined", "details", "shown"}
  ELSE IF shows = "saving" THEN Confirming \cup Recording ELSE {}

Watched(t) == windows[t].past = "once" /\ windows[t].shows # "closed"

\* A window loaded once waits for the one flow that acts for it.
OneFlow(t) ==
  /\ windows[t].flow # 0 => /\ flows[windows[t].flow].token = t
                            /\ flows[windows[t].flow].step \in WaitsAt(windows[t].shows)
  /\ \A f \in Flows : flows[f].token = t /\ flows[f].step \in Serving => windows[t].flow = f

\* The snapshot it shows is the one that will be saved: once it has been shown or
\* handed to the flow, no other is on its way.
SeenInv(t) ==
  LET w == windows[t]
      f == w.flow
      fixed(p) == t \notin inflight /\ (book[t].state = "awaiting" => book[t].preview = p)
  IN /\ w.shows = "preview" => w.seen # 0 /\ fixed(w.seen)
     /\ f # 0 /\ flows[f].preview # 0 => fixed(flows[f].preview)
     /\ f # 0 /\ w.shows = "saving" => flows[f].preview = w.seen /\ w.seen # 0
     /\ f # 0 /\ flows[f].step = "shown" => flows[f].preview = 0
     /\ t \in inflight => book[t].preview = 0 \/ (f # 0 /\ flows[f].step = "shown")

\* What it shows agrees with the library.
ShownInv(t) ==
  LET w == windows[t] IN
  /\ EverSaved(t) # {} => w.shows \in {"saving", "saved"}
  /\ w.flow # 0 /\ flows[w.flow].step \in Confirming => EverSaved(t) = {}
  /\ w.shows = "saved" => \E l \in EverSaved(t) : l.revision = w.seen

RecordedInv ==
  \A f \in Flows : flows[f].step \in Recording => ListOf(f) \in library.lists \cup library.deleted

WindowInv == \A t \in Tokens : Watched(t) => OneFlow(t) /\ SeenInv(t) /\ ShownInv(t)

ClosedInv == \A t \in Tokens : windows[t].shows = "closed" => windows[t].flow = 0

ImportInv ==
  /\ Shape /\ LibraryInv /\ ConsentInv /\ TokenInv /\ WindowInv /\ RecordedInv /\ ClosedInv

\* A window loaded anew, over no confirmation that saved or could still save: of the
\* calls of its earlier page none saves, so that only the one it waits for does.
Saving == Confirming \cup Recording

Again(t) == windows[t].past = "again" /\ windows[t].shows # "closed"

AgainOk(t) ==
  LET w == windows[t] IN
  /\ \A f \in Flows : flows[f].token = t /\ flows[f].step \in Saving =>
                         w.flow = f /\ w.shows = "saving"
  /\ \A f \in Flows : flows[f].token = t /\ flows[f].step \in Confirming => EverSaved(t) = {}
  /\ EverSaved(t) # {} => w.shows \in {"saving", "saved"}
  /\ w.flow # 0 => /\ w.shows \in {"loading", "deciding", "saving"}
                   /\ w.shows = "saving" => /\ flows[w.flow].token = t
                                            /\ flows[w.flow].step \in Saving

ReloadInv ==
  /\ \A t \in Tokens : Again(t) => AgainOk(t)
  /\ \A t \in Tokens : windows[t].shows = "saved" => EverSaved(t) # {}

-----------------------------------------------------------------------------
(* Facts of the state.                                                     *)

\* A call starts in a place that is idle.
LEMMA NewFlowFacts == ASSUME Free # {} PROVE NewFlow \in Flows /\ At(NewFlow, "idle")
BY DEF Free, NewFlow, At

LEMMA WaitsAreServing ==
  ASSUME NEW shows, NEW step \in WaitsAt(shows) PROVE step \in Serving
BY DEF WaitsAt, Serving, Confirming, Recording

\* A token whose window has been opened.
Born(t) ==
  /\ t \in Tokens /\ t <= used.tokens
  /\ \A f \in Flows : At(f, "open") => flows[f].token # t

\* What is shown somewhere, or served, has been born.
LEMMA BornFacts ==
  ASSUME ImportInv
  PROVE  /\ \A t \in Tokens : windows[t] # NoWindow => Born(t)
         /\ \A f \in Flows : flows[f].step \notin {"idle", "begin", "open"} => Born(flows[f].token)
<1> USE DEF ImportInv
<1>1. \A t \in Tokens : t \in Nat /\ used.tokens \in Nat
  BY ShareImportAssumption DEF Shape
<1>2. ASSUME NEW t \in Tokens, windows[t] # NoWindow PROVE Born(t)
  BY <1>1, <1>2 DEF Born, TokenInv, Unborn, At
<1>3. ASSUME NEW f \in Flows, flows[f].step \notin {"idle", "begin", "open"}
      PROVE  Born(flows[f].token)
  BY <1>1, <1>3 DEF Born, TokenInv, At
<1> QED
  BY <1>2, <1>3

-----------------------------------------------------------------------------
(* What a step that touches little leaves alone.                           *)

\* A window, its token's snapshot, lists and calls are as they were.
LEMMA WindowFrame ==
  ASSUME ImportInv, NEW t \in Tokens, Watched(t)',
         windows'[t] = windows[t],
         t \in inflight' => t \in inflight,
         book'[t].state = "awaiting" =>
           book[t].state = "awaiting" /\ book'[t].preview = book[t].preview,
         book'[t].preview \in {0, book[t].preview},
                  {l \in library'.lists \cup library'.deleted : l.token = t} = EverSaved(t),
         \A f \in Flows : flows[f].token = t /\ flows[f].step \in Serving => flows'[f] = flows[f],
         \A f \in Flows : flows'[f].token = t /\ flows'[f].step \in Serving => flows'[f] = flows[f]
  PROVE  OneFlow(t)' /\ SeenInv(t)' /\ ShownInv(t)'
<1> USE DEF ImportInv
<1>1. Watched(t) /\ OneFlow(t) /\ SeenInv(t) /\ ShownInv(t)
  BY DEF Watched, WindowInv
<1>2. windows[t].flow \in Flows \cup {0}
  BY DEF Shape, Window
<1>3. windows[t].flow # 0 => flows'[windows[t].flow] = flows[windows[t].flow]
  BY <1>1, <1>2, WaitsAreServing DEF OneFlow
<1>4. OneFlow(t)'
  BY <1>1, <1>3 DEF OneFlow
<1>5. SeenInv(t)'
  BY <1>1, <1>3 DEF SeenInv
<1>6. EverSaved(t)' = EverSaved(t)
  BY DEF EverSaved
<1>8. ShownInv(t)'
  BY <1>1, <1>3, <1>6 DEF ShownInv
<1> QED
  BY <1>4, <1>5, <1>8

\* No call reads the library, and the library stays or loses lists at a new revision.
LEMMA LibraryFrame ==
  ASSUME ImportInv,
         library' = library \/
           /\ library'.revision = library.revision + 1 /\ library'.lists \subseteq library.lists
           /\ library'.receipts = library.receipts,
         \A f \in Flows : flows'[f].step = "dispatch" => flows'[f] = flows[f]
  PROVE  LibraryInv'
<1> USE DEF ImportInv
<1>1. library.revision \in Nat /\ \A f \in Flows : flows[f].revision \in Nat
  BY DEF Shape, Flow, Library
<1>2. SavedOnce' /\ \A l \in library'.lists : l.request \in library'.receipts
  BY DEF LibraryInv, SavedOnce
<1>3. ASSUME NEW f \in Flows, At(f, "dispatch")'
      PROVE  /\ flows'[f].revision <= library'.revision
             /\ flows'[f].revision = library'.revision => flows'[f].base = library'.lists
  BY <1>1, <1>3 DEF LibraryInv, At
<1> QED
  BY <1>2, <1>3 DEF LibraryInv

\* Nothing is recorded anew, and only who has agreed sends.
LEMMA ConsentFrame ==
  ASSUME ImportInv, library.receipts \subseteq library'.receipts,
         consent.ever => consent'.ever, consent'.choice = "granted" => consent'.ever,
         \A f \in Flows : flows'[f].step \in Recording \cup Notifying =>
           flows[f].step \in Recording \cup Notifying /\ flows'[f].request = flows[f].request,
         \A s \in sent' : s \in sent \/
           (consent'.ever /\ (s.kind = "event" => s.request \in library.receipts))
  PROVE  ConsentInv'
BY DEF ImportInv, ConsentInv, OnlyAsAgreed

\* No token is admitted, no window opened, and calls serve what has been born.
LEMMA TokenFrame ==
  ASSUME ImportInv, used'.tokens = used.tokens,
         \A t \in Tokens : ~Born(t) =>
           /\ windows'[t] = windows[t]
           /\ t \in {l.token : l \in library'.lists \cup library'.deleted} => t \in {l.token : l \in library.lists \cup library.deleted}
           /\ t > used.tokens => /\ book'[t].preview \in {0, book[t].preview}
                                 /\ t \in inflight' => t \in inflight,
         \A f \in Flows : \/ flows'[f] = flows[f]
                          \/ flows'[f].token = 0 /\ flows'[f].step \in {"idle", "begin"}
                          \/ /\ flows'[f].step \notin {"idle", "begin", "open"}
                             /\ Born(flows'[f].token)
  PROVE  TokenInv'
<1> USE DEF ImportInv
<1>1. \A t \in Tokens : t \in Nat \ {0} /\ used.tokens \in Nat
  BY ShareImportAssumption DEF Shape
<1>2. ASSUME NEW t \in Tokens, t > used'.tokens
      PROVE  /\ Unborn(t)' /\ book'[t].preview = 0 /\ t \notin inflight'
             /\ \A f \in Flows : flows'[f].token # t
  <2>1. ~Born(t)
    BY <1>1, <1>2 DEF Born
  <2>2. /\ Unborn(t) /\ book[t].preview = 0 /\ t \notin inflight
        /\ \A f \in Flows : flows[f].token # t
    BY <1>2 DEF TokenInv
  <2>3. Unborn(t)'
    BY <2>1, <2>2 DEF Unborn
  <2>4. \A f \in Flows : flows'[f].token # t
    BY <1>1, <2>1, <2>2
  <2>5. t > used.tokens
    BY <1>2
  <2>6. book'[t].preview = 0 /\ t \notin inflight'
    BY <2>1, <2>2, <2>5
  <2> QED
    BY <2>3, <2>4, <2>6
<1>3. ASSUME NEW f \in Flows
      PROVE  /\ flows'[f].step \in {"idle", "begin"} => flows'[f].token = 0
             /\ flows'[f].step \notin {"idle", "begin"} => flows'[f].token \in Tokens
  BY DEF TokenInv, Born
<1>4. ASSUME NEW f \in Flows, At(f, "open")'
      PROVE  /\ Unborn(flows[f].token)'
             /\ \A g \in Flows \ {f} : flows'[g].token # flows'[f].token
  <2>1. flows'[f] = flows[f] /\ At(f, "open") /\ flows[f].token \in Tokens
    BY <1>4 DEF At, TokenInv
  <2>2. Unborn(flows[f].token) /\ \A g \in Flows \ {f} : flows[g].token # flows[f].token
    BY <2>1 DEF TokenInv
  <2>3. ~Born(flows[f].token)
    BY <2>1 DEF Born
  <2> DEFINE u == flows[f].token
  <2>4. Unborn(u)'
    BY <2>1, <2>2, <2>3 DEF Unborn
  <2>5. \A g \in Flows \ {f} : flows'[g].token # flows'[f].token
    BY <1>1, <2>1, <2>2, <2>3
  <2> QED
    BY <2>1, <2>4, <2>5
<1> QED
  BY <1>2, <1>3, <1>4 DEF TokenInv

\* What has been saved is still there, unless somebody else edits the library.
LEMMA RecordedFrame ==
  ASSUME ImportInv, library.lists \cup library.deleted \subseteq library'.lists \cup library'.deleted,
         \A f \in Flows : flows'[f].step \in Recording =>
           flows[f].step \in Recording /\ ListOf(f)' = ListOf(f)
  PROVE  RecordedInv'
  BY DEF ImportInv, RecordedInv

-----------------------------------------------------------------------------
(* Answers, moves and questions of the calls that serve a window.          *)

\* The window that waits for the call is answered; every other one stays.
LEMMA AnswerFrame ==
  ASSUME ImportInv, NEW f \in Flows, flows[f].step \in Serving,
         NEW shows \in Shown \ {"closed"}, NEW seen \in Nat, NEW u, u = flows[f].token,
         windows' = Answered(windows, f, u, shows, seen)
  PROVE  /\ u \in Tokens /\ windows' \in [Tokens -> Window] /\ ClosedInv'
         /\ \A t \in Tokens : t # u \/ ~Born(t) => windows'[t] = windows[t]
         /\ windows[u].flow # f => windows' = windows
         /\ windows[u].flow = f =>
              /\ windows'[u].shows = shows /\ windows'[u].flow = 0
              /\ windows'[u].past = windows[u].past
              /\ seen # 0 => windows'[u].seen = seen
              /\ seen = 0 => windows'[u].seen = windows[u].seen
<1> USE DEF ImportInv
<1>1. u \in Tokens /\ Born(u) /\ f # 0
  BY BornFacts, ShareImportAssumption DEF Serving, Confirming, Recording, Born
<1>2. windows[u] \in Window
  BY <1>1 DEF Shape
<1> DEFINE now == [shows |-> shows, flow |-> 0, past |-> windows[u].past,
                   seen |-> IF seen = 0 THEN windows[u].seen ELSE seen]
<1>3. windows[u].flow = f => windows' = [windows EXCEPT ![u] = now]
  BY DEF Answered
<1>4. windows[u].flow # f => windows' = windows
  BY DEF Answered
<1>5. now \in Window
  BY <1>2 DEF Window
<1>6. windows' \in [Tokens -> Window]
  BY <1>3, <1>4, <1>5 DEF Shape
<1>7. \A t \in Tokens : t # u => windows'[t] = windows[t]
  BY <1>3, <1>4 DEF Shape
<1>8. windows[u].flow = f => windows'[u] = now
  BY <1>1, <1>3 DEF Shape
<1>9. ClosedInv'
  BY <1>4, <1>7, <1>8 DEF ClosedInv
<1> QED
  BY <1>1, <1>4, <1>6, <1>7, <1>8, <1>9

\* A window loaded once that still shows something was the one that waited.
LEMMA AnswerFacts ==
  ASSUME ImportInv, NEW f \in Flows, flows[f].step \in Serving,
         NEW shows \in Shown \ {"closed"}, NEW seen \in Nat, NEW u, u = flows[f].token,
         windows' = Answered(windows, f, u, shows, seen), Watched(u)'
  PROVE  Watched(u) /\ windows[u].flow = f
<1> USE DEF ImportInv
<1>1. /\ u \in Tokens
      /\ windows[u].flow # f => windows' = windows
      /\ windows[u].flow = f => windows'[u].past = windows[u].past
  BY AnswerFrame
<1>2. f # 0
  BY ShareImportAssumption
<1>3. CASE windows[u].flow = f
  BY <1>1, <1>2, <1>3 DEF Watched, ClosedInv
<1>4. CASE windows[u].flow # f
  <2>1. Watched(u) /\ OneFlow(u)
    BY <1>1, <1>4 DEF Watched, WindowInv
  <2> QED
    BY <1>4, <2>1 DEF OneFlow
<1> QED
  BY <1>3, <1>4

\* An answer to the window ends the service of its call.
LEMMA AnswerKeeps ==
  ASSUME ImportInv, NEW f \in Flows, flows[f].step \in Serving \ {"shown"},
         NEW shows \in Shown \ {"closed"}, NEW u, u = flows[f].token,
         windows' = Answered(windows, f, u, shows, IF shows = "preview" THEN flows[f].preview ELSE 0),
         shows = "preview" => flows[f].preview # 0,
         shows = "saved" <=> flows[f].step \in Recording,
         shows \notin {"opened", "loading", "deciding", "saving"},
         \A g \in Flows \ {f} : flows'[g] = flows[g],
         flows'[f].step \notin Serving,
         UNCHANGED <<inflight>>, library'.lists = library.lists, library'.deleted = library.deleted,
         \A t \in Tokens : /\ book'[t].preview = book[t].preview
                           /\ book'[t].state = "awaiting" => book[t].state = "awaiting"
  PROVE  WindowInv'
<1> USE DEF ImportInv
<1>1. flows[f].preview \in Nat
  BY DEF Shape, Flow
<1> DEFINE seen == IF shows = "preview" THEN flows[f].preview ELSE 0
<1>2. seen \in Nat
  BY <1>1
<1> HIDE DEF seen
<1>3. windows' = Answered(windows, f, u, shows, seen)
  BY DEF seen
<1>4. /\ u \in Tokens
      /\ \A t \in Tokens : t # u => windows'[t] = windows[t]
      /\ windows[u].flow = f => /\ windows'[u].shows = shows /\ windows'[u].flow = 0
                                /\ seen # 0 => windows'[u].seen = seen
                                /\ seen = 0 => windows'[u].seen = windows[u].seen
  BY <1>2, <1>3, AnswerFrame
<1>5. ASSUME NEW t \in Tokens, t # u, Watched(t)'
      PROVE  OneFlow(t)' /\ SeenInv(t)' /\ ShownInv(t)'
  <2>1. windows'[t] = windows[t] /\ {l \in library'.lists \cup library'.deleted : l.token = t} = EverSaved(t)
    BY <1>4, <1>5 DEF EverSaved
  <2>3. \A g \in Flows : flows[g].token = t /\ flows[g].step \in Serving => flows'[g] = flows[g]
    BY <1>5
  <2>4. \A g \in Flows : flows'[g].token = t /\ flows'[g].step \in Serving => flows'[g] = flows[g]
    BY <1>5
  <2> QED
    BY <1>5, <2>1, <2>3, <2>4, WindowFrame
<1>6. ASSUME Watched(u)' PROVE OneFlow(u)' /\ SeenInv(u)' /\ ShownInv(u)'
  <2>0. Watched(u) /\ windows[u].flow = f
    BY <1>2, <1>3, <1>6, AnswerFacts
  <2>1. /\ windows[u].flow = f /\ windows'[u].flow = 0 /\ windows'[u].shows = shows
        /\ seen # 0 => windows'[u].seen = seen
        /\ seen = 0 => windows'[u].seen = windows[u].seen
    BY <1>4, <2>0
  <2>2. OneFlow(u) /\ SeenInv(u) /\ ShownInv(u)
    BY <1>4, <2>0 DEF WindowInv
  <2>3. f # 0
    BY ShareImportAssumption
  <2>4. OneFlow(u)'
    BY <2>1, <2>2 DEF OneFlow
  <2>5. SeenInv(u)'
    BY ZenonT(40), <1>4, <2>1, <2>2, <2>3 DEF SeenInv, seen
  <2>6. shows # "saved" => EverSaved(u) = {}
    BY <2>1, <2>2, <2>3 DEF ShownInv, OneFlow, WaitsAt, Serving
  <2>7. shows = "saved" => \E l \in EverSaved(u) : l.revision = windows'[u].seen
    <3> SUFFICES ASSUME shows = "saved"
                 PROVE  \E l \in EverSaved(u) : l.revision = windows'[u].seen
      OBVIOUS
    <3>1. ListOf(f) \in library.lists \cup library.deleted
      BY DEF RecordedInv
    <3>2. ListOf(f).token = u /\ ListOf(f).revision = flows[f].preview
      BY DEF ListOf
    <3>3. windows[u].shows = "saving"
      BY <2>1, <2>2, <2>3 DEF OneFlow, WaitsAt, Recording
    <3>4. flows[f].preview = windows'[u].seen
      BY <2>1, <2>2, <2>3, <3>3 DEF SeenInv, seen
    <3> QED
      BY <3>1, <3>2, <3>4 DEF EverSaved
  <2>8. EverSaved(u)' = EverSaved(u)
    BY DEF EverSaved
  <2>9. ShownInv(u)'
    BY <2>1, <2>6, <2>7, <2>8 DEF ShownInv
  <2> QED
    BY <2>4, <2>5, <2>9
<1> QED
  BY <1>5, <1>6 DEF WindowInv

\* A call moves on while its window goes on waiting.
LEMMA MoveKeeps ==
  ASSUME ImportInv, NEW f \in Flows, flows[f].step \in Serving \ {"shown"},
         NEW u, u = flows[f].token,
         flows'[f].token = u, flows'[f].preview = flows[f].preview,
         NEW to, to = flows'[f].step, to \in Serving,
         \A shows \in Shown : flows[f].step \in WaitsAt(shows) => to \in WaitsAt(shows),
         to \in Confirming => flows[f].step \in Confirming,
         to = "shown" => flows[f].preview = 0,
         \A g \in Flows \ {f} : flows'[g] = flows[g],
         \A t \in inflight' : t \in inflight \/ (t = u /\ (to = "shown" \/ flows[f].preview = 0)),
         to # "shown" /\ flows[f].step \notin Confirming => inflight' = inflight,
         UNCHANGED <<book, windows>>, library'.lists = library.lists, library'.deleted = library.deleted
  PROVE  WindowInv'
<1> USE DEF ImportInv
<1>1. u \in Tokens
  BY BornFacts DEF Shape, Born, Serving, Confirming, Recording
<1>2. ASSUME NEW t \in Tokens, t # u, Watched(t)'
      PROVE  OneFlow(t)' /\ SeenInv(t)' /\ ShownInv(t)'
  <2>1. windows'[t] = windows[t] /\ {l \in library'.lists \cup library'.deleted : l.token = t} = EverSaved(t)
    BY DEF EverSaved
  <2>3. \A g \in Flows : flows[g].token = t /\ flows[g].step \in Serving => flows'[g] = flows[g]
    BY <1>2
  <2>4. \A g \in Flows : flows'[g].token = t /\ flows'[g].step \in Serving => flows'[g] = flows[g]
    BY <1>2
  <2>5. book'[t].preview \in {0, book[t].preview} /\ (t \in inflight' => t \in inflight)
    BY <1>2
  <2> QED
    BY <1>2, <2>1, <2>3, <2>4, <2>5, WindowFrame
<1>3. ASSUME Watched(u)' PROVE OneFlow(u)' /\ SeenInv(u)' /\ ShownInv(u)'
  <2>1. Watched(u) /\ OneFlow(u) /\ SeenInv(u) /\ ShownInv(u) /\ f # 0
    BY <1>1, <1>3, ShareImportAssumption DEF WindowInv, Watched
  <2>2. windows[u].flow = f /\ windows[u].shows \in Shown
    BY <1>1, <2>1 DEF OneFlow, Shape, Window
  <2>3. OneFlow(u)'
    BY <2>1, <2>2 DEF OneFlow
  <2>4. flows[f].step \in Confirming => flows[f].preview # 0
    BY <2>1, <2>2 DEF SeenInv, OneFlow, WaitsAt, Confirming
  <2>5. u \in inflight' => u \in inflight \/ to = "shown"
    BY <2>4
  <2>6. SeenInv(u)'
    BY <2>1, <2>2, <2>5 DEF SeenInv, OneFlow, WaitsAt
  <2>7. EverSaved(u)' = EverSaved(u)
    BY DEF EverSaved
  <2>8. ShownInv(u)'
    BY <2>1, <2>2, <2>7 DEF ShownInv
  <2> QED
    BY <2>3, <2>6, <2>8
<1> QED
  BY <1>2, <1>3 DEF WindowInv

Used == [faults : Nat, clicks : Nat, events : Nat, lists : Nat, tokens : Nat]

LEMMA UsedFacts ==
  ASSUME Shape
  PROVE  /\ Click \/ Fault => /\ used' \in Used /\ UNCHANGED <<used.tokens, used.lists>>
         /\ Event => used' \in Used /\ used'.tokens = used.tokens
         /\ used \in Used /\ used.tokens \in Nat
BY DEF Shape, Used, Click, Fault, Event

LEMMA SweptFacts ==
  ASSUME Shape
  PROVE  /\ Swept(book) \in [Tokens -> Entry]
         /\ \A t \in Tokens : /\ Swept(book)[t].preview \in {0, book[t].preview}
                              /\ Swept(book)[t].state = "awaiting" => Swept(book)[t] = book[t]
BY DEF Shape, Swept, Entry, NoEntry, BookStates

LEMMA SettledFacts ==
  ASSUME Shape, NEW t \in Tokens, NEW state \in BookStates \ {"awaiting"},
         book' = Settled(book, t, state)
  PROVE  /\ book' \in [Tokens -> Entry]
         /\ \A s \in Tokens : /\ book'[s].preview = book[s].preview
                              /\ book'[s].state = "awaiting" => book[s].state = "awaiting"
<1>1. \A s \in Tokens : book[s] \in Entry
  BY DEF Shape
<1>2. book' = [book EXCEPT ![t].state = IF book[t].state = "awaiting" THEN state ELSE book[t].state]
  BY DEF Settled, Shape
<1> QED
  BY <1>1, <1>2 DEF Shape, Entry, BookStates

\* A window asks for its token: a call starts, or it is told that there is nothing.
LEMMA AskKeeps ==
  ASSUME ImportInv, NEW t \in Tokens, NEW shows, NEW step, step \in WaitsAt(shows),
         step \in {"details", "granted", "declined", "confirm"},
         shows \in {"loading", "deciding", "saving"},
         shows = "saving" => windows[t].shows = "preview",
         windows[t].shows \in {"opened", "consent", "preview"},
         Asks(t, step, shows),
         used' \in Used, UNCHANGED used.tokens,
         UNCHANGED <<consent.choice, consent.ever>>
  PROVE  ImportInv'
<1> USE DEF ImportInv
<1> DEFINE new == [NoFlow EXCEPT !.step = step, !.token = t, !.request = book[t].request,
                                 !.preview = book[t].preview]
           f == NewFlow
<1>1. /\ UNCHANGED <<inflight, library, records, remote, sent>>
      /\ book' = Swept(book)
  BY UsedFacts DEF Asks
<1>2. /\ book' \in [Tokens -> Entry]
      /\ \A s \in Tokens : /\ book'[s].preview \in {0, book[s].preview}
                           /\ book'[s].state = "awaiting" => book'[s] = book[s]
  BY <1>1, SweptFacts
<1>3. Born(t)
  BY BornFacts DEF NoWindow
<1>4. windows[t] \in Window /\ windows[t].shows # "closed" /\ book[t] \in Entry
  BY DEF Shape
<1>5. ASSUME NEW w \in Window, windows' = [windows EXCEPT ![t] = w], w.shows # "closed",
             \A g \in Flows : \/ flows'[g] = flows[g]
                              \/ /\ flows'[g] = new /\ flows[g].token = 0
             , flows' \in [Flows -> Flow],
             Watched(t)' => OneFlow(t)' /\ SeenInv(t)' /\ ShownInv(t)'
      PROVE  ImportInv'
  <2>1. Shape'
    BY <1>1, <1>2, <1>5 DEF Shape, Used
  <2>2. \A g \in Flows : flows'[g] # flows[g] =>
           /\ flows'[g].step = step /\ flows'[g].token = t /\ flows[g].token = 0
    BY <1>5 DEF NoFlow
  <2>3. \A s \in Tokens : s # t => windows'[s] = windows[s]
    BY <1>5 DEF Shape
  <2>4. LibraryInv'
    BY <1>1, <2>2, LibraryFrame
  <2>5. ConsentInv'
    BY <1>1, <2>2, ConsentFrame DEF ConsentInv, Recording, Notifying
  <2>6. TokenInv'
    BY <1>1, <1>2, <1>3, <2>2, <2>3, TokenFrame
  <2>7. RecordedInv'
    <3>1. library.lists \cup library.deleted \subseteq library'.lists \cup library'.deleted
      BY <1>1
    <3>2. \A g \in Flows : flows'[g].step \in Recording =>
            flows[g].step \in Recording /\ ListOf(g)' = ListOf(g)
      BY <2>2 DEF Recording, ListOf
    <3> QED
      BY <3>1, <3>2, RecordedFrame
  <2>8. ClosedInv'
    BY <1>5, <2>3 DEF ClosedInv, Shape
  <2>9. ASSUME NEW s \in Tokens, s # t, Watched(s)'
        PROVE  OneFlow(s)' /\ SeenInv(s)' /\ ShownInv(s)'
    <3>1. windows'[s] = windows[s] /\ {l \in library'.lists \cup library'.deleted : l.token = s} = EverSaved(s)
      BY <1>1, <2>3, <2>9 DEF EverSaved
    <3>3. s # 0
      BY ShareImportAssumption
    <3>4. /\ \A g \in Flows : flows[g].token = s /\ flows[g].step \in Serving => flows'[g] = flows[g]
          /\ \A g \in Flows : flows'[g].token = s /\ flows'[g].step \in Serving => flows'[g] = flows[g]
      BY <2>2, <2>9, <3>3
    <3> QED
      BY <1>1, <1>2, <2>9, <3>1, <3>4, WindowFrame
  <2>10. WindowInv'
    BY <1>5, <2>9 DEF WindowInv
  <2> QED
    BY <2>1, <2>4, <2>5, <2>6, <2>7, <2>8, <2>10
<1>6. ASSUME Watched(t)
      PROVE  /\ windows[t].flow = 0 /\ EverSaved(t) = {} /\ SeenInv(t)
             /\ \A g \in Flows : flows[g].token = t => flows[g].step \notin Serving
  <2>1. OneFlow(t) /\ SeenInv(t) /\ ShownInv(t)
    BY <1>6 DEF WindowInv
  <2>2. windows[t].flow = 0
    BY <2>1 DEF OneFlow, WaitsAt
  <2> QED
    BY <2>1, <2>2, ShareImportAssumption DEF OneFlow, ShownInv
<1>7. CASE book'[t].state = "awaiting"
  <2>1. Free # {} /\ flows' = [flows EXCEPT ![f] = new] /\ f \in Flows /\ At(f, "idle")
    BY ZenonT(40), <1>1, <1>2, <1>7, NewFlowFacts DEF Asks, Calls
  <2>2. windows' = [windows EXCEPT ![t] = [windows[t] EXCEPT !.shows = shows, !.flow = f]]
    BY <1>1, <1>7 DEF Asks, Shape
  <2>3. new \in Flow
    BY <1>4 DEF Flow, Entry, NoFlow, Serving, Confirming
  <2>4. flows[f].token = 0 /\ f # 0
    BY <2>1, ShareImportAssumption DEF TokenInv, At
  <2> DEFINE w == [windows[t] EXCEPT !.shows = shows, !.flow = f]
  <2>5. w \in Window /\ w.shows = shows /\ w.flow = f
    BY <1>4, <2>1 DEF Window, Shown
  <2>6. flows' \in [Flows -> Flow] /\ flows'[f] = new /\ \A g \in Flows \ {f} : flows'[g] = flows[g]
    BY <2>1, <2>3 DEF Shape
  <2>7. windows'[t] = w
    BY <2>2 DEF Shape
  <2>8. new.step = step /\ new.token = t /\ new.preview = book[t].preview
    BY DEF NoFlow
  <2> HIDE DEF w, new, f
  <2>9. ASSUME Watched(t)' PROVE OneFlow(t)' /\ SeenInv(t)' /\ ShownInv(t)'
    <3>1. Watched(t)
      BY <1>4, <2>7, <2>9 DEF Watched, w, Window
    <3>2. OneFlow(t)'
      BY <1>6, <2>1, <2>5, <2>6, <2>7, <2>8, <3>1 DEF OneFlow
    <3>3. book'[t].preview = book[t].preview /\ w.seen = windows[t].seen
      BY <1>2, <1>4, <1>7 DEF w, Window
    <3>4. SeenInv(t)'
      <4>1. book[t].preview # 0 => t \notin inflight'
        BY <1>1, <1>6, <3>1 DEF SeenInv
      <4>2. book[t].state = "awaiting"
        BY <1>2, <1>7
      <4>3. shows = "saving" => book[t].preview = w.seen /\ w.seen # 0
        BY <1>6, <3>1, <3>3, <4>2 DEF SeenInv
      <4> QED
        BY <2>4, <2>5, <2>6, <2>7, <2>8, <3>3, <4>1, <4>3 DEF SeenInv
    <3>5. ShownInv(t)'
      <4>1. EverSaved(t)' = {}
        BY <1>1, <1>6, <3>1 DEF EverSaved
      <4> QED
        BY <2>5, <2>7, <4>1 DEF ShownInv
    <3> QED
      BY <3>2, <3>4, <3>5
  <2>10. \A g \in Flows : flows'[g] = flows[g] \/ (flows'[g] = new /\ flows[g].token = 0)
    BY <2>4, <2>6
  <2>11. windows' = [windows EXCEPT ![t] = w]
    BY <2>2 DEF w, f
  <2> QED
    BY <1>5, <2>5, <2>6, <2>9, <2>10, <2>11
<1>8. CASE book'[t].state # "awaiting"
  <2> DEFINE w == [windows[t] EXCEPT !.shows = "failed", !.flow = 0]
  <2>1. windows' = [windows EXCEPT ![t] = w] /\ UNCHANGED flows
    BY <1>1, <1>8 DEF Asks, Shape
  <2>2. w \in Window /\ w.shows = "failed" /\ w.flow = 0 /\ w.past = windows[t].past
    BY <1>4 DEF Window, Shown
  <2>3. windows'[t] = w
    BY <2>1 DEF Shape
  <2> HIDE DEF w
  <2>4. ASSUME Watched(t)' PROVE OneFlow(t)' /\ SeenInv(t)' /\ ShownInv(t)'
    <3>1. Watched(t)
      BY <1>4, <2>2, <2>3, <2>4 DEF Watched
    <3>2. OneFlow(t)'
      BY <1>6, <2>1, <2>2, <2>3, <3>1 DEF OneFlow
    <3>3. SeenInv(t)'
      BY <1>1, <1>2, <1>6, <2>2, <2>3, <3>1 DEF SeenInv
    <3>4. EverSaved(t)' = {}
      BY <1>1, <1>6, <3>1 DEF EverSaved
    <3>5. ShownInv(t)'
      BY <2>2, <2>3, <3>4 DEF ShownInv
    <3> QED
      BY <3>2, <3>3, <3>5
  <2>5. flows' \in [Flows -> Flow] /\ \A g \in Flows : flows'[g] = flows[g]
    BY <2>1 DEF Shape
  <2> QED
    BY <1>5, <2>1, <2>2, <2>4, <2>5
<1> QED
  BY <1>7, <1>8

-----------------------------------------------------------------------------
(* Whole steps.                                                            *)

\* Nothing is shown or served: only calls that have not begun or are done move.
LEMMA QuietKeeps ==
  ASSUME ImportInv, Shape', UNCHANGED <<windows, inflight>>, used'.tokens = used.tokens,
         library' = library \/
           /\ library'.revision = library.revision + 1 /\ library'.lists \subseteq library.lists
           /\ library'.receipts = library.receipts,
         library'.lists \cup library'.deleted = library.lists \cup library.deleted,
         \A t \in Tokens : /\ book'[t].preview \in {0, book[t].preview}
                           /\ book'[t].state = "awaiting" =>
                                book[t].state = "awaiting" /\ book'[t].preview = book[t].preview,
         \A f \in Flows :
           \/ flows'[f] = flows[f]
           \/ /\ flows[f].step \in {"idle", "begin"} \cup Notifying
              /\ flows'[f].step \in {"idle", "begin"} /\ flows'[f].token = 0
           \/ /\ flows[f].step = "notify" /\ flows'[f].step = "sending"
              /\ flows'[f].token = flows[f].token /\ flows'[f].request = flows[f].request,
         consent.ever => consent'.ever, consent'.choice = "granted" => consent'.ever,
         \A s \in sent' : s \in sent \/
           (consent'.ever /\ (s.kind = "event" => s.request \in library.receipts))
  PROVE  ImportInv'
<1> USE DEF ImportInv
<1>2. LibraryInv'
  <2>1. \A f \in Flows : flows'[f].step = "dispatch" => flows'[f] = flows[f]
    OBVIOUS
  <2> QED
    BY <2>1, LibraryFrame
<1>3. ConsentInv'
  <2>1. \A f \in Flows : flows'[f].step \in Recording \cup Notifying =>
           flows[f].step \in Recording \cup Notifying /\ flows'[f].request = flows[f].request
    BY DEF Recording, Notifying
  <2>2. library.receipts \subseteq library'.receipts
    OBVIOUS
  <2> QED
    BY <2>1, <2>2, ConsentFrame
<1>4. TokenInv'
  <2>1. \A f \in Flows : \/ flows'[f] = flows[f]
                         \/ flows'[f].token = 0 /\ flows'[f].step \in {"idle", "begin"}
                         \/ /\ flows'[f].step \notin {"idle", "begin", "open"}
                            /\ Born(flows'[f].token)
    BY BornFacts
  <2>2. {l.token : l \in library'.lists \cup library'.deleted} \subseteq {l.token : l \in library.lists \cup library.deleted}
    OBVIOUS
  <2> QED
    BY <2>1, <2>2, TokenFrame
<1>5. RecordedInv'
  <2>1. \A f \in Flows : flows'[f].step \in Recording =>
           flows[f].step \in Recording /\ ListOf(f)' = ListOf(f)
    BY DEF Recording, ListOf
  <2> QED
    BY <2>1, RecordedFrame
<1>6. ASSUME NEW t \in Tokens, Watched(t)' PROVE OneFlow(t)' /\ SeenInv(t)' /\ ShownInv(t)'
  <2>1. {l \in library'.lists \cup library'.deleted : l.token = t} = EverSaved(t)
    BY DEF EverSaved
  <2>2. /\ \A f \in Flows : flows[f].token = t /\ flows[f].step \in Serving => flows'[f] = flows[f]
        /\ \A f \in Flows : flows'[f].token = t /\ flows'[f].step \in Serving => flows'[f] = flows[f]
    BY DEF Serving, Confirming, Recording, Notifying
  <2> QED
    BY <1>6, <2>1, <2>2, WindowFrame
<1>7. ClosedInv'
  BY DEF ClosedInv
<1> QED
  BY <1>2, <1>3, <1>4, <1>5, <1>6, <1>7 DEF WindowInv

\* A call answers its window, and is done or goes on to notify the service.
LEMMA AnswerStep ==
  ASSUME ImportInv, NEW f \in Flows, flows[f].step \in Serving \ {"shown"},
         NEW shows \in Shown \ {"closed"}, NEW u, u = flows[f].token,
         windows' = Answered(windows, f, u, shows, IF shows = "preview" THEN flows[f].preview ELSE 0),
         shows = "preview" => flows[f].preview # 0,
         shows = "saved" <=> flows[f].step \in Recording,
         shows \notin {"opened", "loading", "deciding", "saving"},
         \/ flows' = [flows EXCEPT ![f] = NoFlow]
         \/ flows[f].step \in Recording /\ flows' = [flows EXCEPT ![f].step = "notify"],
         UNCHANGED <<inflight, remote, sent, used.tokens>>, used' \in Used,
         records' \subseteq List,
         library' = library \/ library' = [library EXCEPT !.revision = @ + 1],
         consent.ever => consent'.ever, consent'.choice = "granted" => consent'.ever,
         book' \in [Tokens -> Entry],
         \A t \in Tokens : /\ book'[t].preview = book[t].preview
                           /\ book'[t].state = "awaiting" => book[t].state = "awaiting"
  PROVE  ImportInv'
<1> USE DEF ImportInv
<1>1. /\ library'.lists = library.lists /\ library'.deleted = library.deleted /\ library'.receipts = library.receipts
      /\ library' = library \/ library'.revision = library.revision + 1
      /\ library' \in Library
  BY DEF Shape, Library
<1>2. flows[f] \in Flow /\ flows[f].preview \in Nat
  BY DEF Shape, Flow
<1>3. /\ flows'[f].step \in {"idle", "notify"}
      /\ flows'[f].step = "idle" => flows'[f].token = 0
      /\ flows'[f].step = "notify" => /\ flows[f].step \in Recording /\ flows'[f].token = u
                                      /\ flows'[f].request = flows[f].request
      /\ flows' \in [Flows -> Flow] /\ \A g \in Flows \ {f} : flows'[g] = flows[g]
  BY SMTT(30), <1>2 DEF Shape, Flow, NoFlow, Notifying
<1>4. flows'[f].step \notin Serving \cup {"open", "dispatch"} \cup Recording
  BY <1>3 DEF Serving, Confirming, Recording
<1>5. windows' \in [Tokens -> Window] /\ ClosedInv' /\ \A t \in Tokens : ~Born(t) => windows'[t] = windows[t]
  <2> DEFINE seen == IF shows = "preview" THEN flows[f].preview ELSE 0
  <2>1. seen \in Nat
    BY <1>2
  <2>2. windows' = Answered(windows, f, u, shows, seen)
    OBVIOUS
  <2> HIDE DEF seen
  <2>3. /\ windows' \in [Tokens -> Window] /\ ClosedInv'
        /\ \A t \in Tokens : t # u \/ ~Born(t) => windows'[t] = windows[t]
    BY <2>1, <2>2, AnswerFrame
  <2> QED
    BY <2>3
<1>6. Shape'
  BY <1>1, <1>3, <1>5 DEF Shape, Used
<1>7. LibraryInv'
  <2>1. \A g \in Flows : flows'[g].step = "dispatch" => flows'[g] = flows[g]
    BY <1>3, <1>4
  <2> QED
    BY <1>1, <2>1, LibraryFrame
<1>8. ConsentInv'
  <2>1. \A g \in Flows : flows'[g].step \in Recording \cup Notifying =>
           flows[g].step \in Recording \cup Notifying /\ flows'[g].request = flows[g].request
    BY <1>3 DEF Recording, Notifying
  <2> QED
    BY <1>1, <2>1, ConsentFrame
<1>9. TokenInv'
  <2>1. \A g \in Flows : \/ flows'[g] = flows[g]
                         \/ flows'[g].token = 0 /\ flows'[g].step \in {"idle", "begin"}
                         \/ /\ flows'[g].step \notin {"idle", "begin", "open"}
                            /\ Born(flows'[g].token)
    BY <1>3, BornFacts DEF Recording
  <2> QED
    BY <1>1, <1>5, <2>1, TokenFrame
<1>10. RecordedInv'
  <2>1. \A g \in Flows : flows'[g].step \in Recording =>
           flows[g].step \in Recording /\ ListOf(g)' = ListOf(g)
    BY <1>3, <1>4 DEF ListOf
  <2>2. library.lists \cup library.deleted \subseteq library'.lists \cup library'.deleted
    BY <1>1, <1>2
  <2> QED
    BY <2>1, <2>2, RecordedFrame
<1>11. WindowInv'
  BY <1>1, <1>3, <1>4, AnswerKeeps
<1> QED
  BY <1>5, <1>6, <1>7, <1>8, <1>9, <1>10, <1>11

\* A call moves on and its window waits.
LEMMA MoveStep ==
  ASSUME ImportInv, NEW f \in Flows, flows[f].step \in Serving \ {"shown"},
         NEW u, u = flows[f].token,
         NEW new \in Flow, flows' = [flows EXCEPT ![f] = new],
         new.token = u, new.preview = flows[f].preview, new.request = flows[f].request,
         new.step \in Serving,
         \A shows \in Shown : flows[f].step \in WaitsAt(shows) => new.step \in WaitsAt(shows),
         new.step \in Confirming => flows[f].step \in Confirming,
         new.step = "shown" => flows[f].preview = 0,
         new.step \in Recording => flows[f].step \in Recording /\ new.list = flows[f].list,
         inflight' \subseteq Tokens,
         \A t \in inflight' : t \in inflight \/ (t = u /\ (new.step = "shown" \/ flows[f].preview = 0)),
         new.step # "shown" /\ flows[f].step \notin Confirming => inflight' = inflight,
         UNCHANGED <<book, windows, records, remote, used.tokens>>, used' \in Used,
         library' = library \/ library' = [library EXCEPT !.revision = @ + 1],
         LibraryInv',
         consent.ever => consent'.ever, consent'.choice = "granted" => consent'.ever,
         \A s \in sent' : s \in sent \/
           (consent'.ever /\ (s.kind = "event" => s.request \in library.receipts))
  PROVE  ImportInv'
<1> USE DEF ImportInv
<1>1. /\ library'.lists = library.lists /\ library'.deleted = library.deleted /\ library'.receipts = library.receipts
      /\ library' \in Library
  BY DEF Shape, Library
<1>2. Born(u) /\ u \in Tokens
  BY BornFacts, UsedFacts DEF Serving, Confirming, Recording, Born
<1>3. /\ flows'[f] = new /\ flows' \in [Flows -> Flow]
      /\ \A g \in Flows \ {f} : flows'[g] = flows[g]
  BY DEF Shape
<1>4. new.step \notin {"idle", "begin", "open"} \cup Notifying
  BY DEF Serving, Confirming, Recording, Notifying
<1>5. Shape'
  BY <1>1, <1>3 DEF Shape, Used
<1>6. ConsentInv'
  <2>1. \A g \in Flows : flows'[g].step \in Recording \cup Notifying =>
           flows[g].step \in Recording \cup Notifying /\ flows'[g].request = flows[g].request
    BY <1>3, <1>4
  <2> QED
    BY <1>1, <2>1, ConsentFrame
<1>7. TokenInv'
  <2>1. \A g \in Flows : \/ flows'[g] = flows[g]
                         \/ /\ flows'[g].step \notin {"idle", "begin", "open"}
                            /\ Born(flows'[g].token)
    BY <1>2, <1>3, <1>4
  <2>2. \A t \in Tokens : ~Born(t) => (t \in inflight' => t \in inflight)
    BY <1>2
  <2> QED
    BY <1>1, <2>1, <2>2, TokenFrame
<1>8. RecordedInv'
  <2>1. \A g \in Flows : flows'[g].step \in Recording =>
           flows[g].step \in Recording /\ ListOf(g)' = ListOf(g)
    BY <1>3 DEF ListOf
  <2>2. library.lists \cup library.deleted \subseteq library'.lists \cup library'.deleted
    BY <1>1, <1>2
  <2> QED
    BY <2>1, <2>2, RecordedFrame
<1>9. WindowInv'
  <2> DEFINE to == new.step
  <2>1. flows'[f].step = to /\ flows'[f].token = u /\ flows'[f].preview = flows[f].preview
    BY <1>3
  <2> HIDE DEF to
  <2>2. /\ to \in Serving /\ (to \in Confirming => flows[f].step \in Confirming)
        /\ \A shows \in Shown : flows[f].step \in WaitsAt(shows) => to \in WaitsAt(shows)
        /\ to = "shown" => flows[f].preview = 0
    BY DEF to
  <2>3. /\ \A t \in inflight' : t \in inflight \/ (t = u /\ (to = "shown" \/ flows[f].preview = 0))
        /\ to # "shown" /\ flows[f].step \notin Confirming => inflight' = inflight
    BY DEF to
  <2> QED
    BY <1>1, <1>3, <2>1, <2>2, <2>3, MoveKeeps
<1>10. ClosedInv'
  BY DEF ClosedInv
<1> QED
  BY <1>5, <1>6, <1>7, <1>8, <1>9, <1>10

-----------------------------------------------------------------------------
(* The actions.                                                            *)

LEMMA EmptyFacts == NoFlow \in Flow /\ NoWindow \in Window /\ NoEntry \in Entry
BY DEF NoFlow, Flow, NoWindow, Window, Shown, NoEntry, Entry, BookStates

\* Nothing has been asked.
LEMMA InitInv == Init => ImportInv
<1> SUFFICES ASSUME Init PROVE ImportInv
  OBVIOUS
<1>1. \A f \in Flows : flows[f] = NoFlow /\ flows[f].step = "idle" /\ flows[f].token = 0
  BY DEF Init, NoFlow
<1>2. /\ library = [revision |-> 1, lists |-> {}, receipts |-> {}, deleted |-> {}]
      /\ library.lists = {} /\ library.deleted = {} /\ library.receipts = {} /\ sent = {} /\ inflight = {}
      /\ used.tokens = 0
  BY DEF Init
<1>3. Shape
  BY EmptyFacts DEF Init, Shape, Library
<1>4. LibraryInv
  BY <1>1, <1>2 DEF LibraryInv, SavedOnce, At
<1>5. ConsentInv
  <2> PICK choice \in {"granted", "undecided"} :
         consent = [choice |-> choice, native |-> TRUE, ever |-> choice = "granted",
                    shown |-> choice, deciding |-> {}]
    BY DEF Init
  <2>0. consent.choice = choice /\ consent.ever = (choice = "granted")
    OBVIOUS
  <2>1. consent.choice = "granted" => consent.ever
    BY <2>0
  <2> QED
    BY <1>1, <1>2, <2>1 DEF ConsentInv, OnlyAsAgreed, Recording, Notifying
<1>6. \A t \in Tokens : windows[t] = NoWindow /\ book[t] = NoEntry /\ Unborn(t)
  BY <1>2 DEF Init, Unborn
<1>7. TokenInv
  <2>1. \A t \in Tokens : t # 0
    BY ShareImportAssumption
  <2> QED
    BY <1>1, <1>2, <1>6, <2>1 DEF TokenInv, At, NoEntry
<1>8. ASSUME NEW t \in Tokens PROVE OneFlow(t) /\ SeenInv(t) /\ ShownInv(t)
  BY <1>1, <1>2, <1>6 DEF OneFlow, SeenInv, ShownInv, EverSaved, NoWindow, NoEntry,
    Serving, Confirming, Recording
<1>9. RecordedInv /\ ClosedInv
  BY <1>1, <1>6 DEF RecordedInv, ClosedInv, Recording, NoWindow
<1> QED
  BY <1>3, <1>4, <1>5, <1>7, <1>8, <1>9 DEF ImportInv, WindowInv

\* The share page asks.
LEMMA RequestKeeps == ASSUME ImportInv, NEW r \in Requests, Request(r) PROVE ImportInv'
<1> USE DEF ImportInv
<1> DEFINE new == [NoFlow EXCEPT !.step = "begin", !.request = r]
<1>1. /\ NewFlow \in Flows /\ At(NewFlow, "idle") /\ flows' = [flows EXCEPT ![NewFlow] = new]
      /\ UNCHANGED <<book, inflight, windows, library, records, consent, remote, sent>>
  BY NewFlowFacts DEF Request, Calls
<1>2. used' \in Used /\ UNCHANGED <<used.tokens, used.lists>>
  BY UsedFacts DEF Request
<1>3. new \in Flow /\ new.step = "begin" /\ new.token = 0
  BY EmptyFacts DEF Flow, NoFlow
<1> HIDE DEF new
<1>4. Shape'
  BY <1>1, <1>2, <1>3 DEF Shape, Used
<1>5. \A f \in Flows : \/ flows'[f] = flows[f]
                       \/ /\ flows[f].step = "idle"
                          /\ flows'[f].step = "begin" /\ flows'[f].token = 0
  BY <1>1, <1>3 DEF Shape, At
<1>6. \A t \in Tokens : book'[t] = book[t]
  BY <1>1
<1> QED
  BY <1>1, <1>2, <1>4, <1>5, <1>6, QuietKeeps DEF ConsentInv

\* A call that ends.
LEMMA EndsFacts ==
  ASSUME Shape, NEW f \in Flows, Ends(f)
  PROVE  /\ flows' \in [Flows -> Flow] /\ flows'[f].step = "idle" /\ flows'[f].token = 0
         /\ \A g \in Flows \ {f} : flows'[g] = flows[g]
         /\ flows' = [flows EXCEPT ![f] = NoFlow]
BY EmptyFacts DEF Shape, Ends, NoFlow

\* The request is declined or refused admission.
LEMMA BeginEnds ==
  ASSUME ImportInv, NEW f \in Flows, At(f, "begin"), Ends(f), book' \in {book, Swept(book)},
         UNCHANGED <<inflight, sent, used, windows, library, records, consent, remote>>
  PROVE  ImportInv'
<1> USE DEF ImportInv
<1>1. book' \in [Tokens -> Entry] /\ \A t \in Tokens : /\ book'[t].preview \in {0, book[t].preview}
                                                       /\ book'[t].state = "awaiting" => book'[t] = book[t]
  BY SweptFacts DEF Shape
<1>2. Shape'
  BY <1>1, EndsFacts DEF Shape
<1>3. \A g \in Flows : \/ flows'[g] = flows[g]
                       \/ /\ flows[g].step = "begin"
                          /\ flows'[g].step = "idle" /\ flows'[g].token = 0
  BY EndsFacts DEF At
<1> QED
  BY <1>1, <1>2, <1>3, QuietKeeps DEF ConsentInv

\* Who is taken to have agreed has agreed.
LEMMA EffectiveFacts == ASSUME ImportInv, Effective = "granted" PROVE consent.ever
BY DEF ImportInv, ConsentInv, Effective

\* A request is admitted under a token of its own.
LEMMA BeginAdmits ==
  ASSUME ImportInv, NEW f \in Flows, Begin(f), flows'[f].step = "open"
  PROVE  ImportInv'
<1> USE DEF ImportInv
<1> PICK token : token = used.tokens + 1
  OBVIOUS
<1> PICK request : request = flows[f].request
  OBVIOUS
<1> DEFINE entry == [NoEntry EXCEPT !.state = "awaiting", !.request = request]
<1>0. ~Ends(f) /\ At(f, "begin")
  BY EndsFacts DEF Begin
<1>1. /\ token \in Tokens /\ used' = [used EXCEPT !.tokens = token]
      /\ book' = [Swept(book) EXCEPT ![token] = entry]
      /\ flows' = [flows EXCEPT ![f].step = "open", ![f].token = token]
      /\ UNCHANGED <<windows, library, records, consent, remote>>
  BY <1>0 DEF Begin
<1>2. \/ /\ Effective = "granted" /\ inflight' = inflight \cup {token}
         /\ sent' = sent \cup {[kind |-> "get", request |-> request]}
      \/ UNCHANGED <<inflight, sent>>
  BY <1>0 DEF Begin, Prefetches
<1>3. flows[f] \in Flow /\ request \in Requests \cup {None} /\ used.tokens \in Nat
  BY DEF Shape, Flow
<1>4. entry \in Entry /\ entry.preview = 0
  BY <1>3 DEF Entry, NoEntry, BookStates
<1>5. /\ Swept(book) \in [Tokens -> Entry]
      /\ \A t \in Tokens : /\ Swept(book)[t].preview \in {0, book[t].preview}
                           /\ Swept(book)[t].state = "awaiting" => Swept(book)[t] = book[t]
  BY SweptFacts
<1>6. /\ book' \in [Tokens -> Entry] /\ book'[token].preview = 0
      /\ \A t \in Tokens \ {token} : /\ book'[t].preview \in {0, book[t].preview}
                                     /\ book'[t].state = "awaiting" => book'[t] = book[t]
  BY <1>1, <1>4, <1>5
<1>7. /\ flows' \in [Flows -> Flow] /\ flows'[f].step = "open" /\ flows'[f].token = token
      /\ \A g \in Flows \ {f} : flows'[g] = flows[g]
  BY <1>1, <1>3 DEF Shape, Flow
<1>8. used' \in Used /\ used'.tokens = token 
  BY <1>1, <1>3, UsedFacts DEF Used
<1>9. /\ Unborn(token) /\ token \notin inflight /\ \A g \in Flows : flows[g].token # token
      /\ \A t \in Tokens : t \in Nat
  BY <1>1, <1>3, ShareImportAssumption DEF TokenInv
<1> HIDE DEF entry
<1>10. Shape'
  BY <1>1, <1>2, <1>6, <1>7, <1>8 DEF Shape, Used
<1>11. LibraryInv'
  <2>1. \A g \in Flows : flows'[g].step = "dispatch" => flows'[g] = flows[g]
    BY <1>7
  <2> QED
    BY <1>1, <2>1, LibraryFrame
<1>12. ConsentInv'
  <2>1. \A g \in Flows : flows'[g].step \in Recording \cup Notifying =>
           flows[g].step \in Recording \cup Notifying /\ flows'[g].request = flows[g].request
    BY <1>7 DEF Recording, Notifying
  <2>2. \A s \in sent' : s \in sent \/ (consent'.ever /\ (s.kind = "event" => s.request \in library.receipts))
    BY <1>1, <1>2, EffectiveFacts
  <2> QED
    BY <1>1, <2>1, <2>2, ConsentFrame DEF ConsentInv
<1>13. TokenInv'
  <2>1. ASSUME NEW t \in Tokens, t > used'.tokens
        PROVE  /\ Unborn(t)' /\ book'[t].preview = 0 /\ t \notin inflight'
               /\ \A g \in Flows : flows'[g].token # t
    <3>1. t > used.tokens /\ t # token
      BY <1>3, <1>8, <1>9, <2>1
    <3>2. /\ Unborn(t) /\ book[t].preview = 0 /\ t \notin inflight
          /\ \A g \in Flows : flows[g].token # t
      BY <3>1 DEF TokenInv
    <3>3. Unborn(t)'
      BY <1>1, <3>2 DEF Unborn
    <3> QED
      BY <1>2, <1>6, <1>7, <3>1, <3>2, <3>3
  <2>2. ASSUME NEW g \in Flows
        PROVE  /\ flows'[g].step \in {"idle", "begin"} => flows'[g].token = 0
               /\ flows'[g].step \notin {"idle", "begin"} => flows'[g].token \in Tokens
    BY <1>1, <1>7 DEF TokenInv
  <2>3. ASSUME NEW g \in Flows, At(g, "open")'
        PROVE  /\ Unborn(flows[g].token)'
               /\ \A h \in Flows \ {g} : flows'[h].token # flows'[g].token
    <3>1. CASE g = f
      <4>1. Unborn(token)'
        BY <1>1, <1>8, <1>9 DEF Unborn
      <4>2. flows'[g].token = token /\ \A h \in Flows \ {g} : flows'[h].token # token
        BY <1>7, <1>9, <3>1
      <4>3. Unborn(flows[g].token)'
        BY <1>1, <1>9, <4>2 DEF Unborn
      <4> QED
        BY <4>2, <4>3
    <3>2. CASE g # f
      <4>1. flows'[g] = flows[g] /\ At(g, "open")
        BY <1>7, <2>3, <3>2 DEF At
      <4>2. Unborn(flows[g].token) /\ \A h \in Flows \ {g} : flows[h].token # flows[g].token
        BY <4>1 DEF TokenInv
      <4>3. Unborn(flows[g].token)'
        BY <1>1, <4>1, <4>2 DEF Unborn
      <4>4. \A h \in Flows \ {g} : flows'[h].token # flows'[g].token
        BY <1>7, <1>9, <4>1, <4>2
      <4> QED
        BY <4>3, <4>4
    <3> QED
      BY <3>1, <3>2
  <2> QED
    BY <2>1, <2>2, <2>3 DEF TokenInv
<1>14. RecordedInv'
  <2>1. \A g \in Flows : flows'[g].step \in Recording =>
           flows[g].step \in Recording /\ ListOf(g)' = ListOf(g)
    BY <1>7 DEF Recording, ListOf
  <2>2. library.lists \cup library.deleted \subseteq library'.lists \cup library'.deleted
    BY <1>1, <1>3, <1>8
  <2> QED
    BY <2>1, <2>2, RecordedFrame
<1>15. ASSUME NEW t \in Tokens, t # token, Watched(t)'
       PROVE  OneFlow(t)' /\ SeenInv(t)' /\ ShownInv(t)'
  <2>1. windows'[t] = windows[t] /\ {l \in library'.lists \cup library'.deleted : l.token = t} = EverSaved(t)
    BY <1>1 DEF EverSaved
  <2>3. \A g \in Flows : flows[g].token = t /\ flows[g].step \in Serving => flows'[g] = flows[g]
    BY <1>0, <1>7 DEF At, Serving, Confirming, Recording
  <2>4. \A g \in Flows : flows'[g].token = t /\ flows'[g].step \in Serving => flows'[g] = flows[g]
    BY <1>7 DEF Serving, Confirming, Recording
  <2>5. t \in inflight' => t \in inflight
    BY <1>2, <1>15
  <2> QED
    BY <1>6, <1>15, <2>1, <2>3, <2>4, <2>5, WindowFrame
<1>16. OneFlow(token)' /\ SeenInv(token)' /\ ShownInv(token)'
  <2>1. windows'[token] = NoWindow /\ EverSaved(token)' = {}
    BY <1>1, <1>9 DEF Unborn, EverSaved
  <2>2. \A g \in Flows : flows'[g].token = token => flows'[g].step = "open"
    BY <1>7, <1>9
  <2> QED
    BY <1>6, <2>1, <2>2 DEF OneFlow, SeenInv, ShownInv, NoWindow, Serving, Confirming, Recording
<1>17. ClosedInv'
  BY <1>1 DEF ClosedInv
<1> QED
  BY <1>10, <1>11, <1>12, <1>13, <1>14, <1>15, <1>16, <1>17 DEF WindowInv

\* A request is taken in.
LEMMA BeginKeeps == ASSUME ImportInv, NEW f \in Flows, Begin(f) PROVE ImportInv'
<1>1. CASE flows'[f].step = "open"
  BY <1>1, BeginAdmits
<1>2. CASE flows'[f].step # "open"
  <2>1. flows[f] \in Flow
    BY DEF ImportInv, Shape
  <2>2. flows' # [flows EXCEPT ![f].step = "open", ![f].token = used.tokens + 1]
    BY <1>2, <2>1 DEF ImportInv, Shape, Flow
  <2>3. /\ At(f, "begin") /\ Ends(f) /\ book' \in {book, Swept(book)}
        /\ UNCHANGED <<inflight, sent, used, windows, library, records, consent, remote>>
    BY <2>2 DEF Begin
  <2> QED
    BY <2>3, BeginEnds
<1> QED
  BY <1>1, <1>2

\* The window of a token is opened, or cannot be.
LEMMA OpenKeeps == ASSUME ImportInv, NEW f \in Flows, Open(f) PROVE ImportInv'
<1> USE DEF ImportInv
<1> PICK u : u = flows[f].token
  OBVIOUS
<1>1. /\ At(f, "open") /\ Ends(f)
      /\ UNCHANGED <<recent, inflight, library, records, consent, remote, sent>>
  BY DEF Open
<1>2. /\ u \in Tokens /\ Unborn(u) /\ \A g \in Flows \ {f} : flows[g].token # u
  BY <1>1 DEF TokenInv, At
<1>3. /\ flows' \in [Flows -> Flow] /\ flows'[f].step = "idle" /\ flows'[f].token = 0
      /\ \A g \in Flows \ {f} : flows'[g] = flows[g]
  BY <1>1, EndsFacts
<1>4. /\ used' \in Used /\ UNCHANGED used.tokens
      /\ used.tokens \in Nat
  BY UsedFacts DEF Open
<1> DEFINE w == [NoWindow EXCEPT !.shows = "opened"]
<1>5. /\ w \in Window /\ w.shows = "opened" /\ w.flow = 0 /\ NoWindow.flow = 0
      /\ NoWindow.shows = "none" /\ NoWindow.past = "once"
  BY EmptyFacts DEF Window, NoWindow, Shown
<1>6. \/ windows' = [windows EXCEPT ![u] = w]
      \/ windows' = windows
  BY DEF Open
<1>7. /\ book' \in [Tokens -> Entry]
      /\ \A t \in Tokens : /\ book'[t].preview = book[t].preview
                           /\ book'[t].state = "awaiting" => book[t].state = "awaiting"
  <2>1. CASE book' = book
    BY <2>1 DEF Shape
  <2>2. CASE book' = Settled(book, u, "failed")
    BY <1>2, <2>2, SettledFacts DEF BookStates
  <2> QED
    BY <2>1, <2>2 DEF Open
<1> HIDE DEF w
<1>8. windows' \in [Tokens -> Window] /\ \A t \in Tokens : t # u => windows'[t] = windows[t]
  BY <1>5, <1>6 DEF Shape
<1>9. windows'[u] = w \/ windows'[u] = NoWindow
  BY <1>2, <1>6 DEF Shape, Unborn
<1>10. Shape'
  BY <1>1, <1>3, <1>4, <1>7, <1>8 DEF Shape, Used
<1>11. LibraryInv'
  <2>1. \A g \in Flows : flows'[g].step = "dispatch" => flows'[g] = flows[g]
    BY <1>3
  <2> QED
    BY <1>1, <2>1, LibraryFrame
<1>12. ConsentInv'
  <2>1. \A g \in Flows : flows'[g].step \in Recording \cup Notifying =>
           flows[g].step \in Recording \cup Notifying /\ flows'[g].request = flows[g].request
    BY <1>3 DEF Recording, Notifying
  <2> QED
    BY <1>1, <2>1, ConsentFrame DEF ConsentInv
<1>13. TokenInv'
  <2>1. ASSUME NEW t \in Tokens, t > used'.tokens
        PROVE  /\ Unborn(t)' /\ book'[t].preview = 0 /\ t \notin inflight'
               /\ \A g \in Flows : flows'[g].token # t
    <3>1. /\ Unborn(t) /\ book[t].preview = 0 /\ t \notin inflight
          /\ \A g \in Flows : flows[g].token # t
      BY <1>4, <2>1 DEF TokenInv
    <3>2. t # u /\ t # 0
      BY <3>1, ShareImportAssumption
    <3>3. Unborn(t)'
      BY <1>1, <1>8, <3>1, <3>2 DEF Unborn
    <3> QED
      BY <1>1, <1>3, <1>7, <3>1, <3>2, <3>3
  <2>2. ASSUME NEW g \in Flows
        PROVE  /\ flows'[g].step \in {"idle", "begin"} => flows'[g].token = 0
               /\ flows'[g].step \notin {"idle", "begin"} => flows'[g].token \in Tokens
    BY <1>3 DEF TokenInv
  <2>3. ASSUME NEW g \in Flows, At(g, "open")'
        PROVE  /\ Unborn(flows[g].token)'
               /\ \A h \in Flows \ {g} : flows'[h].token # flows'[g].token
    <3>1. flows'[g] = flows[g] /\ At(g, "open") /\ g # f
      BY <1>3, <2>3 DEF At
    <3>2. /\ Unborn(flows[g].token) /\ \A h \in Flows \ {g} : flows[h].token # flows[g].token
          /\ flows[g].token \in Tokens
      BY <3>1 DEF TokenInv, At
    <3>3. flows[g].token # u /\ flows[g].token # 0
      BY <1>2, <3>1, <3>2, ShareImportAssumption
    <3>4. Unborn(flows[g].token)'
      BY <1>1, <1>8, <3>1, <3>2, <3>3 DEF Unborn
    <3>5. \A h \in Flows \ {g} : flows'[h].token # flows'[g].token
      BY <1>3, <3>1, <3>2, <3>3
    <3> QED
      BY <3>4, <3>5
  <2> QED
    BY <2>1, <2>2, <2>3 DEF TokenInv
<1>14. RecordedInv'
  <2>1. \A g \in Flows : flows'[g].step \in Recording =>
           flows[g].step \in Recording /\ ListOf(g)' = ListOf(g)
    BY <1>3 DEF Recording, ListOf
  <2>2. library.lists \cup library.deleted \subseteq library'.lists \cup library'.deleted
    BY <1>1, <1>4
  <2> QED
    BY <2>1, <2>2, RecordedFrame
<1>15. ASSUME NEW t \in Tokens, t # u, Watched(t)'
       PROVE  OneFlow(t)' /\ SeenInv(t)' /\ ShownInv(t)'
  <2>1. windows'[t] = windows[t] /\ {l \in library'.lists \cup library'.deleted : l.token = t} = EverSaved(t)
    BY <1>1, <1>8, <1>15 DEF EverSaved
  <2>3. /\ \A g \in Flows : flows[g].token = t /\ flows[g].step \in Serving => flows'[g] = flows[g]
        /\ \A g \in Flows : flows'[g].token = t /\ flows'[g].step \in Serving => flows'[g] = flows[g]
    BY <1>3, <1>15 DEF Serving, Confirming, Recording
  <2> QED
    BY <1>1, <1>7, <1>15, <2>1, <2>3, WindowFrame
<1>16. OneFlow(u)' /\ SeenInv(u)' /\ ShownInv(u)'
  <2>1. windows[u] = NoWindow /\ EverSaved(u) = {} /\ EverSaved(u)' = {}
    BY <1>1, <1>2 DEF Unborn, EverSaved
  <2>2. windows'[u].flow = 0 /\ windows'[u].shows \in {"none", "opened"}
    BY <1>5, <1>9
  <2>3. \A g \in Flows : flows'[g].step \in Serving => flows'[g].token # u
    BY <1>2, <1>3 DEF Serving, Confirming, Recording
  <2>4. SeenInv(u)
    BY <1>2, <1>5, <2>1 DEF WindowInv, Watched
  <2>5. u \in inflight' => book'[u].preview = 0
    BY <1>1, <1>2, <1>5, <1>7, <2>1, <2>4 DEF SeenInv
  <2> QED
    BY <2>1, <2>2, <2>3, <2>5 DEF OneFlow, SeenInv, ShownInv
<1>17. ClosedInv'
  BY <1>5, <1>8, <1>9 DEF ClosedInv
<1> QED
  BY <1>10, <1>11, <1>12, <1>13, <1>14, <1>15, <1>16, <1>17 DEF WindowInv

\* A window is loaded, decided in, or confirmed.
LEMMA LoadKeeps == ASSUME ImportInv, NEW t \in Tokens, LoadWindow(t) PROVE ImportInv'
<1>1. /\ windows[t].shows = "opened" /\ UNCHANGED <<used, consent>> /\ Asks(t, "details", "loading")
  BY DEF LoadWindow
<1>2. "details" \in WaitsAt("loading") /\ used' \in Used
  BY <1>1, UsedFacts DEF WaitsAt, ImportInv
<1> QED
  BY <1>1, <1>2, AskKeeps

LEMMA DecideKeeps ==
  ASSUME ImportInv, NEW t \in Tokens, NEW choice \in {"granted", "declined"}, Decide(t, choice)
  PROVE  ImportInv'
<1>1. /\ windows[t].shows = "consent" /\ Asks(t, choice, "deciding")
      /\ consent' = [consent EXCEPT !.native = @ \/ choice = "granted"]
  BY DEF Decide
<1>2. used' \in Used /\ UNCHANGED used.tokens
  BY UsedFacts DEF Decide, ImportInv
<1>3. choice \in WaitsAt("deciding")
  BY DEF WaitsAt
<1>4. UNCHANGED <<consent.choice, consent.ever>>
  BY <1>1
<1> QED
  BY <1>1, <1>2, <1>3, <1>4, AskKeeps

LEMMA ConfirmKeeps == ASSUME ImportInv, NEW t \in Tokens, Confirm(t) PROVE ImportInv'
<1>1. /\ windows[t].shows = "preview" /\ UNCHANGED <<used, consent>> /\ Asks(t, "confirm", "saving")
  BY DEF Confirm
<1>2. "confirm" \in WaitsAt("saving") /\ used' \in Used
  BY <1>1, UsedFacts DEF WaitsAt, ImportInv, Confirming
<1> QED
  BY <1>1, <1>2, AskKeeps

\* A window changes, of a token that has been admitted, and is not watched any more.
LEMMA UnwatchedKeeps ==
  ASSUME ImportInv, NEW t \in Tokens, NEW w \in Window, windows' = [windows EXCEPT ![t] = w],
         windows[t].shows # "none", w.past # "once" \/ w.shows = "closed", w.flow = 0,
         book' \in [Tokens -> Entry],
         \A s \in Tokens : /\ book'[s].preview = book[s].preview
                           /\ book'[s].state = "awaiting" => book[s].state = "awaiting",
         used' \in Used, UNCHANGED used.tokens,
         UNCHANGED <<inflight, flows, library, records, consent, remote, sent>>
  PROVE  ImportInv'
<1> USE DEF ImportInv
<1>1. /\ windows'[t] = w /\ \A s \in Tokens : s # t => windows'[s] = windows[s]
      /\ windows' \in [Tokens -> Window]
  BY DEF Shape
<1>2. Born(t)
  BY UsedFacts, BornFacts DEF NoWindow
<1>3. Shape'
  BY <1>1 DEF Shape, Used
<1>4. LibraryInv' /\ ConsentInv'
  BY LibraryFrame, ConsentFrame DEF ConsentInv
<1>5. TokenInv'
  <2>1. \A s \in Tokens : ~Born(s) => windows'[s] = windows[s]
    BY <1>1, <1>2
  <2> QED
    BY <2>1, TokenFrame
<1>6. RecordedInv'
  <2>1. \A g \in Flows : flows'[g].step \in Recording =>
           flows[g].step \in Recording /\ ListOf(g)' = ListOf(g)
    BY DEF ListOf
  <2>2. library.lists \cup library.deleted \subseteq library'.lists \cup library'.deleted
    BY <1>2
  <2> QED
    BY <2>1, <2>2, RecordedFrame
<1>7. ASSUME NEW s \in Tokens, Watched(s)' PROVE OneFlow(s)' /\ SeenInv(s)' /\ ShownInv(s)'
  <2>1. s # t
    BY <1>1, <1>7 DEF Watched
  <2>2. windows'[s] = windows[s] /\ {l \in library'.lists \cup library'.deleted : l.token = s} = EverSaved(s)
    BY <1>1, <2>1 DEF EverSaved
  <2> QED
    BY <1>7, <2>2, WindowFrame
<1>8. ClosedInv'
  BY <1>1 DEF ClosedInv
<1> QED
  BY <1>3, <1>4, <1>5, <1>6, <1>7, <1>8 DEF WindowInv

\* A window is loaded anew, or closed.
LEMMA ReloadKeeps == ASSUME ImportInv, NEW t \in Tokens, ReloadWindow(t) PROVE ImportInv'
<1> PICK past \in {"again", "forgot"} :
      windows' = [windows EXCEPT ![t] = [NoWindow EXCEPT !.shows = "opened", !.past = past]]
  BY DEF ReloadWindow
<1> DEFINE w == [NoWindow EXCEPT !.shows = "opened", !.past = past]
<1>1. w \in Window /\ w.past # "once" /\ w.flow = 0
  BY EmptyFacts DEF Window, Shown, NoWindow
<1>2. used' \in Used /\ UNCHANGED used.tokens
  BY UsedFacts DEF ReloadWindow, ImportInv
<1>3. /\ windows' = [windows EXCEPT ![t] = w] /\ windows[t].shows # "none"
      /\ UNCHANGED <<book, inflight, flows, library, records, consent, remote, sent>>
  BY DEF ReloadWindow
<1>4. book' \in [Tokens -> Entry]
  BY <1>3 DEF ImportInv, Shape
<1> HIDE DEF w
<1> QED
  BY <1>1, <1>2, <1>3, <1>4, UnwatchedKeeps

LEMMA CancelKeeps == ASSUME ImportInv, NEW t \in Tokens, Cancel(t) PROVE ImportInv'
<1> DEFINE w == [windows[t] EXCEPT !.shows = "closed", !.flow = 0]
<1>1. windows[t] \in Window
  BY DEF ImportInv, Shape
<1>2. w \in Window /\ w.shows = "closed" /\ w.flow = 0
  BY <1>1 DEF Window, Shown
<1>3. used' \in Used /\ UNCHANGED used.tokens
  BY UsedFacts DEF Cancel, ImportInv
<1>4. /\ windows' = [windows EXCEPT ![t] = w] /\ windows[t].shows # "none"
      /\ book' = Settled(book, t, "cancelled")
      /\ UNCHANGED <<inflight, flows, library, records, consent, remote, sent>>
  BY DEF Cancel
<1>5. /\ book' \in [Tokens -> Entry]
      /\ \A s \in Tokens : /\ book'[s].preview = book[s].preview
                           /\ book'[s].state = "awaiting" => book[s].state = "awaiting"
  BY <1>4, SettledFacts DEF ImportInv, BookStates
<1> PICK v \in Window : v = w
  BY <1>2
<1> QED
  BY <1>2, <1>3, <1>4, <1>5, UnwatchedKeeps

\* The call is made by a flow that serves a window.
LEMMA ServesFacts ==
  ASSUME ImportInv, NEW f \in Flows, flows[f].step \in Serving
  PROVE  flows[f] \in Flow /\ flows[f].token \in Tokens /\ flows[f].preview \in Nat
BY BornFacts DEF ImportInv, Shape, Flow, Born, Serving, Confirming, Recording

\* The details are asked for: the window shows them, waits for them or asks for consent.
LEMMA DetailsKeeps == ASSUME ImportInv, NEW f \in Flows, Details(f) PROVE ImportInv'
<1> PICK u : u = flows[f].token
  OBVIOUS
<1>1. /\ flows[f].step = "details" /\ flows[f].step \in Serving \ {"shown"}
      /\ flows[f].step \notin Recording \cup Confirming
      /\ UNCHANGED <<book, library, records, consent, remote, used>>
  BY DEF Details, At, Serving, Confirming, Recording
<1>2. flows[f] \in Flow /\ u \in Tokens /\ flows[f].preview \in Nat
  BY <1>1, ServesFacts
<1>3. /\ used' \in Used /\ UNCHANGED used.tokens
      /\ book' \in [Tokens -> Entry] /\ records' \subseteq List
      /\ LibraryInv /\ (consent.choice = "granted" => consent.ever) /\ inflight \subseteq Tokens
  BY <1>1, UsedFacts DEF ImportInv, Shape, ConsentInv
<1>4. CASE Effective # "granted"
  <2> PICK shows \in {"consent"} : windows' = Answered(windows, f, u, shows, 0)
    BY <1>4 DEF Details, Answer
  <2>1. flows' = [flows EXCEPT ![f] = NoFlow] /\ UNCHANGED <<inflight, sent>>
    BY <1>4 DEF Details, Ends
  <2> QED
    BY <1>1, <1>3, <2>1, AnswerStep DEF ImportInv, Shown
<1>5. CASE Effective = "granted" /\ flows[f].preview # 0
  <2> PICK shows \in {"preview"} : windows' = Answered(windows, f, u, shows, flows[f].preview)
    BY <1>5 DEF Details, Ensures
  <2>1. flows' = [flows EXCEPT ![f] = NoFlow] /\ UNCHANGED <<inflight, sent>>
    BY <1>5 DEF Details, Ensures, Ends
  <2> QED
    BY <1>1, <1>3, <1>5, <2>1, AnswerStep DEF ImportInv, Shown
<1>6. CASE Effective = "granted" /\ flows[f].preview = 0
  <2>1. /\ flows' = [flows EXCEPT ![f].step = "shown"] /\ UNCHANGED windows
        /\ inflight' = inflight \cup {u}
        /\ sent' = sent \cup {[kind |-> "get", request |-> flows[f].request]}
    BY <1>6 DEF Details, Ensures, Goes
  <2> DEFINE new == [flows[f] EXCEPT !.step = "shown"]
  <2>2. /\ new \in Flow /\ new.step = "shown" /\ new.token = u /\ new.preview = flows[f].preview
        /\ new.request = flows[f].request /\ new.step \in Serving
        /\ new.step \notin Recording \cup Confirming
    BY <1>2 DEF Flow, Serving, Recording, Confirming
  <2>3. flows' = [flows EXCEPT ![f] = new]
    BY <2>1
  <2>4. \A shows \in Shown : flows[f].step \in WaitsAt(shows) => new.step \in WaitsAt(shows)
    BY <1>1, <2>2 DEF WaitsAt, Confirming, Recording
  <2>5. LibraryInv'
    <3>1. \A g \in Flows : flows'[g].step = "dispatch" => flows'[g] = flows[g]
      BY <2>2, <2>3 DEF ImportInv, Shape
    <3> QED
      BY <1>1, <3>1, LibraryFrame
  <2>6. /\ inflight' \subseteq Tokens
        /\ \A t \in inflight' : t \in inflight \/ (t = u /\ new.step = "shown")
        /\ \A s \in sent' : s \in sent \/ (consent'.ever /\ (s.kind = "event" => s.request \in library.receipts))
    BY <1>1, <1>2, <1>3, <1>6, <2>1, <2>2, EffectiveFacts
  <2> HIDE DEF new
  <2> QED
    BY <1>1, <1>2, <1>3, <1>6, <2>1, <2>2, <2>3, <2>4, <2>5, <2>6, MoveStep
<1> QED
  BY <1>4, <1>5, <1>6

\* A decision is stored: the request is over, or goes on.
LEMMA DecidedKeeps == ASSUME ImportInv, NEW f \in Flows, Decided(f) PROVE ImportInv'
<1> PICK u : u = flows[f].token
  OBVIOUS
<1>1. /\ flows[f].step \in {"granted", "declined"} /\ flows[f].step \in Serving \ {"shown"}
      /\ flows[f].step \notin Recording \cup Confirming
      /\ UNCHANGED <<inflight, records, remote, sent, used>>
      /\ library' = [library EXCEPT !.revision = @ + 1]
  BY DEF Decided, At, Serving, Confirming, Recording
<1>2. flows[f] \in Flow /\ u \in Tokens /\ flows[f].preview \in Nat
  BY <1>1, ServesFacts
<1>3. used' \in Used /\ UNCHANGED used.tokens /\ records' \subseteq List
  BY <1>1, UsedFacts DEF ImportInv, Shape
<1>4. (consent.ever => consent'.ever) /\ (consent'.choice = "granted" => consent'.ever)
  <2>1. consent' = [consent EXCEPT !.choice = flows[f].step, !.ever = @ \/ At(f, "granted")]
    BY DEF Decided
  <2>2. consent'.ever = (consent.ever \/ At(f, "granted")) /\ consent'.choice = flows[f].step
    BY <2>1 DEF ImportInv, ConsentInv
  <2> QED
    BY <2>2 DEF At
<1>5. CASE flows[f].step = "declined"
  <2> PICK shows \in {"declined"} : windows' = Answered(windows, f, u, shows, 0)
    BY <1>5 DEF Decided, At, Answer
  <2>1. flows' = [flows EXCEPT ![f] = NoFlow] /\ book' = Settled(book, u, "cancelled")
    BY <1>5 DEF Decided, At, Ends
  <2>2. /\ book' \in [Tokens -> Entry]
        /\ \A s \in Tokens : /\ book'[s].preview = book[s].preview
                             /\ book'[s].state = "awaiting" => book[s].state = "awaiting"
    BY <1>2, <2>1, SettledFacts DEF ImportInv, BookStates
  <2> QED
    BY <1>1, <1>3, <1>4, <2>1, <2>2, AnswerStep DEF ImportInv, Shown
<1>6. CASE flows[f].step = "granted"
  <2>1. flows' = [flows EXCEPT ![f].step = "details"] /\ UNCHANGED <<book, windows>>
    BY <1>6 DEF Decided, At, Goes
  <2> DEFINE new == [flows[f] EXCEPT !.step = "details"]
  <2>2. /\ new \in Flow /\ new.step = "details" /\ new.token = u /\ new.preview = flows[f].preview
        /\ new.request = flows[f].request /\ new.step \in Serving
        /\ new.step \notin Recording \cup Confirming
    BY <1>2 DEF Flow, Serving, Recording, Confirming
  <2>3. flows' = [flows EXCEPT ![f] = new]
    BY <2>1
  <2>4. \A shows \in Shown : flows[f].step \in WaitsAt(shows) => new.step \in WaitsAt(shows)
    BY <1>6, <2>2 DEF WaitsAt, Confirming, Recording
  <2>5. LibraryInv'
    <3>1. \A g \in Flows : flows'[g].step = "dispatch" => flows'[g] = flows[g]
      BY <2>2, <2>3 DEF ImportInv, Shape
    <3>2. /\ library'.revision = library.revision + 1 /\ library'.lists \subseteq library.lists
          /\ library'.receipts = library.receipts
      BY <1>1 DEF ImportInv, Shape
    <3> QED
      BY <3>1, <3>2, LibraryFrame
  <2>6. inflight' \subseteq Tokens /\ (\A t \in inflight' : t \in inflight) /\ inflight' = inflight
    BY <1>1 DEF ImportInv, Shape
  <2>7. UNCHANGED <<book, windows, records, remote>> /\ \A s \in sent' : s \in sent
    BY <1>1, <2>1
  <2> HIDE DEF new
  <2> QED
    BY <1>1, <1>2, <1>3, <1>4, <2>2, <2>3, <2>4, <2>5, <2>6, <2>7, MoveStep
<1> QED
  BY <1>1, <1>5, <1>6

\* The decision could not be stored.
LEMMA UndecidedKeeps == ASSUME ImportInv, NEW f \in Flows, Undecided(f) PROVE ImportInv'
<1> PICK u : u = flows[f].token
  OBVIOUS
<1>1. /\ flows[f].step \in Serving \ {"shown"} /\ flows[f].step \notin Recording
      /\ UNCHANGED <<book, inflight, library, records, consent, remote, sent>>
  BY DEF Undecided, Serving, Confirming, Recording
<1>2. used' \in Used /\ UNCHANGED used.tokens
  BY UsedFacts DEF Undecided, ImportInv
<1>3. /\ book' \in [Tokens -> Entry] /\ records' \subseteq List
      /\ consent.choice = "granted" => consent.ever
  BY <1>1 DEF ImportInv, Shape, ConsentInv
<1>4. flows' = [flows EXCEPT ![f] = NoFlow]
  BY DEF Undecided, Ends
<1> PICK shows \in {"failed", "declined"} : windows' = Answered(windows, f, u, shows, 0)
  BY DEF Undecided, Answer
<1> QED
  BY <1>1, <1>2, <1>3, <1>4, AnswerStep DEF ImportInv, Shown

\* Confirmed: consent is asked for, the snapshot is at hand, or it is fetched.
LEMMA ConfirmedKeeps == ASSUME ImportInv, NEW f \in Flows, Confirmed(f) PROVE ImportInv'
<1> PICK u : u = flows[f].token
  OBVIOUS
<1>1. /\ flows[f].step = "confirm" /\ flows[f].step \in Serving \ {"shown"}
      /\ flows[f].step \notin Recording /\ flows[f].step \in Confirming
      /\ UNCHANGED <<book, library, records, consent, remote, used>>
  BY DEF Confirmed, At, Serving, Confirming, Recording
<1>2. flows[f] \in Flow /\ u \in Tokens /\ flows[f].preview \in Nat
  BY <1>1, ServesFacts
<1>3. /\ used' \in Used /\ UNCHANGED used.tokens
      /\ book' \in [Tokens -> Entry] /\ records' \subseteq List
      /\ LibraryInv /\ (consent.choice = "granted" => consent.ever) /\ inflight \subseteq Tokens
  BY <1>1, UsedFacts DEF ImportInv, Shape, ConsentInv
<1>4. CASE Effective # "granted"
  <2> PICK shows \in {"consent"} : windows' = Answered(windows, f, u, shows, 0)
    BY <1>4 DEF Confirmed, Answer
  <2>1. flows' = [flows EXCEPT ![f] = NoFlow] /\ UNCHANGED <<inflight, sent>>
    BY <1>4 DEF Confirmed, Ends
  <2> QED
    BY <1>1, <1>3, <2>1, AnswerStep DEF ImportInv, Shown
<1>5. CASE Effective = "granted"
  <2> PICK to \in {"read", "snapshot"} : flows' = [flows EXCEPT ![f].step = to]
    BY <1>5 DEF Confirmed, Ensures, Goes
  <2>1. /\ UNCHANGED windows
        /\ \/ UNCHANGED <<inflight, sent>>
           \/ /\ inflight' = inflight \cup {u} /\ flows[f].preview = 0
              /\ sent' = sent \cup {[kind |-> "get", request |-> flows[f].request]}
    BY <1>5 DEF Confirmed, Ensures
  <2> DEFINE new == [flows[f] EXCEPT !.step = to]
  <2>2. /\ new \in Flow /\ new.step = to /\ new.token = u /\ new.preview = flows[f].preview
        /\ new.request = flows[f].request /\ new.step \in Serving
        /\ new.step \notin Recording /\ new.step # "shown"
    BY <1>2 DEF Flow, Serving, Recording, Confirming
  <2>3. flows' = [flows EXCEPT ![f] = new]
    OBVIOUS
  <2>4. \A shows \in Shown : flows[f].step \in WaitsAt(shows) => new.step \in WaitsAt(shows)
    BY <1>1, <2>2 DEF WaitsAt, Confirming, Recording
  <2>5. LibraryInv'
    <3>1. \A g \in Flows : flows'[g].step = "dispatch" => flows'[g] = flows[g]
      BY <2>2, <2>3 DEF ImportInv, Shape
    <3> QED
      BY <1>1, <3>1, LibraryFrame
  <2>6. /\ inflight' \subseteq Tokens
        /\ \A t \in inflight' : t \in inflight \/ (t = u /\ flows[f].preview = 0)
        /\ \A s \in sent' : s \in sent \/ (consent'.ever /\ (s.kind = "event" => s.request \in library.receipts))
    BY <1>1, <1>2, <1>3, <1>5, <2>1, EffectiveFacts
  <2> HIDE DEF new
  <2> QED
    BY <1>1, <1>2, <1>3, <2>1, <2>2, <2>3, <2>4, <2>5, <2>6, MoveStep
<1> QED
  BY <1>4, <1>5

\* The library is read.
LEMMA ReadLibraryKeeps == ASSUME ImportInv, NEW f \in Flows, ReadLibrary(f) PROVE ImportInv'
<1> PICK u : u = flows[f].token
  OBVIOUS
<1>1. /\ flows[f].step = "read" /\ flows[f].step \in Serving \ {"shown"}
      /\ flows[f].step \notin Recording /\ flows[f].step \in Confirming
      /\ UNCHANGED <<book, inflight, windows, library, records, consent, remote, sent>>
  BY DEF ReadLibrary, At, Serving, Confirming, Recording
<1>2. flows[f] \in Flow /\ u \in Tokens
  BY <1>1, ServesFacts
<1>3. used \in Used /\ library.revision \in Nat /\ library.lists \subseteq List
  BY UsedFacts DEF ImportInv, Shape, Library
<1> PICK list : /\ list = IF flows[f].list = 0 THEN used.lists + 1 ELSE flows[f].list
                /\ used' = [used EXCEPT !.lists = IF flows[f].list = 0 THEN used.lists + 1 ELSE used.lists]
                /\ flows' = [flows EXCEPT ![f].step = "dispatch", ![f].list = list,
                                          ![f].base = library.lists,
                                          ![f].revision = library.revision,
                                          ![f].attempt = flows[f].attempt + 1]
  BY DEF ReadLibrary
<1>4. list \in Nat /\ used' \in Used /\ UNCHANGED used.tokens
  BY <1>2, <1>3 DEF Used, Flow
<1> DEFINE new == [flows[f] EXCEPT !.step = "dispatch", !.list = list, !.base = library.lists,
                                   !.revision = library.revision, !.attempt = flows[f].attempt + 1]
<1>5. /\ new \in Flow /\ new.step = "dispatch" /\ new.token = u /\ new.preview = flows[f].preview
      /\ new.request = flows[f].request /\ new.base = library.lists
      /\ new.revision = library.revision
  <2>1. flows[f].attempt + 1 \in Nat /\ library.lists \in SUBSET List
    BY <1>2, <1>3 DEF Flow
  <2>2. new \in Flow
    BY <1>2, <1>3, <1>4, <2>1 DEF Flow, Serving, Confirming
  <2> QED
    BY <1>2, <2>2 DEF Flow
<1>6. flows' = [flows EXCEPT ![f] = new]
  BY <1>2 DEF ImportInv, Shape
<1>7. new.step \in Serving /\ new.step \in Confirming /\ new.step \notin Recording
  BY <1>5 DEF Serving, Confirming, Recording
<1>8. \A shows \in Shown : flows[f].step \in WaitsAt(shows) => new.step \in WaitsAt(shows)
  BY <1>1, <1>5 DEF WaitsAt, Confirming, Recording
<1> HIDE DEF new
<1>9. flows'[f] = new /\ \A g \in Flows \ {f} : flows'[g] = flows[g]
  BY <1>6 DEF ImportInv, Shape
<1>10. LibraryInv'
  <2>1. LibraryInv /\ library' = library
    BY <1>1 DEF ImportInv
  <2>2. SavedOnce' /\ \A l \in library'.lists : l.request \in library'.receipts
    BY <2>1 DEF LibraryInv, SavedOnce
  <2>3. ASSUME NEW g \in Flows, At(g, "dispatch")'
        PROVE  /\ flows'[g].revision <= library'.revision
               /\ flows'[g].revision = library'.revision => flows'[g].base = library'.lists
    <3>1. CASE g = f
      BY <1>3, <1>5, <1>9, <2>1, <3>1
    <3>2. CASE g # f
      BY <1>9, <2>1, <2>3, <3>2 DEF LibraryInv, At
    <3> QED
      BY <3>1, <3>2
  <2> QED
    BY <2>2, <2>3 DEF LibraryInv
<1>11. /\ inflight' \subseteq Tokens /\ (\A s \in sent' : s \in sent)
       /\ (consent.choice = "granted" => consent.ever)
  BY <1>1 DEF ImportInv, Shape, ConsentInv
<1> QED
  BY <1>1, <1>2, <1>4, <1>5, <1>6, <1>7, <1>8, <1>10, <1>11, MoveStep

\* The records are read.
LEMMA ReadRecordsKeeps == ASSUME ImportInv, NEW f \in Flows, ReadRecords(f) PROVE ImportInv'
<1> PICK u : u = flows[f].token
  OBVIOUS
<1>1. /\ flows[f].step = "records" /\ flows[f].step \in Serving \ {"shown"}
      /\ flows[f].step \in Recording
      /\ flows' = [flows EXCEPT ![f].step = "append", ![f].read = records]
      /\ UNCHANGED <<book, inflight, windows, library, records, consent, remote, sent, used>>
  BY DEF ReadRecords, At, Serving, Confirming, Recording
<1>2. flows[f] \in Flow /\ u \in Tokens
  BY <1>1, ServesFacts
<1>3. used' \in Used /\ UNCHANGED used.tokens /\ records \subseteq List
  BY <1>1, UsedFacts DEF ImportInv, Shape
<1> DEFINE new == [flows[f] EXCEPT !.step = "append", !.read = records]
<1>4. /\ new \in Flow /\ new.step = "append" /\ new.token = u /\ new.preview = flows[f].preview
      /\ new.request = flows[f].request /\ new.list = flows[f].list
  BY <1>2, <1>3 DEF Flow, Serving, Recording
<1>5. flows' = [flows EXCEPT ![f] = new]
  BY <1>1, <1>2 DEF ImportInv, Shape
<1>6. new.step \in Serving /\ new.step \notin Confirming
  BY <1>4 DEF Serving, Confirming, Recording
<1>7. \A shows \in Shown : flows[f].step \in WaitsAt(shows) => new.step \in WaitsAt(shows)
  BY <1>1, <1>4 DEF WaitsAt, Confirming, Recording
<1> HIDE DEF new
<1>8. LibraryInv'
  <2>1. \A g \in Flows : flows'[g].step = "dispatch" => flows'[g] = flows[g]
    BY <1>4, <1>5 DEF ImportInv, Shape
  <2> QED
    BY <1>1, <2>1, LibraryFrame
<1>9. /\ inflight' \subseteq Tokens /\ (\A s \in sent' : s \in sent)
      /\ (consent.choice = "granted" => consent.ever)
  BY <1>1 DEF ImportInv, Shape, ConsentInv
<1> QED
  BY <1>1, <1>2, <1>3, <1>4, <1>5, <1>6, <1>7, <1>8, <1>9, MoveStep

\* The import fails before anything is saved.
LEMMA FailedKeeps ==
  ASSUME ImportInv, NEW f \in Flows, At(f, "dispatch"), Failed(f), used' \in Used,
         UNCHANGED <<used.tokens, inflight, records, consent, remote, sent>>
  PROVE  ImportInv'
<1> PICK u : u = flows[f].token
  OBVIOUS
<1>1. flows[f].step \in Serving \ {"shown"} /\ flows[f].step \notin Recording
  BY DEF At, Serving, Confirming, Recording
<1>2. u \in Tokens
  BY <1>1, ServesFacts
<1> PICK shows \in {"failed"} : windows' = Answered(windows, f, u, shows, 0)
  BY DEF Failed, Answer
<1>3. /\ flows' = [flows EXCEPT ![f] = NoFlow]
      /\ book' = Settled(book, u, "failed") /\ UNCHANGED library
  BY DEF Failed, Ends
<1>4. /\ book' \in [Tokens -> Entry]
      /\ \A s \in Tokens : /\ book'[s].preview = book[s].preview
                           /\ book'[s].state = "awaiting" => book[s].state = "awaiting"
  BY <1>2, <1>3, SettledFacts DEF ImportInv, BookStates
<1>5. records' \subseteq List /\ (consent.choice = "granted" => consent.ever)
  BY DEF ImportInv, Shape, ConsentInv
<1> QED
  BY <1>1, <1>3, <1>4, <1>5, AnswerStep DEF ImportInv, Shown

\* The library has changed since it was read.
LEMMA RetryKeeps ==
  ASSUME ImportInv, NEW f \in Flows, At(f, "dispatch"), Goes(f, "read"),
         UNCHANGED <<book, windows, library, inflight, records, consent, remote, sent, used>>
  PROVE  ImportInv'
<1> PICK u : u = flows[f].token
  OBVIOUS
<1>1. /\ flows[f].step = "dispatch" /\ flows[f].step \in Serving \ {"shown"}
      /\ flows[f].step \notin Recording /\ flows[f].step \in Confirming
  BY DEF At, Serving, Confirming, Recording
<1>2. flows[f] \in Flow /\ u \in Tokens
  BY <1>1, ServesFacts
<1>3. used' \in Used /\ UNCHANGED used.tokens
  BY UsedFacts DEF ImportInv
<1> DEFINE new == [flows[f] EXCEPT !.step = "read"]
<1>4. /\ new \in Flow /\ new.step = "read" /\ new.token = u /\ new.preview = flows[f].preview
      /\ new.request = flows[f].request
  BY <1>2 DEF Flow, Serving, Confirming
<1>5. flows' = [flows EXCEPT ![f] = new]
  BY DEF Goes
<1>6. new.step \in Serving /\ new.step \in Confirming /\ new.step \notin Recording
  BY <1>4 DEF Serving, Confirming, Recording
<1>7. \A shows \in Shown : flows[f].step \in WaitsAt(shows) => new.step \in WaitsAt(shows)
  BY <1>1, <1>4 DEF WaitsAt, Confirming, Recording
<1> HIDE DEF new
<1>8. LibraryInv'
  <2>1. \A g \in Flows : flows'[g].step = "dispatch" => flows'[g] = flows[g]
    BY <1>4, <1>5 DEF ImportInv, Shape
  <2> QED
    BY <2>1, LibraryFrame
<1>9. /\ inflight' \subseteq Tokens /\ (\A s \in sent' : s \in sent)
      /\ (consent.choice = "granted" => consent.ever)
  BY DEF ImportInv, Shape, ConsentInv
<1> QED
  BY <1>1, <1>2, <1>3, <1>4, <1>5, <1>6, <1>7, <1>8, <1>9, MoveStep

\* The playlist is saved, on top of the library as it is.
LEMMA SaveKeeps ==
  ASSUME ImportInv, NEW f \in Flows, At(f, "dispatch"), ~Conflicts(f),
         flows[f].revision = library.revision,
         library' = [library EXCEPT !.revision = @ + 1,
                                    !.lists    = flows[f].base \cup {ListOf(f)},
                                    !.receipts = @ \cup {flows[f].request}],
         Goes(f, "records"),
         UNCHANGED <<book, windows, inflight, records, consent, remote, sent, used>>
  PROVE  ImportInv'
<1> USE DEF ImportInv
<1> PICK u : u = flows[f].token
  OBVIOUS
<1> PICK list : list = ListOf(f)
  OBVIOUS
<1>1. /\ flows[f].step = "dispatch" /\ flows[f].step \in Serving /\ flows[f].step \in Confirming
  BY DEF At, Serving, Confirming
<1>2. flows[f] \in Flow /\ u \in Tokens /\ Born(u) /\ library.revision \in Nat
  BY <1>1, ServesFacts, BornFacts, UsedFacts DEF Shape, Serving, Confirming, Recording, Library
<1>3. flows[f].base = library.lists
  BY DEF LibraryInv
<1>4. list \in List /\ list.token = u /\ list.request = flows[f].request
  BY <1>2 DEF List, ListOf, Flow
<1>5. /\ library'.lists = library.lists \cup {list} /\ library'.deleted = library.deleted
      /\ library'.revision = library.revision + 1
      /\ library'.receipts = library.receipts \cup {list.request}
      /\ \A l \in library.lists : l.request # list.request
      /\ list.request \notin library.receipts
  BY <1>3, <1>4 DEF Conflicts, LibraryInv
<1>6. /\ flows' \in [Flows -> Flow] /\ flows'[f] = [flows[f] EXCEPT !.step = "records"]
      /\ flows'[f].step = "records" /\ flows'[f].token = u /\ flows'[f].request = list.request
      /\ flows'[f].preview = flows[f].preview
      /\ \A g \in Flows \ {f} : flows'[g] = flows[g]
  BY <1>2, <1>4 DEF Shape, Goes, Flow, Serving, Recording
<1>7. library' \in Library
  <2>1. library \in Library /\ flows[f].base \in SUBSET List /\ flows[f].request \in Requests \cup {None}
    BY <1>2 DEF Shape, Flow
  <2>2. library' = [revision |-> library.revision + 1, lists |-> flows[f].base \cup {list},
                    receipts |-> library.receipts \cup {flows[f].request},
                    deleted |-> library.deleted]
    BY <2>1 DEF Library
  <2> QED
    BY ONLY <1>2, <1>4, <2>1, <2>2 DEF Library
<1>8. Shape'
  BY <1>6, <1>7 DEF Shape
<1>9. LibraryInv'
  <2>1. SavedOnce'
    BY <1>5 DEF LibraryInv, SavedOnce
  <2>2. \A l \in library'.lists : l.request \in library'.receipts
    BY <1>5 DEF LibraryInv
  <2>3. ASSUME NEW g \in Flows, At(g, "dispatch")'
        PROVE  /\ flows'[g].revision <= library'.revision
               /\ flows'[g].revision = library'.revision => flows'[g].base = library'.lists
    <3>1. flows'[g] = flows[g] /\ At(g, "dispatch") /\ flows[g].revision \in Nat
      BY <1>6, <2>3 DEF At, Shape, Flow
    <3>2. flows[g].revision <= library.revision
      BY <3>1 DEF LibraryInv
    <3> QED
      BY <1>2, <1>5, <3>1, <3>2
  <2> QED
    BY <2>1, <2>2, <2>3 DEF LibraryInv
<1>10. ConsentInv'
  <2>1. \A g \in Flows : flows'[g].step \in Recording \cup Notifying =>
                           flows'[g].request \in library'.receipts
    BY <1>5, <1>6 DEF ConsentInv
  <2>2. OnlyAsAgreed'
    BY <1>5 DEF ConsentInv, OnlyAsAgreed
  <2> QED
    BY <2>1, <2>2 DEF ConsentInv
<1>11. TokenInv'
  <2>1. \A g \in Flows : \/ flows'[g] = flows[g]
                         \/ /\ flows'[g].step \notin {"idle", "begin", "open"}
                            /\ Born(flows'[g].token)
    BY <1>2, <1>6
  <2>2. \A t \in Tokens : ~Born(t) =>
          (t \in {l.token : l \in library'.lists \cup library'.deleted} => t \in {l.token : l \in library.lists \cup library.deleted})
    BY <1>2, <1>4, <1>5
  <2> QED
    BY <2>1, <2>2, TokenFrame
<1>12. RecordedInv'
  <2>1. ASSUME NEW g \in Flows, flows'[g].step \in Recording
        PROVE  ListOf(g)' \in library'.lists \cup library'.deleted
    <3>1. CASE g = f
      <4>1. ListOf(g)' = list
        BY <1>2, <1>6, <3>1 DEF ListOf, Flow
      <4> QED
        BY <1>5, <4>1
    <3>2. CASE g # f
      <4>1. flows'[g] = flows[g] /\ ListOf(g)' = ListOf(g)
        BY <1>6, <3>2 DEF ListOf
      <4> QED
        BY <1>5, <2>1, <4>1 DEF RecordedInv
    <3> QED
      BY <3>1, <3>2
  <2> QED
    BY <2>1 DEF RecordedInv
<1>13. ASSUME NEW t \in Tokens, t # u, Watched(t)'
       PROVE  OneFlow(t)' /\ SeenInv(t)' /\ ShownInv(t)'
  <2>1. {l \in library'.lists \cup library'.deleted : l.token = t} = EverSaved(t)
    BY <1>4, <1>5, <1>13 DEF EverSaved
  <2>3. /\ \A g \in Flows : flows[g].token = t /\ flows[g].step \in Serving => flows'[g] = flows[g]
        /\ \A g \in Flows : flows'[g].token = t /\ flows'[g].step \in Serving => flows'[g] = flows[g]
    BY <1>6, <1>13
  <2> QED
    BY <1>13, <2>1, <2>3, WindowFrame
<1>14. ASSUME Watched(u)' PROVE OneFlow(u)' /\ SeenInv(u)' /\ ShownInv(u)'
  <2>1. Watched(u) /\ OneFlow(u) /\ SeenInv(u) /\ ShownInv(u) /\ f # 0
    BY <1>2, <1>14, ShareImportAssumption DEF WindowInv, Watched
  <2>2. windows[u].flow = f /\ windows[u].shows = "saving"
    BY <1>1, <2>1 DEF OneFlow, WaitsAt
  <2>3. OneFlow(u)'
    <3>1. "records" \in WaitsAt("saving")
      BY DEF WaitsAt, Recording
    <3>2. \A g \in Flows : flows[g].token = u /\ flows[g].step \in Serving => g = f
      BY <2>1, <2>2 DEF OneFlow
    <3>3. \A g \in Flows : flows'[g].token = u /\ flows'[g].step \in Serving => g = f
      BY <1>6, <3>2
    <3> QED
      BY <1>6, <2>2, <3>1, <3>3 DEF OneFlow
  <2>4. SeenInv(u)'
    BY <1>6, <2>1, <2>2 DEF SeenInv
  <2>5. ShownInv(u)'
    BY <1>6, <2>2 DEF ShownInv, Confirming
  <2> QED
    BY <2>3, <2>4, <2>5
<1>15. ClosedInv'
  BY DEF ClosedInv
<1> QED
  BY <1>8, <1>9, <1>10, <1>11, <1>12, <1>13, <1>14, <1>15 DEF WindowInv

\* The command of a flow is handled.
LEMMA DispatchKeeps == ASSUME ImportInv, NEW f \in Flows, Dispatch(f) PROVE ImportInv'
<1>1. At(f, "dispatch") /\ UNCHANGED <<inflight, records, consent, remote, sent, used>> /\ used' \in Used
  BY UsedFacts DEF Dispatch, ImportInv
<1>2. CASE Conflicts(f)
  BY <1>1, <1>2, FailedKeeps DEF Dispatch
<1>3. CASE ~Conflicts(f) /\ flows[f].revision # library.revision
  BY <1>1, <1>3, FailedKeeps, RetryKeeps DEF Dispatch
<1>4. CASE ~Conflicts(f) /\ flows[f].revision = library.revision
  BY <1>1, <1>4, SaveKeeps DEF Dispatch
<1> QED
  BY <1>2, <1>3, <1>4

\* A call is rejected: it is gone, and its window waits for nothing.
LEMMA RejectsKeeps == ASSUME ImportInv, NEW f \in Flows, Rejects(f) PROVE ImportInv'
<1> USE DEF ImportInv
<1>1. /\ flows[f].step \notin {"shown", "open", "snapshot"} /\ Ends(f)
      /\ UNCHANGED <<book, inflight, library, records, consent, remote, sent>>
  BY DEF Rejects
<1>2. used' \in Used /\ UNCHANGED used.tokens
  BY UsedFacts DEF Rejects
<1>3. /\ flows' \in [Flows -> Flow] /\ flows'[f].step = "idle" /\ flows'[f].token = 0
      /\ \A g \in Flows \ {f} : flows'[g] = flows[g]
  BY <1>1, EndsFacts
<1>4. f # 0 /\ \A t \in Tokens : t # 0
  BY ShareImportAssumption
<1>5. ASSUME NEW t \in Tokens
      PROVE  /\ windows'[t] \in Window /\ windows'[t].shows = windows[t].shows
             /\ windows'[t].seen = windows[t].seen /\ windows'[t].past = windows[t].past
             /\ windows[t].flow = f => windows'[t].flow = 0
             /\ windows[t].flow # f => windows'[t] = windows[t]
  <2>1. /\ windows[t] \in Window
        /\ windows'[t] = IF windows[t].flow = f THEN [windows[t] EXCEPT !.flow = 0] ELSE windows[t]
    BY DEF Shape, Rejects
  <2> QED
    BY <2>1 DEF Window
<1>6. windows' \in [Tokens -> Window]
  BY <1>5 DEF Rejects
<1>7. Shape'
  BY <1>1, <1>2, <1>3, <1>6 DEF Shape, Used
<1>8. LibraryInv'
  <2>1. \A g \in Flows : flows'[g].step = "dispatch" => flows'[g] = flows[g]
    BY <1>3
  <2> QED
    BY <1>1, <2>1, LibraryFrame
<1>9. ConsentInv'
  <2>1. \A g \in Flows : flows'[g].step \in Recording \cup Notifying =>
           flows[g].step \in Recording \cup Notifying /\ flows'[g].request = flows[g].request
    BY <1>3 DEF Recording, Notifying
  <2> QED
    BY <1>1, <2>1, ConsentFrame DEF ConsentInv
<1>10. TokenInv'
  <2>1. \A t \in Tokens : ~Born(t) => windows'[t] = windows[t]
    BY <1>4, <1>5, BornFacts DEF NoWindow
  <2>2. \A g \in Flows : \/ flows'[g] = flows[g]
                         \/ flows'[g].token = 0 /\ flows'[g].step \in {"idle", "begin"}
    BY <1>3
  <2> QED
    BY <1>1, <1>2, <2>1, <2>2, TokenFrame
<1>11. RecordedInv'
  <2>1. \A g \in Flows : flows'[g].step \in Recording =>
           flows[g].step \in Recording /\ ListOf(g)' = ListOf(g)
    BY <1>3 DEF Recording, ListOf
  <2> QED
    BY <1>1, <2>1, RecordedFrame
<1>12. ClosedInv'
  BY <1>5 DEF ClosedInv
<1>13. ASSUME NEW t \in Tokens, Watched(t)' PROVE OneFlow(t)' /\ SeenInv(t)' /\ ShownInv(t)'
  <2>1. Watched(t) /\ OneFlow(t) /\ SeenInv(t) /\ ShownInv(t)
    BY <1>5, <1>13 DEF Watched, WindowInv
  <2>2. {l \in library'.lists \cup library'.deleted : l.token = t} = EverSaved(t)
    BY <1>1 DEF EverSaved
  <2>3. CASE windows[t].flow # f
    <3>1. /\ \A g \in Flows : flows[g].token = t /\ flows[g].step \in Serving => flows'[g] = flows[g]
          /\ \A g \in Flows : flows'[g].token = t /\ flows'[g].step \in Serving => flows'[g] = flows[g]
      BY <1>3, <2>1, <2>3 DEF OneFlow, Serving, Confirming, Recording
    <3> QED
      BY <1>1, <1>5, <1>13, <2>2, <2>3, <3>1, WindowFrame
  <2>4. CASE windows[t].flow = f
    <3>1. windows'[t].flow = 0
      BY <1>5, <2>4
    <3>2. \A g \in Flows : flows'[g].token = t => flows'[g].step \notin Serving
      BY <1>3, <1>4, <2>1, <2>4 DEF OneFlow
    <3>3. OneFlow(t)'
      BY <3>1, <3>2 DEF OneFlow
    <3>4. SeenInv(t)'
      BY <1>1, <1>4, <1>5, <2>1, <2>4, <3>1 DEF SeenInv
    <3>5. EverSaved(t)' = EverSaved(t)
      BY <1>1 DEF EverSaved
    <3>6. ShownInv(t)'
      BY <1>5, <2>1, <3>1, <3>5 DEF ShownInv
    <3> QED
      BY <3>3, <3>4, <3>6
  <2> QED
    BY <2>3, <2>4
<1> QED
  BY <1>7, <1>8, <1>9, <1>10, <1>11, <1>12, <1>13 DEF WindowInv

\* The import is told as saved, with its record or without.
LEMMA SavedKeeps ==
  ASSUME ImportInv, NEW f \in Flows, flows[f].step \in Recording, Saved(f), used' \in Used,
         UNCHANGED <<used.tokens, inflight, library, consent, remote, sent>>,
         records' \subseteq List
  PROVE  ImportInv'
<1> PICK u : u = flows[f].token
  OBVIOUS
<1>1. flows[f].step \in Serving \ {"shown"}
  BY DEF Serving, Recording
<1>2. u \in Tokens
  BY <1>1, ServesFacts
<1> PICK shows \in {"saved"} : windows' = Answered(windows, f, u, shows, 0)
  BY DEF Saved, Answer
<1>3. flows' = [flows EXCEPT ![f].step = "notify"] /\ book' = Settled(book, u, "committed")
  BY DEF Saved, Goes
<1>4. /\ book' \in [Tokens -> Entry]
      /\ \A s \in Tokens : /\ book'[s].preview = book[s].preview
                           /\ book'[s].state = "awaiting" => book[s].state = "awaiting"
  BY <1>2, <1>3, SettledFacts DEF ImportInv, BookStates
<1>5. consent.choice = "granted" => consent.ever
  BY DEF ImportInv, ConsentInv
<1> QED
  BY <1>1, <1>3, <1>4, <1>5, AnswerStep DEF ImportInv, Shown

LEMMA AppendKeeps == ASSUME ImportInv, NEW f \in Flows, AppendRecord(f) PROVE ImportInv'
<1>1. flows[f].step = "append" /\ flows[f] \in Flow /\ flows[f].step \in Recording
  BY DEF ImportInv, Shape, AppendRecord, At, Recording
<1>2. flows[f].token \in Tokens
  BY <1>1, ServesFacts DEF Serving
<1>3. ListOf(f) \in List
  BY <1>1, <1>2 DEF ListOf, List, Flow
<1>4. records' \subseteq List
  BY <1>1, <1>3 DEF AppendRecord, Flow
<1>5. used' \in Used /\ UNCHANGED used
  BY UsedFacts DEF AppendRecord, ImportInv
<1> QED
  BY <1>1, <1>4, <1>5, SavedKeeps DEF AppendRecord

LEMMA RecordFailsKeeps == ASSUME ImportInv, NEW f \in Flows, RecordFails(f) PROVE ImportInv'
<1>1. used' \in Used /\ UNCHANGED used.tokens
  BY UsedFacts DEF RecordFails, ImportInv
<1>2. records' \subseteq List /\ flows[f].step \in Recording
  BY DEF ImportInv, Shape, RecordFails, Recording
<1> QED
  BY <1>1, <1>2, SavedKeeps DEF RecordFails

\* Who waits for the snapshot of a token, and what an answer of the service does.
Waits(t, step) == {f \in Flows : At(f, step) /\ flows[f].token = t}
Told(t, revision) ==
  windows[t].flow \in Waits(t, "shown") \cup (IF revision # 0 THEN {} ELSE Waits(t, "snapshot"))
Arrives(t, revision) ==
  /\ IF revision # 0 THEN UNCHANGED used ELSE Fault
  /\ book' = IF revision # 0 THEN Attached(book, t, revision) ELSE book
  /\ flows' = [f \in Flows |->
       IF f \in Waits(t, "shown") \/ (f \in Waits(t, "snapshot") /\ ~(revision # 0)) THEN NoFlow
       ELSE IF f \in Waits(t, "snapshot")
       THEN [flows[f] EXCEPT !.step = "read", !.preview = revision]
       ELSE flows[f]]
  /\ windows' = IF Told(t, revision)
                THEN Answered(windows, windows[t].flow, t,
                              IF revision # 0 THEN "preview" ELSE "failed", revision)
                ELSE windows

\* The service has answered: the snapshot goes to whoever waits for it.
LEMMA SnapshotKeeps == ASSUME ImportInv, NEW t \in Tokens, Snapshot(t) PROVE ImportInv'
<1> USE DEF ImportInv
<1>0. /\ t \in inflight /\ inflight' = inflight \ {t} /\ remote \in Nat
      /\ UNCHANGED <<recent, library, records, consent, remote, sent>>
  BY DEF Snapshot, Shape
<1> PICK revision \in {remote, 0} : Arrives(t, revision)
  BY DEF Snapshot, Arrives, Told, Waits
<1> DEFINE waits(step) == Waits(t, step)
           ok == revision # 0
           shows == IF ok THEN "preview" ELSE "failed"
           answered == Told(t, revision)
           now == [shows |-> shows, flow |-> 0, past |-> windows[t].past,
                   seen |-> IF revision = 0 THEN windows[t].seen ELSE revision]
<1>1. /\ t \in inflight /\ inflight' = inflight \ {t} /\ revision \in Nat
      /\ UNCHANGED <<recent, library, records, consent, remote, sent>>
  BY <1>0
<1>2. used' \in Used /\ UNCHANGED used.tokens
  <2>1. UNCHANGED used \/ Fault
    BY DEF Arrives
  <2> QED
    BY <2>1, UsedFacts
<1>3. /\ windows[t] \in Window /\ book[t] \in Entry /\ \A f \in Flows : flows[f] \in Flow
      /\ ~(t > used.tokens)
  BY <1>1 DEF Shape, TokenInv
<1>4. now \in Window /\ now.flow = 0 /\ now.shows = shows /\ now.past = windows[t].past
  BY <1>1, <1>3 DEF Window, Shown
<1>5. answered => windows' = [windows EXCEPT ![t] = now]
  BY DEF Answered, Arrives
<1>6. ~answered => windows' = windows
  BY DEF Arrives
<1>7. ASSUME NEW f \in Flows
      PROVE  \/ flows'[f] = flows[f] /\ f \notin waits("shown") /\ f \notin waits("snapshot")
             \/ /\ f \in waits("shown") \cup waits("snapshot")
                /\ flows'[f] = NoFlow
             \/ /\ f \in waits("snapshot") /\ ok
                /\ flows'[f] = [flows[f] EXCEPT !.step = "read", !.preview = revision]
  BY DEF Arrives
<1>8. ASSUME NEW f \in Flows
      PROVE  [flows[f] EXCEPT !.step = "read", !.preview = revision] \in Flow
  BY <1>1, <1>3 DEF Flow, Serving, Confirming
<1>9. flows' \in [Flows -> Flow]
  <2>1. DOMAIN flows' = Flows /\ flows' = [f \in Flows |-> flows'[f]]
    BY DEF Arrives
  <2>2. \A f \in Flows : flows'[f] \in Flow
    BY <1>3, <1>7, <1>8, EmptyFacts
  <2> QED
    BY <2>1, <2>2
<1>10. ASSUME NEW f \in Flows
       PROVE  \/ flows'[f] = flows[f] /\ ~(flows[f].token = t /\ flows[f].step \in {"shown", "snapshot"})
              \/ /\ flows[f].token = t /\ flows[f].step \in {"shown", "snapshot"}
                 /\ flows'[f].step = "idle" /\ flows'[f].token = 0
              \/ /\ flows[f].token = t /\ flows[f].step = "snapshot"
                 /\ flows'[f].step = "read" /\ flows'[f].token = t
  <2>1. /\ \A g \in Flows : g \in Waits(t, "shown") <=> flows[g].token = t /\ flows[g].step = "shown"
        /\ \A g \in Flows : g \in Waits(t, "snapshot") <=> flows[g].token = t /\ flows[g].step = "snapshot"
    BY DEF At, Waits
  <2>2. CASE flows'[f] = [flows[f] EXCEPT !.step = "read", !.preview = revision] /\ f \in waits("snapshot")
    <3>1. flows'[f].step = "read" /\ flows'[f].token = flows[f].token
      BY <1>3, <2>2 DEF Flow
    <3> QED
      BY <2>1, <2>2, <3>1
  <2>3. CASE flows'[f] = NoFlow /\ f \in waits("shown") \cup waits("snapshot")
    BY <2>1, <2>3 DEF NoFlow
  <2>4. CASE flows'[f] = flows[f] /\ f \notin waits("shown") /\ f \notin waits("snapshot")
    BY <2>1, <2>4
  <2> QED
    BY <1>7, <2>2, <2>3, <2>4
<1>11. windows' \in [Tokens -> Window] /\ \A s \in Tokens : s # t => windows'[s] = windows[s]
  BY <1>4, <1>5, <1>6 DEF Shape
<1>12. (answered => windows'[t] = now) /\ (~answered => windows'[t] = windows[t])
  BY <1>5, <1>6 DEF Shape
<1>13. /\ book' \in [Tokens -> Entry]
       /\ \A s \in Tokens : /\ book'[s].state = book[s].state
                            /\ s # t => book'[s].preview = book[s].preview
       /\ ok /\ book'[t].state = "awaiting" => book'[t].preview = revision
  <2>1. CASE ok
    <3>1. book' = [book EXCEPT ![t].preview = IF book[t].state = "awaiting" THEN revision
                                             ELSE book[t].preview]
      BY <2>1 DEF Attached, Arrives
    <3> QED
      BY <1>1, <1>3, <2>1, <3>1 DEF Shape, Entry
  <2>2. CASE ~ok
    <3>1. book' = book
      BY <2>2 DEF Arrives
    <3> QED
      BY <2>2, <3>1 DEF Shape
  <2> QED
    BY <2>1, <2>2
<1>14. answered => Born(t) /\ windows[t].flow # 0
  <2>1. answered => windows[t].flow \in Flows
    BY DEF Told, Waits
  <2>2. answered => windows[t] # NoWindow /\ windows[t].flow # 0
    BY <2>1, ShareImportAssumption DEF NoWindow
  <2> QED
    BY <2>2, BornFacts
<1>15. /\ answered => windows[t].flow \in Flows
       /\ windows[t].flow \in waits("shown") => answered
       /\ answered => windows[t].flow \in waits("shown") \/ windows[t].flow \in waits("snapshot")
       /\ \A f \in Flows : f \in waits("shown") <=> flows[f].step = "shown" /\ flows[f].token = t
       /\ \A f \in Flows : f \in waits("snapshot") <=> flows[f].step = "snapshot" /\ flows[f].token = t
       /\ ok => revision # 0
       /\ shows = "preview" => ok
       /\ shows \in {"preview", "failed"}
       /\ now.seen = IF revision = 0 THEN windows[t].seen ELSE revision
  BY DEF At, Told, Waits
<1> HIDE DEF waits, ok, shows, answered, now
<1>16. Shape'
  BY <1>1, <1>2, <1>9, <1>11, <1>13 DEF Shape, Used
<1>17. LibraryInv'
  <2>1. \A f \in Flows : flows'[f].step = "dispatch" => flows'[f] = flows[f]
    BY <1>10
  <2> QED
    BY <1>1, <2>1, LibraryFrame
<1>18. ConsentInv'
  <2>1. \A f \in Flows : flows'[f].step \in Recording \cup Notifying =>
           flows[f].step \in Recording \cup Notifying /\ flows'[f].request = flows[f].request
    BY <1>10 DEF Recording, Notifying
  <2> QED
    BY <1>1, <2>1, ConsentFrame DEF ConsentInv
<1>19. TokenInv'
  <2>1. \A f \in Flows : \/ flows'[f] = flows[f]
                         \/ flows'[f].token = 0 /\ flows'[f].step \in {"idle", "begin"}
                         \/ /\ flows'[f].step \notin {"idle", "begin", "open"}
                            /\ Born(flows'[f].token)
    BY <1>10, BornFacts
  <2>2. \A s \in Tokens : ~Born(s) => windows'[s] = windows[s]
    BY <1>11, <1>12, <1>14
  <2>3. \A s \in Tokens : s > used.tokens =>
          book'[s].preview = book[s].preview /\ (s \in inflight' => s \in inflight)
    BY <1>1, <1>3, <1>13
  <2> QED
    BY <1>1, <1>2, <2>1, <2>2, <2>3, TokenFrame
<1>20. RecordedInv'
  <2>1. \A f \in Flows : flows'[f].step \in Recording =>
           flows[f].step \in Recording /\ ListOf(f)' = ListOf(f)
    BY <1>10 DEF Recording, ListOf
  <2>2. library.lists \cup library.deleted \subseteq library'.lists \cup library'.deleted
    BY <1>1, <1>2
  <2> QED
    BY <2>1, <2>2, RecordedFrame
<1>21. ClosedInv'
  BY <1>4, <1>11, <1>12 DEF ClosedInv
<1>22. ASSUME NEW s \in Tokens, s # t, Watched(s)'
       PROVE  OneFlow(s)' /\ SeenInv(s)' /\ ShownInv(s)'
  <2>1. windows'[s] = windows[s] /\ {l \in library'.lists \cup library'.deleted : l.token = s} = EverSaved(s)
    BY <1>1, <1>11, <1>22 DEF EverSaved
  <2>3. s # 0 /\ (s \in inflight' => s \in inflight)
    BY <1>1, ShareImportAssumption
  <2>4. /\ \A f \in Flows : flows[f].token = s /\ flows[f].step \in Serving => flows'[f] = flows[f]
        /\ \A f \in Flows : flows'[f].token = s /\ flows'[f].step \in Serving => flows'[f] = flows[f]
    BY <1>10, <1>22, <2>3
  <2> QED
    BY <1>13, <1>22, <2>1, <2>3, <2>4, WindowFrame
<1>23. ASSUME Watched(t)' PROVE OneFlow(t)' /\ SeenInv(t)' /\ ShownInv(t)'
  <2>1. Watched(t)
    BY <1>4, <1>12, <1>14, <1>23 DEF Watched, ClosedInv
  <2>2. OneFlow(t) /\ SeenInv(t) /\ ShownInv(t) /\ \A f \in Flows : f # 0
    BY <2>1, ShareImportAssumption DEF WindowInv
  <2>3. /\ windows[t].shows # "preview"
        /\ windows[t].flow # 0 => windows[t].shows # "saving" /\ flows[windows[t].flow].preview = 0
    BY <1>1, <2>2 DEF SeenInv
  <2>4. windows[t].flow \in Flows \cup {0}
    BY <1>3 DEF Window
  <2>5. windows[t].flow # 0 => flows[windows[t].flow].step # "snapshot"
    BY <2>2, <2>3 DEF OneFlow, WaitsAt
  <2>6. \A f \in Flows : ~(flows[f].token = t /\ flows[f].step = "snapshot")
    BY <2>2, <2>5 DEF OneFlow, Serving, Confirming
  <2>7. EverSaved(t)' = EverSaved(t)
    BY <1>1 DEF EverSaved
  <2>8. CASE answered
    <3>1. /\ windows[t].flow \in Flows /\ flows[windows[t].flow].step = "shown"
          /\ windows'[t].flow = 0 /\ windows'[t].shows = shows
          /\ shows = "preview" => windows'[t].seen = revision /\ revision # 0
      BY <1>4, <1>12, <1>15, <2>6, <2>8
    <3>2. \A f \in Flows : flows'[f].token = t => flows'[f].step \notin Serving
      <4> SUFFICES ASSUME NEW f \in Flows, flows'[f].token = t, flows'[f].step \in Serving
                   PROVE  FALSE
        OBVIOUS
      <4>1. t # 0
        BY ShareImportAssumption
      <4>2. flows'[f] = flows[f] /\ ~(flows[f].token = t /\ flows[f].step \in {"shown", "snapshot"})
        BY <1>10, <2>6, <4>1
      <4> QED
        BY <2>2, <3>1, <4>2 DEF OneFlow
    <3>3. OneFlow(t)'
      BY <3>1, <3>2 DEF OneFlow
    <3>4. SeenInv(t)'
      BY <1>1, <1>13, <1>15, <3>1 DEF SeenInv
    <3>5. EverSaved(t) = {}
      BY <2>2, <3>1 DEF OneFlow, ShownInv, WaitsAt, Confirming, Recording
    <3>6. ShownInv(t)'
      BY <1>15, <2>7, <3>1, <3>5 DEF ShownInv
    <3> QED
      BY <3>3, <3>4, <3>6
  <2>9. CASE ~answered
    <3>1. windows'[t] = windows[t]
      BY <1>12, <2>9
    <3>2. windows[t].flow # 0 => flows[windows[t].flow].step # "shown"
      BY <1>15, <2>2, <2>4, <2>9 DEF OneFlow
    <3>3. windows[t].flow # 0 => flows'[windows[t].flow] = flows[windows[t].flow]
      BY <1>10, <2>4, <2>5, <3>2
    <3>4. \A f \in Flows : flows'[f].token = t /\ flows'[f].step \in Serving => flows'[f] = flows[f]
      <4> SUFFICES ASSUME NEW f \in Flows, flows'[f].token = t, flows'[f].step \in Serving
                   PROVE  flows'[f] = flows[f]
        OBVIOUS
      <4>1. t # 0
        BY ShareImportAssumption
      <4> QED
        BY <1>10, <2>6, <4>1
    <3>5. OneFlow(t)'
      BY <2>2, <3>1, <3>3, <3>4 DEF OneFlow
    <3>6. SeenInv(t)'
      BY <1>1, <2>3, <3>1, <3>3 DEF SeenInv
    <3>7. ShownInv(t)'
      BY <1>2, <2>2, <2>7, <3>1, <3>3 DEF ShownInv
    <3> QED
      BY <3>5, <3>6, <3>7
  <2> QED
    BY <2>8, <2>9
<1> QED
  BY <1>16, <1>17, <1>18, <1>19, <1>20, <1>21, <1>22, <1>23 DEF WindowInv

\* The service is notified, or not.
LEMMA NotifyKeeps == ASSUME ImportInv, NEW f \in Flows, Notify(f) PROVE ImportInv'
<1> USE DEF ImportInv
<1>1. /\ flows[f].step = "notify" /\ flows[f] \in Flow
      /\ UNCHANGED <<book, recent, inflight, windows, library, records, consent, remote, used>>
  BY DEF Notify, At, Shape
<1>2. \A t \in Tokens : book'[t] = book[t]
  BY <1>1
<1>3. CASE Ends(f) /\ UNCHANGED sent
  <2>1. Shape'
    BY <1>1, <1>3, EndsFacts DEF Shape
  <2>2. \A g \in Flows : \/ flows'[g] = flows[g]
                         \/ /\ flows[g].step \in Notifying
                            /\ flows'[g].step = "idle" /\ flows'[g].token = 0
    BY <1>1, <1>3, EndsFacts DEF Notifying
  <2> QED
    BY <1>1, <1>2, <1>3, <2>1, <2>2, QuietKeeps DEF ConsentInv
<1>4. CASE /\ Effective = "granted" /\ Goes(f, "sending")
           /\ sent' = sent \cup {[kind |-> "event", request |-> flows[f].request]}
  <2>1. /\ flows' \in [Flows -> Flow] /\ flows'[f].step = "sending"
        /\ flows'[f].token = flows[f].token /\ flows'[f].request = flows[f].request
        /\ \A g \in Flows \ {f} : flows'[g] = flows[g]
    BY <1>1, <1>4 DEF Shape, Goes, Flow, Notifying
  <2>2. Shape'
    BY <1>1, <2>1 DEF Shape
  <2>3. \A g \in Flows : \/ flows'[g] = flows[g]
                         \/ /\ flows[g].step = "notify" /\ flows'[g].step = "sending"
                            /\ flows'[g].token = flows[g].token /\ flows'[g].request = flows[g].request
    BY <1>1, <2>1
  <2>4. consent.ever /\ flows[f].request \in library.receipts
    BY <1>1, <1>4, EffectiveFacts DEF ConsentInv, Notifying
  <2>5. \A s \in sent' : s \in sent \/ (consent'.ever /\ (s.kind = "event" => s.request \in library.receipts))
    BY <1>1, <1>4, <2>4
  <2> QED
    BY <1>1, <1>2, <2>2, <2>3, <2>5, QuietKeeps DEF ConsentInv
<1> QED
  BY <1>3, <1>4 DEF Notify

LEMMA NotifiedKeeps == ASSUME ImportInv, NEW f \in Flows, Notified(f) PROVE ImportInv'
<1> USE DEF ImportInv
<1>1. /\ flows[f].step = "sending" /\ Ends(f)
      /\ UNCHANGED <<book, inflight, windows, library, records, consent, remote, sent, used>>
  BY DEF Notified, At
<1>2. Shape'
  BY <1>1, EndsFacts DEF Shape
<1>3. \A g \in Flows : \/ flows'[g] = flows[g]
                       \/ /\ flows[g].step \in Notifying
                          /\ flows'[g].step = "idle" /\ flows'[g].token = 0
  BY <1>1, EndsFacts DEF Notifying
<1>4. \A t \in Tokens : book'[t] = book[t]
  BY <1>1
<1> QED
  BY <1>1, <1>2, <1>3, <1>4, QuietKeeps DEF ConsentInv

\* What the rest of the world does without the handler.
World ==
  \/ Unthrottle \/ Revoke \/ RenderSection \/ DecideInSection \/ BrowserAnswers \/ WriteDecision
  \/ EditLibrary \/ Republish

\* Of the library the world takes playlists to what was deleted, or moves its revision.
LEMMA WorldLibrary ==
  ASSUME ImportInv, World
  PROVE  /\ \/ library' = library
            \/ /\ library'.revision = library.revision + 1 /\ library'.lists \subseteq library.lists
               /\ library'.receipts = library.receipts
         /\ library' \in Library
         /\ library'.lists \cup library'.deleted = library.lists \cup library.deleted
<1> USE DEF ImportInv
<1>1. CASE EditLibrary
  <2> PICK lists \in {library.lists} \cup {library.lists \ {l} : l \in library.lists} :
         library' = [library EXCEPT !.revision = @ + 1, !.lists = lists,
                                    !.deleted = @ \cup (library.lists \ lists)]
    BY <1>1 DEF EditLibrary
  <2>2. lists \subseteq library.lists
    OBVIOUS
  <2>3. library \in Library
    BY DEF Shape
  <2>4. library' = [revision |-> library.revision + 1, lists |-> lists,
                    receipts |-> library.receipts,
                    deleted |-> library.deleted \cup (library.lists \ lists)]
    BY <2>3 DEF Library
  <2>5. library' \in Library
    BY ONLY <2>2, <2>3, <2>4 DEF Library
  <2> QED
    BY <2>2, <2>4, <2>5
<1>2. CASE WriteDecision
  <2>1. library' = [library EXCEPT !.revision = @ + 1] \/ library' = library
    BY <1>2 DEF WriteDecision
  <2> QED
    BY <2>1 DEF Shape, Library
<1>3. CASE ~EditLibrary /\ ~WriteDecision
  <2>1. library' = library
    BY <1>3 DEF World, Unthrottle, Revoke, RenderSection, DecideInSection, BrowserAnswers, Republish
  <2> QED
    BY <2>1 DEF Shape
<1> QED
  BY <1>1, <1>2, <1>3

LEMMA WorldKeeps == ASSUME ImportInv, World PROVE ImportInv'
<1> USE DEF ImportInv
<1>1. UNCHANGED <<book, inflight, windows, flows, records, sent>>
  BY DEF World, Unthrottle, Revoke, RenderSection, DecideInSection, BrowserAnswers, WriteDecision,
    EditLibrary, Republish
<1>2. /\ used' \in Used /\ UNCHANGED used.tokens
  BY UsedFacts DEF World, Unthrottle, Revoke, RenderSection, DecideInSection, BrowserAnswers,
    WriteDecision, EditLibrary, Republish
<1>3. remote' \in Nat \ {0}
  <2>1. remote' = remote \/ remote' = remote + 1
    BY DEF World, Unthrottle, Revoke, RenderSection, DecideInSection, BrowserAnswers, WriteDecision,
      EditLibrary, Republish
  <2>2. remote \in Nat \ {0}
    BY DEF Shape
  <2> QED
    BY ONLY <2>1, <2>2
<1>4. /\ \/ library' = library
         \/ /\ library'.revision = library.revision + 1 /\ library'.lists \subseteq library.lists
            /\ library'.receipts = library.receipts
      /\ library' \in Library
      /\ library'.lists \cup library'.deleted = library.lists \cup library.deleted
  BY WorldLibrary
<1>5. /\ consent.ever => consent'.ever
      /\ consent'.choice = "granted" => consent'.ever
  <2>0. consent.choice = "granted" => consent.ever
    BY DEF ConsentInv
  <2>1. CASE WriteDecision
    <3> PICK choice \in {"granted", "declined"} :
           \/ consent' = [consent EXCEPT !.choice = choice, !.ever = @ \/ choice = "granted",
                                         !.deciding = @ \ {choice}]
           \/ consent' = [consent EXCEPT !.deciding = @ \ {choice}]
      BY <2>1 DEF WriteDecision
    <3>1. CASE consent' = [consent EXCEPT !.choice = choice, !.ever = @ \/ choice = "granted",
                                          !.deciding = @ \ {choice}]
      <4>1. consent'.choice = choice /\ consent'.ever = (consent.ever \/ choice = "granted")
        BY <3>1
      <4> QED
        BY <4>1
    <3>2. CASE consent' = [consent EXCEPT !.deciding = @ \ {choice}]
      <4>1. consent'.choice = consent.choice /\ consent'.ever = consent.ever
        BY <3>2
      <4> QED
        BY <2>0, <4>1
    <3> QED
      BY <3>1, <3>2
  <2>2. CASE ~WriteDecision
    <3>1. consent'.choice = consent.choice /\ consent'.ever = consent.ever
      <4>1. CASE Revoke
        <5>1. consent' = [consent EXCEPT !.native = FALSE]
          BY <4>1 DEF Revoke
        <5> QED
          BY <5>1
      <4>5. CASE RenderSection
        <5>1. consent' = [consent EXCEPT !.shown = consent.choice]
          BY <4>5 DEF RenderSection
        <5> QED
          BY <5>1
      <4>2. CASE DecideInSection
        BY <4>2 DEF DecideInSection
      <4>3. CASE BrowserAnswers
        BY <4>3 DEF BrowserAnswers
      <4>4. CASE Unthrottle \/ EditLibrary \/ Republish
        BY <4>4 DEF Unthrottle, EditLibrary, Republish
      <4> QED
        BY <2>2, <4>1, <4>2, <4>3, <4>4, <4>5 DEF World
    <3> QED
      BY <2>0, <3>1
  <2> QED
    BY <2>1, <2>2
<1>6. Shape'
  BY <1>1, <1>2, <1>3, <1>4 DEF Shape, Used
<1>7. /\ \A t \in Tokens : book'[t] = book[t]
      /\ \A f \in Flows : flows'[f] = flows[f]
  BY <1>1
<1> QED
  BY <1>1, <1>2, <1>4, <1>5, <1>6, <1>7, QuietKeeps

\* An entry of the book is past its lifetime.
LEMMA ExpireKeeps == ASSUME ImportInv, NEW t \in Tokens, Expire(t) PROVE ImportInv'
<1> USE DEF ImportInv
<1>1. /\ book' = [book EXCEPT ![t].old = TRUE]
      /\ UNCHANGED <<inflight, flows, windows, library, records, consent, remote, sent>>
  BY DEF Expire
<1>2. used' \in Used /\ used'.tokens = used.tokens
  BY UsedFacts DEF Expire
<1>3. /\ book' \in [Tokens -> Entry]
      /\ \A s \in Tokens : book'[s].preview = book[s].preview /\ book'[s].state = book[s].state
  <2>1. \A s \in Tokens : book[s] \in Entry
    BY DEF Shape
  <2> QED
    BY <1>1, <2>1 DEF Shape, Entry
<1>4. Shape'
  BY <1>1, <1>2, <1>3 DEF Shape, Used
<1> QED
  BY <1>1, <1>2, <1>3, <1>4, QuietKeeps DEF ConsentInv

\* The worker stops: calls and book are gone, windows wait for nothing.
LEMMA StopKeeps == ASSUME ImportInv, WorkerStops PROVE ImportInv'
<1> USE DEF ImportInv
<1>1. /\ inflight' = {} /\ UNCHANGED <<library, records, consent, remote, sent>>
      /\ \A t \in Tokens : book'[t] = NoEntry
      /\ \A f \in Flows : flows'[f] = NoFlow /\ flows'[f].step = "idle" /\ flows'[f].token = 0
      /\ book' \in [Tokens -> Entry] /\ flows' \in [Flows -> Flow]
  BY EmptyFacts DEF WorkerStops, NoFlow
<1>2. /\ used' \in Used /\ UNCHANGED used.tokens
  BY UsedFacts DEF WorkerStops
<1>3. ASSUME NEW t \in Tokens
      PROVE  /\ windows'[t] \in Window /\ windows'[t].flow = 0
             /\ windows'[t].shows = windows[t].shows /\ windows'[t].seen = windows[t].seen
             /\ windows'[t].past = windows[t].past
             /\ windows[t] = NoWindow => windows'[t] = NoWindow
  <2>1. windows[t] \in Window /\ windows'[t] = [windows[t] EXCEPT !.flow = 0]
    BY DEF Shape, WorkerStops
  <2> QED
    BY <2>1 DEF Window, NoWindow
<1>4. windows' \in [Tokens -> Window]
  BY <1>3 DEF WorkerStops
<1>5. Shape'
  BY <1>1, <1>2, <1>4 DEF Shape, Used
<1>6. LibraryInv'
  BY <1>1, LibraryFrame
<1>7. ConsentInv'
  <2>1. \A f \in Flows : flows'[f].step \notin Recording \cup Notifying
    BY <1>1 DEF Recording, Notifying
  <2> QED
    BY <1>1, <2>1, ConsentFrame DEF ConsentInv
<1>8. TokenInv'
  <2>1. \A t \in Tokens : Unborn(t) => Unborn(t)'
    BY <1>1, <1>3 DEF Unborn
  <2>2. \A t \in Tokens : book'[t].preview = 0 /\ t # 0
    BY <1>1, ShareImportAssumption DEF NoEntry
  <2> QED
    BY <1>1, <1>2, <2>1, <2>2 DEF TokenInv, At
<1>9. RecordedInv' /\ ClosedInv'
  BY <1>1, <1>3 DEF RecordedInv, ClosedInv, Recording
<1>10. ASSUME NEW t \in Tokens, Watched(t)' PROVE OneFlow(t)' /\ SeenInv(t)' /\ ShownInv(t)'
  <2>1. Watched(t) /\ SeenInv(t) /\ ShownInv(t)
    BY <1>3, <1>10 DEF Watched, WindowInv
  <2>2. OneFlow(t)'
    BY <1>1, <1>3 DEF OneFlow, Serving, Confirming, Recording
  <2>3. book'[t].state # "awaiting"
    BY <1>1 DEF NoEntry
  <2>4. SeenInv(t)'
    BY <1>1, <1>3, <2>1, <2>3 DEF SeenInv
  <2>5. EverSaved(t)' = EverSaved(t)
    BY <1>1 DEF EverSaved
  <2>6. ShownInv(t)'
    BY <1>2, <1>3, <2>1, <2>5 DEF ShownInv
  <2> QED
    BY <2>2, <2>4, <2>6
<1> QED
  BY <1>5, <1>6, <1>7, <1>8, <1>9, <1>10 DEF WindowInv

-----------------------------------------------------------------------------
(* Windows loaded anew.                                                    *)

\* The call is as it was, or goes on without beginning to save or leaving off.
Steady(f) ==
  \/ flows'[f] = flows[f]
  \/ flows[f].step \notin Saving /\ flows'[f].step \notin Saving
  \/ /\ flows[f].step \in Saving /\ flows'[f].step \in Saving
     /\ flows'[f].token = flows[f].token
     /\ flows'[f].step \in Confirming => flows[f].step \in Confirming

Union == library.lists \cup library.deleted

\* A window is as it was, and the calls for its token are.
LEMMA AgainFrame ==
  ASSUME ImportInv, ReloadInv, NEW t \in Tokens, Again(t)', windows'[t] = windows[t],
         library'.lists \cup library'.deleted = Union,
         \A f \in Flows : flows[f].token = t \/ flows'[f].token = t => Steady(f)
  PROVE  AgainOk(t)'
<1>1. Again(t) /\ AgainOk(t)
  BY DEF Again, ReloadInv
<1>2. EverSaved(t)' = EverSaved(t)
  BY DEF EverSaved, Union
<1>3. windows[t].flow \in Flows \cup {0}
  BY DEF ImportInv, Shape, Window
<1>4. \A f \in Flows : flows'[f].token = t /\ flows'[f].step \in Saving =>
        /\ flows[f].token = t /\ flows[f].step \in Saving
        /\ flows'[f].step \in Confirming => flows[f].step \in Confirming
  BY DEF Steady
<1>5. \A f \in Flows : flows[f].token = t /\ flows[f].step \in Saving =>
        flows'[f].token = t /\ flows'[f].step \in Saving
  BY DEF Steady
<1>6. Confirming \subseteq Saving
  BY DEF Saving
<1>7. \A f \in Flows : flows'[f].token = t /\ flows'[f].step \in Saving =>
                         windows'[t].flow = f /\ windows'[t].shows = "saving"
  BY <1>1, <1>4 DEF AgainOk
<1>8. \A f \in Flows : flows'[f].token = t /\ flows'[f].step \in Confirming => EverSaved(t)' = {}
  BY <1>1, <1>2, <1>4, <1>6 DEF AgainOk
<1>9. EverSaved(t)' # {} => windows'[t].shows \in {"saving", "saved"}
  BY <1>1, <1>2 DEF AgainOk
<1>10. windows'[t].flow # 0 =>
         /\ windows'[t].shows \in {"loading", "deciding", "saving"}
         /\ windows'[t].shows = "saving" => /\ flows'[windows'[t].flow].token = t
                                            /\ flows'[windows'[t].flow].step \in Saving
  BY <1>1, <1>3, <1>5 DEF AgainOk
<1> QED
  BY <1>7, <1>8, <1>9, <1>10 DEF AgainOk

\* What was saved stays saved.
LEMMA SavedFrame ==
  ASSUME ReloadInv, NEW t \in Tokens, windows'[t].shows = "saved" => windows[t].shows = "saved",
         Union \subseteq library'.lists \cup library'.deleted
  PROVE  windows'[t].shows = "saved" => EverSaved(t)' # {}
<1>1. EverSaved(t) \subseteq EverSaved(t)'
  BY DEF EverSaved, Union
<1> QED
  BY <1>1 DEF ReloadInv

\* No window is touched.
LEMMA SteadyKeeps ==
  ASSUME ImportInv, ReloadInv, UNCHANGED windows,
         library'.lists \cup library'.deleted = Union, \A f \in Flows : Steady(f)
  PROVE  ReloadInv'
<1>1. ASSUME NEW t \in Tokens, Again(t)' PROVE AgainOk(t)'
  BY <1>1, AgainFrame
<1>2. \A t \in Tokens : windows'[t].shows = "saved" => EverSaved(t)' # {}
  BY SavedFrame
<1> QED
  BY <1>1, <1>2 DEF ReloadInv

\* A call answers its window and is done with it.
LEMMA AnsweredKeeps ==
  ASSUME ImportInv, ReloadInv, NEW f \in Flows, flows[f].step \in Serving,
         NEW shows \in Shown \ {"closed"}, NEW seen \in Nat, NEW u, u = flows[f].token,
         windows' = Answered(windows, f, u, shows, seen),
         shows = "saved" <=> flows[f].step \in Recording,
         flows'[f].step \notin Saving, flows'[f].token \in {0, u},
         \A g \in Flows \ {f} : flows'[g] = flows[g],
         library'.lists \cup library'.deleted = Union
  PROVE  ReloadInv'
<1>1. /\ u \in Tokens
      /\ \A t \in Tokens : t # u => windows'[t] = windows[t]
      /\ windows[u].flow # f => windows' = windows
      /\ windows[u].flow = f => /\ windows'[u].shows = shows /\ windows'[u].flow = 0
                                /\ windows'[u].past = windows[u].past
  BY AnswerFrame
<1>2. f # 0
  BY ShareImportAssumption
<1>3. ASSUME NEW t \in Tokens, Again(t)' PROVE AgainOk(t)'
  <2>1. CASE windows'[t] = windows[t]
    <3>1. Again(t) /\ AgainOk(t)
      BY <1>3, <2>1 DEF Again, ReloadInv
    <3>2. flows[f].token = t => flows[f].step \notin Saving
      <4> SUFFICES ASSUME flows[f].token = t, flows[f].step \in Saving PROVE FALSE
        OBVIOUS
      <4>1. windows[t].flow = f
        BY <3>1 DEF AgainOk
      <4> QED
        BY <1>1, <1>2, <2>1, <4>1
    <3>3. flows'[f].token = t => flows'[f].step \notin Saving
      OBVIOUS
    <3>4. ASSUME NEW g \in Flows, flows[g].token = t \/ flows'[g].token = t PROVE Steady(g)
      <4>1. CASE g # f
        BY <4>1 DEF Steady
      <4>2. CASE g = f /\ flows[f].token = t
        BY <3>2, <4>2 DEF Steady
      <4>3. CASE g = f /\ flows[f].token # t
        BY <3>4, <4>3, ShareImportAssumption
      <4> QED
        BY <4>1, <4>2, <4>3
    <3> QED
      BY <1>3, <2>1, <3>4, AgainFrame
  <2>2. CASE windows'[t] # windows[t]
    <3>1. /\ t = u /\ windows[u].flow = f /\ windows'[u].shows = shows /\ windows'[u].flow = 0
          /\ windows'[u].past = windows[u].past
      BY <1>1, <2>2
    <3>2. Again(u) /\ AgainOk(u)
      BY <1>2, <1>3, <3>1 DEF Again, ReloadInv, ImportInv, ClosedInv
    <3>3. \A g \in Flows : flows'[g].token = u => flows'[g].step \notin Saving
      BY <3>1, <3>2 DEF AgainOk
    <3>4. EverSaved(u) # {} => shows = "saved"
      BY <1>2, <3>1, <3>2 DEF AgainOk, Saving
    <3>5. EverSaved(u)' = EverSaved(u)
      BY DEF EverSaved, Union
    <3>6. Confirming \subseteq Saving
      BY DEF Saving
    <3> QED
      BY <3>1, <3>3, <3>4, <3>5, <3>6 DEF AgainOk
  <2> QED
    BY <2>1, <2>2
<1>4. ASSUME NEW t \in Tokens, windows'[t].shows = "saved" PROVE EverSaved(t)' # {}
  <2>1. CASE windows[t].shows = "saved"
    BY <1>4, <2>1, SavedFrame
  <2>2. CASE windows[t].shows # "saved"
    <3>1. t = u /\ flows[f].step \in Recording
      BY <1>1, <1>4, <2>2
    <3>2. ListOf(f) \in library.lists \cup library.deleted /\ ListOf(f).token = u
      BY <3>1 DEF ImportInv, RecordedInv, ListOf
    <3>3. ListOf(f) \in library'.lists \cup library'.deleted
      BY <3>2 DEF Union
    <3> QED
      BY <3>1, <3>2, <3>3 DEF EverSaved
  <2> QED
    BY <2>1, <2>2
<1> QED
  BY <1>3, <1>4 DEF ReloadInv

\* A call that ends without having been about to save.
LEMMA EndedSteady ==
  ASSUME Shape, NEW f \in Flows, Ends(f), flows[f].step \notin Saving
  PROVE  \A g \in Flows : Steady(g)
BY EndsFacts DEF Steady, Saving, Confirming, Recording

\* The calls that touch no window.
LEMMA CallsReload ==
  ASSUME ImportInv, ReloadInv, NEW f \in Flows,
         Begin(f) \/ ReadLibrary(f) \/ ReadRecords(f) \/ Notify(f) \/ Notified(f)
  PROVE  ReloadInv'
<1> USE DEF ImportInv
<1>1. UNCHANGED <<windows, library>>
  BY DEF Begin, ReadLibrary, ReadRecords, Notify, Notified
<1>2. flows[f] \in Flow
  BY DEF Shape
<1>3. \A g \in Flows : Steady(g)
  <2>1. CASE Begin(f)
    <3>1. CASE Ends(f)
      BY <2>1, <3>1, EndedSteady DEF Begin, At, Saving, Confirming, Recording
    <3>2. CASE ~Ends(f)
      <4>1. flows' = [flows EXCEPT ![f].step = "open", ![f].token = used.tokens + 1]
        BY <2>1, <3>2 DEF Begin
      <4>2. flows'[f].step = "open" /\ \A g \in Flows \ {f} : flows'[g] = flows[g]
        BY <1>2, <4>1 DEF Shape, Flow
      <4> QED
        BY <2>1, <4>2 DEF Begin, At, Steady, Saving, Confirming, Recording
    <3> QED
      BY <3>1, <3>2
  <2>2. CASE ReadLibrary(f)
    <3>1. /\ flows'[f].step = "dispatch" /\ flows'[f].token = flows[f].token
          /\ \A g \in Flows \ {f} : flows'[g] = flows[g]
      BY <1>2, <2>2 DEF ReadLibrary, Shape, Flow
    <3> QED
      BY <2>2, <3>1 DEF ReadLibrary, At, Steady, Saving, Confirming
  <2>3. CASE ReadRecords(f)
    <3>1. /\ flows'[f].step = "append" /\ flows'[f].token = flows[f].token
          /\ \A g \in Flows \ {f} : flows'[g] = flows[g]
      BY <1>2, <2>3 DEF ReadRecords, Shape, Flow
    <3> QED
      BY <2>3, <3>1 DEF ReadRecords, At, Steady, Saving, Confirming, Recording
  <2>4. CASE Notify(f) /\ ~Ends(f)
    <3>1. flows'[f].step = "sending" /\ \A g \in Flows \ {f} : flows'[g] = flows[g]
      BY <1>2, <2>4 DEF Notify, Goes, Shape, Flow
    <3> QED
      BY <2>4, <3>1 DEF Notify, At, Steady, Saving, Confirming, Recording
  <2>5. CASE (Notify(f) \/ Notified(f)) /\ Ends(f)
    BY <2>5, EndedSteady DEF Notify, Notified, At, Saving, Confirming, Recording
  <2> QED
    BY <2>1, <2>2, <2>3, <2>4, <2>5 DEF Notified
<1> QED
  BY <1>1, <1>3, SteadyKeeps DEF Union

\* A call goes to a step on the same side of saving.
LEMMA GoesSteady ==
  ASSUME Shape, NEW f \in Flows, NEW to, Goes(f, to),
         \/ flows[f].step \notin Saving /\ to \notin Saving
         \/ flows[f].step \in Saving /\ to \in Saving /\ (to \in Confirming => flows[f].step \in Confirming)
  PROVE  \A g \in Flows : Steady(g)
<1>1. flows[f] \in Flow
  BY DEF Shape
<1>2. /\ flows'[f].step = to /\ flows'[f].token = flows[f].token
      /\ \A g \in Flows \ {f} : flows'[g] = flows[g]
  BY <1>1 DEF Goes, Shape, Flow
<1> QED
  BY <1>2 DEF Steady

\* The calls that answer a window, or go on while it waits.
LEMMA DetailsReload ==
  ASSUME ImportInv, ReloadInv, NEW f \in Flows, Details(f) PROVE ReloadInv'
<1> USE DEF ImportInv
<1> PICK u : u = flows[f].token
  OBVIOUS
<1>1. /\ flows[f].step = "details" /\ flows[f].step \in Serving /\ flows[f].step \notin Saving
      /\ UNCHANGED library
  BY DEF Details, At, Serving, Saving, Confirming, Recording
<1>2. flows[f].preview \in Nat
  BY <1>1, ServesFacts
<1>3. CASE Effective = "granted" /\ flows[f].preview = 0
  <2>1. Goes(f, "shown") /\ UNCHANGED windows
    BY <1>3 DEF Details, Ensures
  <2>2. \A g \in Flows : Steady(g)
    BY <1>1, <2>1, GoesSteady DEF Saving, Confirming, Recording
  <2> QED
    BY <1>1, <2>1, <2>2, SteadyKeeps DEF Union
<1>4. CASE ~(Effective = "granted" /\ flows[f].preview = 0)
  <2> PICK shows \in {"consent", "preview"}, seen \in Nat :
        windows' = Answered(windows, f, u, shows, seen)
    BY <1>2, <1>4 DEF Details, Ensures, Answer
  <2>1. Ends(f)
    BY <1>4 DEF Details, Ensures
  <2>2. /\ flows'[f].step \notin Saving /\ flows'[f].token = 0
        /\ \A g \in Flows \ {f} : flows'[g] = flows[g]
    BY <2>1, EndsFacts DEF Saving, Confirming, Recording
  <2> QED
    BY <1>1, <2>2, AnsweredKeeps DEF Union, Shown, Saving
<1> QED
  BY <1>3, <1>4

LEMMA DecidedReload ==
  ASSUME ImportInv, ReloadInv, NEW f \in Flows, Decided(f) \/ Undecided(f) PROVE ReloadInv'
<1> USE DEF ImportInv
<1> PICK u : u = flows[f].token
  OBVIOUS
<1>1. /\ flows[f].step \in {"granted", "declined"} /\ flows[f].step \in Serving
      /\ flows[f].step \notin Saving
  BY DEF Decided, Undecided, At, Serving, Saving, Confirming, Recording
<1>2. library'.lists \cup library'.deleted = Union
  <2>1. library' = library \/ library' = [library EXCEPT !.revision = @ + 1]
    BY DEF Decided, Undecided
  <2> QED
    BY <2>1 DEF Shape, Library, Union
<1>3. CASE Decided(f) /\ At(f, "granted")
  <2>1. Goes(f, "details") /\ UNCHANGED windows
    BY <1>3 DEF Decided, At
  <2>2. \A g \in Flows : Steady(g)
    BY <1>1, <2>1, GoesSteady DEF Saving, Confirming, Recording
  <2> QED
    BY <1>2, <2>1, <2>2, SteadyKeeps
<1>4. CASE ~(Decided(f) /\ At(f, "granted"))
  <2> PICK shows \in {"failed", "declined"} : windows' = Answered(windows, f, u, shows, 0)
    BY <1>4 DEF Decided, Undecided, Answer
  <2>1. Ends(f)
    BY <1>4 DEF Decided, Undecided
  <2>2. /\ flows'[f].step \notin Saving /\ flows'[f].token = 0
        /\ \A g \in Flows \ {f} : flows'[g] = flows[g]
    BY <2>1, EndsFacts DEF Saving, Confirming, Recording
  <2> QED
    BY <1>1, <1>2, <2>2, AnsweredKeeps DEF Shown, Saving
<1> QED
  BY <1>3, <1>4

LEMMA ConfirmedReload ==
  ASSUME ImportInv, ReloadInv, NEW f \in Flows, Confirmed(f) PROVE ReloadInv'
<1> USE DEF ImportInv
<1> PICK u : u = flows[f].token
  OBVIOUS
<1>1. /\ flows[f].step = "confirm" /\ flows[f].step \in Serving /\ flows[f].step \notin Recording
      /\ UNCHANGED library
  BY DEF Confirmed, At, Serving, Confirming, Recording
<1>2. CASE Effective = "granted"
  <2> PICK to \in {"read", "snapshot"} : Goes(f, to)
    BY <1>2 DEF Confirmed, Ensures
  <2>1. UNCHANGED windows
    BY <1>2 DEF Confirmed
  <2>2. \A g \in Flows : Steady(g)
    BY <1>1, GoesSteady DEF Saving, Confirming
  <2> QED
    BY <1>1, <2>1, <2>2, SteadyKeeps DEF Union
<1>3. CASE Effective # "granted"
  <2> PICK shows \in {"consent"} : windows' = Answered(windows, f, u, shows, 0)
    BY <1>3 DEF Confirmed, Answer
  <2>1. Ends(f)
    BY <1>3 DEF Confirmed
  <2>2. /\ flows'[f].step \notin Saving /\ flows'[f].token = 0
        /\ \A g \in Flows \ {f} : flows'[g] = flows[g]
    BY <2>1, EndsFacts DEF Saving, Confirming, Recording
  <2> QED
    BY <1>1, <2>2, AnsweredKeeps DEF Union, Shown
<1> QED
  BY <1>2, <1>3

\* The command is handled: refused, tried again, or the list is saved.
LEMMA FailedReload ==
  ASSUME ImportInv, ReloadInv, NEW f \in Flows, At(f, "dispatch"), Failed(f) PROVE ReloadInv'
<1> PICK u : u = flows[f].token
  OBVIOUS
<1>1. flows[f].step \in Serving /\ flows[f].step \notin Recording /\ UNCHANGED library
  BY DEF Failed, At, Serving, Confirming, Recording
<1> PICK shows \in {"failed"} : windows' = Answered(windows, f, u, shows, 0)
  BY DEF Failed, Answer
<1>2. /\ flows'[f].step \notin Saving /\ flows'[f].token = 0
      /\ \A g \in Flows \ {f} : flows'[g] = flows[g]
  BY EndsFacts DEF Failed, ImportInv, Saving, Confirming, Recording
<1> QED
  BY <1>1, <1>2, AnsweredKeeps DEF Union, Shown

LEMMA SaveReload ==
  ASSUME ImportInv, ReloadInv, NEW f \in Flows, At(f, "dispatch"), Goes(f, "records"),
         UNCHANGED windows, flows[f].revision = library.revision,
         library' = [library EXCEPT !.revision = @ + 1,
                                    !.lists    = flows[f].base \cup {ListOf(f)},
                                    !.receipts = @ \cup {flows[f].request}]
  PROVE  ReloadInv'
<1> USE DEF ImportInv
<1>1. /\ flows[f].base = library.lists /\ flows[f] \in Flow /\ f # 0
      /\ flows[f].step = "dispatch" /\ flows[f].step \in Saving /\ flows[f].step \in Confirming
  BY ShareImportAssumption DEF LibraryInv, Shape, At, Saving, Confirming
<1>2. library'.lists \cup library'.deleted = Union \cup {ListOf(f)}
  BY <1>1 DEF Shape, Library, Union
<1>3. /\ flows'[f].step = "records" /\ flows'[f].token = flows[f].token
      /\ \A g \in Flows \ {f} : flows'[g] = flows[g]
  BY <1>1 DEF Goes, Shape, Flow
<1>4. ListOf(f).token = flows[f].token
  BY DEF ListOf
<1>5. flows'[f].step \in Saving /\ flows'[f].step \notin Confirming
  BY <1>3 DEF Saving, Confirming, Recording
<1>6. ASSUME NEW t \in Tokens, Again(t)' PROVE AgainOk(t)'
  <2>1. Again(t) /\ AgainOk(t)
    BY <1>6 DEF Again, ReloadInv
  <2>2. CASE t # flows[f].token
    <3>1. EverSaved(t)' = EverSaved(t)
      BY <1>2, <1>4, <2>2 DEF EverSaved, Union
    <3>2. windows[t].flow \in Flows \cup {0}
      BY DEF Shape, Window
    <3>3. windows[t].flow = f => windows[t].shows # "saving"
      BY <1>1, <2>1, <2>2 DEF AgainOk
    <3>4. \A g \in Flows : flows'[g].token = t => flows'[g] = flows[g]
      BY <1>3, <2>2
    <3>5. windows[t].flow # 0 /\ windows[t].shows = "saving" => flows'[windows[t].flow] = flows[windows[t].flow]
      BY <1>3, <3>2, <3>3
    <3> QED
      BY <2>1, <3>1, <3>4, <3>5 DEF AgainOk
  <2>3. CASE t = flows[f].token
    <3>1. windows[t].flow = f /\ windows[t].shows = "saving"
      BY <1>1, <2>1, <2>3 DEF AgainOk
    <3>2. \A g \in Flows : flows'[g].token = t /\ flows'[g].step \in Saving => g = f
      BY <1>3, <2>1, <3>1 DEF AgainOk
    <3>3. Confirming \subseteq Saving
      BY DEF Saving
    <3> QED
      BY <1>3, <1>5, <2>3, <3>1, <3>2, <3>3 DEF AgainOk
  <2> QED
    BY <2>2, <2>3
<1>7. \A t \in Tokens : windows'[t].shows = "saved" => EverSaved(t)' # {}
  BY <1>2, SavedFrame
<1> QED
  BY <1>6, <1>7 DEF ReloadInv

LEMMA DispatchReload ==
  ASSUME ImportInv, ReloadInv, NEW f \in Flows, Dispatch(f) PROVE ReloadInv'
<1>1. At(f, "dispatch")
  BY DEF Dispatch
<1>2. CASE Conflicts(f)
  BY <1>1, <1>2, FailedReload DEF Dispatch
<1>3. CASE ~Conflicts(f) /\ flows[f].revision # library.revision
  <2>1. CASE Failed(f)
    BY <1>1, <2>1, FailedReload
  <2>2. CASE ~Failed(f)
    <3>1. Goes(f, "read") /\ UNCHANGED <<windows, library>>
      BY <1>3, <2>2 DEF Dispatch
    <3>2. \A g \in Flows : Steady(g)
      BY <1>1, <3>1, GoesSteady DEF ImportInv, At, Saving, Confirming
    <3> QED
      BY <3>1, <3>2, SteadyKeeps DEF Union
  <2> QED
    BY <2>1, <2>2
<1>4. CASE ~Conflicts(f) /\ flows[f].revision = library.revision
  BY <1>1, <1>4, SaveReload DEF Dispatch
<1> QED
  BY <1>2, <1>3, <1>4

\* Saved, with its record or without.
LEMMA SavedReload ==
  ASSUME ImportInv, ReloadInv, NEW f \in Flows, AppendRecord(f) \/ RecordFails(f) PROVE ReloadInv'
<1> PICK u : u = flows[f].token
  OBVIOUS
<1>1. /\ flows[f].step \in Recording /\ flows[f].step \in Serving /\ UNCHANGED library /\ Saved(f)
  BY DEF AppendRecord, RecordFails, At, Serving, Recording
<1> PICK shows \in {"saved"} : windows' = Answered(windows, f, u, shows, 0)
  BY <1>1 DEF Saved, Answer
<1>2. flows[f] \in Flow
  BY DEF ImportInv, Shape
<1>3. /\ flows'[f].step = "notify" /\ flows'[f].token = u
      /\ \A g \in Flows \ {f} : flows'[g] = flows[g]
  BY <1>1, <1>2 DEF Saved, Goes, ImportInv, Shape, Flow
<1>4. flows'[f].step \notin Saving
  BY <1>3 DEF Saving, Confirming, Recording
<1> QED
  BY <1>1, <1>3, <1>4, AnsweredKeeps DEF Union, Shown

\* A call is gone, or all of them are; a window that waited for one waits no more.
LEMMA DroppedReload ==
  ASSUME ImportInv, ReloadInv, UNCHANGED library,
         \A g \in Flows : flows'[g] = flows[g] \/ (flows'[g].step = "idle" /\ flows'[g].token = 0),
         \A t \in Tokens : /\ windows'[t].shows = windows[t].shows /\ windows'[t].past = windows[t].past
                           /\ \/ windows'[t].flow = 0
                              \/ /\ windows'[t].flow = windows[t].flow
                                 /\ flows'[windows[t].flow] = flows[windows[t].flow],
         \A t \in Tokens, g \in Flows : flows'[g] = flows[g] /\ flows[g].step \in Saving /\ windows[t].flow = g
           => windows'[t].flow = g
  PROVE  ReloadInv'
<1>1. ASSUME NEW t \in Tokens, Again(t)' PROVE AgainOk(t)'
  <2>1. Again(t) /\ AgainOk(t)
    BY <1>1 DEF Again, ReloadInv
  <2>2. EverSaved(t)' = EverSaved(t)
    BY DEF EverSaved
  <2>3. \A g \in Flows : flows'[g].token = t => flows'[g] = flows[g]
    BY ShareImportAssumption
  <2>4. Confirming \subseteq Saving
    BY DEF Saving
  <2>5. \A g \in Flows : flows'[g].token = t /\ flows'[g].step \in Saving =>
                           windows'[t].flow = g /\ windows'[t].shows = "saving"
    BY <2>1, <2>3 DEF AgainOk
  <2>6. \A g \in Flows : flows'[g].token = t /\ flows'[g].step \in Confirming => EverSaved(t)' = {}
    BY <2>1, <2>2, <2>3 DEF AgainOk
  <2>7. windows'[t].flow # 0 =>
          /\ windows'[t].shows \in {"loading", "deciding", "saving"}
          /\ windows'[t].shows = "saving" => /\ flows'[windows'[t].flow].token = t
                                             /\ flows'[windows'[t].flow].step \in Saving
    BY <2>1 DEF AgainOk
  <2>8. EverSaved(t)' # {} => windows'[t].shows \in {"saving", "saved"}
    BY <2>1, <2>2 DEF AgainOk
  <2> QED
    BY <2>5, <2>6, <2>7, <2>8 DEF AgainOk
<1>2. \A t \in Tokens : windows'[t].shows = "saved" => EverSaved(t)' # {}
  BY SavedFrame DEF Union
<1> QED
  BY <1>1, <1>2 DEF ReloadInv

LEMMA RejectsReload ==
  ASSUME ImportInv, ReloadInv, NEW f \in Flows, Rejects(f) PROVE ReloadInv'
<1> USE DEF ImportInv
<1>1. UNCHANGED library /\ Ends(f)
  BY DEF Rejects
<1>2. /\ flows'[f].step = "idle" /\ flows'[f].token = 0
      /\ \A g \in Flows \ {f} : flows'[g] = flows[g]
  BY <1>1, EndsFacts
<1>3. ASSUME NEW t \in Tokens
      PROVE  /\ windows'[t].shows = windows[t].shows /\ windows'[t].past = windows[t].past
             /\ windows[t].flow = f => windows'[t].flow = 0
             /\ windows[t].flow # f => windows'[t].flow = windows[t].flow
  <2>1. /\ windows[t] \in Window
        /\ windows'[t] = IF windows[t].flow = f THEN [windows[t] EXCEPT !.flow = 0] ELSE windows[t]
    BY DEF Shape, Rejects
  <2> QED
    BY <2>1 DEF Window
<1>4. \A t \in Tokens : windows[t].flow \in Flows \cup {0}
  BY DEF Shape, Window
<1>5. \A t \in Tokens : \/ windows'[t].flow = 0
                        \/ /\ windows'[t].flow = windows[t].flow
                           /\ flows'[windows[t].flow] = flows[windows[t].flow]
  BY <1>2, <1>3, <1>4
<1>6. \A t \in Tokens, g \in Flows : flows'[g] = flows[g] /\ flows[g].step \in Saving /\ windows[t].flow = g
        => windows'[t].flow = g
  BY <1>2, <1>3 DEF Saving, Confirming, Recording
<1> QED
  BY <1>1, <1>2, <1>3, <1>5, <1>6, DroppedReload

LEMMA StopReload == ASSUME ImportInv, ReloadInv, WorkerStops PROVE ReloadInv'
<1>1. UNCHANGED library /\ \A g \in Flows : flows'[g].step = "idle" /\ flows'[g].token = 0
  BY DEF WorkerStops, NoFlow
<1>2. ASSUME NEW t \in Tokens
      PROVE  /\ windows'[t].shows = windows[t].shows /\ windows'[t].past = windows[t].past
             /\ windows'[t].flow = 0
  <2>1. windows[t] \in Window /\ windows'[t] = [windows[t] EXCEPT !.flow = 0]
    BY DEF ImportInv, Shape, WorkerStops
  <2> QED
    BY <2>1 DEF Window
<1>3. \A g \in Flows : flows'[g] = flows[g] => flows[g].step \notin Saving
  BY <1>1 DEF Saving, Confirming, Recording
<1> QED
  BY <1>1, <1>2, <1>3, DroppedReload

\* One window changes by itself, the calls for other tokens being as they were.
LEMMA WindowReload ==
  ASSUME ImportInv, ReloadInv, NEW t \in Tokens, NEW w \in Window,
         windows' = [windows EXCEPT ![t] = w], UNCHANGED library,
         \A g \in Flows : flows'[g] = flows[g] \/ (flows[g].step \notin Saving /\ flows'[g].token = t)
                                              \/ (flows[g].step \notin Saving /\ flows'[g].step \notin Saving),
         w.shows # "saved",
         Again(t)' => AgainOk(t)'
  PROVE  ReloadInv'
<1>1. /\ windows'[t] = w /\ \A s \in Tokens : s # t => windows'[s] = windows[s]
      /\ \A s \in Tokens : s # 0
  BY ShareImportAssumption DEF ImportInv, Shape
<1>2. ASSUME NEW s \in Tokens, s # t, Again(s)' PROVE AgainOk(s)'
  <2>1. Again(s) /\ AgainOk(s)
    BY <1>1, <1>2 DEF Again, ReloadInv
  <2>2. EverSaved(s)' = EverSaved(s)
    BY DEF EverSaved
  <2>3. windows[s].flow \in Flows \cup {0}
    BY DEF ImportInv, Shape, Window
  <2>4. \A g \in Flows : flows'[g].token = s /\ flows'[g].step \in Saving => flows'[g] = flows[g]
    BY <1>2
  <2>5. Confirming \subseteq Saving
    BY DEF Saving
  <2>6. windows[s].flow # 0 /\ windows[s].shows = "saving" => flows'[windows[s].flow] = flows[windows[s].flow]
    BY <2>1, <2>3 DEF AgainOk
  <2>7. \A g \in Flows : flows'[g].token = s /\ flows'[g].step \in Saving =>
                           windows[s].flow = g /\ windows[s].shows = "saving"
    BY <2>1, <2>4 DEF AgainOk
  <2>8. \A g \in Flows : flows'[g].token = s /\ flows'[g].step \in Confirming => EverSaved(s) = {}
    BY <2>1, <2>4, <2>5 DEF AgainOk
  <2> QED
    BY <1>1, <1>2, <2>1, <2>2, <2>6, <2>7, <2>8 DEF AgainOk
<1>3. \A s \in Tokens : windows'[s].shows = "saved" => EverSaved(s)' # {}
  BY <1>1, SavedFrame DEF Union
<1> QED
  BY <1>2, <1>3 DEF ReloadInv

LEMMA OpenReload == ASSUME ImportInv, ReloadInv, NEW f \in Flows, Open(f) PROVE ReloadInv'
<1> USE DEF ImportInv
<1>1. /\ At(f, "open") /\ Ends(f) /\ UNCHANGED library
  BY DEF Open
<1>2. flows[f].step \notin Saving
  BY <1>1 DEF At, Saving, Confirming, Recording
<1>3. \A g \in Flows : Steady(g)
  BY <1>1, <1>2, EndedSteady
<1>4. CASE UNCHANGED windows
  BY <1>1, <1>3, <1>4, SteadyKeeps DEF Union
<1>5. CASE windows' # windows
  <2> PICK u : u = flows[f].token
    OBVIOUS
  <2>1. u \in Tokens
    BY <1>1 DEF TokenInv, At
  <2> PICK w : w = [NoWindow EXCEPT !.shows = "opened"]
    OBVIOUS
  <2>2. windows' = [windows EXCEPT ![u] = w]
    BY <1>5 DEF Open
  <2>3. w \in Window /\ w.past = "once" /\ w.shows = "opened"
    BY EmptyFacts DEF Window, NoWindow, Shown
  <2>4. windows'[u] = w
    BY <2>1, <2>2 DEF Shape
  <2>5. ~Again(u)'
    BY <2>3, <2>4 DEF Again
  <2>6. \A g \in Flows : flows'[g] = flows[g] \/ (flows[g].step \notin Saving /\ flows'[g].step \notin Saving)
    BY <1>1, <1>2, EndsFacts DEF Saving, Confirming, Recording
  <2> QED
    BY <1>1, <2>1, <2>2, <2>3, <2>5, <2>6, WindowReload
<1> QED
  BY <1>4, <1>5

LEMMA CancelReload == ASSUME ImportInv, ReloadInv, NEW t \in Tokens, Cancel(t) PROVE ReloadInv'
<1> PICK w : w = [windows[t] EXCEPT !.shows = "closed", !.flow = 0]
  OBVIOUS
<1>1. windows[t] \in Window /\ windows' = [windows EXCEPT ![t] = w] /\ UNCHANGED <<flows, library>>
  BY DEF ImportInv, Shape, Cancel
<1>2. w \in Window /\ w.shows = "closed"
  BY <1>1 DEF Window, Shown
<1>3. ~Again(t)'
  BY <1>1, <1>2 DEF Again, ImportInv, Shape
<1> QED
  BY <1>1, <1>2, <1>3, WindowReload

\* A reload that forgets no confirmation finds no call that could save.
LEMMA ReloadReload == ASSUME ImportInv, ReloadInv, NEW t \in Tokens, ReloadWindow(t) PROVE ReloadInv'
<1> PICK past \in {"again", "forgot"} :
      /\ windows' = [windows EXCEPT ![t] = [NoWindow EXCEPT !.shows = "opened", !.past = past]]
      /\ past = "again" => /\ windows[t].past # "forgot" /\ EverSaved(t) = {}
                           /\ ~(windows[t].shows = "saving" /\ windows[t].flow # 0)
  BY DEF ReloadWindow
<1> PICK w : w = [NoWindow EXCEPT !.shows = "opened", !.past = past]
  OBVIOUS
<1>1. /\ w \in Window /\ w.shows = "opened" /\ w.flow = 0 /\ w.past = past
      /\ windows' = [windows EXCEPT ![t] = w] /\ UNCHANGED <<flows, library>>
      /\ windows[t].shows # "closed" /\ windows[t] \in Window
  BY EmptyFacts DEF Window, NoWindow, Shown, ReloadWindow, ImportInv, Shape
<1>2. windows'[t] = w /\ EverSaved(t)' = EverSaved(t) /\ \A f \in Flows : f # 0
  BY <1>1, ShareImportAssumption DEF ImportInv, Shape, EverSaved
<1>3. ASSUME Again(t)' PROVE AgainOk(t)'
  <2>1. past = "again"
    BY <1>1, <1>2, <1>3 DEF Again
  <2>2. EverSaved(t) = {} /\ ~(windows[t].shows = "saving" /\ windows[t].flow # 0)
    BY <2>1
  <2>3. \A f \in Flows : flows[f].token = t => flows[f].step \notin Saving
    <3>1. CASE windows[t].past = "once"
      <4>1. OneFlow(t)
        BY <1>1, <3>1 DEF ImportInv, WindowInv, Watched
      <4>2. \A f \in Flows : flows[f].token = t /\ flows[f].step \in Saving =>
              windows[t].flow = f /\ flows[f].step \in WaitsAt(windows[t].shows)
        BY <1>2, <4>1 DEF OneFlow, Saving, Serving
      <4>3. \A f \in Flows : flows[f].step \in Saving /\ flows[f].step \in WaitsAt(windows[t].shows)
              => windows[t].shows = "saving"
        BY DEF WaitsAt, Saving, Confirming, Recording
      <4> QED
        BY <1>2, <2>2, <4>2, <4>3
    <3>2. CASE windows[t].past = "again"
      BY <1>1, <1>2, <2>2, <3>2 DEF ReloadInv, Again, AgainOk
    <3> QED
      BY <1>1, <2>1, <3>1, <3>2 DEF Window
  <2> QED
    BY <1>1, <1>2, <2>2, <2>3 DEF AgainOk, Saving
<1> QED
  BY <1>1, <1>3, WindowReload

\* A window asks: to save, when it shows a preview, and nothing was saved before.
LEMMA AskReload ==
  ASSUME ImportInv, ReloadInv, NEW t \in Tokens, NEW shows, NEW step,
         step \in {"details", "granted", "declined", "confirm"},
         shows \in {"loading", "deciding", "saving"}, shows = "saving" <=> step = "confirm",
         windows[t].shows \in {"opened", "consent", "preview"}, Asks(t, step, shows)
  PROVE  ReloadInv'
<1> USE DEF ImportInv
<1>1. windows[t] \in Window /\ UNCHANGED library /\ book \in [Tokens -> Entry]
  BY DEF Shape, Asks
<1>2. EverSaved(t)' = EverSaved(t)
  BY <1>1 DEF EverSaved
<1>3. Again(t) => EverSaved(t) = {} /\ \A g \in Flows : flows[g].token = t => flows[g].step \notin Saving
  BY DEF ReloadInv, AgainOk
<1>4. CASE Swept(book)[t].state = "awaiting"
  <2>1. Free # {} /\ NewFlow \in Flows /\ At(NewFlow, "idle")
    BY <1>4, NewFlowFacts DEF Asks, Calls
  <2> PICK f \in Flows : f = NewFlow
    BY <2>1
  <2> PICK new : new = [NoFlow EXCEPT !.step = step, !.token = t, !.request = Swept(book)[t].request,
                                      !.preview = Swept(book)[t].preview]
    OBVIOUS
  <2> PICK w : w = [windows[t] EXCEPT !.shows = shows, !.flow = f]
    OBVIOUS
  <2>2. flows' = [flows EXCEPT ![f] = new] /\ new.token = t /\ new.step = step
    BY <1>4 DEF Asks, Calls, NoFlow
  <2>3. windows' = [windows EXCEPT ![t] = w]
    BY <1>4 DEF Asks, Shape
  <2>4. w \in Window /\ w.shows = shows /\ w.flow = f /\ w.past = windows[t].past
    BY <1>1 DEF Window, Shown
  <2>5. /\ flows'[f] = new /\ flows[f].step = "idle" /\ f # 0 /\ windows'[t] = w
        /\ \A g \in Flows \ {f} : flows'[g] = flows[g]
    BY <2>1, <2>2, <2>3, ShareImportAssumption DEF Shape, At
  <2>6. flows[f].step \notin Saving
    BY <2>5 DEF Saving, Confirming, Recording
  <2>7. step = "confirm" <=> step \in Saving
    BY DEF Saving, Confirming, Recording
  <2>8. ASSUME Again(t)' PROVE AgainOk(t)'
    <3>1. Again(t)
      BY <2>4, <2>5, <2>8 DEF Again
    <3>2. \A g \in Flows : flows'[g].token = t /\ flows'[g].step \in Saving => g = f /\ shows = "saving"
      BY <1>3, <2>2, <2>5, <2>7, <3>1
    <3>3. EverSaved(t)' = {} /\ Confirming \subseteq Saving
      BY <1>2, <1>3, <3>1 DEF Saving
    <3>4. windows'[t].shows = shows /\ windows'[t].flow = f
      BY <2>4, <2>5
    <3>5. shows = "saving" => flows'[f].token = t /\ flows'[f].step \in Saving
      BY <2>2, <2>5, <2>7
    <3>6. \A g \in Flows : flows'[g].token = t /\ flows'[g].step \in Saving =>
                             windows'[t].flow = g /\ windows'[t].shows = "saving"
      BY <3>2, <3>4
    <3>7. windows'[t].flow # 0 =>
            /\ windows'[t].shows \in {"loading", "deciding", "saving"}
            /\ windows'[t].shows = "saving" => /\ flows'[windows'[t].flow].token = t
                                               /\ flows'[windows'[t].flow].step \in Saving
      BY <3>4, <3>5
    <3> QED
      BY <3>3, <3>6, <3>7 DEF AgainOk
  <2>9. \A g \in Flows : \/ flows'[g] = flows[g]
                         \/ flows[g].step \notin Saving /\ flows'[g].token = t
                         \/ flows[g].step \notin Saving /\ flows'[g].step \notin Saving
    BY <2>2, <2>5, <2>6
  <2>10. w.shows # "saved"
    BY <2>4
  <2> QED
    BY ONLY <1>1, <2>3, <2>4, <2>8, <2>9, <2>10, ImportInv, ReloadInv, t \in Tokens, WindowReload
<1>5. CASE Swept(book)[t].state # "awaiting"
  <2> PICK w : w = [windows[t] EXCEPT !.shows = "failed", !.flow = 0]
    OBVIOUS
  <2>1. windows' = [windows EXCEPT ![t] = w] /\ UNCHANGED flows
    BY <1>5 DEF Asks, Shape
  <2>2. w \in Window /\ w.shows = "failed" /\ w.flow = 0 /\ w.past = windows[t].past
    BY <1>1 DEF Window, Shown
  <2>3. windows'[t] = w
    BY <2>1 DEF Shape
  <2>4. ASSUME Again(t)' PROVE AgainOk(t)'
    <3>1. Again(t)
      BY <2>2, <2>3, <2>4 DEF Again
    <3> QED
      BY <1>2, <1>3, <2>1, <2>2, <2>3, <3>1 DEF AgainOk, Saving
  <2> QED
    BY <1>1, <2>1, <2>2, <2>4, WindowReload
<1> QED
  BY <1>4, <1>5

\* The service answers: no call for another token changes, and of those for this one
\* none begins to save.
LEMMA SnapshotReload == ASSUME ImportInv, ReloadInv, NEW t \in Tokens, Snapshot(t) PROVE ReloadInv'
<1> USE DEF ImportInv
<1>0. UNCHANGED library /\ remote \in Nat
  BY DEF Snapshot, Shape
<1> PICK revision \in {remote, 0} : Arrives(t, revision)
  BY DEF Snapshot, Arrives, Told, Waits
<1> DEFINE shows == IF revision # 0 THEN "preview" ELSE "failed"
           now == [shows |-> shows, flow |-> 0, past |-> windows[t].past,
                   seen |-> IF revision = 0 THEN windows[t].seen ELSE revision]
<1>1. ASSUME NEW f \in Flows
      PROVE  \/ flows'[f] = flows[f] /\ ~(flows[f].token = t /\ flows[f].step \in {"shown", "snapshot"})
             \/ /\ flows[f].token = t /\ flows[f].step = "shown"
                /\ flows'[f].step = "idle" /\ flows'[f].token = 0
             \/ /\ flows[f].token = t /\ flows[f].step = "snapshot" /\ revision = 0
                /\ flows'[f].step = "idle" /\ flows'[f].token = 0
             \/ /\ flows[f].token = t /\ flows[f].step = "snapshot" /\ revision # 0
                /\ flows'[f].step = "read" /\ flows'[f].token = t
  <2>1. /\ f \in Waits(t, "shown") <=> flows[f].token = t /\ flows[f].step = "shown"
        /\ f \in Waits(t, "snapshot") <=> flows[f].token = t /\ flows[f].step = "snapshot"
    BY DEF At, Waits
  <2>2. flows[f] \in Flow
    BY DEF Shape
  <2>3. flows'[f] = IF f \in Waits(t, "shown") \/ (f \in Waits(t, "snapshot") /\ ~(revision # 0)) THEN NoFlow
                    ELSE IF f \in Waits(t, "snapshot")
                    THEN [flows[f] EXCEPT !.step = "read", !.preview = revision]
                    ELSE flows[f]
    BY DEF Arrives
  <2>4. CASE f \in Waits(t, "shown")
    <3>1. flows'[f] = NoFlow
      BY <2>3, <2>4
    <3> QED
      BY <2>1, <2>4, <3>1 DEF NoFlow
  <2>5. CASE f \in Waits(t, "snapshot") /\ revision = 0
    <3>1. flows'[f] = NoFlow
      BY <2>3, <2>5
    <3> QED
      BY <2>1, <2>5, <3>1 DEF NoFlow
  <2>6. CASE f \in Waits(t, "snapshot") /\ revision # 0
    <3>1. flows'[f] = [flows[f] EXCEPT !.step = "read", !.preview = revision]
      BY <2>1, <2>3, <2>6
    <3>2. flows'[f].step = "read" /\ flows'[f].token = flows[f].token
      BY <2>2, <3>1 DEF Flow
    <3> QED
      BY <2>1, <2>6, <3>2
  <2>7. CASE f \notin Waits(t, "shown") /\ f \notin Waits(t, "snapshot")
    BY <2>1, <2>3, <2>7
  <2> QED
    BY <2>4, <2>5, <2>6, <2>7
<1>2. /\ Told(t, revision) => windows' = [windows EXCEPT ![t] = now]
      /\ ~Told(t, revision) => windows' = windows
  BY DEF Answered, Arrives
<1>3. /\ \A s \in Tokens : s # t => windows'[s] = windows[s]
      /\ Told(t, revision) => windows'[t] = now
      /\ ~Told(t, revision) => windows'[t] = windows[t]
  BY <1>2 DEF Shape
<1>4. /\ now.flow = 0 /\ now.past = windows[t].past /\ now.shows \in {"preview", "failed"}
  OBVIOUS
<1>5. /\ Told(t, revision) =>
           /\ windows[t].flow \in Flows /\ flows[windows[t].flow].token = t
           /\ \/ flows[windows[t].flow].step = "shown"
              \/ flows[windows[t].flow].step = "snapshot" /\ revision = 0
      /\ windows[t].flow \in Flows /\ flows[windows[t].flow].token = t
           /\ flows[windows[t].flow].step = "snapshot" /\ revision = 0 => Told(t, revision)
  BY DEF Told, Waits, At
<1> HIDE DEF now, shows
<1>6. /\ "snapshot" \in Saving /\ "read" \in Saving /\ "snapshot" \in Confirming /\ "read" \in Confirming
      /\ "idle" \notin Saving /\ "shown" \notin Saving /\ Confirming \subseteq Saving
  BY DEF Saving, Confirming, Recording
<1>7. 0 \notin Tokens /\ 0 \notin Flows
  BY ShareImportAssumption
<1>8. library'.lists \cup library'.deleted = Union
  BY <1>0 DEF Union
<1>9. ASSUME NEW s \in Tokens, s # t, Again(s)' PROVE AgainOk(s)'
  <2>1. windows'[s] = windows[s]
    BY <1>3, <1>9
  <2>2. \A f \in Flows : flows[f].token = s \/ flows'[f].token = s => Steady(f)
    BY <1>1, <1>7, <1>9 DEF Steady
  <2> QED
    BY <1>8, <1>9, <2>1, <2>2, AgainFrame
<1>10. ASSUME Again(t)', ~Told(t, revision) PROVE AgainOk(t)'
  <2>1. windows'[t] = windows[t]
    BY <1>3, <1>10
  <2>2. Again(t) /\ AgainOk(t)
    BY <1>10, <2>1 DEF Again, ReloadInv
  <2>3. \A f \in Flows : ~(flows[f].token = t /\ flows[f].step = "snapshot" /\ revision = 0)
    BY <1>5, <1>6, <1>10, <2>2 DEF AgainOk
  <2>4. \A f \in Flows : Steady(f)
    BY <1>1, <1>6, <2>3 DEF Steady
  <2> QED
    BY <1>8, <1>10, <2>1, <2>4, AgainFrame
<1>11. ASSUME Again(t)', Told(t, revision) PROVE AgainOk(t)'
  <2>1. windows'[t].flow = 0 /\ windows'[t].past = windows[t].past
    BY <1>3, <1>4, <1>11
  <2>2. windows[t].flow # 0
    BY <1>5, <1>7, <1>11
  <2>3. Again(t) /\ AgainOk(t)
    BY <1>11, <2>1, <2>2 DEF Again, ReloadInv, ClosedInv
  <2>4. EverSaved(t) = {}
    BY <1>5, <1>6, <1>11, <2>2, <2>3 DEF AgainOk
  <2>5. EverSaved(t)' = {}
    BY <1>0, <2>4 DEF EverSaved
  <2>6. \A f \in Flows : flows'[f].token = t => flows'[f].step \notin Saving
    <3> SUFFICES ASSUME NEW f \in Flows, flows'[f].token = t, flows'[f].step \in Saving PROVE FALSE
      OBVIOUS
    <3>1. flows[f].token = t /\ flows[f].step \in Saving
      BY <1>1, <1>6, <1>7
    <3>2. windows[t].flow = f
      BY <2>3, <3>1 DEF AgainOk
    <3> QED
      BY <1>1, <1>5, <1>6, <1>7, <1>11, <3>1, <3>2
  <2> QED
    BY <1>6, <2>1, <2>5, <2>6 DEF AgainOk
<1>12. \A s \in Tokens : windows'[s].shows = "saved" => EverSaved(s)' # {}
  BY <1>3, <1>4, <1>8, SavedFrame
<1> QED
  BY <1>9, <1>10, <1>11, <1>12 DEF ReloadInv

\* What touches no window and no call.
LEMMA WorldReload == ASSUME ImportInv, ReloadInv, World PROVE ReloadInv'
<1>1. UNCHANGED <<windows, flows>>
  BY DEF World, Unthrottle, Revoke, RenderSection, DecideInSection, BrowserAnswers, WriteDecision,
    EditLibrary, Republish
<1>2. library'.lists \cup library'.deleted = Union
  BY WorldLibrary DEF Union
<1> QED
  BY <1>1, <1>2, SteadyKeeps DEF Steady

LEMMA ExpireReload == ASSUME ImportInv, ReloadInv, NEW t \in Tokens, Expire(t) PROVE ReloadInv'
<1>1. UNCHANGED <<flows, windows, library>>
  BY DEF Expire
<1> QED
  BY <1>1, SteadyKeeps DEF Steady, Union

\* A call that starts is not about to save.
LEMMA RequestReload == ASSUME ImportInv, ReloadInv, NEW r \in Requests, Request(r) PROVE ReloadInv'
<1> USE DEF ImportInv
<1> PICK new : new = [NoFlow EXCEPT !.step = "begin", !.request = r]
  OBVIOUS
<1>1. /\ NewFlow \in Flows /\ At(NewFlow, "idle") /\ flows' = [flows EXCEPT ![NewFlow] = new]
      /\ UNCHANGED <<windows, library>>
  BY NewFlowFacts DEF Request, Calls
<1>2. new.step = "begin"
  BY DEF NoFlow
<1>3. \A f \in Flows : flows'[f] = flows[f] \/ (flows[f].step = "idle" /\ flows'[f].step = "begin")
  BY <1>1, <1>2 DEF Shape, At
<1> QED
  BY <1>1, <1>3, SteadyKeeps DEF Steady, Saving, Confirming, Recording, Union

-----------------------------------------------------------------------------
(* Theorems.                                                               *)

\* Every step keeps the invariant.
LEMMA StepKeeps == ASSUME ImportInv, [Next]_vars PROVE ImportInv'
<1>1. ASSUME NEW f \in Flows, Runs(f) PROVE ImportInv'
  BY <1>1, BeginKeeps, OpenKeeps, DetailsKeeps, DecidedKeeps, ConfirmedKeeps, ReadLibraryKeeps,
    DispatchKeeps, ReadRecordsKeeps, AppendKeeps, NotifyKeeps, NotifiedKeeps DEF Runs
<1>2. ASSUME NEW f \in Flows, Undecided(f) \/ Rejects(f) \/ RecordFails(f) PROVE ImportInv'
  BY <1>2, UndecidedKeeps, RejectsKeeps, RecordFailsKeeps
<1>3. ASSUME NEW t \in Tokens,
             \/ LoadWindow(t) \/ ReloadWindow(t) \/ Confirm(t) \/ Cancel(t)
             \/ Decide(t, "granted") \/ Decide(t, "declined") \/ Snapshot(t) \/ Expire(t)
      PROVE  ImportInv'
  BY <1>3, LoadKeeps, ReloadKeeps, ConfirmKeeps, CancelKeeps, DecideKeeps, SnapshotKeeps, ExpireKeeps
<1>4. CASE World
  BY <1>4, WorldKeeps
<1>5. CASE UNCHANGED vars
  BY <1>5 DEF vars, ImportInv, Shape, LibraryInv, SavedOnce, ConsentInv, OnlyAsAgreed, TokenInv,
    Unborn, WindowInv, Watched, OneFlow, SeenInv, ShownInv, EverSaved, RecordedInv, ListOf,
    ClosedInv, At
<1> QED
  BY <1>1, <1>2, <1>3, <1>4, <1>5, RequestKeeps, StopKeeps DEF Next, World

LEMMA StepReload == ASSUME ImportInv, ReloadInv, [Next]_vars PROVE ReloadInv'
<1>1. ASSUME NEW f \in Flows, Runs(f) PROVE ReloadInv'
  BY <1>1, CallsReload, OpenReload, DetailsReload, DecidedReload, ConfirmedReload, DispatchReload,
    SavedReload DEF Runs
<1>2. ASSUME NEW f \in Flows, Undecided(f) \/ Rejects(f) \/ RecordFails(f) PROVE ReloadInv'
  BY <1>2, DecidedReload, RejectsReload, SavedReload
<1>3. ASSUME NEW t \in Tokens,
             \/ LoadWindow(t) \/ ReloadWindow(t) \/ Confirm(t) \/ Cancel(t)
             \/ Decide(t, "granted") \/ Decide(t, "declined") \/ Snapshot(t) \/ Expire(t)
      PROVE  ReloadInv'
  <2>1. CASE LoadWindow(t) \/ Confirm(t) \/ Decide(t, "granted") \/ Decide(t, "declined")
    BY <2>1, AskReload DEF LoadWindow, Confirm, Decide
  <2> QED
    BY <1>3, <2>1, ReloadReload, CancelReload, SnapshotReload, ExpireReload
<1>4. CASE World
  BY <1>4, WorldReload
<1>5. CASE UNCHANGED vars
  BY <1>5, SteadyKeeps DEF vars, Steady, Union
<1> QED
  BY <1>1, <1>2, <1>3, <1>4, <1>5, RequestReload, StopReload DEF Next, World

LEMMA InitReload == Init => ReloadInv
BY DEF Init, ReloadInv, Again, NoWindow

\* What the book, the calls, the windows and the library are to each other, in
\* every state the handler and the windows can reach.
THEOREM ImportsAgree == Spec => [](ImportInv /\ ReloadInv)
<1>1. Init => ImportInv /\ ReloadInv
  BY InitInv, InitReload
<1>2. (ImportInv /\ ReloadInv) /\ [Next]_vars => (ImportInv /\ ReloadInv)'
  BY StepKeeps, StepReload
<1> QED
  BY <1>1, <1>2, PTL DEF Spec

\* commitImport sends the request id as operation id, so that a request is saved
\* once however often it is confirmed, asked again or tried again.
THEOREM RequestSavedOnce == Spec => []SavedOnce
<1>1. ImportInv => SavedOnce
  BY DEF ImportInv, LibraryInv
<1> QED
  BY <1>1, ImportsAgree, PTL

\* Nothing is fetched from the service or sent to it before the user has agreed
\* once, and an import is counted there only when it was saved here.
THEOREM SentAsAgreed == Spec => []OnlyAsAgreed
<1>1. ImportInv => OnlyAsAgreed
  BY DEF ImportInv, ConsentInv
<1> QED
  BY <1>1, ImportsAgree, PTL

\* A window says what became of its import, whatever was published, deleted or
\* expired meanwhile and though its page was loaded anew, unless that page was loaded
\* over a confirmation that had saved or was still at work.
THEOREM WindowsToldTrue == Spec => []WindowsTellTheTruth
<1>1. ImportInv /\ ReloadInv => WindowsTellTheTruth
  <2> SUFFICES ASSUME ImportInv, ReloadInv, NEW t \in Tokens PROVE Tells(t)
    BY DEF WindowsTellTheTruth
  <2>1. windows[t].past \in {"once", "again", "forgot"}
    BY DEF ImportInv, Shape, Window
  <2>2. windows[t].shows = "saved" => EverSaved(t) # {}
    BY DEF ReloadInv
  <2>3. windows[t].past = "once" /\ windows[t].shows # "closed" => ShownInv(t)
    BY DEF ImportInv, WindowInv, Watched
  <2>4. windows[t].past = "again" /\ windows[t].shows # "closed" => AgainOk(t)
    BY DEF ReloadInv, Again
  <2>5. windows[t].shows = "saved" =>
          \E l \in EverSaved(t) : windows[t].past = "once" => l.revision = windows[t].seen
    BY <2>2, <2>3 DEF ShownInv
  <2>6. ASSUME windows[t].shows \in {"failed", "declined", "preview", "consent"},
               windows[t].past # "forgot"
        PROVE  EverSaved(t) = {}
    BY <2>1, <2>3, <2>4, <2>6 DEF ShownInv, AgainOk
  <2> QED
    BY <2>5, <2>6 DEF Tells
<1> QED
  BY <1>1, ImportsAgree, PTL

=============================================================================

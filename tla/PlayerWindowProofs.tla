------------------------- MODULE PlayerWindowProofs -------------------------
(***************************************************************************)
(* Proofs about PlayerWindow, for any number of pages, requests, restarts  *)
(* and whatever the user does: a popup at rest shows what is stored, and   *)
(* one player is open unless two searches for it have met.                 *)
(*                                                                         *)
(* A drawing reads the record and the library in two calls, so what it has *)
(* read may be old when it draws.  PopupInv says that then a notice is on  *)
(* its way, or the next drawing is waiting.  OneInv says who knows of each *)
(* tab that was opened, or taken up, for a player.                         *)
(***************************************************************************)
EXTENDS PlayerWindow, TLAPS, SequenceTheorems, FiniteSetTheorems

PopupShape ==
  /\ popup = [open |-> popup.open, at |-> popup.at, seen |-> popup.seen, view |-> popup.view,
              expanded |-> popup.expanded, queued |-> popup.queued, news |-> popup.news,
              failed |-> popup.failed]
  /\ popup.seen = [playback |-> popup.seen.playback, playlists |-> popup.seen.playlists]
  /\ {popup.open, popup.queued, popup.news, popup.failed} \subseteq BOOLEAN
  /\ popup.at \in {"idle", "both", "public", "transient"}

\* What the popup shows, or has read, is what is stored, unless it will draw again
\* or its last drawing failed.
ShowsStored ==
  /\ popup.at = "idle" => popup.view = View(record.playback, library.playlists, popup.expanded)
  /\ popup.at = "public" => popup.seen.playback = record.playback
  /\ popup.at = "transient" => popup.seen.playlists = library.playlists

PopupInv ==
  /\ PopupShape
  /\ ~popup.open => popup.at = "idle" /\ ~popup.news /\ popup.view.kind = "none"
  /\ popup.at = "idle" => ~popup.queued
  /\ popup.open => popup.news \/ popup.queued \/ (popup.failed /\ popup.at = "idle") \/ ShowsStored

-----------------------------------------------------------------------------
\* Nothing that is shown changes, or the popup is told.
LEMMA Untouched ==
  ASSUME PopupInv, popup' = popup, UNCHANGED <<record, library>>
  PROVE  PopupInv'
BY DEF PopupInv, PopupShape, ShowsStored, View, RenderPlaylistList, RenderNowPlayingItems

LEMMA Told == ASSUME PopupInv, popup' = NewsOf(popup) PROVE PopupInv'
<1>1. CASE ~popup.open
  BY <1>1 DEF PopupInv, PopupShape, NewsOf
<1>2. CASE popup.open
  <2>1. popup' = [popup EXCEPT !.news = TRUE]
    BY <1>2 DEF NewsOf
  <2> QED
    BY <1>2, <2>1 DEF PopupInv, PopupShape
<1> QED
  BY <1>1, <1>2

\* The popup draws itself again.
LEMMA Redrawn ==
  ASSUME PopupInv, popup' = Renders(popup), UNCHANGED <<record, library>>
  PROVE  PopupInv'
<1>1. CASE ~popup.open
  BY <1>1, Untouched DEF Renders
<1>2. CASE popup.open /\ popup.at # "idle"
  <2>1. popup' = [popup EXCEPT !.queued = TRUE]
    BY <1>2 DEF Renders
  <2> QED
    BY <1>2, <2>1 DEF PopupInv, PopupShape
<1>3. CASE popup.open /\ popup.at = "idle"
  <2>1. popup' = [popup EXCEPT !.at = "both", !.queued = FALSE]
    BY <1>3 DEF Renders
  <2> QED
    BY <1>3, <2>1 DEF PopupInv, PopupShape, ShowsStored
<1> QED
  BY <1>1, <1>2, <1>3

\* A notice is taken: what it told of is drawn now or next.
LEMMA NoticeKeeps == ASSUME PopupInv, Notice PROVE PopupInv'
<1> DEFINE told == [popup EXCEPT !.news = FALSE]
<1>1. popup.open /\ popup' = Renders(told) /\ told.open
  BY DEF Notice, PopupInv, PopupShape
<1>2. CASE popup.at # "idle"
  <2>1. popup' = [told EXCEPT !.queued = TRUE]
    BY <1>1, <1>2 DEF Renders, PopupInv, PopupShape
  <2> QED
    BY <1>1, <1>2, <2>1 DEF PopupInv, PopupShape
<1>3. CASE popup.at = "idle"
  <2>1. popup' = [told EXCEPT !.at = "both", !.queued = FALSE]
    BY <1>1, <1>3 DEF Renders, PopupInv, PopupShape
  <2> QED
    BY <1>1, <1>3, <2>1 DEF PopupInv, PopupShape, ShowsStored
<1> QED
  BY <1>2, <1>3

\* The popup is opened and closed.
LEMMA OpensKeeps == ASSUME PopupInv, PopupOpens PROVE PopupInv'
<1>1. popup' = [Shut EXCEPT !.open = TRUE, !.at = "both", !.queued = FALSE]
  BY DEF PopupOpens, Renders, Shut
<1>2. popup' = [open |-> TRUE, at |-> "both", seen |-> Unread, view |-> NoView,
                expanded |-> None, queued |-> FALSE, news |-> FALSE, failed |-> FALSE]
  BY <1>1 DEF Shut
<1> QED
  BY <1>2 DEF PopupInv, PopupShape, ShowsStored, Unread

LEMMA ClosesKeeps == ASSUME PopupInv, popup' = Shut PROVE PopupInv'
BY DEF PopupInv, PopupShape, Shut, Unread, NoView

\* A drawing reads one of the two.
LEMMA ReadsKeeps == ASSUME PopupInv, PopupReads PROVE PopupInv'
<1>1. popup.at = "both" /\ popup.open /\ UNCHANGED <<record, library>>
  BY DEF PopupReads, PopupInv
<1>2. CASE popup' = [popup EXCEPT !.at = "public", !.seen.playback = record.playback]
  <2>1. popup' = [open |-> popup.open, at |-> "public",
                  seen |-> [playback |-> record.playback, playlists |-> popup.seen.playlists],
                  view |-> popup.view, expanded |-> popup.expanded,
                  queued |-> popup.queued, news |-> popup.news, failed |-> popup.failed]
    BY <1>2 DEF PopupInv, PopupShape
  <2> QED
    BY <1>1, <2>1 DEF PopupInv, PopupShape, ShowsStored
<1>3. CASE popup' = [popup EXCEPT !.at = "transient", !.seen.playlists = library.playlists]
  <2>1. popup' = [open |-> popup.open, at |-> "transient",
                  seen |-> [playback |-> popup.seen.playback, playlists |-> library.playlists],
                  view |-> popup.view, expanded |-> popup.expanded,
                  queued |-> popup.queued, news |-> popup.news, failed |-> popup.failed]
    BY <1>3 DEF PopupInv, PopupShape
  <2> QED
    BY <1>1, <2>1 DEF PopupInv, PopupShape, ShowsStored
<1> QED
  BY <1>2, <1>3 DEF PopupReads

\* With the second answer it draws, and begins again if it was asked to meanwhile.
LEMMA DrawsKeeps == ASSUME PopupInv, PopupDraws PROVE PopupInv'
<1> DEFINE view == IF popup.at = "public"
                   THEN View(popup.seen.playback, library.playlists, popup.expanded)
                   ELSE View(record.playback, popup.seen.playlists, popup.expanded)
<1>1. popup.at \in {"public", "transient"} /\ popup.open /\ UNCHANGED <<record, library>>
  BY DEF PopupDraws, PopupInv
<1>2. popup' = [open |-> popup.open, at |-> IF popup.queued THEN "both" ELSE "idle",
                seen |-> Unread, view |-> view, expanded |-> popup.expanded,
                queued |-> FALSE, news |-> popup.news, failed |-> FALSE]
  BY DEF PopupDraws, PopupInv, PopupShape
<1>3. popup.news \/ popup.queued \/ view = View(record.playback, library.playlists, popup.expanded)
  BY <1>1 DEF PopupInv, ShowsStored
<1> HIDE DEF view
<1>4. PopupShape'
  BY <1>1, <1>2 DEF PopupInv, PopupShape, Unread
<1>5. /\ popup'.open = popup.open /\ popup'.news = popup.news /\ popup'.view = view
      /\ popup'.queued = FALSE /\ popup'.expanded = popup.expanded
      /\ popup.queued => popup'.at = "both"
      /\ ~popup.queued => popup'.at = "idle"
  BY <1>2
<1>6. popup'.news \/ ShowsStored'
  <2>1. CASE popup.queued
    BY <1>5, <2>1 DEF ShowsStored
  <2>2. CASE popup.news
    BY <1>5, <2>2
  <2>3. CASE ~popup.queued /\ ~popup.news
    <3>1. popup'.view = View(record.playback, library.playlists, popup.expanded)
      BY <1>3, <1>5, <2>3
    <3>2. View(record.playback, library.playlists, popup.expanded)'
            = View(record.playback, library.playlists, popup.expanded)
      BY <1>1, <1>5 DEF View, RenderPlaylistList, RenderNowPlayingItems
    <3> QED
      BY <1>5, <2>3, <3>1, <3>2 DEF ShowsStored
  <2> QED
    BY <2>1, <2>2, <2>3
<1> QED
  BY <1>1, <1>4, <1>5, <1>6 DEF PopupInv

\* A drawing fails: the popup shows what it showed, and knows of nothing to draw.
LEMMA FailsKeeps == ASSUME PopupInv, PopupFails PROVE PopupInv'
<1>1. popup' = [open |-> popup.open, at |-> "idle", seen |-> Unread, view |-> popup.view,
                expanded |-> popup.expanded, queued |-> FALSE, news |-> popup.news, failed |-> TRUE]
  BY DEF PopupFails, PopupInv, PopupShape
<1>2. popup.open
  BY DEF PopupFails, PopupInv
<1> QED
  BY <1>1, <1>2 DEF PopupInv, PopupShape, Unread

\* A card is opened or closed in the list as it was read last.
LEMMA TogglesKeeps == ASSUME PopupInv, PopupToggles PROVE PopupInv'
<1>1. popup.view.kind = "list" /\ popup.open /\ UNCHANGED <<record, library>>
  BY DEF PopupToggles, PopupInv
<1> PICK expanded : popup' = [popup EXCEPT !.expanded = expanded,
                                          !.view = RenderPlaylistList(popup.view.cards, expanded)]
  BY DEF PopupToggles
<1> DEFINE view == RenderPlaylistList(popup.view.cards, expanded)
<1>2. popup' = [open |-> popup.open, at |-> popup.at, seen |-> popup.seen, view |-> view,
                expanded |-> expanded, queued |-> popup.queued, news |-> popup.news,
                failed |-> popup.failed]
  BY DEF PopupInv, PopupShape
<1>3. popup.view = View(record.playback, library.playlists, popup.expanded)
        => view = View(record.playback, library.playlists, expanded)
  BY <1>1 DEF View, RenderPlaylistList, RenderNowPlayingItems
<1> HIDE DEF view
<1>4. PopupShape'
  BY <1>2 DEF PopupInv, PopupShape
<1>5. /\ popup'.open = popup.open /\ popup'.at = popup.at /\ popup'.seen = popup.seen
      /\ popup'.queued = popup.queued /\ popup'.news = popup.news
      /\ popup'.failed = popup.failed /\ popup'.view = view /\ popup'.expanded = expanded
  BY ONLY <1>2
<1>6. View(record.playback, library.playlists, popup.expanded)'
        = View(record.playback, library.playlists, expanded)
  BY <1>1, <1>5 DEF View, RenderPlaylistList, RenderNowPlayingItems
<1>7. ShowsStored => ShowsStored'
  BY <1>1, <1>3, <1>5, <1>6 DEF ShowsStored
<1> QED
  BY <1>1, <1>4, <1>5, <1>7 DEF PopupInv

-----------------------------------------------------------------------------
\* Every step keeps the invariant.
LEMMA StepKeeps == ASSUME PopupInv, [Next]_vars PROVE PopupInv'
<1>1. CASE Browser
  <2>1. CASE UserCloses \/ UserNavigates
    BY <2>1, Untouched DEF UserCloses, UserNavigates
  <2>2. CASE LibraryChanges
    BY <2>2, Told DEF LibraryChanges
  <2> QED
    BY <1>1, <2>1, <2>2 DEF Browser
<1>2. CASE Popup
  <2>1. CASE PopupCloses
    BY <2>1, ClosesKeeps DEF PopupCloses
  <2>2. CASE PopupJumps
    BY <2>2, Redrawn DEF PopupJumps
  <2> QED
    BY <1>2, <2>1, <2>2, OpensKeeps, NoticeKeeps, ReadsKeeps, DrawsKeeps, FailsKeeps, TogglesKeeps
      DEF Popup
<1>3. ASSUME NEW t \in Tasks, Common(t) PROVE PopupInv'
  <2>1. CASE SaveWrite(t) \/ ClearSession(t)
    BY <2>1, Told DEF SaveWrite, ClearSession, Writes
  <2>2. CASE Answered(t)
    BY <2>2, Untouched, Redrawn DEF Answered
  <2>3. CASE SaveWindow(t) \/ SaveRead(t) \/ AdoptWindow(t) \/ AdoptTabs(t) \/ ReadStored(t)
    BY <2>3, Untouched DEF SaveWindow, SaveRead, AdoptWindow, AdoptTabs, ReadStored
  <2> QED
    BY <1>3, <2>1, <2>2, <2>3 DEF Common
<1>4. ASSUME NEW t \in Starts, Request(t) PROVE PopupInv'
  <2>1. CASE WriteNote(t)
    BY <2>1, Told DEF WriteNote, Writes
  <2>2. CASE ~WriteNote(t)
    <3>1. UNCHANGED <<record, library, popup>>
      BY <1>4, <2>2 DEF Request, Ask, ReadNote, RequestPlayer, CheckTab, CheckWindow, UpdateTab, ReadMode,
        CreateTab, CreateWindow, FindTab
    <3> QED
      BY <3>1, Untouched
  <2> QED
    BY <2>1, <2>2
<1>5. CASE Release
  <2>1. UNCHANGED <<record, library, popup>>
    BY <1>5 DEF Release, Stop, ReleasePlayer, LookAtTab, RemoveTab
  <2> QED
    BY <2>1, Untouched
<1>6. CASE Worker
  <2>1. CASE Restart
    <3>1. popup' \in {popup, Renders(popup)} /\ UNCHANGED <<record, library>>
      BY <2>1 DEF Restart
    <3> QED
      BY <3>1, Untouched, Redrawn
  <2>2. CASE ~Restart
    <3>1. UNCHANGED <<record, library, popup>>
      BY <1>6, <2>2 DEF Worker, OnTabRemoved, LookForWindow, MissWindow, OnWindowRemoved, ForgetWindow
    <3> QED
      BY <3>1, Untouched
  <2> QED
    BY <2>1, <2>2
<1>7. CASE UNCHANGED vars
  BY <1>7, Untouched DEF vars
<1> QED
  BY <1>1, <1>2, <1>3, <1>4, <1>5, <1>6, <1>7 DEF Next

\* What the popup shows is stored, or it will draw again, or its last drawing failed: in
\* every reachable state.
THEOREM PopupWillShow == Spec => []PopupInv
<1>1. Init => PopupInv
  <2> SUFFICES ASSUME Init PROVE PopupInv
    OBVIOUS
  <2>1. popup = [open |-> FALSE, at |-> "idle", seen |-> Unread, view |-> NoView,
                 expanded |-> None, queued |-> FALSE, news |-> FALSE, failed |-> FALSE]
    BY DEF Init, Shut
  <2>2. Unread = [playback |-> Unread.playback, playlists |-> Unread.playlists] /\ NoView.kind = "none"
    BY ONLY DEF Unread, NoView
  <2> QED
    BY ONLY <2>1, <2>2 DEF PopupInv, PopupShape
<1>2. PopupInv /\ [Next]_vars => PopupInv'
  BY StepKeeps
<1> QED
  BY <1>1, <1>2, PTL DEF Spec

\* A popup with no drawing and no notice under way shows what is stored, for any
\* number of popups, players, restarts and changes in between (popup.ts), unless its
\* last drawing failed.
THEOREM PopupIsRight == Spec => []PopupShowsPlayback
<1>1. PopupInv => PopupShowsPlayback
  BY DEF PopupInv, ShowsStored, PopupShowsPlayback
<1> QED
  BY <1>1, PopupWillShow, PTL
-----------------------------------------------------------------------------
(* One player.                                                             *)

TabRow == [id : Nat, window : Nat, url : Urls \cup {Elsewhere}]

\* A tab is found by its id, a new window bears the id of its only tab, and a
\* tab that counts as a player, opened or taken up, shows one.
TabsInv ==
  /\ tabs \in Seq(TabRow)
  /\ \A i \in DOMAIN tabs :
       /\ tabs[i].id <= spent.tabs
       /\ tabs[i].window # Home => tabs[i].window = tabs[i].id
       /\ tabs[i].id \in mine => tabs[i].url \in Urls
  /\ \A i, j \in DOMAIN tabs : tabs[i].id = tabs[j].id => i = j

Removal == [kind : {"tab", "window"}, tab : Nat \cup {None}, window : Nat \cup {None}, closing : BOOLEAN]

\* The worker is told of what is gone for good.
Gone(e) ==
  /\ e.kind = "tab" => e.tab \in Nat /\ e.tab <= spent.tabs /\ \A i \in DOMAIN tabs : tabs[i].id # e.tab
  /\ e.kind = "window" =>
       /\ e.window \in Nat \ {Home} /\ e.window <= spent.tabs
       /\ \A i \in DOMAIN tabs : tabs[i].window # e.window

EventsInv == events \in Seq(Removal) /\ \A k \in DOMAIN events : Gone(events[k])

PlayerInv ==
  player # None =>
    /\ player \in [window : Nat, tab : Nat] /\ player.tab <= spent.tabs
    /\ \A i \in DOMAIN tabs : tabs[i].id = player.tab => tabs[i].window = player.window

\* What is looking for a player.
Hunters == Starts \cup {"recover"}

\* A request opens a player when there is none, and looks for the one there is.
Asking(tk, pl) ==
  /\ tk.at # "released" /\ (tk.at \notin {"idle", "answered"} => tk.url \in Urls)
  /\ tk.at \in {"read-stored", "adopt-window", "adopt-tabs", "mode", "create-tab", "create-window",
                "fallback-tab", "created-tabs", "clear"} => pl = None
  /\ tk.at \in {"save-window", "save-read", "save-write"} => tk.then \in {"validate", "answer"}
  /\ tk.at = "clear" => tk.then = "mode"
  /\ tk.at = "created-tabs" => tk.window # Home
  /\ pl # None => /\ tk.at \in {"check-tab", "update"} => tk.tab = pl.tab
                  /\ tk.at = "check-window" => tk.window = pl.window

Legal(t, tk, pl) ==
  /\ DOMAIN tk = DOMAIN Idle
  /\ t \in Starts => Asking(tk, pl)
  /\ t = "recover" =>
       \/ tk.at = "idle"
       \/ tk.at \in {"read-stored", "adopt-window", "adopt-tabs"} /\ pl = None
       \/ tk.at \in {"save-window", "save-read", "save-write", "clear"} /\ tk.then = "idle"
  /\ t = "stop" => \/ tk.at \in {"idle", "released", "look", "remove", "answered"}
                   \/ tk.at = "clear" /\ tk.then = "answer"
  /\ t = "tab" => \/ tk.at \in {"idle", "gone-stored", "gone-window"}
                  \/ tk.at = "clear" /\ tk.then = "idle"
  /\ t = "window" => \/ tk.at \in {"idle", "shut-stored"}
                     \/ tk.at = "clear" /\ tk.then = "idle"

\* Once two searches have met, a task is not sure of the player in memory.
Trusted  == IF spent.met THEN None ELSE player
TasksInv == DOMAIN task = Tasks /\ \A t \in Tasks : Legal(t, task[t], Trusted)

\* No two searches have met since the tabs that count were counted.
AloneInv ==
  /\ spent.met => mine = {}
  /\ ~spent.met => \A s, t \in Hunters : Searching(s) /\ Searching(t) => s = t

\* A tab that counts is the player in memory, or about to be removed, or about to be
\* remembered.
Known(i) ==
  \/ player # None /\ player.tab = tabs[i].id
  \/ task["stop"].at \in {"look", "remove"} /\ task["stop"].tab = tabs[i].id
  \/ \E t \in Starts : task[t].at = "created-tabs" /\ task[t].window = tabs[i].window

SpentInv == /\ DOMAIN spent = {"opens", "requests", "troubles", "tabs", "met"}
            /\ spent.tabs \in Nat /\ spent.met \in BOOLEAN

OneInv ==
  /\ SpentInv /\ TabsInv /\ EventsInv /\ PlayerInv /\ TasksInv /\ AloneInv
  /\ \A i \in DOMAIN tabs : tabs[i].id \in mine => Known(i)

\* The tasks of the worker and of the stop button are no requests.
LEMMA TasksDiffer ==
  /\ Starts \subseteq Tasks /\ {"stop", "tab", "window", "recover"} \subseteq Tasks
  /\ \A t \in Starts : t \notin {"stop", "tab", "window", "recover"}
  /\ Hunters \subseteq Tasks /\ \A t \in Hunters : t \notin {"stop", "tab", "window"}
BY WindowAssumption DEF Tasks, Hunters

\* A set of numbers has its least.
LEMMA MinIsIn == ASSUME NEW S \in SUBSET Nat, S # {} PROVE Min(S) \in S
<1> DEFINE R == OpToRel(<, Nat)
<1>1. IsWellFoundedOn(R, Nat)
  BY NatLessThanWellFounded
<1> HIDE DEF R
<1>2. PICK i \in S : \A j \in S : ~(<<j, i>> \in R)
  BY <1>1, WFMin
<1>3. \A j \in S : ~(j < i)
  BY <1>2 DEF OpToRel, R
<1>4. \A j \in S : i <= j
  BY <1>3
<1> QED
  BY <1>4 DEF Min

\* A task that is legal whatever it knows of the player is legal without one.
LEMMA LegalForgets ==
  ASSUME NEW t, NEW tk, NEW pl, Legal(t, tk, pl)
  PROVE  Legal(t, tk, None)
BY DEF Legal, Asking

\* A task goes on, the player in memory is kept or forgotten.
LEMMA TaskGoesOn ==
  ASSUME OneInv, NEW t \in Tasks, NEW next, Legal(t, next, Trusted'),
         task' = [task EXCEPT ![t] = next], UNCHANGED <<tabs, mine>>, EventsInv',
         \/ player' = player
         \/ player' = None /\ \A i \in DOMAIN tabs : tabs[i].id \in mine =>
                                 player = None \/ player.tab # tabs[i].id,
         DOMAIN spent' = DOMAIN spent, spent'.tabs = spent.tabs, spent'.met = spent.met,
         task[t].at # "created-tabs" \/ t \notin Starts,
         t \in Hunters => Searching(t)
           \/ next.at \in {"idle", "note-read", "note-write", "asked", "answered"},
         t # "stop" \/ task[t].at \notin {"look", "remove"} \/ (next.at = "remove" /\ next.tab = task[t].tab)
  PROVE  OneInv'
<1>1. TabsInv' /\ PlayerInv' /\ SpentInv'
  BY DEF OneInv, TabsInv, PlayerInv, SpentInv
<1>2. TasksInv'
  <2>1. Trusted' = Trusted \/ Trusted' = None
    BY DEF Trusted
  <2>2. \A u \in Tasks : Legal(u, task[u], Trusted')
    BY <2>1, LegalForgets DEF OneInv, TasksInv
  <2> QED
    BY <2>2 DEF OneInv, TasksInv
<1>3. \A i \in DOMAIN tabs : tabs[i].id \in mine /\ Known(i) => Known(i)'
  BY TasksDiffer DEF Known, OneInv, TasksInv
<1>4. AloneInv'
  <2>1. \A u \in Hunters : Searching(u)' => Searching(u)
    BY TasksDiffer DEF Searching, OneInv, TasksInv
  <2> QED
    BY <2>1 DEF AloneInv, OneInv
<1> QED
  BY <1>1, <1>2, <1>3, <1>4 DEF OneInv

\* While one task searches the others are legal whoever is the player, unless two have met.
LEMMA OthersWait ==
  ASSUME OneInv, NEW t \in Hunters, Searching(t), NEW u \in Tasks \ {t}, NEW pl
  PROVE  /\ Legal(u, task[u], IF spent.met THEN None ELSE pl)
         /\ ~spent.met /\ u \in Hunters => ~Searching(u)
<1>1. Legal(u, task[u], Trusted) /\ (~spent.met /\ u \in Hunters => ~Searching(u))
  BY DEF OneInv, TasksInv, AloneInv
<1>2. CASE spent.met
  BY <1>1, <1>2 DEF Trusted
<1>3. CASE ~spent.met /\ u \notin Hunters
  BY <1>1, <1>3 DEF Legal, Hunters
<1>4. CASE ~spent.met /\ u \in Hunters
  BY <1>1, <1>4 DEF Legal, Asking, Searching
<1> QED
  BY <1>1, <1>2, <1>3, <1>4

\* The removals that are on their way keep what they tell of.
LEMMA RemovalsStay ==
  ASSUME OneInv, spent'.tabs = spent.tabs, UNCHANGED <<tabs, events>>
  PROVE  EventsInv'
BY DEF OneInv, EventsInv, Gone

LEMMA RemovalTaken ==
  ASSUME OneInv, spent'.tabs = spent.tabs, UNCHANGED tabs,
         events # <<>>, events' = Tail(events)
  PROVE  EventsInv' /\ Gone(Head(events))
<1>1. events \in Seq(Removal) /\ \A k \in 1 .. Len(events) : Gone(events[k])
  BY LenProperties DEF OneInv, EventsInv
<1>2. /\ Head(events) = events[1] /\ Tail(events) \in Seq(Removal)
      /\ Len(events) \in Nat \ {0} /\ Len(Tail(events)) = Len(events) - 1
      /\ \A k \in 1 .. Len(Tail(events)) : Tail(events)[k] = events[k + 1]
  BY <1>1, HeadTailProperties, EmptySeq, LenProperties
<1>3. \A k \in 1 .. Len(Tail(events)) : Gone(Tail(events)[k])
  BY <1>1, <1>2
<1>4. \A k \in DOMAIN events' : Gone(events'[k])
  BY <1>2, <1>3, LenProperties
<1>5. \A e : Gone(e) => Gone(e)'
  BY DEF Gone
<1> QED
  BY <1>1, <1>2, <1>4 DEF EventsInv, Gone

\* Where a task goes on once the record is written.
LEMMA AfterIsLegal ==
  ASSUME NEW t \in Starts, NEW tk, NEW pl, NEW known \in {pl, None}, DOMAIN tk = DOMAIN Idle, tk.url \in Urls,
         tk.then \in {"validate", "answer"} \/ (tk.then = "mode" /\ known = None)
  PROVE  Legal(t, After(tk, pl), known)
<1>1. Legal(t, Opening(tk), None)
  BY TasksDiffer DEF Legal, Asking, Opening, Idle
<1>2. Legal(t, Answers, pl)
  BY TasksDiffer DEF Legal, Asking, Answers, Idle
<1>3. Legal(t, Validates(tk, pl), pl)
  BY <1>1, TasksDiffer DEF Legal, Asking, Validates, Idle
<1> QED
  BY <1>1, <1>2, <1>3, LegalForgets DEF After

\* What a task of OneInv is.
LEMMA OfTask ==
  ASSUME OneInv, NEW t \in Tasks
  PROVE  /\ Legal(t, task[t], Trusted) /\ DOMAIN task[t] = DOMAIN Idle /\ Trusted \in {player, None}
         /\ t \notin Starts => t \in {"stop", "tab", "window", "recover"}
BY DEF OneInv, TasksInv, Legal, Tasks, Trusted

LEMMA SaveWindowKeeps ==
  ASSUME OneInv, NEW t \in Tasks, SaveWindow(t) \/ SaveRead(t) \/ SaveWrite(t)
  PROVE  OneInv'
<1>1. /\ task[t].at \in {"save-window", "save-read", "save-write"}
      /\ UNCHANGED <<tabs, player, events, mine, spent>> /\ Trusted' = Trusted
  BY DEF SaveWindow, SaveRead, SaveWrite, Trusted
<1>2. /\ DOMAIN task[t] = DOMAIN Idle
      /\ \/ t \in Starts /\ task[t].url \in Urls /\ task[t].then \in {"validate", "answer"}
         \/ t = "recover" /\ task[t].then = "idle"
  BY <1>1, OfTask DEF Legal, Asking
<1>3. Legal(t, After(task[t], player), Trusted)
  <2>1. CASE t = "recover"
    BY <1>2, <2>1, TasksDiffer DEF Legal, After, Idle
  <2>2. CASE t \in Starts
    BY <1>2, <2>2, AfterIsLegal, OfTask, TasksDiffer
  <2> QED
    BY <1>2, <2>1, <2>2
<1>4. Legal(t, After([task[t] EXCEPT !.held = Nothing], player), Trusted)
  <2> DEFINE tk == [task[t] EXCEPT !.held = Nothing]
  <2>1. DOMAIN tk = DOMAIN Idle /\ tk.url = task[t].url /\ tk.then = task[t].then
    BY <1>2 DEF Idle
  <2> HIDE DEF tk
  <2>2. t = "recover" => Legal(t, After(tk, player), Trusted)
    BY <1>2, <2>1, TasksDiffer DEF Legal, After, Idle
  <2>3. t \in Starts => Legal(t, After(tk, player), Trusted)
    BY <1>2, <2>1, AfterIsLegal, OfTask, TasksDiffer
  <2>4. Legal(t, After(tk, player), Trusted)
    BY <1>2, <2>2, <2>3
  <2> QED
    BY <2>4 DEF tk
<1>5. Legal(t, Waits(task[t], "save-read"), Trusted)
  BY <1>2, TasksDiffer DEF Legal, Asking, Waits, Idle
<1>6. ASSUME NEW held PROVE Legal(t, [Waits(task[t], "save-write") EXCEPT !.held = held], Trusted)
  BY <1>2, TasksDiffer DEF Legal, Asking, Waits, Idle
<1>7. PICK next : Legal(t, next, Trusted) /\ task' = [task EXCEPT ![t] = next]
  BY <1>3, <1>4, <1>5, <1>6 DEF SaveWindow, SaveRead, SaveWrite, Becomes
<1>8. Searching(t)
  BY <1>1 DEF Searching
<1> QED
  BY <1>1, <1>2, <1>7, <1>8, TaskGoesOn, RemovalsStay, TasksDiffer

LEMMA ClearKeeps ==
  ASSUME OneInv, NEW t \in Tasks, ClearSession(t) \/ Answered(t)
  PROVE  OneInv'
<1>1. /\ task[t].at \in {"clear", "answered"} /\ UNCHANGED <<tabs, player, events, mine, spent>>
      /\ Trusted' = Trusted
  BY DEF ClearSession, Answered, Trusted
<1>2. task[t].at = "clear" /\ t \in Starts => Legal(t, After(task[t], player), Trusted)
  BY OfTask, AfterIsLegal, TasksDiffer DEF Legal, Asking
<1>3. t \notin Starts /\ task[t].at = "clear" => Legal(t, After(task[t], player), Trusted)
  BY OfTask DEF Legal, After, Answers, Idle
<1>4. Legal(t, Idle, Trusted) /\ Idle.at = "idle"
  BY DEF Legal, Asking, Idle
<1>5. PICK next : /\ Legal(t, next, Trusted) /\ task' = [task EXCEPT ![t] = next]
                  /\ task[t].at = "answered" => next.at = "idle"
  BY <1>2, <1>3, <1>4 DEF ClearSession, Answered, Becomes
<1>6. task[t].at = "clear" => Searching(t)
  BY DEF Searching
<1> QED
  BY <1>1, <1>5, <1>6, TaskGoesOn, RemovalsStay

\* A request without a player in memory, or the recovery, takes up the recorded window.
LEMMA ReadStoredKeeps ==
  ASSUME OneInv, NEW t \in Tasks, ReadStored(t) \/ AdoptWindow(t)
  PROVE  OneInv'
<1>1. /\ task[t].at \in {"read-stored", "adopt-window"} /\ UNCHANGED <<tabs, events, mine, spent>>
  BY DEF ReadStored, AdoptWindow
<1>2. /\ t \in Hunters /\ (t # "recover" => t \in Starts /\ task[t].url \in Urls) /\ Trusted = None
      /\ DOMAIN task[t] = DOMAIN Idle
  BY <1>1, OfTask, TasksDiffer DEF Legal, Asking, Hunters
<1>3. t # "recover" => Legal(t, Validates(task[t], player), None)
  <2>1. t # "recover" => Legal(t, Validates(task[t], player), player)
    BY <1>2, TasksDiffer DEF Legal, Asking, Validates, Opening, Idle
  <2> QED
    BY <2>1, LegalForgets
<1>4. Legal(t, Waits(task[t], "adopt-tabs"), None)
  BY <1>2, TasksDiffer DEF Legal, Asking, Waits, Idle
<1>5. Legal(t, [Waits(task[t], "adopt-window") EXCEPT !.window = record.window], None)
  BY <1>2, TasksDiffer DEF Legal, Asking, Waits, Idle
<1>6. t = "recover" => Legal(t, Idle, None) /\ Legal(t, Clears(task[t], "idle"), None)
  BY <1>2, TasksDiffer DEF Legal, Clears, Idle
<1>7. PICK next : Legal(t, next, None) /\ task' = [task EXCEPT ![t] = next] /\ player' \in {player, None}
  BY <1>2, <1>3, <1>4, <1>5, <1>6 DEF ReadStored, AdoptWindow, NotAdopted, Becomes
<1>8. Trusted' = None /\ Searching(t) /\ (~spent.met => player = None) /\ (spent.met => mine = {})
  BY <1>1, <1>2, <1>7 DEF Trusted, Searching, OneInv, AloneInv
<1> QED
  BY <1>1, <1>7, <1>8, TaskGoesOn, RemovalsStay, TasksDiffer

\* A player is found: the tab at m, in the window that was looked at.
LEMMA PlayerFound ==
  ASSUME OneInv, NEW t \in Hunters, NEW m \in DOMAIN tabs,
         task[t].at \in {"adopt-tabs", "created-tabs"}, tabs[m].window = task[t].window,
         player' = [window |-> task[t].window, tab |-> tabs[m].id],
         mine' = mine \/ (~spent.met /\ mine' = mine \cup {tabs[m].id} /\ tabs[m].url \in Urls),
         NEW next, task' = [task EXCEPT ![t] = next], DOMAIN next = DOMAIN Idle, next.at = "save-window",
         t # "recover" => next.then \in {"validate", "answer"} /\ next.url \in Urls,
         t = "recover" => next.then = "idle", UNCHANGED <<tabs, events, spent>>
  PROVE  OneInv'
<1>1. /\ tabs[m].id \in Nat /\ tabs[m].window \in Nat /\ tabs[m].id <= spent.tabs
      /\ \A i \in DOMAIN tabs : tabs[i].id = tabs[m].id => i = m
      /\ \A i \in DOMAIN tabs : tabs[i].window # Home => tabs[i].window = tabs[i].id
  <2>1. \A i \in DOMAIN tabs : tabs[i] \in TabRow
    BY ElementOfSeq, LenProperties DEF OneInv, TabsInv
  <2> QED
    BY <2>1 DEF OneInv, TabsInv, TabRow
<1>2. /\ t \in Tasks /\ Searching(t) /\ (task[t].at = "created-tabs" => task[t].window # Home)
      /\ (~spent.met => player = None)
  <2>1. t \in Tasks /\ Searching(t)
    BY TasksDiffer DEF Searching
  <2>2. (task[t].at = "created-tabs" => task[t].window # Home) /\ Trusted = None
    BY <2>1, OfTask, TasksDiffer DEF Legal, Asking, Hunters
  <2> QED
    BY <2>1, <2>2 DEF Trusted
<1>3. TabsInv' /\ EventsInv' /\ SpentInv'
  BY RemovalsStay DEF OneInv, TabsInv, SpentInv
<1>4. /\ player' \in [window : Nat, tab : Nat] /\ player' # None
      /\ player'.tab = tabs[m].id /\ player'.window = tabs[m].window
  BY <1>1, WindowAssumption
<1>5. PlayerInv'
  BY <1>1, <1>4 DEF PlayerInv
<1>6. TasksInv'
  <2>1. \A pl : Legal(t, next, pl)
    BY TasksDiffer DEF Legal, Asking, Hunters
  <2>2. \A u \in Tasks \ {t} : \A pl : Legal(u, task[u], IF spent.met THEN None ELSE pl)
    BY <1>2, OthersWait
  <2>3. Trusted' = IF spent.met THEN None ELSE player'
    BY DEF Trusted
  <2> QED
    BY <2>1, <2>2, <2>3 DEF OneInv, TasksInv
<1>7. AloneInv'
  <2>1. \A u \in Hunters : Searching(u)' => Searching(u)
    BY <1>2, TasksDiffer DEF Searching, OneInv, TasksInv
  <2> QED
    BY <2>1 DEF AloneInv, OneInv
<1>8. ASSUME NEW i \in DOMAIN tabs, tabs[i].id \in mine' PROVE Known(i)'
  <2>1. tabs[i].id = tabs[m].id \/ tabs[i].id \in mine
    BY <1>8
  <2>2. CASE tabs[i].id = tabs[m].id
    BY <1>4, <2>2 DEF Known
  <2>3. CASE tabs[i].id \in mine
    <3>1. Known(i) /\ ~spent.met /\ player = None
      BY <1>2, <2>3 DEF OneInv, AloneInv
    <3>2. CASE task["stop"].at \in {"look", "remove"} /\ task["stop"].tab = tabs[i].id
      BY <3>2, TasksDiffer DEF Known, OneInv, TasksInv
    <3>3. CASE \E u \in Starts : task[u].at = "created-tabs" /\ task[u].window = tabs[i].window
      <4>1. task[t].at = "created-tabs" /\ task[t].window = tabs[i].window
        BY <1>2, <3>1, <3>3, OthersWait, TasksDiffer DEF Searching, Hunters
      <4>2. tabs[i].id = tabs[m].id
        BY <1>1, <1>2, <4>1
      <4> QED
        BY <2>2, <4>2
    <3> QED
      BY <3>1, <3>2, <3>3 DEF Known
  <2> QED
    BY <2>1, <2>2, <2>3
<1> QED
  BY <1>3, <1>5, <1>6, <1>7, <1>8 DEF OneInv

LEMMA AdoptTabsKeeps ==
  ASSUME OneInv, NEW t \in Tasks, AdoptTabs(t)
  PROVE  OneInv'
<1>1. /\ task[t].at = "adopt-tabs" /\ UNCHANGED <<tabs, events, spent>> /\ Searching(t)
  BY DEF AdoptTabs, Searching
<1>2. /\ t \in Hunters /\ (t # "recover" => t \in Starts /\ task[t].url \in Urls) /\ Trusted = None
      /\ DOMAIN task[t] = DOMAIN Idle
  BY <1>1, OfTask, TasksDiffer DEF Legal, Asking, Hunters
<1>3. CASE InWindow(task[t].window) = {}
  <2>1. t # "recover" => Legal(t, Validates(task[t], player), None)
    <3>1. t # "recover" => Legal(t, Validates(task[t], player), player)
      BY <1>2, TasksDiffer DEF Legal, Asking, Validates, Opening, Idle
    <3> QED
      BY <3>1, LegalForgets
  <2>2. t = "recover" => Legal(t, Clears(task[t], "idle"), None)
    BY <1>2, TasksDiffer DEF Legal, Clears, Idle
  <2>3. PICK next : Legal(t, next, None) /\ task' = [task EXCEPT ![t] = next] /\ player' \in {player, None}
                    /\ mine' = mine
    BY <1>3, <2>1, <2>2 DEF AdoptTabs, NotAdopted, Becomes
  <2>4. Trusted' = None /\ (~spent.met => player = None) /\ (spent.met => mine = {})
    BY <1>1, <1>2, <2>3 DEF Trusted, OneInv, AloneInv
  <2> QED
    BY <1>1, <2>3, <2>4, TaskGoesOn, RemovalsStay, TasksDiffer
<1>4. CASE InWindow(task[t].window) # {}
  <2> DEFINE here == InWindow(task[t].window)
             players == {i \in here : IsPlayerPage(tabs[i].url)}
             found == IF players = {} THEN here ELSE players
             next == Saves(task[t], task[t].window, IF t = "recover" THEN "idle" ELSE "validate")
  <2>1. found # {} /\ found \subseteq here /\ here \subseteq DOMAIN tabs /\ DOMAIN tabs \subseteq Nat
    BY <1>4, LenProperties DEF InWindow, OneInv, TabsInv
  <2> PICK m \in here : m = Min(found)
    BY <2>1, MinIsIn
  <2>2. m \in DOMAIN tabs /\ tabs[m].window = task[t].window
    BY DEF InWindow
  <2>3. PlayerTab(here) = tabs[m].id
    BY DEF PlayerTab
  <2>4. /\ player' = [window |-> task[t].window, tab |-> tabs[m].id]
        /\ task' = [task EXCEPT ![t] = next]
        /\ mine' = IF ShowsPlayer(tabs[m].id) THEN Counts(tabs[m].id) ELSE mine
    BY <1>4, <2>3 DEF AdoptTabs, Becomes
  <2>5. /\ next.at = "save-window" /\ DOMAIN next = DOMAIN Idle /\ next.url = task[t].url
        /\ next.then = IF t = "recover" THEN "idle" ELSE "validate"
    BY <1>2 DEF Saves, Idle
  <2> HIDE DEF here, players, found, next
  <2>6. ShowsPlayer(tabs[m].id) => tabs[m].url \in Urls
    <3>1. TabExists(tabs[m].id) => PageOf(tabs[m].id) \in DOMAIN tabs /\ tabs[PageOf(tabs[m].id)].id = tabs[m].id
      BY DEF TabExists, PageOf
    <3>2. TabExists(tabs[m].id) => PageOf(tabs[m].id) = m
      BY <2>2, <3>1 DEF OneInv, TabsInv
    <3> QED
      BY <3>2 DEF ShowsPlayer, IsPlayerPage
  <2>7. mine' = mine \/ (~spent.met /\ mine' = mine \cup {tabs[m].id} /\ tabs[m].url \in Urls)
    BY <2>4, <2>6 DEF Counts
  <2> QED
    BY <1>1, <1>2, <2>2, <2>4, <2>5, <2>7, PlayerFound
<1> QED
  BY <1>3, <1>4

LEMMA FindTabKeeps ==
  ASSUME OneInv, NEW t \in Starts, FindTab(t)
  PROVE  OneInv'
<1>1. /\ task[t].at = "created-tabs" /\ UNCHANGED <<tabs, events, mine, spent>> /\ Searching(t)
  BY DEF FindTab, Searching
<1>2. /\ t \in Tasks /\ t \in Hunters /\ t # "recover" /\ task[t].url \in Urls /\ Trusted = None
      /\ DOMAIN task[t] = DOMAIN Idle
  BY <1>1, OfTask, TasksDiffer DEF Legal, Asking, Hunters
<1>3. CASE InWindow(task[t].window) = {}
  <2> DEFINE next == Waits(task[t], "fallback-tab")
  <2>1. /\ player' = player /\ task' = [task EXCEPT ![t] = next]
    BY <1>3 DEF FindTab, Becomes
  <2>2. Legal(t, next, None) /\ next.at = "fallback-tab"
    BY <1>2, TasksDiffer DEF Legal, Asking, Waits, Idle
  <2> HIDE DEF next
  <2>3. TabsInv' /\ EventsInv' /\ PlayerInv' /\ SpentInv'
    BY <1>1, <2>1, RemovalsStay DEF OneInv, TabsInv, PlayerInv, SpentInv
  <2>4. TasksInv'
    <3>1. Trusted' = None
      BY <1>1, <1>2, <2>1 DEF Trusted
    <3> QED
      BY <1>2, <2>1, <2>2, <3>1 DEF OneInv, TasksInv
  <2>5. AloneInv'
    <3>1. \A u \in Hunters : Searching(u)' => Searching(u)
      BY <1>1, <1>2, <2>1, <2>2, TasksDiffer DEF Searching, OneInv, TasksInv
    <3> QED
      BY <1>1, <3>1 DEF AloneInv, OneInv
  <2>6. ASSUME NEW i \in DOMAIN tabs, tabs[i].id \in mine PROVE Known(i)'
    <3>1. Known(i) /\ task[t].window # tabs[i].window /\ ~spent.met /\ player = None
      BY <1>2, <1>3, <2>6 DEF OneInv, InWindow, AloneInv, Trusted
    <3>2. \A u \in Starts \ {t} : task[u].at # "created-tabs"
      BY <1>1, <1>2, <3>1, OthersWait, TasksDiffer DEF Searching, Hunters
    <3>3. task["stop"].at \in {"look", "remove"} /\ task["stop"].tab = tabs[i].id
      BY <3>1, <3>2 DEF Known
    <3> QED
      BY <1>1, <2>1, <3>3, TasksDiffer DEF Known, OneInv, TasksInv
  <2> QED
    BY <1>1, <2>3, <2>4, <2>5, <2>6 DEF OneInv
<1>4. CASE InWindow(task[t].window) # {}
  <2> DEFINE here == InWindow(task[t].window)
             next == Saves(task[t], task[t].window, "answer")
  <2>1. here # {} /\ here \subseteq DOMAIN tabs /\ DOMAIN tabs \subseteq Nat
    BY <1>4, LenProperties DEF InWindow, OneInv, TabsInv
  <2> PICK m \in here : m = Min(here)
    BY <2>1, MinIsIn
  <2>2. /\ player' = [window |-> task[t].window, tab |-> tabs[m].id]
        /\ task' = [task EXCEPT ![t] = next]
    BY <1>4 DEF FindTab, Becomes
  <2>3. next.at = "save-window" /\ next.then = "answer" /\ next.url \in Urls /\ DOMAIN next = DOMAIN Idle
    BY <1>2 DEF Saves, Idle
  <2>4. m \in DOMAIN tabs /\ tabs[m].window = task[t].window
    BY DEF InWindow
  <2> HIDE DEF here, next
  <2> QED
    BY <1>1, <1>2, <2>2, <2>3, <2>4, PlayerFound
<1> QED
  BY <1>3, <1>4

LEMMA AskKeeps ==
  ASSUME OneInv, NEW t \in Starts,
         Ask(t) \/ ReadNote(t) \/ WriteNote(t) \/ ReadMode(t)
  PROVE  OneInv'
<1>1. /\ task[t].at \in {"idle", "note-read", "note-write", "mode"} /\ t \in Tasks
      /\ UNCHANGED <<tabs, player, events, mine>> /\ Trusted' = Trusted
      /\ DOMAIN spent' = DOMAIN spent /\ spent'.tabs = spent.tabs /\ spent'.met = spent.met
  BY TasksDiffer DEF Ask, ReadNote, WriteNote, ReadMode, OneInv, SpentInv, Trusted
<1>2. /\ DOMAIN task[t] = DOMAIN Idle /\ (task[t].at # "idle" => task[t].url \in Urls)
      /\ (task[t].at = "mode" => Trusted = None)
  BY <1>1, OfTask DEF Legal, Asking
<1>3. ASSUME NEW url \in Urls
      PROVE  \A tk : tk = [Waits(Idle, "note-read") EXCEPT !.url = url]
                        => Legal(t, tk, Trusted) /\ tk.at = "note-read"
  BY TasksDiffer DEF Legal, Asking, Waits, Idle
<1>4. ASSUME task[t].at # "idle", NEW held
      PROVE  \A tk : /\ tk = [Waits(task[t], "note-write") EXCEPT !.held = held]
                          => Legal(t, tk, Trusted) /\ tk.at = "note-write"
                     /\ tk = [Waits(task[t], "asked") EXCEPT !.held = held]
                          => Legal(t, tk, Trusted) /\ tk.at = "asked"
  <2>1. /\ DOMAIN task[t] = DOMAIN Idle /\ task[t].url \in Urls
        /\ t \notin {"stop", "tab", "window", "recover"}
    BY <1>2, <1>4, TasksDiffer
  <2>2. \A at, tk : tk = [Waits(task[t], at) EXCEPT !.held = held]
                      => DOMAIN tk = DOMAIN Idle /\ tk.at = at /\ tk.url = task[t].url
    BY <2>1 DEF Waits, Idle
  <2>3. \A at, tk : at \in {"note-write", "asked"} /\ tk = [Waits(task[t], at) EXCEPT !.held = held]
                      => Legal(t, tk, Trusted)
    BY <2>1, <2>2 DEF Legal, Asking
  <2>4. QED
    BY <2>2, <2>3
<1>5. ASSUME task[t].at = "mode"
      PROVE  Legal(t, Waits(task[t], "create-tab"), Trusted) /\ Legal(t, Waits(task[t], "create-window"), Trusted)
  BY <1>2, <1>5, TasksDiffer DEF Legal, Asking, Waits, Idle
<1>6. PICK next : /\ Legal(t, next, Trusted) /\ task' = [task EXCEPT ![t] = next]
                  /\ task[t].at = "mode" \/ next.at \in {"note-read", "note-write", "asked"}
  <2>1. CASE Ask(t)
    BY <1>3, <2>1 DEF Ask, Becomes
  <2>2. CASE ReadNote(t) \/ WriteNote(t)
    BY <1>4, <2>2 DEF ReadNote, WriteNote, Becomes
  <2>3. CASE ReadMode(t)
    BY <1>5, <2>3 DEF ReadMode, Becomes
  <2> QED
    BY <2>1, <2>2, <2>3
<1>7. task[t].at = "mode" => Searching(t)
  BY DEF Searching
<1> QED
  BY <1>1, <1>6, <1>7, TaskGoesOn, RemovalsStay, TasksDiffer

\* A request arrives: it searches alone, or the count begins anew.
LEMMA ArrivesKeeps == ASSUME OneInv, NEW t \in Starts, RequestPlayer(t) PROVE OneInv'
<1> DEFINE next == IF player = None THEN Waits(task[t], "read-stored") ELSE Validates(task[t], player)
<1>1. /\ task[t].at = "asked" /\ t \in Tasks /\ t \in Hunters /\ UNCHANGED <<tabs, player, events>>
      /\ task' = [task EXCEPT ![t] = next]
      /\ mine' = (IF Meets(t) THEN {} ELSE mine) /\ spent' = [spent EXCEPT !.met = Meets(t)]
  BY TasksDiffer DEF RequestPlayer, Becomes, Hunters
<1>2. DOMAIN task[t] = DOMAIN Idle /\ task[t].url \in Urls
  BY <1>1, OfTask DEF Legal, Asking
<1>3. Legal(t, next, player) /\ Legal(t, next, None)
  <2>1. Legal(t, next, player)
    BY <1>2, TasksDiffer DEF Legal, Asking, Waits, Validates, Idle
  <2> QED
    BY <2>1, LegalForgets
<1> HIDE DEF next
<1>4. Meets(t) \in BOOLEAN
  BY DEF Meets
<1>5. SpentInv' /\ spent'.met = Meets(t) /\ spent'.tabs = spent.tabs
  BY <1>1, <1>4 DEF SpentInv, OneInv
<1>6. mine' \subseteq mine /\ (Meets(t) \/ spent.met => mine' = {})
  BY <1>1 DEF OneInv, AloneInv
<1>7. TabsInv' /\ PlayerInv' /\ EventsInv'
  BY <1>1, <1>5, <1>6, RemovalsStay DEF OneInv, TabsInv, PlayerInv
<1>8. ~Meets(t) => \A u \in Hunters \ {t} : ~Searching(u)
  BY DEF Meets, Hunters
<1>9. AloneInv'
  <2>1. \A u \in Hunters \ {t} : Searching(u)' => Searching(u)
    BY <1>1, TasksDiffer DEF Searching, OneInv, TasksInv
  <2> QED
    BY <1>5, <1>6, <1>8, <2>1 DEF AloneInv
<1>10. TasksInv'
  <2>1. \A u \in Tasks : Legal(u, task[u], Trusted) /\ Legal(u, task[u], None)
    BY LegalForgets DEF OneInv, TasksInv
  <2>2. ~Meets(t) => \A u \in Tasks \ {t} : Legal(u, task[u], player)
    <3> SUFFICES ASSUME ~Meets(t), NEW u \in Tasks \ {t} PROVE Legal(u, task[u], player)
      OBVIOUS
    <3>1. CASE u \in Hunters
      BY <1>8, <2>1, <3>1 DEF Legal, Asking, Searching
    <3>2. CASE u \notin Hunters
      BY <2>1, <3>2 DEF Legal, Hunters
    <3> QED
      BY <3>1, <3>2
  <2>3. Trusted' = IF Meets(t) THEN None ELSE player
    BY <1>1, <1>5 DEF Trusted
  <2> QED
    BY <1>1, <1>3, <2>1, <2>2, <2>3 DEF OneInv, TasksInv
<1>11. ASSUME NEW i \in DOMAIN tabs, tabs[i].id \in mine' PROVE Known(i)'
  <2>1. Known(i)
    BY <1>6, <1>11 DEF OneInv
  <2> QED
    BY <1>1, <2>1, TasksDiffer DEF Known, OneInv, TasksInv
<1> QED
  BY <1>1, <1>5, <1>7, <1>9, <1>10, <1>11 DEF OneInv

\* The player in memory is validated; it is forgotten only if its tab is gone
\* or was used otherwise.
LEMMA CheckKeeps ==
  ASSUME OneInv, NEW t \in Starts, CheckTab(t) \/ CheckWindow(t)
  PROVE  OneInv'
<1>1. /\ task[t].at \in {"check-tab", "check-window"} /\ t \in Tasks
      /\ UNCHANGED <<tabs, events, mine, spent>> /\ Searching(t) /\ (mine # {} => Trusted = player)
  BY TasksDiffer DEF CheckTab, CheckWindow, Searching, OneInv, AloneInv, Trusted
<1>2. /\ DOMAIN task[t] = DOMAIN Idle /\ task[t].url \in Urls
      /\ Trusted # None => /\ task[t].at = "check-tab" => task[t].tab = Trusted.tab
                           /\ task[t].at = "check-window" => task[t].window = Trusted.window
  BY <1>1, OfTask DEF Legal, Asking
<1>3. Legal(t, Opening(task[t]), None)
  BY <1>2, TasksDiffer DEF Legal, Asking, Opening, Idle
<1>4. Legal(t, [Waits(task[t], "check-window") EXCEPT !.window = player.window], player)
  BY <1>2, TasksDiffer DEF Legal, Asking, Waits, Idle
<1>5. Legal(t, [Waits(task[t], "update") EXCEPT !.tab = player.tab, !.window = player.window], player)
  BY <1>2, TasksDiffer DEF Legal, Asking, Waits, Idle
<1>6. ASSUME player # None, player' = None, NEW i \in DOMAIN tabs, tabs[i].id \in mine
      PROVE  player.tab # tabs[i].id
  <2> SUFFICES ASSUME player.tab = tabs[i].id PROVE FALSE
    OBVIOUS
  <2>1. tabs[i].url \in Urls /\ tabs[i].window = player.window
    BY <1>6 DEF OneInv, TabsInv, PlayerInv
  <2>2. CASE CheckTab(t)
    <3>1. ~ShowsPlayer(player.tab)
      BY <1>1, <1>2, <1>6, <2>2 DEF CheckTab
    <3>2. TabExists(player.tab) /\ tabs[PageOf(player.tab)].id = player.tab
          /\ PageOf(player.tab) \in DOMAIN tabs
      BY DEF TabExists, PageOf
    <3>3. PageOf(player.tab) = i
      BY <3>2 DEF OneInv, TabsInv
    <3> QED
      BY <2>1, <3>1, <3>2, <3>3 DEF ShowsPlayer, IsPlayerPage
  <2>3. CASE CheckWindow(t)
    BY <1>1, <1>2, <1>6, <2>1, <2>3 DEF CheckWindow, WindowExists, InWindow
  <2> QED
    BY <2>2, <2>3
<1>7. player' = player \/ player' = None
  BY DEF CheckTab, CheckWindow
<1>8. PICK next : Legal(t, next, player') /\ task' = [task EXCEPT ![t] = next]
  BY <1>3, <1>4, <1>5 DEF CheckTab, CheckWindow, Becomes
<1>9. Legal(t, next, Trusted')
  BY <1>8, LegalForgets DEF Trusted
<1> QED
  BY <1>1, <1>6, <1>7, <1>8, <1>9, TaskGoesOn, RemovalsStay, TasksDiffer

\* The tabs and their number.
LEMMA OfTabs ==
  ASSUME TabsInv
  PROVE  /\ DOMAIN tabs = 1 .. Len(tabs) /\ Len(tabs) \in Nat
         /\ \A i \in DOMAIN tabs : /\ tabs[i].id \in Nat /\ tabs[i].window \in Nat
                                   /\ tabs[i].url \in Urls \cup {Elsewhere}
                                   /\ DOMAIN tabs[i] = {"id", "window", "url"}
<1>1. \A i \in DOMAIN tabs : tabs[i] \in TabRow
  BY ElementOfSeq, LenProperties DEF TabsInv
<1> QED
  BY <1>1, LenProperties DEF TabsInv, TabRow

\* A tab is opened: its id is new, and so is what is said of it.
LEMMA TabOpened ==
  ASSUME TabsInv, EventsInv, spent.tabs \in Nat, NEW w \in {Home, NewId}, NEW url \in Urls, Opens(w, url),
         DOMAIN spent = {"opens", "requests", "troubles", "tabs", "met"}, UNCHANGED events
  PROVE  /\ TabsInv' /\ EventsInv'
         /\ DOMAIN spent' = DOMAIN spent /\ spent'.tabs = NewId /\ spent'.met = spent.met
         /\ mine' = Counts(NewId)
         /\ \A i \in DOMAIN tabs' : \/ i \in DOMAIN tabs /\ tabs'[i] = tabs[i] /\ tabs[i].id # NewId
                                    \/ tabs'[i].id = NewId /\ tabs'[i].window = w
<1> DEFINE row == [id |-> NewId, window |-> w, url |-> url]
<1> PICK n \in Nat : n = Len(tabs) /\ DOMAIN tabs = 1 .. n
  BY OfTabs
<1>1. row \in TabRow /\ NewId \in Nat /\ row.id = NewId /\ row.window = w /\ row.url = url
  BY DEF TabRow, NewId, Home
<1> HIDE DEF row
<1>2. /\ tabs' = Append(tabs, row) /\ mine' = Counts(NewId) /\ mine' \subseteq mine \cup {NewId}
      /\ DOMAIN spent' = DOMAIN spent /\ spent'.tabs = NewId /\ spent'.met = spent.met
  BY DEF Opens, NewId, Counts, row
<1>3. /\ tabs' \in Seq(TabRow) /\ DOMAIN tabs' = 1 .. (n + 1) /\ tabs'[n + 1] = row
      /\ \A i \in 1 .. n : tabs'[i] = tabs[i]
  BY <1>1, <1>2, AppendProperties, LenProperties DEF TabsInv
<1>4. \A i \in DOMAIN tabs' : \/ i \in DOMAIN tabs /\ tabs'[i] = tabs[i] /\ tabs[i].id # NewId
                              \/ i = n + 1 /\ tabs'[i] = row
  BY <1>3, OfTabs DEF TabsInv, NewId
<1>5. TabsInv'
  <2>1. \A i \in DOMAIN tabs' :
          /\ tabs'[i].id <= spent'.tabs
          /\ tabs'[i].window # Home => tabs'[i].window = tabs'[i].id
          /\ tabs'[i].id \in mine' => tabs'[i].url \in Urls
    BY <1>1, <1>2, <1>4, OfTabs DEF TabsInv, NewId
  <2>2. \A i, j \in DOMAIN tabs' : tabs'[i].id = tabs'[j].id => i = j
    BY <1>1, <1>4 DEF TabsInv
  <2> QED
    BY <1>3, <2>1, <2>2 DEF TabsInv
<1>6. EventsInv'
  <2>1. \A e : Gone(e) => Gone(e)'
    <3> TAKE e
    <3> SUFFICES ASSUME Gone(e) PROVE Gone(e)'
      OBVIOUS
    <3>1. e.kind = "tab" => /\ e.tab \in Nat /\ e.tab <= spent'.tabs
                            /\ \A i \in DOMAIN tabs' : tabs'[i].id # e.tab
      BY <1>1, <1>2, <1>4 DEF Gone, NewId
    <3>2. e.kind = "window" => /\ e.window \in Nat \ {Home} /\ e.window <= spent'.tabs
                               /\ \A i \in DOMAIN tabs' : tabs'[i].window # e.window
      BY <1>1, <1>2, <1>4 DEF Gone, NewId
    <3> QED
      BY <3>1, <3>2 DEF Gone
  <2> QED
    BY <2>1 DEF EventsInv
<1> QED
  BY <1>1, <1>2, <1>4, <1>5, <1>6

\* A tab in the user's window is the player from now on.
LEMMA CreateTabKeeps == ASSUME OneInv, NEW t \in Starts, CreateTab(t) PROVE OneInv'
<1>1. /\ task[t].at \in {"create-tab", "fallback-tab"} /\ t \in Tasks /\ t \in Hunters /\ Searching(t)
      /\ Opens(Home, task[t].url) /\ player' = [window |-> Home, tab |-> NewId] /\ UNCHANGED events
  BY TasksDiffer DEF CreateTab, Searching, Hunters
<1>2. /\ DOMAIN task[t] = DOMAIN Idle /\ task[t].url \in Urls /\ Trusted = None
  BY <1>1, OfTask DEF Legal, Asking
<1>3. /\ TabsInv' /\ EventsInv'
      /\ DOMAIN spent' = DOMAIN spent /\ spent'.tabs = NewId /\ spent'.met = spent.met
      /\ mine' = Counts(NewId)
      /\ \A i \in DOMAIN tabs' : \/ i \in DOMAIN tabs /\ tabs'[i] = tabs[i] /\ tabs[i].id # NewId
                                 \/ tabs'[i].id = NewId /\ tabs'[i].window = Home
  <2>1. TabsInv /\ EventsInv /\ spent.tabs \in Nat
        /\ DOMAIN spent = {"opens", "requests", "troubles", "tabs", "met"}
    BY DEF OneInv, SpentInv
  <2> QED
    BY <1>1, <1>2, <2>1, TabOpened
<1>4. /\ player' # None /\ player' \in [window : Nat, tab : Nat]
      /\ player'.tab = NewId /\ player'.window = Home /\ NewId \in Nat
  <2>1. NewId \in Nat /\ Home \in Nat
    BY DEF NewId, Home, OneInv, SpentInv
  <2> QED
    BY <1>1, <2>1, WindowAssumption
<1>5. PlayerInv' /\ SpentInv'
  BY <1>3, <1>4 DEF PlayerInv, OneInv, SpentInv
<1>6. PICK next : /\ \A pl : Legal(t, next, pl)
                  /\ task' = [task EXCEPT ![t] = next]
  <2>1. \A pl : Legal(t, Saves(task[t], Home, "answer"), pl) /\ Legal(t, Answers, pl)
    BY <1>2, TasksDiffer DEF Legal, Asking, Saves, Answers, Idle
  <2> QED
    BY <2>1 DEF CreateTab, Becomes
<1>7. TasksInv'
  <2>1. \A u \in Tasks \ {t} : \A pl : Legal(u, task[u], IF spent.met THEN None ELSE pl)
    BY <1>1, OthersWait
  <2>2. Trusted' = IF spent.met THEN None ELSE player'
    BY <1>3 DEF Trusted
  <2> QED
    BY <1>6, <2>1, <2>2 DEF OneInv, TasksInv
<1>8. AloneInv'
  <2>1. \A u \in Hunters : Searching(u)' => Searching(u)
    BY <1>1, <1>6, TasksDiffer DEF Searching, OneInv, TasksInv
  <2> QED
    BY <1>3, <2>1 DEF AloneInv, OneInv, Counts
<1>9. ASSUME NEW i \in DOMAIN tabs', tabs'[i].id \in mine' PROVE Known(i)'
  <2>1. CASE tabs'[i].id = NewId
    BY <1>4, <2>1 DEF Known
  <2>2. CASE i \in DOMAIN tabs /\ tabs'[i] = tabs[i] /\ tabs[i].id # NewId
    <3>1. Known(i) /\ player = None /\ ~spent.met
      BY <1>2, <1>3, <1>9, <2>2 DEF OneInv, Counts, AloneInv, Trusted
    <3>2. \A u \in Starts : task[u].at # "created-tabs"
      BY <1>1, <3>1, OthersWait, TasksDiffer DEF Searching, Hunters
    <3>3. task["stop"].at \in {"look", "remove"} /\ task["stop"].tab = tabs[i].id
      BY <3>1, <3>2 DEF Known
    <3>4. task'["stop"] = task["stop"]
      BY <1>1, <1>6, TasksDiffer DEF OneInv, TasksInv
    <3> QED
      BY <2>2, <3>3, <3>4 DEF Known
  <2> QED
    BY <1>3, <2>1, <2>2
<1> QED
  BY <1>3, <1>5, <1>7, <1>8, <1>9 DEF OneInv

\* A window is opened, or refused: then a tab of the user's window is the way out.
LEMMA CreateWindowKeeps == ASSUME OneInv, NEW t \in Starts, CreateWindow(t) PROVE OneInv'
<1>1. /\ task[t].at = "create-window" /\ t \in Tasks /\ t \in Hunters /\ Searching(t)
      /\ UNCHANGED <<events, player>>
  BY TasksDiffer DEF CreateWindow, Searching, Hunters
<1>2. /\ DOMAIN task[t] = DOMAIN Idle /\ task[t].url \in Urls /\ Trusted = None
  BY <1>1, OfTask DEF Legal, Asking
<1>3. CASE Becomes(t, Waits(task[t], "fallback-tab")) /\ UNCHANGED <<tabs, mine>>
           /\ spent' = [spent EXCEPT !.troubles = @ + 1]
  <2>1. DOMAIN spent' = DOMAIN spent /\ spent'.tabs = spent.tabs /\ spent'.met = spent.met
    BY <1>3 DEF OneInv, SpentInv
  <2>2. Legal(t, Waits(task[t], "fallback-tab"), Trusted')
    <3>1. Legal(t, Waits(task[t], "fallback-tab"), None)
      BY <1>2, TasksDiffer DEF Legal, Asking, Waits, Idle
    <3> QED
      BY <1>1, <1>2, <2>1, <3>1 DEF Trusted
  <2>3. PICK next : Legal(t, next, Trusted') /\ task' = [task EXCEPT ![t] = next]
    BY <1>3, <2>2 DEF Becomes
  <2> QED
    BY <1>1, <1>3, <2>1, <2>3, TaskGoesOn, RemovalsStay, TasksDiffer
<1>4. CASE /\ Opens(NewId, task[t].url)
           /\ Becomes(t, [Waits(task[t], "created-tabs") EXCEPT !.window = NewId])
  <2>1. /\ TabsInv' /\ EventsInv'
        /\ DOMAIN spent' = DOMAIN spent /\ spent'.tabs = NewId /\ spent'.met = spent.met
        /\ mine' = Counts(NewId)
        /\ \A i \in DOMAIN tabs' : \/ i \in DOMAIN tabs /\ tabs'[i] = tabs[i] /\ tabs[i].id # NewId
                                   \/ tabs'[i].id = NewId /\ tabs'[i].window = NewId
    <3>1. TabsInv /\ EventsInv /\ spent.tabs \in Nat
          /\ DOMAIN spent = {"opens", "requests", "troubles", "tabs", "met"}
      BY DEF OneInv, SpentInv
    <3> QED
      BY <1>1, <1>2, <1>4, <3>1, TabOpened
  <2>2. NewId \in Nat \ {Home}
    BY DEF NewId, Home, OneInv, SpentInv
  <2> DEFINE next == [Waits(task[t], "created-tabs") EXCEPT !.window = NewId]
  <2>3. next.at = "created-tabs" /\ next.window = NewId /\ Legal(t, next, None)
    BY <1>2, <2>2, TasksDiffer DEF Legal, Asking, Waits, Idle
  <2>4. task' = [task EXCEPT ![t] = next]
    BY <1>4 DEF Becomes
  <2> HIDE DEF next
  <2>5. task'[t] = next /\ task'["stop"] = task["stop"]
    BY <1>1, <2>4, TasksDiffer DEF OneInv, TasksInv
  <2>6. TasksInv' /\ SpentInv' /\ PlayerInv'
    <3>1. Trusted' = None /\ PlayerInv'
      BY <1>1, <1>2, <2>1, <2>2 DEF Trusted, OneInv, PlayerInv, NewId, SpentInv
    <3> QED
      BY <1>1, <1>2, <2>1, <2>2, <2>3, <2>4, <3>1 DEF OneInv, TasksInv, SpentInv
  <2>7. AloneInv'
    <3>1. \A u \in Hunters : Searching(u)' => Searching(u)
      BY <1>1, <2>4, TasksDiffer DEF Searching, OneInv, TasksInv
    <3> QED
      BY <2>1, <3>1 DEF AloneInv, OneInv, Counts
  <2>8. ASSUME NEW i \in DOMAIN tabs', tabs'[i].id \in mine' PROVE Known(i)'
    <3>1. CASE tabs'[i].id = NewId /\ tabs'[i].window = NewId
      BY <2>3, <2>5, <3>1 DEF Known
    <3>2. CASE i \in DOMAIN tabs /\ tabs'[i] = tabs[i] /\ tabs[i].id # NewId
      <4>1. Known(i) /\ player = None /\ ~spent.met
        BY <1>2, <2>1, <2>8, <3>2 DEF OneInv, Counts, AloneInv, Trusted
      <4>2. \A u \in Starts : task[u].at # "created-tabs"
        BY <1>1, <4>1, OthersWait, TasksDiffer DEF Searching, Hunters
      <4>3. task["stop"].at \in {"look", "remove"} /\ task["stop"].tab = tabs[i].id
        BY <4>1, <4>2 DEF Known
      <4> QED
        BY <2>5, <3>2, <4>3 DEF Known
    <3> QED
      BY <2>1, <3>1, <3>2
  <2> QED
    BY <2>1, <2>6, <2>7, <2>8 DEF OneInv
<1> QED
  BY <1>3, <1>4 DEF CreateWindow

\* A tab shows another page of the player; one that has gone is forgotten.
LEMMA UpdateTabKeeps ==
  ASSUME OneInv, NEW t \in Starts, UpdateTab(t)
  PROVE  OneInv'
<1>1. /\ task[t].at = "update" /\ t \in Tasks /\ UNCHANGED <<events, mine, spent>> /\ Searching(t)
      /\ (mine # {} => Trusted = player)
  BY TasksDiffer DEF UpdateTab, Searching, OneInv, AloneInv, Trusted
<1>2. /\ DOMAIN task[t] = DOMAIN Idle /\ task[t].url \in Urls
      /\ (Trusted # None => task[t].tab = Trusted.tab)
  BY <1>1, OfTask DEF Legal, Asking
<1>3. CASE ~TabExists(task[t].tab)
  <2>1. /\ player' = None /\ UNCHANGED tabs
        /\ task' = [task EXCEPT ![t] = Clears(task[t], "mode")]
    BY <1>3 DEF UpdateTab, Becomes
  <2>2. Legal(t, Clears(task[t], "mode"), Trusted')
    <3>1. Legal(t, Clears(task[t], "mode"), None) /\ Trusted' = None
      BY <1>2, <2>1, TasksDiffer DEF Legal, Asking, Clears, Idle, Trusted
    <3> QED
      BY <3>1
  <2>3. \A i \in DOMAIN tabs : tabs[i].id \in mine => player = None \/ player.tab # tabs[i].id
    BY <1>1, <1>2, <1>3 DEF TabExists
  <2> QED
    BY <1>1, <2>1, <2>2, <2>3, TaskGoesOn, RemovalsStay, TasksDiffer
<1>4. CASE TabExists(task[t].tab)
  <2> DEFINE next == Saves(task[t], task[t].window, "answer")
  <2> PICK m \in DOMAIN tabs : m = PageOf(task[t].tab)
    BY <1>4 DEF TabExists, PageOf
  <2>1. /\ tabs' = [tabs EXCEPT ![m].url = task[t].url] /\ UNCHANGED player
        /\ task' = [task EXCEPT ![t] = next]
    BY <1>4 DEF UpdateTab, Becomes
  <2>2. Legal(t, next, Trusted) /\ next.at = "save-window" /\ Trusted' = Trusted
    <3>1. Legal(t, next, Trusted) /\ next.at = "save-window"
      BY <1>2, TasksDiffer DEF Legal, Asking, Saves, Idle
    <3>2. Trusted' = Trusted
      BY <1>1, <2>1 DEF Trusted
    <3> QED
      BY <3>1, <3>2
  <2> HIDE DEF next
  <2>3. TabsInv
    BY DEF OneInv
  <2>4. /\ DOMAIN tabs' = DOMAIN tabs
        /\ \A i \in DOMAIN tabs : tabs'[i].id = tabs[i].id /\ tabs'[i].window = tabs[i].window
        /\ \A i \in DOMAIN tabs : tabs'[i].url = tabs[i].url \/ tabs'[i].url \in Urls
    BY <1>2, <2>1, <2>3, OfTabs
  <2>5. tabs' \in Seq(TabRow)
    <3>1. \A i \in DOMAIN tabs : tabs[i] \in TabRow
      BY <2>3, ElementOfSeq, LenProperties DEF TabsInv
    <3>2. [tabs[m] EXCEPT !.url = task[t].url] \in TabRow
      BY <1>2, <3>1 DEF TabRow
    <3> QED
      BY <2>1, <2>3, <3>1, <3>2, ExceptSeq, LenProperties DEF TabsInv
  <2>6. TabsInv' /\ EventsInv' /\ PlayerInv'
    BY <1>1, <2>1, <2>4, <2>5 DEF OneInv, TabsInv, EventsInv, Gone, PlayerInv
  <2>7. TasksInv' /\ AloneInv' /\ SpentInv'
    <3>1. \A u \in Hunters : Searching(u)' => Searching(u)
      BY <1>1, <2>1, TasksDiffer DEF Searching, OneInv, TasksInv
    <3> QED
      BY <1>1, <2>1, <2>2, <3>1 DEF OneInv, TasksInv, AloneInv, SpentInv
  <2>8. ASSUME NEW i \in DOMAIN tabs', tabs'[i].id \in mine' PROVE Known(i)'
    <3>1. Known(i)
      BY <1>1, <2>4, <2>8 DEF OneInv
    <3>2. \A u \in Tasks : task[u].at \in {"look", "remove", "created-tabs"} => task'[u] = task[u]
      BY <1>1, <2>1 DEF OneInv, TasksInv
    <3> QED
      BY <2>1, <2>4, <2>8, <3>1, <3>2, TasksDiffer DEF Known
  <2> QED
    BY <1>1, <2>6, <2>7, <2>8 DEF OneInv
<1> QED
  BY <1>3, <1>4

\* A tab is taken out, and nothing else is.
LEMMA TabTakenOut ==
  ASSUME TabsInv, NEW m \in DOMAIN tabs, tabs' = RemoveAt(tabs, m)
  PROVE  /\ tabs' \in Seq(TabRow) /\ DOMAIN tabs' \subseteq Nat
         /\ \A j \in DOMAIN tabs' : \E i \in DOMAIN tabs : i # m /\ tabs'[j] = tabs[i]
         /\ \A j, k \in DOMAIN tabs' : tabs'[j].id = tabs'[k].id => j = k
<1> PICK n \in Nat : n = Len(tabs) /\ DOMAIN tabs = 1 .. n
  BY OfTabs
<1> DEFINE a == SubSeq(tabs, 1, m - 1)
           b == SubSeq(tabs, m + 1, n)
           f(j) == IF j < m THEN j ELSE j + 1
<1>1. \A i \in 1 .. n : tabs[i] \in TabRow
  BY ElementOfSeq DEF TabsInv
<1>2. /\ a \in Seq(TabRow) /\ Len(a) = m - 1 /\ \A i \in 1 .. (m - 1) : a[i] = tabs[i]
  <2>1. m - 1 \in Int /\ 1 \in Int /\ 1 <= m /\ \A i \in 1 .. (m - 1) : tabs[i] \in TabRow
    BY <1>1
  <2>2. CASE m = 1
    <3>1. a = <<>>
      BY <2>2, SubSeqProperties, <2>1
    <3> QED
      BY <2>2, <3>1, EmptySeq
  <2>3. CASE m > 1
    BY <2>1, <2>3, SubSeqProperties
  <2> QED
    BY <2>1, <2>2, <2>3
<1>3. /\ b \in Seq(TabRow) /\ Len(b) = n - m /\ \A i \in 1 .. (n - m) : b[i] = tabs[m + i]
  <2>1. m + 1 \in Int /\ n \in Int /\ \A i \in (m + 1) .. n : tabs[i] \in TabRow
    BY <1>1
  <2>2. CASE m = n
    <3>1. b = <<>>
      BY <2>2, SubSeqProperties, <2>1
    <3> QED
      BY <2>2, <3>1, EmptySeq
  <2>3. CASE m < n
    BY SMTT(30), <2>1, <2>3, SubSeqProperties
  <2> QED
    BY <2>1, <2>2, <2>3
<1>4. tabs' = a \o b
  BY DEF RemoveAt
<1> HIDE DEF a, b
<1>5. /\ tabs' \in Seq(TabRow) /\ Len(tabs') = n - 1 /\ n - 1 \in Nat
      /\ \A j \in 1 .. (n - 1) : tabs'[j] = IF j <= m - 1 THEN a[j] ELSE b[j - (m - 1)]
  BY SMTT(30), <1>2, <1>3, <1>4, ConcatProperties
<1>6. DOMAIN tabs' = 1 .. (n - 1)
  BY <1>5, LenProperties
<1>7. ASSUME NEW j \in 1 .. (n - 1) PROVE f(j) \in DOMAIN tabs /\ f(j) # m /\ tabs'[j] = tabs[f(j)]
  <2>1. CASE j < m
    BY <1>2, <1>5, <2>1
  <2>2. CASE ~(j < m)
    <3> PICK k : k = j - (m - 1)
      OBVIOUS
    <3>1. k \in 1 .. (n - m) /\ m + k = j + 1
      BY <2>2
    <3>2. tabs'[j] = b[k] /\ b[k] = tabs[m + k]
      BY SMTT(30), <1>3, <1>5, <2>2, <3>1
    <3> QED
      BY <2>2, <3>1, <3>2
  <2> QED
    BY <2>1, <2>2
<1>8. \A j, k \in 1 .. (n - 1) : f(j) = f(k) => j = k
  OBVIOUS
<1> HIDE DEF f
<1>9. \A j, k \in 1 .. (n - 1) : tabs'[j].id = tabs'[k].id => j = k
  BY <1>7, <1>8 DEF TabsInv
<1>10. \A j \in 1 .. (n - 1) : \E i \in DOMAIN tabs : i # m /\ tabs'[j] = tabs[i]
  BY <1>7
<1>11. 1 .. (n - 1) \subseteq Nat
  OBVIOUS
<1> QED
  BY ONLY <1>5, <1>6, <1>9, <1>10, <1>11

\* A tab goes: the worker will be told, and its id is used no more.
LEMMA TabGoes ==
  ASSUME TabsInv, EventsInv, spent.tabs \in Nat, NEW id, TabExists(id), Removes(id),
         spent'.tabs = spent.tabs
  PROVE  /\ TabsInv' /\ EventsInv' /\ mine' = mine \ {id}
         /\ \A j \in DOMAIN tabs' : \E i \in DOMAIN tabs : tabs'[j] = tabs[i]
<1> PICK m \in DOMAIN tabs : m = PageOf(id) /\ tabs[m].id = id
  BY DEF TabExists, PageOf
<1>1. /\ id \in Nat /\ id <= spent.tabs
      /\ tabs[m].window # Home => tabs[m].window = id
      /\ \A i \in DOMAIN tabs : i # m => tabs[i].id # id
  BY OfTabs DEF TabsInv
<1> DEFINE w == tabs[m].window
           rest == RemoveAt(tabs, m)
           last == w # Home /\ \A i \in DOMAIN rest : rest[i].window # w
           told == [kind |-> "tab", tab |-> id, window |-> None, closing |-> last]
           also == [told EXCEPT !.kind = "window", !.tab = None, !.window = w]
<1>2. /\ tabs' = rest /\ mine' = mine \ {id}
      /\ events' = events \o (IF last THEN <<told, also>> ELSE <<told>>)
  BY DEF Removes
<1>3. /\ tabs' \in Seq(TabRow)
      /\ \A j \in DOMAIN tabs' : \E i \in DOMAIN tabs : i # m /\ tabs'[j] = tabs[i]
      /\ \A j, k \in DOMAIN tabs' : tabs'[j].id = tabs'[k].id => j = k
  BY <1>2, TabTakenOut
<1>4. TabsInv'
  <2>1. ASSUME NEW j \in DOMAIN tabs'
        PROVE  /\ tabs'[j].id <= spent'.tabs
               /\ tabs'[j].window # Home => tabs'[j].window = tabs'[j].id
               /\ tabs'[j].id \in mine' => tabs'[j].url \in Urls
    <3> PICK i \in DOMAIN tabs : tabs'[j] = tabs[i]
      BY <1>3
    <3> QED
      BY <1>2 DEF TabsInv
  <2> QED
    BY <1>3, <2>1 DEF TabsInv
<1>5. told \in Removal /\ (last => also \in Removal)
  BY <1>1 DEF Removal
<1>6. \A e : e = told \/ (last /\ e = also) => Gone(e)'
  <2>1. \A j \in DOMAIN tabs' : tabs'[j].id # id
    BY <1>1, <1>3
  <2>2. told.kind = "tab" /\ told.tab = id /\ also.kind = "window" /\ also.window = w
    OBVIOUS
  <2>3. last => w \in Nat \ {Home} /\ w <= spent.tabs /\ \A j \in DOMAIN tabs' : tabs'[j].window # w
    BY <1>1, <1>2
  <2> HIDE DEF told, also, last, w
  <2> QED
    BY <1>1, <2>1, <2>2, <2>3 DEF Gone
<1>7. ASSUME NEW k \in DOMAIN events, NEW e, e = events[k] PROVE Gone(e)'
  <2>1. Gone(e) => Gone(e)'
    BY <1>3 DEF Gone
  <2> QED
    BY <1>7, <2>1 DEF EventsInv
<1> DEFINE new == IF last THEN <<told, also>> ELSE <<told>>
<1>8. /\ new \in Seq(Removal) /\ Len(new) \in Nat
      /\ \A k \in 1 .. Len(new) : \A e : e = new[k] => Gone(e)'
  <2>1. CASE last
    <3>1. new = <<told, also>>
      BY <2>1
    <3> HIDE DEF told, also, last, new
    <3> QED
      BY <1>5, <1>6, <2>1, <3>1
  <2>2. CASE ~last
    <3>1. new = <<told>>
      BY <2>2
    <3> HIDE DEF told, also, last, new
    <3> QED
      BY <1>5, <1>6, <2>2, <3>1
  <2> QED
    BY <2>1, <2>2
<1>9. events' = events \o new
  BY <1>2
<1> HIDE DEF new, told, also, last, w, rest
<1>10. EventsInv'
  <2>1. events \in Seq(Removal) /\ DOMAIN events = 1 .. Len(events) /\ Len(events) \in Nat
    BY LenProperties DEF EventsInv
  <2>2. /\ events' \in Seq(Removal) /\ Len(events') = Len(events) + Len(new)
        /\ \A k \in 1 .. (Len(events) + Len(new)) :
             events'[k] = IF k <= Len(events) THEN events[k] ELSE new[k - Len(events)]
    BY <1>8, <1>9, <2>1, ConcatProperties
  <2>3. ASSUME NEW k \in 1 .. Len(events'), NEW e, e = events'[k] PROVE Gone(e)'
    <3>1. CASE k <= Len(events)
      <4>1. k \in DOMAIN events /\ e = events[k]
        BY <1>8, <2>1, <2>2, <2>3, <3>1
      <4> QED
        BY <1>7, <4>1
    <3>2. CASE ~(k <= Len(events))
      <4> PICK j : j = k - Len(events)
        OBVIOUS
      <4>1. j \in 1 .. Len(new) /\ e = new[j]
        BY <1>8, <2>1, <2>2, <2>3, <3>2
      <4> QED
        BY <1>8, <4>1
    <3> QED
      BY <3>1, <3>2
  <2>4. DOMAIN events' = 1 .. Len(events')
    BY <2>2, LenProperties
  <2> QED
    BY <2>2, <2>3, <2>4 DEF EventsInv
<1> QED
  BY <1>2, <1>3, <1>4, <1>10

\* The user closes a tab, or goes elsewhere in it.
LEMMA UserKeeps ==
  ASSUME OneInv, UserCloses \/ UserNavigates
  PROVE  OneInv'
<1>1. /\ TabsInv /\ EventsInv /\ PlayerInv /\ TasksInv
      /\ UNCHANGED <<player, task>>
      /\ DOMAIN spent' = DOMAIN spent /\ spent'.tabs = spent.tabs /\ spent'.met = spent.met
  BY DEF UserCloses, UserNavigates, OneInv, SpentInv
<1>2. TasksInv' /\ SpentInv' /\ (mine' \subseteq mine => AloneInv')
  BY <1>1 DEF TasksInv, OneInv, SpentInv, AloneInv, Searching, Trusted
<1>3. CASE UserCloses
  <2> PICK m \in DOMAIN tabs : Removes(tabs[m].id)
    BY <1>3 DEF UserCloses
  <2>1. TabExists(tabs[m].id) /\ spent.tabs \in Nat
    BY DEF TabExists, OneInv, SpentInv
  <2>2. /\ TabsInv' /\ EventsInv' /\ mine' = mine \ {tabs[m].id}
        /\ \A j \in DOMAIN tabs' : \E i \in DOMAIN tabs : tabs'[j] = tabs[i]
    BY <1>1, <2>1, TabGoes
  <2>3. PlayerInv'
    BY <1>1, <2>2 DEF PlayerInv
  <2>4. ASSUME NEW j \in DOMAIN tabs', tabs'[j].id \in mine' PROVE Known(j)'
    <3> PICK i \in DOMAIN tabs : tabs'[j] = tabs[i]
      BY <2>2
    <3>1. Known(i)
      BY <2>2, <2>4 DEF OneInv
    <3> QED
      BY <1>1, <3>1 DEF Known
  <2> QED
    BY <1>1, <1>2, <2>2, <2>3, <2>4 DEF OneInv
<1>4. CASE UserNavigates
  <2> PICK m \in DOMAIN tabs, url \in Urls \cup {Elsewhere} :
        tabs' = [tabs EXCEPT ![m].url = url] /\ mine' = mine \ {tabs[m].id} /\ UNCHANGED events
    BY <1>4 DEF UserNavigates
  <2>1. /\ DOMAIN tabs' = DOMAIN tabs
        /\ \A i \in DOMAIN tabs : tabs'[i].id = tabs[i].id /\ tabs'[i].window = tabs[i].window
        /\ \A i \in DOMAIN tabs : i # m => tabs'[i].url = tabs[i].url
    BY <1>1, OfTabs
  <2>2. tabs' \in Seq(TabRow)
    <3>1. \A i \in DOMAIN tabs : tabs[i] \in TabRow
      BY <1>1, ElementOfSeq, LenProperties DEF TabsInv
    <3>2. [tabs[m] EXCEPT !.url = url] \in TabRow
      BY <3>1 DEF TabRow
    <3> QED
      BY <1>1, <3>1, <3>2, ExceptSeq, LenProperties DEF TabsInv
  <2>3. TabsInv'
    BY <1>1, <2>1, <2>2 DEF TabsInv
  <2>4. EventsInv' /\ PlayerInv'
    BY <1>1, <2>1 DEF EventsInv, Gone, PlayerInv
  <2>5. \A i \in DOMAIN tabs' : tabs'[i].id \in mine' => Known(i)'
    BY <1>1, <2>1 DEF Known, OneInv
  <2> QED
    BY <1>1, <1>2, <2>3, <2>4, <2>5 DEF OneInv
<1> QED
  BY <1>3, <1>4

\* The stop button: the player is forgotten, and its tab removed.
LEMMA ReleaseKeeps == ASSUME OneInv, Release PROVE OneInv'
<1>1. /\ "stop" \in Tasks /\ "stop" \notin Starts
      /\ DOMAIN task["stop"] = DOMAIN Idle /\ "stop" \notin Hunters
  BY TasksDiffer, OfTask
<1>2. CASE Stop
  <2>1. \A pl : Legal("stop", Waits(Idle, "released"), pl)
    BY <1>1 DEF Legal, Waits, Idle
  <2> QED
    BY <1>1, <1>2, <2>1, TaskGoesOn, RemovalsStay DEF Stop, Becomes
<1>3. CASE ReleasePlayer
  <2> DEFINE next == IF player = None THEN Clears(task["stop"], "answer")
                     ELSE [Waits(task["stop"], "look") EXCEPT !.tab = player.tab]
  <2>1. /\ task["stop"].at = "released" /\ player' = None
        /\ task' = [task EXCEPT !["stop"] = next] /\ UNCHANGED <<tabs, events, mine, spent>>
    BY <1>3 DEF ReleasePlayer, Becomes
  <2>2. /\ Legal("stop", next, None) /\ DOMAIN next = DOMAIN Idle
        /\ (player # None => next.at = "look" /\ next.tab = player.tab)
    BY <1>1 DEF Legal, Waits, Clears, Idle
  <2> HIDE DEF next
  <2>3. task'["stop"] = next /\ \A u \in Tasks \ {"stop"} : task'[u] = task[u]
    BY <1>1, <2>1 DEF OneInv, TasksInv
  <2>4. TabsInv' /\ EventsInv' /\ PlayerInv' /\ SpentInv'
    BY <2>1, RemovalsStay DEF OneInv, TabsInv, PlayerInv, SpentInv
  <2>5. TasksInv' /\ AloneInv'
    <3>1. \A u \in Tasks : Legal(u, task[u], None)
      BY LegalForgets DEF OneInv, TasksInv
    <3>2. Trusted' = None
      BY <2>1 DEF Trusted
    <3>3. \A u \in Hunters : Searching(u)' = Searching(u)
      BY <1>1, <2>3, TasksDiffer DEF Searching
    <3> QED
      BY <2>1, <2>2, <3>1, <3>2, <3>3 DEF OneInv, TasksInv, AloneInv
  <2>6. \A i \in DOMAIN tabs' : tabs'[i].id \in mine' => Known(i)'
    BY <1>1, <2>1, <2>2, <2>3, TasksDiffer DEF Known, OneInv
  <2> QED
    BY <2>1, <2>4, <2>5, <2>6 DEF OneInv
<1>4. CASE LookAtTab
  <2> DEFINE id == task["stop"].tab
  <2>1. task["stop"].at = "look" /\ UNCHANGED <<tabs, player, events, mine, spent>>
    BY <1>4 DEF LookAtTab
  <2>2. CASE ShowsPlayer(id)
    <3> DEFINE next == Waits(task["stop"], "remove")
    <3>1. task' = [task EXCEPT !["stop"] = next]
      BY <1>4, <2>2 DEF LookAtTab, Becomes
    <3>2. (\A pl : Legal("stop", next, pl)) /\ next.at = "remove" /\ next.tab = task["stop"].tab
      BY <1>1 DEF Legal, Waits, Idle
    <3> HIDE DEF next
    <3> QED
      BY <1>1, <2>1, <3>1, <3>2, TaskGoesOn, RemovalsStay
  <2>3. CASE ~ShowsPlayer(id)
    <3> DEFINE next == Clears(task["stop"], "answer")
    <3>1. task' = [task EXCEPT !["stop"] = next]
      BY <1>4, <2>3 DEF LookAtTab, Becomes
    <3>2. \A pl : Legal("stop", next, pl)
      BY <1>1 DEF Legal, Clears, Idle
    <3> HIDE DEF next
    <3>3. \A u \in Tasks \ {"stop"} : task'[u] = task[u]
      BY <3>1 DEF OneInv, TasksInv
    <3>4. TabsInv' /\ EventsInv' /\ PlayerInv' /\ TasksInv' /\ SpentInv' /\ AloneInv'
      <4>1. \A u \in Hunters : Searching(u)' = Searching(u)
        BY <1>1, <3>3, TasksDiffer DEF Searching
      <4>2. TasksInv'
        BY <2>1, <3>1, <3>2 DEF OneInv, TasksInv, Trusted
      <4> QED
        BY <2>1, <4>1, <4>2, RemovalsStay DEF OneInv, TabsInv, PlayerInv, SpentInv, AloneInv
    <3>5. \A i \in DOMAIN tabs : tabs[i].id \in mine => tabs[i].id # id
      <4> SUFFICES ASSUME NEW i \in DOMAIN tabs, tabs[i].id \in mine, tabs[i].id = id PROVE FALSE
        OBVIOUS
      <4>1. TabExists(id) /\ PageOf(id) = i
        BY DEF TabExists, PageOf, OneInv, TabsInv
      <4> QED
        BY <2>3, <4>1 DEF ShowsPlayer, IsPlayerPage, OneInv, TabsInv
    <3>6. \A i \in DOMAIN tabs' : tabs'[i].id \in mine' => Known(i)'
      BY <1>1, <2>1, <3>3, <3>5, TasksDiffer DEF Known, OneInv
    <3> QED
      BY <2>1, <3>4, <3>6 DEF OneInv
  <2> QED
    BY <2>2, <2>3
<1>5. CASE RemoveTab
  <2> DEFINE id == task["stop"].tab
             next == Clears(task["stop"], "answer")
  <2>1. /\ task["stop"].at = "remove" /\ UNCHANGED <<player, spent>>
        /\ task' = [task EXCEPT !["stop"] = next]
    BY <1>5 DEF RemoveTab, Becomes
  <2>2. \A pl : Legal("stop", next, pl)
    BY <1>1 DEF Legal, Clears, Idle
  <2> HIDE DEF next
  <2>3. \A u \in Tasks \ {"stop"} : task'[u] = task[u]
    BY <2>1 DEF OneInv, TasksInv
  <2>4. TasksInv' /\ SpentInv' /\ AloneInv'
    <3>1. \A u \in Hunters : Searching(u)' = Searching(u)
      BY <1>1, <2>3, TasksDiffer DEF Searching
    <3>2. mine' \subseteq mine
      BY <1>5 DEF RemoveTab, Removes
    <3> QED
      BY <2>1, <2>2, <3>1, <3>2 DEF OneInv, TasksInv, SpentInv, AloneInv, Trusted
  <2>5. /\ TabsInv' /\ EventsInv'
        /\ \A j \in DOMAIN tabs' : tabs'[j].id \in mine' =>
             \E i \in DOMAIN tabs : tabs'[j] = tabs[i] /\ tabs[i].id \in mine /\ tabs[i].id # id
        /\ \A j \in DOMAIN tabs' : \E i \in DOMAIN tabs : tabs'[j] = tabs[i]
    <3>1. CASE TabExists(id)
      <4>1. Removes(id) /\ TabsInv /\ EventsInv /\ spent.tabs \in Nat
        BY <1>5, <3>1 DEF RemoveTab, OneInv, SpentInv
      <4>2. /\ TabsInv' /\ EventsInv' /\ mine' = mine \ {id}
            /\ \A j \in DOMAIN tabs' : \E i \in DOMAIN tabs : tabs'[j] = tabs[i]
        BY <2>1, <3>1, <4>1, TabGoes
      <4> QED
        BY <4>2
    <3>2. CASE ~TabExists(id)
      <4>1. UNCHANGED <<tabs, events, mine>>
        BY <1>5, <3>2 DEF RemoveTab
      <4> QED
        BY <2>1, <3>2, <4>1, RemovalsStay DEF TabExists, OneInv, TabsInv
    <3> QED
      BY <3>1, <3>2
  <2>6. PlayerInv'
    BY <2>1, <2>5 DEF OneInv, PlayerInv
  <2>7. ASSUME NEW j \in DOMAIN tabs', tabs'[j].id \in mine' PROVE Known(j)'
    <3> PICK i \in DOMAIN tabs : tabs'[j] = tabs[i] /\ tabs[i].id \in mine /\ tabs[i].id # id
      BY <2>5, <2>7
    <3> QED
      BY <1>1, <2>1, <2>3, TasksDiffer DEF Known, OneInv
  <2> QED
    BY <2>1, <2>4, <2>5, <2>6, <2>7 DEF OneInv
<1> QED
  BY <1>2, <1>3, <1>4, <1>5 DEF Release

\* The browser's events reach the worker: what they tell of is gone for good.
LEMMA WorkerKeeps ==
  ASSUME OneInv, Worker, ~Restart PROVE OneInv'
<1>1. /\ {"tab", "window"} \subseteq Tasks /\ "tab" \notin Starts /\ "window" \notin Starts
      /\ "tab" \notin Hunters /\ "window" \notin Hunters /\ UNCHANGED <<tabs, mine, spent>>
  BY TasksDiffer DEF Worker, OnTabRemoved, LookForWindow, MissWindow, OnWindowRemoved, ForgetWindow
<1>2. \A pl : /\ Legal("tab", Idle, pl) /\ Legal("tab", Clears(Idle, "idle"), pl)
              /\ Legal("tab", Waits(Idle, "gone-stored"), pl)
              /\ \A w : Legal("tab", [Waits(Idle, "gone-window") EXCEPT !.window = w], pl)
              /\ \A w : Legal("window", [Waits(Idle, "shut-stored") EXCEPT !.window = w], pl)
              /\ Legal("window", Idle, pl) /\ Legal("window", Clears(Idle, "idle"), pl)
  BY <1>1 DEF Legal, Waits, Clears, Idle
<1>3. CASE OnTabRemoved
  <2>1. EventsInv' /\ Gone(Head(events)) /\ Head(events).kind = "tab"
    BY <1>1, <1>3, RemovalTaken DEF OnTabRemoved
  <2>2. player' = player \/ (player' = None /\ \A i \in DOMAIN tabs : tabs[i].id # player.tab)
    BY <1>3, <2>1 DEF OnTabRemoved, IsPlayers, Gone
  <2>3. PICK next : Legal("tab", next, Trusted') /\ task' = [task EXCEPT !["tab"] = next]
    BY <1>2, <1>3 DEF OnTabRemoved, Becomes
  <2> QED
    BY <1>1, <2>1, <2>2, <2>3, TaskGoesOn
<1>4. CASE OnWindowRemoved
  <2>1. EventsInv' /\ Gone(Head(events)) /\ Head(events).kind = "window"
    BY <1>1, <1>4, RemovalTaken DEF OnWindowRemoved
  <2>2. \/ player' = player
        \/ player' = None /\ \A i \in DOMAIN tabs : player = None \/ player.tab # tabs[i].id
    BY <1>4, <2>1 DEF OnWindowRemoved, Gone, OneInv, PlayerInv
  <2>3. PICK next : Legal("window", next, Trusted') /\ task' = [task EXCEPT !["window"] = next]
    BY <1>2, <1>4 DEF OnWindowRemoved, Becomes
  <2> QED
    BY <1>1, <2>1, <2>2, <2>3, TaskGoesOn
<1>5. CASE LookForWindow \/ MissWindow
  <2>1. PICK next : Legal("tab", next, Trusted') /\ task' = [task EXCEPT !["tab"] = next]
    BY <1>2, <1>5 DEF LookForWindow, MissWindow, Becomes
  <2>2. UNCHANGED <<player, events>>
    BY <1>5 DEF LookForWindow, MissWindow
  <2> QED
    BY <1>1, <2>1, <2>2, TaskGoesOn, RemovalsStay
<1>6. CASE ForgetWindow
  <2>1. PICK next : Legal("window", next, Trusted') /\ task' = [task EXCEPT !["window"] = next]
    BY <1>2, <1>6 DEF ForgetWindow, Becomes
  <2>2. UNCHANGED <<player, events>>
    BY <1>6 DEF ForgetWindow
  <2> QED
    BY <1>1, <2>1, <2>2, TaskGoesOn, RemovalsStay
<1> QED
  BY <1>3, <1>4, <1>5, <1>6 DEF Worker

\* The popup, and the library, leave the player alone.
LEMMA ElsewhereKeeps ==
  ASSUME OneInv, Popup \/ LibraryChanges \/ UNCHANGED vars PROVE OneInv'
<1>1. /\ UNCHANGED <<tabs, player, events, mine>>
      /\ DOMAIN spent' = DOMAIN spent /\ spent'.tabs = spent.tabs /\ spent'.met = spent.met
      /\ Trusted' = Trusted
  BY DEF Popup, PopupOpens, PopupCloses, Notice, PopupReads, PopupDraws, PopupFails, PopupToggles, PopupJumps,
    LibraryChanges, vars, OneInv, SpentInv, Trusted
<1>2. CASE task' = task
  <2>1. SpentInv' /\ TabsInv' /\ EventsInv' /\ PlayerInv' /\ TasksInv' /\ AloneInv'
    BY <1>1, <1>2 DEF OneInv, SpentInv, TabsInv, EventsInv, Gone, PlayerInv, TasksInv, AloneInv, Searching
  <2>2. \A i \in DOMAIN tabs' : tabs'[i].id \in mine' => Known(i)'
    BY <1>1, <1>2 DEF OneInv, Known
  <2> QED
    BY <1>1, <2>1, <2>2 DEF OneInv
<1>3. CASE task' # task
  <2>1. /\ "popup" \in Starts /\ task["popup"].at \in {"note-read", "note-write"}
        /\ task' = [task EXCEPT !["popup"] = Idle]
    BY <1>3 DEF Popup, PopupOpens, PopupCloses, Notice, PopupReads, PopupDraws, PopupFails, PopupToggles,
      PopupJumps, LibraryChanges, vars
  <2>2. Legal("popup", Idle, Trusted) /\ Idle.at = "idle"
    BY <2>1 DEF Legal, Asking, Idle
  <2> QED
    BY <1>1, <2>1, <2>2, TaskGoesOn, RemovalsStay, TasksDiffer
<1> QED
  BY <1>2, <1>3

\* A worker that is started again counts anew: only the recovery searches.
LEMMA RestartKeeps == ASSUME OneInv, Restart PROVE OneInv'
<1> DEFINE next(t) == IF t = "recover" THEN Waits(Idle, "read-stored")
                      ELSE IF task[t].at \in OnTheWay THEN task[t] ELSE Idle
<1>1. /\ player' = None /\ task' = [t \in Tasks |-> next(t)] /\ mine' = {}
      /\ spent' = [spent EXCEPT !.requests = @ + 1, !.met = FALSE] /\ UNCHANGED <<tabs, events>>
  BY DEF Restart
<1>2. SpentInv' /\ spent'.tabs = spent.tabs
  BY <1>1 DEF OneInv, SpentInv
<1>3. TabsInv' /\ EventsInv' /\ PlayerInv'
  BY <1>1, <1>2, RemovalsStay DEF OneInv, TabsInv, PlayerInv
<1>4. ASSUME NEW t \in Tasks PROVE Legal(t, next(t), None)
  <2>1. CASE t = "recover"
    BY <2>1, TasksDiffer DEF Legal, Waits, Idle
  <2>2. CASE t # "recover" /\ task[t].at \in OnTheWay
    BY <2>2, LegalForgets DEF OneInv, TasksInv
  <2>3. CASE t # "recover" /\ task[t].at \notin OnTheWay
    BY <2>3 DEF Legal, Asking, Idle
  <2> QED
    BY <2>1, <2>2, <2>3
<1>5. ASSUME NEW t \in Starts PROVE next(t).at \in {"idle", "note-read", "note-write", "asked"}
  <2>1. Legal(t, task[t], Trusted) /\ t \in Tasks /\ t # "recover"
    BY TasksDiffer DEF OneInv, TasksInv
  <2> QED
    BY <2>1 DEF Legal, Asking, OnTheWay, Idle
<1> HIDE DEF next
<1>6. TasksInv'
  <2>1. Trusted' = None
    BY <1>1 DEF Trusted
  <2> QED
    BY <1>1, <1>4, <2>1 DEF TasksInv
<1>7. AloneInv'
  <2>1. \A t \in Starts : ~Searching(t)'
    BY <1>1, <1>5, TasksDiffer DEF Searching
  <2> QED
    BY <1>1, <2>1 DEF AloneInv, Hunters
<1> QED
  BY <1>1, <1>2, <1>3, <1>6, <1>7 DEF OneInv

\* Every step keeps the invariant.
LEMMA StepKeepsOne == ASSUME OneInv, [Next]_vars PROVE OneInv'
<1>1. CASE Browser
  BY <1>1, UserKeeps, ElsewhereKeeps DEF Browser
<1>2. CASE Popup \/ UNCHANGED vars
  BY <1>2, ElsewhereKeeps
<1>3. CASE Release
  BY <1>3, ReleaseKeeps
<1>4. CASE Worker
  BY <1>4, WorkerKeeps, RestartKeeps
<1>5. ASSUME NEW t \in Tasks, Common(t) PROVE OneInv'
  BY <1>5, SaveWindowKeeps, ClearKeeps, ReadStoredKeeps, AdoptTabsKeeps DEF Common
<1>6. ASSUME NEW t \in Starts, Request(t) PROVE OneInv'
  BY <1>6, AskKeeps, ArrivesKeeps, CheckKeeps, UpdateTabKeeps, CreateTabKeeps, CreateWindowKeeps, FindTabKeeps
    DEF Request
<1> QED
  BY <1>1, <1>2, <1>3, <1>4, <1>5, <1>6 DEF Next

\* Every tab that counts as a player is known, whoever asks and however often the worker
\* is stopped: in every reachable state.
THEOREM PlayersAreKnown == Spec => []OneInv
<1>1. Init => OneInv
  <2> SUFFICES ASSUME Init PROVE OneInv
    OBVIOUS
  <2> DEFINE tab == [id |-> 0, window |-> Home, url |-> Elsewhere]
  <2>1. /\ DOMAIN spent = {"opens", "requests", "troubles", "tabs", "met"}
        /\ spent.tabs = 0 /\ spent.met = FALSE /\ mine = {} /\ player = None /\ events = <<>>
        /\ task = [t \in Tasks |-> Idle] /\ tabs = <<tab>>
    BY DEF Init
  <2>2. tab \in TabRow /\ tab.id = 0 /\ tab.window = Home
    BY DEF TabRow, Home
  <2> HIDE DEF tab
  <2>3. tabs \in Seq(TabRow) /\ DOMAIN tabs = {1} /\ tabs[1] = tab
    <3>1. tabs \in Seq(TabRow) /\ Len(tabs) = 1 /\ tabs[1] = tab
      BY <2>1, <2>2
    <3> QED
      BY <3>1, LenProperties
  <2>4. TabsInv
    BY <2>1, <2>2, <2>3 DEF TabsInv, Home
  <2>5. EventsInv
    BY <2>1 DEF EventsInv
  <2>6. TasksInv
    BY <2>1 DEF TasksInv, Legal, Asking, Idle
  <2>7. AloneInv /\ SpentInv
    <3>1. \A t \in Hunters : task[t].at = "idle"
      BY <2>1, TasksDiffer DEF Idle
    <3>2. AloneInv
      BY <2>1, <3>1 DEF AloneInv, Searching
    <3>3. SpentInv
      <4>1. spent.met \in BOOLEAN
        BY ONLY <2>1, Zenon
      <4>2. spent.tabs \in Nat
        BY <2>1
      <4> QED
        BY <2>1, <4>1, <4>2 DEF SpentInv
    <3> QED
      BY <3>2, <3>3
  <2> QED
    BY <2>1, <2>4, <2>5, <2>6, <2>7 DEF OneInv, PlayerInv
<1>2. OneInv /\ [Next]_vars => OneInv'
  BY StepKeepsOne
<1> QED
  BY <1>1, <1>2, PTL DEF Spec

\* When nothing is under way, one tab at most of those the worker opened or took up for a
\* player shows one (window-manager.ts), however requests of the popup and of pages, the
\* stop button, stops of the worker, refused windows and what the user does to tabs
\* overlapped: counted since the worker started, and since two searches last met.
THEOREM OnePlayerIsShown == Spec => []OnePlayer
<1>1. OneInv => OnePlayer
  <2> SUFFICES ASSUME OneInv, AtRest PROVE OnePlayer
    BY DEF OnePlayer
  <2> DEFINE shown == {i \in DOMAIN tabs : tabs[i].id \in mine /\ IsPlayerPage(tabs[i].url)}
  <2>1. \A i \in shown : Known(i) /\ i \in DOMAIN tabs
    BY DEF OneInv
  <2>2. \A i \in shown : player.tab = tabs[i].id
    BY <2>1, TasksDiffer DEF Known, AtRest
  <2>3. \A i, j \in shown : i = j
    BY <2>1, <2>2 DEF OneInv, TabsInv
  <2> HIDE DEF shown
  <2>4. Cardinality(shown) <= 1
    <3>1. CASE shown = {}
      BY <3>1, FS_EmptySet
    <3>2. CASE shown # {}
      <4> PICK i : i \in shown
        BY <3>2
      <4>1. shown = {i}
        BY <2>3
      <4> QED
        BY <4>1, FS_Singleton
    <3> QED
      BY <3>1, <3>2
  <2> QED
    BY <2>4 DEF OnePlayer, shown
<1> QED
  BY <1>1, PlayersAreKnown, PTL
=============================================================================

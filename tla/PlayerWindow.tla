---------------------------- MODULE PlayerWindow ----------------------------
(***************************************************************************)
(* The player's tab and the pages that ask for it:                         *)
(* src/apps/extension/src/player/{window-manager,transient-session}.ts,    *)
(* src/apps/extension/src/ui/{popup,popup-picker,popup-actions}.ts and     *)
(* src/apps/extension/entrypoints/background.ts.                           *)
(*                                                                         *)
(* The background worker keeps the player's tab in memory and its window   *)
(* in the transient record.  Requests, releases, the browser's events and  *)
(* the recovery after a restart are tasks that run into each other at      *)
(* every await: `at` names the call a task waits for, its arguments were   *)
(* taken when the call was made, and one action is the browser's answer    *)
(* and the code up to the next call.                                       *)
(***************************************************************************)
EXTENDS Integers, SequencesExt

CONSTANTS
  Urls,           \* pages of the player, one per playlist
  Elsewhere,      \* any other page
  Starts,         \* who may ask for a player: {"popup", "page"} or less
  Modes,          \* values of preferences.windowMode, which stays as it is
  MaxOpens,       \* bound: times the popup is opened
  MaxRequests,    \* bound: requests for a player and stops of the worker
  MaxTroubles,    \* bound: what the user does to tabs, playlists and cards, windows
                  \*        refused, and drawings whose reads fail
  MaxSpent,       \* bound: all of these together
  None

ASSUME WindowAssumption ==
  /\ Starts \subseteq {"popup", "page"} /\ Modes \subseteq {"window", "tab"}
  /\ Elsewhere \notin Urls /\ None \notin Urls \cup [window : Nat, tab : Nat]
  /\ {MaxOpens, MaxRequests, MaxTroubles, MaxSpent} \subseteq Nat

VARIABLES
  tabs,      \* the browser's tabs in their order: id, window and page
  record,    \* dop_v2_transient: the player's window and the playback
  player,    \* the worker's memory: the player's window and tab
  task,      \* what is under way
  events,    \* removals the worker has not been told yet
  library,   \* what is stored: the playlists, and preferences.windowMode
  popup,     \* the popup
  mine,      \* history: the tabs opened or taken up for a player and not used otherwise
             \* since: since the worker started, and since two searches last met
  spent      \* how much of each bound is used; history: whether two searches have met

vars == <<tabs, record, player, task, events, library, popup, mine, spent>>

Home     == 0                                \* the user's own window
Tasks    == Starts \cup {"stop", "tab", "window", "recover"}
Nothing  == [window |-> None, playback |-> None]
Idle     == [at |-> "idle", url |-> None, tab |-> None, window |-> None,
             held |-> Nothing, then |-> "idle"]
NoView   == [kind |-> "none", playing |-> None, cards |-> {}, expanded |-> None]
Unread   == [playback |-> None, playlists |-> {}]
Shut     == [open |-> FALSE, at |-> "idle", seen |-> Unread, view |-> NoView,
             expanded |-> None, queued |-> FALSE, news |-> FALSE, failed |-> FALSE]

Init ==
  /\ tabs = <<[id |-> 0, window |-> Home, url |-> Elsewhere]>>
  /\ record = Nothing
  /\ player = None
  /\ task = [t \in Tasks |-> Idle]
  /\ events = <<>>
  /\ library \in [playlists : {Urls}, windowMode : Modes]
  /\ popup = Shut
  /\ mine = {}
  /\ spent = [opens |-> 0, requests |-> 0, troubles |-> 0, tabs |-> 0, met |-> FALSE]

Bound     == [opens |-> MaxOpens, requests |-> MaxRequests, troubles |-> MaxTroubles]
May(kind) == spent[kind] < Bound[kind] /\ spent.opens + spent.requests + spent.troubles < MaxSpent

-----------------------------------------------------------------------------
(* The browser.                                                            *)

IsPlayerPage(url) == url \in Urls
InWindow(w)       == {i \in DOMAIN tabs : tabs[i].window = w}
WindowExists(w)   == w = Home \/ InWindow(w) # {}
TabExists(id)     == \E i \in DOMAIN tabs : tabs[i].id = id
PageOf(id)        == (CHOOSE i \in DOMAIN tabs : tabs[i].id = id)
ShowsPlayer(id)   == TabExists(id) /\ IsPlayerPage(tabs[PageOf(id)].url)

\* A request, or the recovery, is looking for a player in the worker.
Searching(t) == task[t].at \notin {"idle", "note-read", "note-write", "asked", "answered"}
Meets(t)     == \E s \in (Starts \cup {"recover"}) \ {t} : Searching(s)
Counts(id)   == IF spent.met THEN mine ELSE mine \cup {id}

NewId == spent.tabs + 1
Opens(w, url) ==
  /\ tabs' = Append(tabs, [id |-> NewId, window |-> w, url |-> url])
  /\ mine' = Counts(NewId)
  /\ spent' = [spent EXCEPT !.tabs = @ + 1]

\* A tab goes, with its window if it was the last one; the worker is told later.
Removes(id) ==
  LET w    == tabs[PageOf(id)].window
      rest == RemoveAt(tabs, PageOf(id))
      last == w # Home /\ \A i \in DOMAIN rest : rest[i].window # w
      told == [kind |-> "tab", tab |-> id, window |-> None, closing |-> last]
  IN /\ tabs' = rest
     /\ mine' = mine \ {id}
     /\ events' = events \o (IF last THEN <<told, [told EXCEPT !.kind = "window", !.tab = None, !.window = w]>>
                              ELSE <<told>>)

UserCloses ==
  /\ May("troubles")
  /\ \E i \in DOMAIN tabs : tabs[i].id # 0 /\ Removes(tabs[i].id)
  /\ spent' = [spent EXCEPT !.troubles = @ + 1]
  /\ UNCHANGED <<record, player, task, library, popup>>

UserNavigates ==
  /\ May("troubles")
  /\ \E i \in DOMAIN tabs : \E url \in (Urls \cup {Elsewhere}) \ {tabs[i].url} :
       /\ tabs' = [tabs EXCEPT ![i].url = url]
       /\ mine' = mine \ {tabs[i].id}
  /\ spent' = [spent EXCEPT !.troubles = @ + 1]
  /\ UNCHANGED <<record, player, task, events, library, popup>>

-----------------------------------------------------------------------------
(* The popup: one drawing at a time, and one more for what came meanwhile. *)

\* Mutant: a request to draw while drawing is forgotten.
RendersUnlessRendering(pop) ==
  IF ~pop.open \/ pop.at # "idle" THEN pop ELSE [pop EXCEPT !.at = "both", !.queued = FALSE]

Renders(pop) ==
  IF ~pop.open THEN pop
  ELSE IF pop.at # "idle" THEN [pop EXCEPT !.queued = TRUE]
  ELSE [pop EXCEPT !.at = "both", !.queued = FALSE]

\* What is drawn: what plays, or the cards of the library when nothing does
\* or its playlist is gone.
RenderPlaylistList(playlists, expanded) ==
  [kind |-> "list", playing |-> None, cards |-> playlists,
   expanded |-> IF expanded \in playlists THEN expanded ELSE None]
RenderNowPlayingItems(playlist) ==
  [kind |-> "playing", playing |-> playlist, cards |-> {}, expanded |-> None]
View(playback, playlists, expanded) ==
  IF playback \in playlists THEN RenderNowPlayingItems(playback)
  ELSE RenderPlaylistList(playlists, expanded)

NewsOf(pop) == IF pop.open THEN [pop EXCEPT !.news = TRUE] ELSE pop

PopupOpens ==
  /\ ~popup.open /\ May("opens")
  /\ popup' = Renders([Shut EXCEPT !.open = TRUE])
  /\ spent' = [spent EXCEPT !.opens = @ + 1]
  /\ UNCHANGED <<tabs, record, player, task, events, library, mine>>

\* dispose; with the page goes what it was about to send.
PopupCloses ==
  /\ popup.open
  /\ popup' = Shut
  /\ task' = IF "popup" \in Starts /\ task["popup"].at \in {"note-read", "note-write"}
             THEN [task EXCEPT !["popup"] = Idle] ELSE task
  /\ UNCHANGED <<tabs, record, player, events, library, mine, spent>>

Notice ==
  /\ popup.news
  /\ popup' = Renders([popup EXCEPT !.news = FALSE])
  /\ UNCHANGED <<tabs, record, player, task, events, library, mine, spent>>

\* doRender asks for the transient and the public state at once; `at` names
\* the answers still to come.
PopupReads ==
  /\ popup.at = "both"
  /\ \/ popup' = [popup EXCEPT !.at = "public", !.seen.playback = record.playback]
     \/ popup' = [popup EXCEPT !.at = "transient", !.seen.playlists = library.playlists]
  /\ UNCHANGED <<tabs, record, player, task, events, library, mine, spent>>

\* With the second answer the popup is drawn.
PopupDraws ==
  /\ popup.at \in {"public", "transient"}
  /\ popup' = [popup EXCEPT
                 !.view = IF popup.at = "public"
                          THEN View(popup.seen.playback, library.playlists, popup.expanded)
                          ELSE View(record.playback, popup.seen.playlists, popup.expanded),
                 !.seen = Unread,
                 !.at = IF popup.queued THEN "both" ELSE "idle",
                 !.queued = FALSE, !.failed = FALSE]
  /\ UNCHANGED <<tabs, record, player, task, events, library, mine, spent>>

\* A read is rejected: nothing is drawn, now or for what was queued.
PopupFails ==
  /\ popup.at # "idle" /\ May("troubles")
  /\ popup' = [popup EXCEPT !.seen = Unread, !.at = "idle", !.queued = FALSE, !.failed = TRUE]
  /\ spent' = [spent EXCEPT !.troubles = @ + 1]
  /\ UNCHANGED <<tabs, record, player, task, events, library, mine>>

\* The header of a card: the list is drawn again at once, of what was read last.
PopupToggles ==
  /\ popup.view.kind = "list" /\ May("troubles")
  /\ \E playlist \in popup.view.cards :
       LET expanded == IF popup.expanded = playlist THEN None ELSE playlist
       IN popup' = [popup EXCEPT !.expanded = expanded,
                                 !.view = RenderPlaylistList(popup.view.cards, expanded)]
  /\ spent' = [spent EXCEPT !.troubles = @ + 1]
  /\ UNCHANGED <<tabs, record, player, task, events, library, mine>>

\* A row of what plays: what the player does with it is in Navigation, the
\* popup draws itself again.
PopupJumps ==
  /\ popup.view.kind = "playing" /\ May("troubles")
  /\ popup' = Renders(popup)
  /\ spent' = [spent EXCEPT !.troubles = @ + 1]
  /\ UNCHANGED <<tabs, record, player, task, events, library, mine>>

LibraryChanges ==
  /\ May("troubles")
  /\ \E playlist \in Urls :
       library' = [library EXCEPT !.playlists = IF playlist \in @ THEN @ \ {playlist}
                                                ELSE @ \cup {playlist}]
  /\ popup' = NewsOf(popup)
  /\ spent' = [spent EXCEPT !.troubles = @ + 1]
  /\ UNCHANGED <<tabs, record, player, task, events, mine>>

-----------------------------------------------------------------------------
(* The steps tasks have in common.                                         *)

Becomes(t, next) == task' = [task EXCEPT ![t] = next]
Waits(tk, call)  == [tk EXCEPT !.at = call]
Opening(tk)      == [Idle EXCEPT !.at = "mode", !.url = tk.url]
Answers          == [Idle EXCEPT !.at = "answered"]
Writes(rec)      == record' = rec /\ popup' = NewsOf(popup)

\* validate() begins with the player in memory.
Validates(tk, pl) ==
  IF pl = None THEN Opening(tk)
  ELSE [Idle EXCEPT !.at = "check-tab", !.url = tk.url, !.tab = pl.tab]

\* What follows saveWindow or clearSession.
After(tk, pl) ==
  CASE tk.then = "validate" -> Validates(tk, pl)
    [] tk.then = "mode"     -> Opening(tk)
    [] tk.then = "answer"   -> Answers
    [] tk.then = "idle"     -> Idle

Saves(tk, w, then)  == [tk EXCEPT !.at = "save-window", !.tab = None, !.window = w, !.then = then]
Clears(tk, then)    == [tk EXCEPT !.at = "clear", !.tab = None, !.window = None, !.then = then]

\* saveWindow: a window that has gone is not recorded; the record is read and
\* written in two calls.
SaveWindow(t) ==
  /\ task[t].at = "save-window"
  /\ Becomes(t, IF WindowExists(task[t].window) THEN Waits(task[t], "save-read")
                ELSE After(task[t], player))
  /\ UNCHANGED <<tabs, record, player, events, library, popup, mine, spent>>

SaveRead(t) ==
  /\ task[t].at = "save-read"
  /\ Becomes(t, [Waits(task[t], "save-write") EXCEPT
                   !.held = [record EXCEPT !.window = task[t].window]])
  /\ UNCHANGED <<tabs, record, player, events, library, popup, mine, spent>>

SaveWrite(t) ==
  /\ task[t].at = "save-write"
  /\ Writes(task[t].held)
  /\ Becomes(t, After([task[t] EXCEPT !.held = Nothing], player))
  /\ UNCHANGED <<tabs, player, events, library, mine, spent>>

\* clearSession: whatever was read, window and playback are dropped.
ClearSession(t) ==
  /\ task[t].at = "clear"
  /\ Writes(Nothing)
  /\ Becomes(t, After(task[t], player))
  /\ UNCHANGED <<tabs, player, events, library, mine, spent>>

\* adoptStoredWindow: the first player in the recorded window, or its first tab.
NotAdopted(t) ==
  IF t = "recover" THEN player' = None /\ Becomes(t, Clears(task[t], "idle"))
  ELSE UNCHANGED player /\ Becomes(t, Validates(task[t], player))

AdoptWindow(t) ==
  /\ task[t].at = "adopt-window"
  /\ IF WindowExists(task[t].window)
     THEN Becomes(t, Waits(task[t], "adopt-tabs")) /\ UNCHANGED player
     ELSE NotAdopted(t)
  /\ UNCHANGED <<tabs, record, events, library, popup, mine, spent>>

PlayerTab(here) ==
  LET players == {i \in here : IsPlayerPage(tabs[i].url)}
  IN tabs[Min(IF players = {} THEN here ELSE players)].id

AdoptTabs(t) ==
  /\ task[t].at = "adopt-tabs"
  /\ LET w    == task[t].window
         here == InWindow(w)
     IN IF here = {} THEN NotAdopted(t) /\ UNCHANGED mine
        ELSE /\ player' = [window |-> w, tab |-> PlayerTab(here)]
             /\ Becomes(t, Saves(task[t], w, IF t = "recover" THEN "idle" ELSE "validate"))
             /\ mine' = IF ShowsPlayer(PlayerTab(here)) THEN Counts(PlayerTab(here)) ELSE mine
  /\ UNCHANGED <<tabs, record, events, library, popup, spent>>

-----------------------------------------------------------------------------
(* A request for a player: the page writes what is to play, then asks.     *)

StartsFromPopup(url) == url \in popup.view.cards \cup {popup.view.playing}

Ask(t) ==
  /\ May("requests") /\ task[t].at = "idle"
  /\ \E url \in Urls :
       /\ IF t = "popup" THEN StartsFromPopup(url) ELSE url \in library.playlists
       /\ Becomes(t, [Waits(Idle, "note-read") EXCEPT !.url = url])
  /\ spent' = [spent EXCEPT !.requests = @ + 1]
  /\ UNCHANGED <<tabs, record, player, events, library, popup, mine>>

ReadNote(t) ==
  /\ task[t].at = "note-read"
  /\ Becomes(t, [Waits(task[t], "note-write") EXCEPT
                   !.held = [record EXCEPT !.playback = task[t].url]])
  /\ UNCHANGED <<tabs, record, player, events, library, popup, mine, spent>>

WriteNote(t) ==
  /\ task[t].at = "note-write"
  /\ Writes(task[t].held)
  /\ Becomes(t, [Waits(task[t], "asked") EXCEPT !.held = Nothing])
  /\ UNCHANGED <<tabs, player, events, library, mine, spent>>

\* requestPlayer arrives at the worker.
RequestPlayer(t) ==
  /\ task[t].at = "asked"
  /\ Becomes(t, IF player = None THEN Waits(task[t], "read-stored")
                ELSE Validates(task[t], player))
  /\ mine' = IF Meets(t) THEN {} ELSE mine
  /\ spent' = [spent EXCEPT !.met = Meets(t)]
  /\ UNCHANGED <<tabs, record, player, events, library, popup>>

\* The recorded window, for a request or for recover().
ReadStored(t) ==
  /\ task[t].at = "read-stored"
  /\ Becomes(t, IF record.window # None
                THEN [Waits(task[t], "adopt-window") EXCEPT !.window = record.window]
                ELSE IF t = "recover" THEN Idle ELSE Validates(task[t], player))
  /\ UNCHANGED <<tabs, record, player, events, library, popup, mine, spent>>

\* The tab must show a player page, in a window that exists.  The player in
\* memory is looked at anew after each call.
CheckTab(t) ==
  /\ task[t].at = "check-tab"
  /\ IF ShowsPlayer(task[t].tab) /\ player # None
     THEN /\ Becomes(t, [Waits(task[t], "check-window") EXCEPT !.window = player.window])
          /\ UNCHANGED player
     ELSE player' = None /\ Becomes(t, Opening(task[t]))
  /\ UNCHANGED <<tabs, record, events, library, popup, mine, spent>>

CheckWindow(t) ==
  /\ task[t].at = "check-window"
  /\ IF WindowExists(task[t].window) /\ player # None
     THEN /\ Becomes(t, [Waits(task[t], "update") EXCEPT !.tab = player.tab,
                                                       !.window = player.window])
          /\ UNCHANGED player
     ELSE player' = None /\ Becomes(t, Opening(task[t]))
  /\ UNCHANGED <<tabs, record, events, library, popup, mine, spent>>

\* A tab that could not be updated is given up, and another one opened.
UpdateTab(t) ==
  /\ task[t].at = "update"
  /\ LET tk == task[t]
     IN IF TabExists(tk.tab)
        THEN /\ tabs' = [tabs EXCEPT ![PageOf(tk.tab)].url = tk.url]
             /\ Becomes(t, Saves(tk, tk.window, "answer"))
             /\ UNCHANGED player
        ELSE player' = None /\ Becomes(t, Clears(tk, "mode")) /\ UNCHANGED tabs
  /\ UNCHANGED <<record, events, library, popup, mine, spent>>

ReadMode(t) ==
  /\ task[t].at = "mode"
  /\ Becomes(t, Waits(task[t], IF library.windowMode = "tab" THEN "create-tab" ELSE "create-window"))
  /\ UNCHANGED <<tabs, record, player, events, library, popup, mine, spent>>

\* The tab of a window that was refused is remembered, its window not recorded.
CreateTab(t) ==
  /\ task[t].at \in {"create-tab", "fallback-tab"}
  /\ Opens(Home, task[t].url)
  /\ player' = [window |-> Home, tab |-> NewId]
  /\ Becomes(t, IF task[t].at = "create-tab" THEN Saves(task[t], Home, "answer") ELSE Answers)
  /\ UNCHANGED <<record, events, library, popup>>

\* A new window is named after its first tab.
CreateWindow(t) ==
  /\ task[t].at = "create-window"
  /\ \/ /\ Opens(NewId, task[t].url)
        /\ Becomes(t, [Waits(task[t], "created-tabs") EXCEPT !.window = NewId])
     \/ /\ May("troubles")
        /\ Becomes(t, Waits(task[t], "fallback-tab"))
        /\ spent' = [spent EXCEPT !.troubles = @ + 1]
        /\ UNCHANGED <<tabs, mine>>
  /\ UNCHANGED <<record, player, events, library, popup>>

FindTab(t) ==
  /\ task[t].at = "created-tabs"
  /\ LET w == task[t].window
     IN IF InWindow(w) = {} THEN Becomes(t, Waits(task[t], "fallback-tab")) /\ UNCHANGED player
        ELSE /\ player' = [window |-> w, tab |-> tabs[Min(InWindow(w))].id]
             /\ Becomes(t, Saves(task[t], w, "answer"))
  /\ UNCHANGED <<tabs, record, events, library, popup, mine, spent>>

\* The answer arrives; the popup draws itself again.
Answered(t) ==
  /\ task[t].at = "answered"
  /\ Becomes(t, Idle)
  /\ popup' = IF t \in {"popup", "stop"} THEN Renders(popup) ELSE popup
  /\ UNCHANGED <<tabs, record, player, events, library, mine, spent>>

-----------------------------------------------------------------------------
(* Stop: releasePlayer.                                                    *)

Stop ==
  /\ popup.view.kind = "playing" /\ task["stop"].at = "idle"
  /\ Becomes("stop", Waits(Idle, "released"))
  /\ UNCHANGED <<tabs, record, player, events, library, popup, mine, spent>>

ReleasePlayer ==
  /\ task["stop"].at = "released"
  /\ player' = None
  /\ Becomes("stop", IF player = None THEN Clears(task["stop"], "answer")
                     ELSE [Waits(task["stop"], "look") EXCEPT !.tab = player.tab])
  /\ UNCHANGED <<tabs, record, events, library, popup, mine, spent>>

\* A player is told to stop, another page is left alone.
LookAtTab ==
  /\ task["stop"].at = "look"
  /\ Becomes("stop", IF ShowsPlayer(task["stop"].tab) THEN Waits(task["stop"], "remove")
                     ELSE Clears(task["stop"], "answer"))
  /\ UNCHANGED <<tabs, record, player, events, library, popup, mine, spent>>

RemoveTab ==
  /\ task["stop"].at = "remove"
  /\ IF TabExists(task["stop"].tab) THEN Removes(task["stop"].tab)
     ELSE UNCHANGED <<tabs, events, mine>>
  /\ Becomes("stop", Clears(task["stop"], "answer"))
  /\ UNCHANGED <<record, player, library, popup, spent>>

-----------------------------------------------------------------------------
(* The browser's events and the worker's restarts.                         *)

\* Mutant: whatever tab goes is taken for the player's.
AnyTab(tab) == player # None

IsPlayers(tab) == player # None /\ player.tab = tab

OnTabRemoved ==
  /\ events # <<>> /\ Head(events).kind = "tab" /\ task["tab"].at = "idle"
  /\ LET told == Head(events)
     IN IF IsPlayers(told.tab)
        THEN player' = None /\ Becomes("tab", Clears(Idle, "idle"))
        ELSE /\ Becomes("tab", IF told.closing THEN Idle ELSE Waits(Idle, "gone-stored"))
             /\ UNCHANGED player
  /\ events' = Tail(events)
  /\ UNCHANGED <<tabs, record, library, popup, mine, spent>>

\* Another tab went: is the recorded window still there?
LookForWindow ==
  /\ task["tab"].at = "gone-stored"
  /\ Becomes("tab", IF record.window = None THEN Idle
                    ELSE [Waits(Idle, "gone-window") EXCEPT !.window = record.window])
  /\ UNCHANGED <<tabs, record, player, events, library, popup, mine, spent>>

MissWindow ==
  /\ task["tab"].at = "gone-window"
  /\ Becomes("tab", IF WindowExists(task["tab"].window) THEN Idle ELSE Clears(Idle, "idle"))
  /\ UNCHANGED <<tabs, record, player, events, library, popup, mine, spent>>

OnWindowRemoved ==
  /\ events # <<>> /\ Head(events).kind = "window" /\ task["window"].at = "idle"
  /\ LET w == Head(events).window
     IN /\ player' = IF player # None /\ player.window = w THEN None ELSE player
        /\ Becomes("window", [Waits(Idle, "shut-stored") EXCEPT !.window = w])
  /\ events' = Tail(events)
  /\ UNCHANGED <<tabs, record, library, popup, mine, spent>>

ForgetWindow ==
  /\ task["window"].at = "shut-stored"
  /\ Becomes("window", IF record.window = task["window"].window THEN Clears(Idle, "idle") ELSE Idle)
  /\ UNCHANGED <<tabs, record, player, events, library, popup, mine, spent>>

\* What runs in the worker is lost with its memory; what is on its way to it
\* starts it again, with recover() first.  A stop that is lost draws the popup.
OnTheWay == {"note-read", "note-write", "asked", "released"}

Restart ==
  /\ May("requests")
  /\ player' = None
  /\ task' = [t \in Tasks |-> IF t = "recover" THEN Waits(Idle, "read-stored")
                              ELSE IF task[t].at \in OnTheWay THEN task[t] ELSE Idle]
  /\ popup' = IF task["stop"].at \in OnTheWay \cup {"idle"} THEN popup ELSE Renders(popup)
  /\ mine' = {}
  /\ spent' = [spent EXCEPT !.requests = @ + 1, !.met = FALSE]
  /\ UNCHANGED <<tabs, record, events, library>>

-----------------------------------------------------------------------------
Browser == UserCloses \/ UserNavigates \/ LibraryChanges
Popup   == PopupOpens \/ PopupCloses \/ Notice \/ PopupReads \/ PopupDraws \/ PopupFails
           \/ PopupToggles \/ PopupJumps
Common(t)  == SaveWindow(t) \/ SaveRead(t) \/ SaveWrite(t) \/ ClearSession(t)
              \/ AdoptWindow(t) \/ AdoptTabs(t) \/ ReadStored(t) \/ Answered(t)
Request(t) == Ask(t) \/ ReadNote(t) \/ WriteNote(t) \/ RequestPlayer(t) \/ CheckTab(t)
              \/ CheckWindow(t) \/ UpdateTab(t) \/ ReadMode(t) \/ CreateTab(t)
              \/ CreateWindow(t) \/ FindTab(t)
Release == Stop \/ ReleasePlayer \/ LookAtTab \/ RemoveTab
Worker  == OnTabRemoved \/ LookForWindow \/ MissWindow \/ OnWindowRemoved \/ ForgetWindow \/ Restart

Next == Browser \/ Popup \/ Release \/ Worker
        \/ (\E t \in Tasks : Common(t)) \/ (\E t \in Starts : Request(t))

Spec == Init /\ [][Next]_vars

-----------------------------------------------------------------------------
AtRest == events = <<>> /\ \A t \in Tasks : task[t].at = "idle"

\* Of the tabs the worker opened or took up for a player one at most shows a player when
\* nothing is under way (window-manager.ts: "in-memory singleton"), however the stop
\* button, the browser's late events, refused windows and what the user does to tabs
\* overlapped with its requests.  A worker that is started again counts anew, with the
\* player it recovers; so does one in which two searches, for the popup, for a page or
\* for the recovery, ran at once: each may open a player of its own.
OnePlayer ==
  AtRest => Cardinality({i \in DOMAIN tabs : tabs[i].id \in mine /\ IsPlayerPage(tabs[i].url)}) <= 1

\* A popup at rest shows what is stored, however drawings, notices, stops of the worker
\* and its own buttons overlapped (popup.ts: "coalesce, never overlap"), unless its last
\* drawing failed: that one drops the drawing that was queued behind it.
PopupShowsPlayback ==
  popup.open /\ popup.at = "idle" /\ ~popup.news /\ ~popup.failed =>
    popup.view = View(record.playback, library.playlists, popup.expanded)

=============================================================================

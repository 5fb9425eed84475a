------------------------------- MODULE Player -------------------------------
(***************************************************************************)
(* The player page of d-Anime: src/apps/extension/src/player/{orchestrator,*)
(* playlist-flow,resume-flow,mode-flow,runtime,transient-session}.ts, with *)
(* the other surfaces that start a playback (src/ui/{popup-actions,        *)
(* options}.ts) and the player window's tab being sent elsewhere.          *)
(*                                                                         *)
(* A flow of the page is a task: the steps it has still to take, each the  *)
(* code between two of its awaits.  Reads and writes of the transient      *)
(* record by one page are served in the order it sent them (`line`); reads *)
(* of the library are answered in any order.  A step is the answer and the *)
(* code that runs on it.  Everything on the page dies when it is loaded    *)
(* anew; the session flag survives.                                        *)
(*                                                                         *)
(* Positions of the video and the time are inputs; commands to the page's  *)
(* player (seek, play, pause) change nothing here.                         *)
(***************************************************************************)
EXTENDS Navigation, Enforcement

CONSTANTS
  Start,        \* the playlist at first: a sequence of [id, part, range]
  Edits,        \* what else it may be edited into; <<>> stands for deleted
  Parts,        \* videos
  Skips,        \* the parts with chapters to skip, as sequences of ranges
  Positions,    \* where the video may be
  Wanted,       \* the jumps and starts a user may ask for: positions in a list
  Shuffling,    \* whether the popup starts shuffles
  Homes,        \* where the page may be at first: [part, index, range]
  Tasks,        \* bound: flows at a time, 1 .. n
  MaxEvents,    \* bound: what the user does
  MaxFaults,    \* bound: storage calls and requests that fail
  MaxLoads,     \* bound: pages loaded
  None

ASSUME PlayerAssumption ==
  /\ {MaxEvents, MaxFaults, MaxLoads} \subseteq Nat
  /\ Edits \cup {Start} \subseteq Seq(Elements(Start)) /\ Start \notin Edits
  /\ ~HasDuplicate(IdsOf(Start))
  /\ \A home \in Homes : home.by = None

\* Positions as a record holds them, and records.
StoredPositions == [index : Nat, shuffled : Seq(Nat)]
Records == [at : StoredPositions, owner : Nat, generation : Nat, fresh : BOOLEAN]

ASSUME AbsentAssumption == NoPlayback \notin StoredPositions \cup Records

VARIABLES
  playlist,    \* the library's playlist; <<>> when it was deleted
  stored,      \* the transient record: [playback, oped]
  page,        \* the content script's context
  tasks,       \* what its flows, and the popup's, have still to do
  line,        \* the tasks with a transient call out, in the order they were sent
  modal,       \* the task whose dialog is open, or None
  urls,        \* requested player urls the background has yet to open
  used         \* bounds used up

vars == <<playlist, stored, page, tasks, line, modal, urls, used>>

Remote == 0                  \* the owner token of the popup's own records

Idle == [order |-> <<>>, item |-> None, shuffle |-> FALSE]
Url(part, index, range) == [part |-> part, index |-> index, range |-> range, by |-> None]

\* createContext, on the page at `url`; `token` is new with every load.
\* `late` is history, for ResumesWherePlaying: an op-ed write was under way when
\* the generation began.
Fresh(url, token, flag) ==
  [url |-> url, token |-> token, generation |-> 1, mode |-> "idle", playback |-> Idle,
   seen |-> FALSE, menu |-> FALSE, advancing |-> FALSE, seeking |-> FALSE, testing |-> FALSE,
   skip |-> "native", blocked |-> FALSE, flag |-> flag, late |-> FALSE]

NoTask == [todo |-> <<>>, remote |-> FALSE, generation |-> 0, read |-> None, write |-> None,
           list |-> <<>>, next |-> Idle, ask |-> None]

Init ==
  /\ playlist = Start
  /\ stored = [playback |-> NoPlayback, oped |-> FALSE]
  /\ \E home \in Homes : page = Fresh(home, 1, FALSE)
  /\ tasks = [k \in Tasks |-> NoTask]
  /\ line = <<>> /\ modal = None /\ urls = <<>>
  /\ used = [events |-> 0, faults |-> 0]

-----------------------------------------------------------------------------
(* Flows                                                                   *)

StoreCalls == {"read", "paramsOrder", "resume", "opedCheck", "jumpStored",
               "putPlayback", "clearOwned", "dropPlayback", "opedOff", "opedOn"}

\* Task k becomes t: it leaves the line, and joins its end if it calls again.
Becomes(k, t) ==
  /\ tasks' = [tasks EXCEPT ![k] = IF t.todo = <<>> THEN NoTask ELSE t]
  /\ LET others == IF line # <<>> /\ Head(line) = k THEN Tail(line) ELSE line
     IN line' = IF t.todo # <<>> /\ Head(t.todo) \in StoreCalls /\ ~t.remote
                THEN Append(others, k) ELSE others

Todo(k, steps) == [tasks[k] EXCEPT !.todo = steps]
Proceeds(k)    == Becomes(k, Todo(k, Tail(tasks[k].todo)))
Ends(k)        == Becomes(k, NoTask)

\* The code after the answer to the call `step` of task k runs now.
At(k, step) ==
  /\ tasks[k].todo # <<>> /\ Head(tasks[k].todo) = step
  /\ IF step \in StoreCalls /\ ~tasks[k].remote THEN line # <<>> /\ Head(line) = k ELSE TRUE

Alive(k) == page.generation = tasks[k].generation

FreeTasks == {k \in Tasks : tasks[k].todo = <<>>}
Busy      == Tasks \ FreeTasks
NewTask   == CHOOSE i \in FreeTasks : TRUE
Starts(steps) ==
  /\ FreeTasks # {}
  /\ Becomes(NewTask, [NoTask EXCEPT !.todo = steps, !.generation = page.generation])

Release(c) == [c EXCEPT !.advancing = FALSE]

\* What is left to the finally of advancePlayback, if these are steps of it.
Finally(todo) == IF "release" \in Elements(todo) THEN <<"release">> ELSE <<>>

\* What follows once the flow of advancePlayback is through.
Rest(k) == Finally(Tail(tasks[k].todo))

\* stopPlayback up to its first await, and what it awaits.
Stopped(c) ==
  [c EXCEPT !.generation = @ + 1, !.mode = "idle", !.playback = Idle, !.menu = FALSE,
            !.seeking = FALSE, !.testing = FALSE, !.skip = "native", !.blocked = FALSE]
StopSteps == <<"read", "clearOwned", "read", "opedOff", "stopped">>

\* The page's own record of its playback, as it would store it.
RecordOf(c, items) ==
  LET positions == ToTransient(items, c.playback)
  IN IF positions = NoPlayback THEN NoPlayback
     ELSE [at |-> positions, owner |-> c.token, generation |-> c.generation, fresh |-> TRUE]

\* The two calls of persistPlayback, which it skips for an order it cannot resolve.
Persist(record) == IF record = NoPlayback THEN <<>> ELSE <<"read", "putPlayback">>

\* A flow has yet to write the op-ed half of the record, with the playback it has read.
WritesOpEd(k) == Elements(tasks[k].todo) \cap {"opedOff", "opedOn"} # {}

\* The context once it plays `playback`.
Playing(playback, seeking) ==
  [page EXCEPT !.generation = @ + 1, !.mode = "playlist", !.playback = playback, !.menu = FALSE,
               !.testing = FALSE, !.seeking = seeking \/ @, !.late = \E j \in Tasks : WritesOpEd(j)]

\* The page plays `playback` from `items` now; task k stores that and goes on with `then`.
Plays(k, items, playback, seeking, then) ==
  LET c      == Playing(playback, seeking)
      record == RecordOf(c, items)
  IN /\ page' = c
     /\ Becomes(k, [tasks[k] EXCEPT !.todo = Persist(record) \o then, !.write = record,
                                    !.list = items, !.next = playback, !.generation = c.generation])

\* startPlaylistItem: another item of a video that has just been loaded.
StartPlaylistItem(k, items, playback) ==
  IF Readiness(IdsOf(items), playback.item) # "ready" THEN Ends(k) /\ UNCHANGED page
  ELSE Plays(k, items, [playback EXCEPT !.order = Reconciled(IdsOf(items), @)], TRUE, <<"settle">>)

\* playResolvedItem: in place when the item is in this video, by a request otherwise.
PlayResolvedItem(k, items, playback, rest) ==
  IF ItemOf(items, playback.item).part = page.url.part
  THEN Plays(k, items, playback, TRUE, <<"settle">> \o rest)
  ELSE Plays(k, items, playback, FALSE, <<"ask", "asked">> \o rest)

-----------------------------------------------------------------------------
(* Calls shared by the flows                                               *)

Read(k) ==
  /\ At(k, "read")
  /\ Becomes(k, [Todo(k, Tail(tasks[k].todo)) EXCEPT !.read = stored])
  /\ UNCHANGED <<playlist, stored, page, modal, urls, used>>

\* The second half of mutateTransientState: what was read, but for one field.
Writes(k, value) ==
  /\ stored' = value
  /\ Proceeds(k)
  /\ UNCHANGED <<playlist, page, modal, urls, used>>

PutPlayback(k) ==
  At(k, "putPlayback") /\ Writes(k, [tasks[k].read EXCEPT !.playback = tasks[k].write])

OwnedCleared(state, token) ==
  IF state.playback # NoPlayback /\ state.playback.owner = token
  THEN [state EXCEPT !.playback = NoPlayback] ELSE state

ClearOwned(k)   == At(k, "clearOwned") /\ Writes(k, OwnedCleared(tasks[k].read, page.token))
DropPlayback(k) == At(k, "dropPlayback") /\ Writes(k, [tasks[k].read EXCEPT !.playback = NoPlayback])
OpedOn(k)       == At(k, "opedOn") /\ Writes(k, [tasks[k].read EXCEPT !.oped = TRUE])
OpedOff(k)      == At(k, "opedOff") /\ Writes(k, [tasks[k].read EXCEPT !.oped = FALSE])

\* A started item has been stored: native skipping goes off.
Settle(k) ==
  /\ At(k, "settle")
  /\ page' = [page EXCEPT !.skip = "off", !.blocked = TRUE]
  /\ Proceeds(k)
  /\ UNCHANGED <<playlist, stored, modal, urls, used>>

StopEnds(k) ==
  /\ At(k, "stopped")
  /\ page' = [page EXCEPT !.flag = FALSE, !.url = Url(@.part, None, None)]
  /\ Proceeds(k)
  /\ UNCHANGED <<playlist, stored, modal, urls, used>>

\* Mutant: the item's position in the running order is asked for.
AskOrderPosition(k) ==
  /\ At(k, "ask")
  /\ LET t    == tasks[k]
         item == ItemOf(t.list, t.next.item)
     IN urls' = Append(urls, [part |-> item.part, index |-> Position(t.next.order, item.id),
                              range |-> None, by |-> [record |-> t.write, playback |-> t.next]])
  /\ Proceeds(k)
  /\ UNCHANGED <<playlist, stored, page, modal, used>>

\* requestPlayer with the item's position in the list the flow read.
Ask(k) ==
  /\ At(k, "ask")
  /\ LET t     == tasks[k]
         item  == ItemOf(t.list, t.next.item)
         index == Position(IdsOf(t.list), item.id)
     IN urls' = Append(urls, [part |-> item.part, index |-> index, range |-> None,
                              by |-> [record |-> t.write, playback |-> t.next]])
  /\ Proceeds(k)
  /\ UNCHANGED <<playlist, stored, page, modal, used>>

Asked(k) ==
  /\ At(k, "asked") /\ Proceeds(k) /\ UNCHANGED <<playlist, stored, page, modal, urls, used>>

ReleaseAdvance(k) ==
  /\ At(k, "release")
  /\ page' = Release(page)
  /\ Proceeds(k)
  /\ UNCHANGED <<playlist, stored, modal, urls, used>>

\* Mutant: advancePlayback releases its lock without a finally.
RecoveredUnreleased(todo) ==
  LET points == {i \in DOMAIN todo : todo[i] \in {"settle", "ask", "stopped"}}
  IN IF points = {} THEN <<>>
     ELSE SubSeq(todo, CHOOSE i \in points : \A j \in points : i <= j, Len(todo))

\* Where a flow goes on when a call of it fails: storing a playback is best
\* effort and so is stopping, advancePlayback releases its lock, the rest ends.
Recovered(todo) ==
  LET points == {i \in DOMAIN todo : todo[i] \in {"settle", "ask", "stopped"}}
  IN IF points = {} THEN Finally(todo)
     ELSE SubSeq(todo, CHOOSE i \in points : \A j \in points : i <= j, Len(todo))

FailedTodo(k) == IF tasks[k].remote THEN <<>> ELSE Recovered(tasks[k].todo)

Fail(k) ==
  /\ used.faults < MaxFaults
  /\ \E step \in StoreCalls \cup {"asked", "advance", "switch"} : At(k, step)
  /\ used' = [used EXCEPT !.faults = @ + 1]
  /\ Becomes(k, Todo(k, FailedTodo(k)))
  /\ UNCHANGED <<playlist, stored, page, modal, urls>>

-----------------------------------------------------------------------------
(* advancePlayback and the end menu                                        *)

\* The range of an item of the playlist as it was loaded; None plays the episode.
RangeOf(id)      == ItemOf(Start, id).range
CurrentRange(id) == IF RangeOf(id) = None THEN [start |-> 0, end |-> 0] ELSE RangeOf(id)

Event == used.events < MaxEvents /\ used' = [used EXCEPT !.events = @ + 1]

\* A flow starts, knowing the playback of now and what it was asked for.
StartsWith(steps, ask) ==
  /\ FreeTasks # {}
  /\ Becomes(NewTask, [NoTask EXCEPT !.todo = steps, !.generation = page.generation,
                                     !.next = page.playback, !.ask = ask])

Advance(step) ==
  /\ page.mode = "playlist" /\ ~page.advancing
  /\ page' = [page EXCEPT !.advancing = TRUE]
  /\ StartsWith(<<"advance", "release">>, step)

\* The next button, or the end of the video.
ClickNext     == Event /\ Advance(1) /\ UNCHANGED <<playlist, stored, modal, urls>>

\* handlePrevClick, near the start of the range and for the second time.
ClickPrevious ==
  /\ Event /\ Advance(-1)
  /\ \E pos \in Positions, quick \in BOOLEAN :
       DecidePreviousClick(CurrentRange(page.playback.item).start, pos, quick) = "step-back"
  /\ UNCHANGED <<playlist, stored, modal, urls>>

AdvanceFound(k) ==
  /\ At(k, "advance")
  /\ LET t      == tasks[k]
         result == Navigate(playlist, t.next, t.ask)
         gone   == ~Alive(k) \/ page.mode # "playlist"
         menu   == ~gone /\ result = Boundary /\ t.ask = 1 /\ ~page.menu
     IN /\ modal' = IF menu THEN k ELSE modal
        /\ IF gone \/ (result = Boundary /\ ~menu) THEN page' = Release(page) /\ Ends(k)
           ELSE IF menu THEN /\ page' = [Release(page) EXCEPT !.menu = TRUE]
                             /\ Becomes(k, [t EXCEPT !.todo = <<"menu">>, !.list = playlist])
           ELSE IF result = Stop
           THEN page' = Stopped(page) /\ Becomes(k, Todo(k, StopSteps \o Rest(k)))
           ELSE PlayResolvedItem(k, playlist, result.playback, Rest(k))
  /\ UNCHANGED <<playlist, stored, urls, used>>

\* The end menu is answered; a dialog opened over it answers null.
MenuCloses(k) ==
  /\ At(k, "menu")
  /\ \E answer \in {"restart", "continue", "close"} :
       /\ modal # k => answer = "close"
       /\ IF ~Alive(k) \/ answer = "continue" THEN Ends(k) /\ UNCHANGED page
          ELSE /\ page' = Stopped(page)
               /\ Becomes(k, Todo(k, IF answer = "restart" THEN StopSteps \o <<"restart">>
                                     ELSE StopSteps))
  /\ modal' = IF modal = k THEN None ELSE modal
  /\ UNCHANGED <<playlist, stored, urls, used>>

Restart(k) ==
  /\ At(k, "restart")
  /\ LET ids     == IdsOf(tasks[k].list)
         started == StartNavigation(tasks[k].list, [order |-> ids, item |-> ids[1], shuffle |-> FALSE])
     IN PlayResolvedItem(k, tasks[k].list, started.playback, <<>>)
  /\ UNCHANGED <<playlist, stored, modal, urls, used>>

ClickStop ==
  /\ Event
  /\ page' = Stopped(page)
  /\ Starts(StopSteps)
  /\ UNCHANGED <<playlist, stored, modal, urls>>

-----------------------------------------------------------------------------
(* jumpToOrderPosition                                                     *)

Jump(i) ==
  /\ Event
  /\ StartsWith(IF page.mode = "playlist" THEN <<"jump">> ELSE <<"jumpStored">>, i)
  /\ UNCHANGED <<playlist, stored, page, modal, urls>>

\* The item at position ask of the order, if the playlist still has it.
JumpTo(k, playback) ==
  LET ids     == IdsOf(playlist)
      current == IF playback.item \in Elements(ids) THEN playback.item
                 ELSE IF playback.order = <<>> THEN None ELSE playback.order[1]
      order   == IF Readiness(ids, current) = "ready" THEN Reconciled(ids, playback.order)
                 ELSE playback.order
      i       == tasks[k].ask
  IN IF playlist # <<>> /\ i \in DOMAIN order /\ order[i] \in Elements(ids)
     THEN PlayResolvedItem(k, playlist, [playback EXCEPT !.order = order, !.item = order[i]], <<>>)
     ELSE Ends(k) /\ UNCHANGED page

JumpFound(k) ==
  /\ At(k, "jump")
  /\ IF Alive(k) /\ page.mode = "playlist" THEN JumpTo(k, page.playback)
     ELSE Ends(k) /\ UNCHANGED page
  /\ UNCHANGED <<playlist, stored, modal, urls, used>>

JumpStored(k) ==
  /\ At(k, "jumpStored")
  /\ IF Alive(k) /\ stored.playback # NoPlayback
     THEN Becomes(k, [Todo(k, <<"jumpList">>) EXCEPT !.read = stored])
     ELSE Ends(k)
  /\ UNCHANGED <<playlist, stored, page, modal, urls, used>>

JumpList(k) ==
  /\ At(k, "jumpList")
  /\ LET restored == FromTransient(playlist, tasks[k].read.playback.at)
     IN IF Alive(k) /\ playlist # <<>> /\ restored # NoPlayback THEN JumpTo(k, restored)
        ELSE Ends(k) /\ UNCHANGED page
  /\ UNCHANGED <<playlist, stored, modal, urls, used>>

-----------------------------------------------------------------------------
(* Op-ed mode and the custom preview (mode-flow.ts)                        *)

EnteredOpEd(c) ==
  IF Skips[c.url.part] = <<>> THEN c
  ELSE [c EXCEPT !.generation = @ + 1, !.mode = "op-ed", !.playback = Idle, !.menu = FALSE,
                 !.skip = "native", !.flag = TRUE]

EnterOpEd(k) ==
  /\ At(k, "enterOpEd")
  /\ page' = EnteredOpEd(page)
  /\ Proceeds(k)
  /\ UNCHANGED <<playlist, stored, modal, urls, used>>

Previewing(c) == [c EXCEPT !.generation = @ + 1, !.mode = "preview", !.playback = Idle,
                           !.menu = FALSE, !.testing = FALSE]

\* A mode in force is to be confirmed away first.
BeginPreview ==
  /\ Event
  /\ IF page.mode = "idle" THEN page' = Previewing(page) /\ UNCHANGED <<tasks, line, modal>>
     ELSE /\ UNCHANGED page
          /\ FreeTasks # {}
          /\ Starts(<<"confirm">>)
          /\ modal' = NewTask
  /\ UNCHANGED <<playlist, stored, urls>>

ConfirmCloses(k) ==
  /\ At(k, "confirm")
  /\ \/ Ends(k) /\ UNCHANGED page
     \/ modal = k /\ page' = Stopped(page) /\ Becomes(k, Todo(k, StopSteps \o <<"begin">>))
  /\ modal' = IF modal = k THEN None ELSE modal
  /\ UNCHANGED <<playlist, stored, urls, used>>

PreviewBegins(k) ==
  /\ At(k, "begin")
  /\ page' = Previewing(page)
  /\ Proceeds(k)
  /\ UNCHANGED <<playlist, stored, modal, urls, used>>

TestPreview ==
  /\ Event /\ page.mode = "preview" /\ ~page.testing
  /\ page' = [page EXCEPT !.testing = TRUE, !.skip = "native"]
  /\ UNCHANGED <<playlist, stored, tasks, line, modal, urls>>

CancelPreview ==
  /\ Event /\ page.mode = "preview"
  /\ page' = [page EXCEPT !.generation = @ + 1, !.mode = "idle", !.testing = FALSE,
                          !.skip = "native", !.blocked = FALSE]
  /\ UNCHANGED <<playlist, stored, tasks, line, modal, urls>>

-----------------------------------------------------------------------------
(* The chapters of the video arrive: what the url asks for, else what was  *)
(* stored, else op-ed mode (handleChapters, resume-flow.ts)                *)

ChaptersArrive ==
  /\ IF page.seen THEN Event ELSE UNCHANGED used
  /\ LET at  == page.url
         c   == [page EXCEPT !.seen = TRUE, !.url = Url(@.part, None, None),
                             !.skip = IF page.seen \/ page.mode # "idle" THEN @ ELSE "native",
                             !.blocked = @ /\ (page.seen \/ page.mode # "idle")]
         bad == at.range # None /\ at.range \notin DOMAIN Skips[at.part]
         Go(context, steps) ==
           /\ page' = context
           /\ Becomes(NewTask, [NoTask EXCEPT !.todo = steps, !.generation = context.generation,
                                        !.ask = at])
     IN /\ FreeTasks # {}
        /\ IF at.index # None THEN Go(c, <<"params">>)
           ELSE IF bad THEN Go(c, <<"notice">>)
           ELSE IF at.range # None
           THEN Go(Stopped(c), StopSteps \o <<"read", "opedOn", "enterOpEd">>)
           ELSE Go(c, IF c.mode = "idle" THEN <<"resume">> ELSE <<>>)
        /\ modal' = IF at.index = None /\ bad THEN NewTask ELSE modal
  /\ UNCHANGED <<playlist, stored, urls>>

\* What is left once the url asked for nothing that could be done.
ThenResume(k) ==
  /\ IF Alive(k) /\ page.mode = "idle" THEN Becomes(k, Todo(k, <<"resume">>)) ELSE Ends(k)
  /\ UNCHANGED page

NoticeCloses(k) ==
  /\ At(k, "notice")
  /\ ThenResume(k)
  /\ modal' = IF modal = k THEN None ELSE modal
  /\ UNCHANGED <<playlist, stored, urls, used>>

Params(k) ==
  /\ At(k, "params")
  /\ IF Alive(k) /\ tasks[k].ask.index \in DOMAIN playlist
     THEN /\ Becomes(k, [Todo(k, <<"paramsOrder">>) EXCEPT !.list = playlist])
          /\ UNCHANGED page
     ELSE ThenResume(k)
  /\ UNCHANGED <<playlist, stored, modal, urls, used>>

\* The order is the stored shuffle, whoever stored it, when there is one.
ParamsOrder(k) ==
  /\ At(k, "paramsOrder")
  /\ LET list == tasks[k].list
         rec  == stored.playback
         hasOrder == rec # NoPlayback /\ rec.at.shuffled # <<>>
         order    == IF hasOrder THEN IdsAt(IdsOf(list), rec.at.shuffled) ELSE IdsOf(list)
     IN IF Alive(k)
        THEN StartPlaylistItem(k, list, [order |-> order, item |-> list[tasks[k].ask.index].id,
                                         shuffle |-> hasOrder])
        ELSE Ends(k) /\ UNCHANGED page
  /\ UNCHANGED <<playlist, stored, modal, urls, used>>

DropSteps == <<"read", "dropPlayback", "opedCheck">>

Resume(k) ==
  /\ At(k, "resume")
  /\ LET rec == stored.playback
     IN Becomes(k, IF ~Alive(k) THEN NoTask
                   ELSE [Todo(k, IF rec = NoPlayback THEN <<"opedCheck">>
                                 ELSE IF rec.fresh THEN <<"resumeList">> ELSE DropSteps)
                         EXCEPT !.read = stored])
  /\ UNCHANGED <<playlist, stored, page, modal, urls, used>>

ResumeList(k) ==
  /\ At(k, "resumeList")
  /\ LET restored == FromTransient(playlist, tasks[k].read.playback.at)
     IN IF ~Alive(k) THEN Ends(k) /\ UNCHANGED page
        ELSE IF restored = NoPlayback THEN Becomes(k, Todo(k, DropSteps)) /\ UNCHANGED page
        ELSE IF ItemOf(playlist, restored.item).part = page.url.part
        THEN StartPlaylistItem(k, playlist, restored)
        ELSE PlayResolvedItem(k, playlist, restored, <<>>)
  /\ UNCHANGED <<playlist, stored, modal, urls, used>>

OpEdCheck(k) ==
  /\ At(k, "opedCheck")
  /\ IF ~Alive(k) \/ page.mode # "idle" THEN Ends(k) /\ UNCHANGED page
     ELSE IF stored.oped /\ page.flag THEN page' = EnteredOpEd(page) /\ Ends(k)
     ELSE Becomes(k, Todo(k, <<"read", "opedOff", "unflag">>)) /\ UNCHANGED page
  /\ UNCHANGED <<playlist, stored, modal, urls, used>>

Unflag(k) ==
  /\ At(k, "unflag")
  /\ page' = [page EXCEPT !.flag = FALSE]
  /\ Proceeds(k)
  /\ UNCHANGED <<playlist, stored, modal, urls, used>>

-----------------------------------------------------------------------------
(* enforce, on a tick of the video                                         *)

SameVideo ==
  LET here == SelectSeq(playlist, LAMBDA it : it.part = page.url.part /\ it.range # None)
  IN [i \in DOMAIN here |-> [id |-> here[i].id, start |-> here[i].range.start,
                             end |-> here[i].range.end]]

EnforcedRanges ==
  CASE page.mode = "op-ed" -> Skips[page.url.part]
    [] page.mode = "playlist" /\ RangeOf(page.playback.item) # None -> <<RangeOf(page.playback.item)>>
    [] OTHER -> <<>>

EnforcementInput(pos, ended, cooling, tooSoon) ==
  [mode |-> page.mode, pos |-> pos, ended |-> ended, cooling |-> cooling, tooSoon |-> tooSoon,
   full |-> page.mode = "playlist" /\ RangeOf(page.playback.item) = None,
   ranges |-> EnforcedRanges, seeking |-> page.seeking, duration |-> 20,
   same |-> IF page.mode = "playlist" THEN SameVideo ELSE <<>>, current |-> page.playback.item]

Inputs == {EnforcementInput(pos, ended, cooling, tooSoon) :
             pos \in Positions, ended \in BOOLEAN, cooling \in BOOLEAN, tooSoon \in BOOLEAN}
Decisions == {DecideEnforcement(in) : in \in Inputs}

InRange ==
  /\ (page.seeking \/ page.menu) /\ Do("in-range") \in Decisions
  /\ page' = [page EXCEPT !.seeking = FALSE, !.menu = FALSE]
  /\ UNCHANGED <<playlist, stored, tasks, line, modal, urls, used>>

RunsOut ==
  /\ Event /\ Advance(1)
  /\ Do("advance") \in Decisions
  /\ UNCHANGED <<playlist, stored, modal, urls>>

SwitchItem ==
  /\ Event /\ page.mode = "playlist"
  /\ \E d \in Decisions : d.kind = "switch-item" /\ StartsWith(<<"switch">>, d.id)
  /\ UNCHANGED <<playlist, stored, page, modal, urls>>

SwitchFound(k) ==
  /\ At(k, "switch")
  /\ LET t        == tasks[k]
         playback == [t.next EXCEPT !.item = t.ask]
         c        == [page EXCEPT !.playback = playback]
     IN IF /\ Alive(k) /\ page.mode = "playlist"
           /\ t.ask \in Elements(IdsOf(playlist)) /\ t.ask # t.next.item
        THEN /\ page' = c
             /\ Becomes(k, [Todo(k, Persist(RecordOf(c, playlist)))
                            EXCEPT !.write = RecordOf(c, playlist)])
        ELSE Ends(k) /\ UNCHANGED page
  /\ UNCHANGED <<playlist, stored, modal, urls, used>>

-----------------------------------------------------------------------------
(* The popup and the options page                                          *)

\* They store a playback of their own, then ask for the player.
StartsRemotely(playback, index) ==
  LET positions == [index    |-> index,
                    shuffled |-> ToTransient(playlist, playback).shuffled]
      record    == [at |-> positions, owner |-> Remote, generation |-> 1, fresh |-> TRUE]
  IN /\ Event /\ FreeTasks # {}
     /\ Becomes(NewTask, [NoTask EXCEPT !.todo = <<"read", "putPlayback", "ask">>, !.remote = TRUE,
                                        !.write = record, !.list = playlist, !.next = playback])
     /\ UNCHANGED <<playlist, stored, page, modal, urls>>

StartItem(i) ==
  /\ i \in DOMAIN playlist
  /\ StartsRemotely([order |-> IdsOf(playlist), item |-> playlist[i].id, shuffle |-> FALSE], i)

StartShuffle ==
  /\ Shuffling
  /\ \E order \in ShuffleAll(IdsOf(playlist)) :
       StartsRemotely([order |-> order, item |-> order[1], shuffle |-> TRUE], 1)

\* From the now-playing view: what is behind the current item is drawn anew.
ShuffleFromHere ==
  /\ Shuffling /\ stored.playback # NoPlayback
  /\ LET shown == FromTransient(playlist, stored.playback.at)
     IN /\ shown # NoPlayback
        /\ \E order \in ReshuffleAfterCurrent(IdsOf(playlist), shown.order, shown.item) :
             StartsRemotely([order |-> order, item |-> shown.item, shuffle |-> TRUE],
                            Position(shown.order, shown.item))

\* The playlist is edited.  When it is deleted, a record that points into it goes too.
EditPlaylist(items) ==
  /\ Event /\ items # playlist /\ playlist # <<>>
  /\ playlist' = items
  /\ IF items # <<>> THEN UNCHANGED <<tasks, line>>
     ELSE /\ FreeTasks # {}
          /\ Becomes(NewTask, [NoTask EXCEPT !.todo = <<"read", "dropPlayback">>, !.remote = TRUE])
  /\ UNCHANGED <<stored, page, modal, urls>>

\* The background sends the player's tab to the url; what ran on the page is gone.
Opens(url) ==
  /\ page.token <= MaxLoads
  /\ page' = Fresh(url, page.token + 1, page.flag)
  /\ tasks' = [k \in Tasks |-> IF tasks[k].remote THEN tasks[k] ELSE NoTask]
  /\ line' = <<>> /\ modal' = None
  /\ UNCHANGED <<playlist, stored>>

OpenUrl == urls # <<>> /\ Opens(Head(urls)) /\ urls' = Tail(urls) /\ UNCHANGED used
Reload  == Event /\ Opens(page.url) /\ UNCHANGED urls

\* Five minutes pass with nothing under way.
Expire ==
  /\ Event
  /\ \A k \in Busy : Head(tasks[k].todo) \in {"menu", "notice", "confirm"}
  /\ stored' = [playback |-> IF stored.playback = NoPlayback THEN NoPlayback
                             ELSE [stored.playback EXCEPT !.fresh = FALSE], oped |-> FALSE]
  /\ stored' # stored
  /\ UNCHANGED <<playlist, page, tasks, line, modal, urls>>

-----------------------------------------------------------------------------
\* A call is answered, or a flow runs on.
Runs(k) ==
  \/ Read(k) \/ PutPlayback(k) \/ ClearOwned(k) \/ DropPlayback(k) \/ OpedOn(k) \/ OpedOff(k)
  \/ Settle(k) \/ StopEnds(k) \/ Ask(k) \/ Asked(k) \/ ReleaseAdvance(k)
  \/ AdvanceFound(k) \/ Restart(k) \/ JumpFound(k) \/ JumpStored(k) \/ JumpList(k)
  \/ EnterOpEd(k) \/ PreviewBegins(k) \/ Params(k) \/ ParamsOrder(k) \/ Resume(k)
  \/ ResumeList(k) \/ OpEdCheck(k) \/ Unflag(k) \/ SwitchFound(k)

\* The user answers a dialog.
Answers(k) == MenuCloses(k) \/ ConfirmCloses(k) \/ NoticeCloses(k)

Next ==
  \/ \E k \in Tasks : Runs(k) \/ Answers(k) \/ Fail(k)
  \/ ChaptersArrive \/ ClickNext \/ ClickPrevious \/ ClickStop
  \/ \E i \in Wanted : Jump(i) \/ StartItem(i)
  \/ BeginPreview \/ TestPreview \/ CancelPreview
  \/ InRange \/ RunsOut \/ SwitchItem
  \/ StartShuffle \/ ShuffleFromHere \/ Expire
  \/ \E items \in Edits : EditPlaylist(items)
  \/ OpenUrl \/ Reload

Spec == Init /\ [][Next]_vars

-----------------------------------------------------------------------------
Steps == StoreCalls \cup {"settle", "stopped", "ask", "asked", "release", "advance", "menu",
  "restart", "jump", "jumpList", "enterOpEd", "confirm", "begin", "notice", "params",
  "resumeList", "unflag", "switch"}

Settled == \A k \in Busy : Head(tasks[k].todo) \notin StoreCalls

\* The record is what this page stored of what it plays now.
OfThis(rec) ==
  /\ page.mode = "playlist" /\ rec # NoPlayback
  /\ rec.owner = page.token /\ rec.generation = page.generation

\* The record this page stored for its present generation leads back, on a
\* page loaded anew, to the order that plays here, and to the item as well once
\* nothing is to be written any more.  The playlist was not edited (a record
\* holds positions); the item is one behind if a call failed, or if an op-ed
\* write that was under way when the generation began put back what it had read.
ResumesWherePlaying ==
  playlist = Start /\ OfThis(stored.playback) =>
    LET restored == FromTransient(playlist, stored.playback.at)
    IN /\ restored.order = page.playback.order /\ restored.shuffle = page.playback.shuffle
       /\ used.faults = 0 /\ ~page.late /\ Settled => restored = page.playback

\* The page the player is sent to plays the item that was asked for, and in the
\* order of the page that asked, as long as that page's record is the stored one.
HandoffKeepsOrder ==
  [][\A k \in Tasks :
       LET asked == tasks[k].ask.by
       IN page'.mode = "playlist" /\ page.mode = "idle" /\ playlist = Start /\ ParamsOrder(k)
               /\ asked # None /\ stored.playback = asked.record
            => page'.playback = asked.playback]_vars

\* The lock of advancePlayback is held by one flow, which has yet to release it,
\* and by nobody else: whatever fails on the way, it is released.
AdvanceHasOneHolder ==
  LET holders == {k \in Tasks : "release" \in Elements(tasks[k].todo)}
  IN Cardinality(holders) = IF page.advancing THEN 1 ELSE 0
=============================================================================

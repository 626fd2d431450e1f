----------------------------- MODULE Controller -----------------------------
(***************************************************************************)
(* The Mac controller (web/src/main.rs): the HTTP handlers that start a    *)
(* game and send it Updates, the task that observes the running Workflow,  *)
(* the published board, and the restart of a crashed controller from       *)
(* Temporal.                                                               *)
(*                                                                         *)
(* Every handler and task is a process with a program counter; a step ends *)
(* at each await.  Temporal is external: `run` is the latest execution of  *)
(* the one Workflow id, reduced to the game, its status and a version that *)
(* grows with every change of its snapshot.  The Workflow's Worker lives   *)
(* in this process, so the run stands still while the controller is down.  *)
(*                                                                         *)
(* `board` is state.snapshot, what a page load shows; `feed` is the last   *)
(* message of the event stream, what an open page shows.  `lost` and       *)
(* `touched` are history variables: the game whose start reply, or the     *)
(* running game whose restoration query, was lost; the games that an       *)
(* Update has changed.                                                     *)
(***************************************************************************)
EXTENDS Integers

CONSTANTS
    Starters,       \* concurrent POST /api/start requests
    Updaters,       \* concurrent POST /api/chaos and /api/end-round requests
    MaxGames,       \* bound: start requests that reach the slot
    MaxVersion,     \* bound: changes of one game's snapshot
    MaxCrashes      \* bound: crashes of the controller

ASSUME ControllerAssumption ==
    /\ MaxGames \in Nat
    /\ MaxVersion \in Nat \ {0}
    /\ MaxCrashes \in Nat

NoGame == 0
Games == 1..MaxGames

Snapshot == [game : 0..MaxGames, status : {"Waiting", "Running", "Finished"},
             version : 0..(MaxVersion + 1)]
DefaultSnapshot == [game |-> NoGame, status |-> "Waiting", version |-> 0]
\* What start_game publishes before the Workflow has been queried.
Starting(g) == [game |-> g, status |-> "Running", version |-> 0]

\* The first snapshot of a new execution.
Begun(g) == [game |-> g, status |-> "Running", version |-> 1]

VARIABLES
    run,        \* the latest Workflow execution and its current snapshot
    up,         \* "Down", "Resuming", "Restored" or "Serving"
    active,     \* state.active_workflow
    board,      \* state.snapshot
    feed,       \* the last message sent on state.events
    starter,    \* program counter and game of every start request
    updater,    \* program counter and returned snapshot of every Update
    observer,   \* program counter and queried snapshot of each game's observer
    resumed,    \* what the restoration query returned
    games,      \* game ids drawn so far
    crashes,    \* crashes so far
    lost,       \* history: the game of which no reply reached the controller
    touched     \* history: the games that an Update has changed

process == <<starter, updater, observer>>
vars == <<run, up, active, board, feed, process, resumed, games, crashes, lost, touched>>

Idle == [pc |-> "idle", game |-> NoGame]
NoUpdate == [pc |-> "idle", snap |-> DefaultSnapshot]
NotWatching == [pc |-> "none", snap |-> DefaultSnapshot]

Init ==
    /\ run = DefaultSnapshot
    /\ up = "Resuming"
    /\ active = NoGame
    /\ board = DefaultSnapshot
    /\ feed = DefaultSnapshot
    /\ starter = [s \in Starters |-> Idle]
    /\ updater = [u \in Updaters |-> NoUpdate]
    /\ observer = [g \in Games |-> NotWatching]
    /\ resumed = DefaultSnapshot
    /\ games = 0
    /\ crashes = 0
    /\ lost = NoGame
    /\ touched = {}

-----------------------------------------------------------------------------
(* Temporal: the Workflow execution. *)

\* The run after one more change of its snapshot.
Advanced == [run EXCEPT !.version = @ + 1]

RunProgress ==
    /\ up # "Down"
    /\ run.status = "Running"
    /\ run.version < MaxVersion
    /\ run' = Advanced
    /\ UNCHANGED <<up, active, board, feed, process, resumed, games, crashes, lost, touched>>

RunFinish ==
    /\ up # "Down"
    /\ run.status = "Running"
    /\ run' = [game |-> run.game, status |-> "Finished", version |-> run.version + 1]
    /\ UNCHANGED <<up, active, board, feed, process, resumed, games, crashes, lost, touched>>

-----------------------------------------------------------------------------
(* POST /api/start. *)

StartStep(s, from, to) ==
    /\ starter[s].pc = from
    /\ starter' = [starter EXCEPT ![s].pc = to]

\* The badges are counted, the deck is built and a game id is drawn; then,
\* under the lock, the single-game slot is taken, if it is free.
\* Mutant: the slot is looked at before the lock is taken.
SlotUnchecked == TRUE

SlotFree == active = NoGame

Reserve(s) ==
    /\ up = "Serving"
    /\ starter[s].pc = "idle"
    /\ games < MaxGames
    /\ SlotFree
    /\ games' = games + 1
    /\ active' = games + 1
    /\ starter' = [starter EXCEPT ![s] = [pc |-> "reserved", game |-> games + 1]]
    /\ UNCHANGED <<run, up, board, feed, updater, observer, resumed, crashes, lost, touched>>

\* Mutant: the observer is spawned as soon as the Workflow has started.
StartWatched(s) ==
    /\ StartStep(s, "reserved", "started")
    /\ run.status # "Running"
    /\ run' = Begun(starter[s].game)
    /\ observer' = [observer EXCEPT ![starter[s].game].pc = "check"]
    /\ UNCHANGED <<up, active, board, feed, updater, resumed, games, crashes, lost, touched>>

\* start_workflow: refused while an execution is running (conflict policy
\* Fail), otherwise a new execution; the call can also fail, before or after
\* Temporal has started the execution.
StartWorkflow(s) ==
    /\ \/ /\ StartStep(s, "reserved", "started")
          /\ run.status # "Running"
          /\ run' = Begun(starter[s].game)
          /\ lost' = lost
       \/ /\ StartStep(s, "reserved", "failed")
          /\ UNCHANGED <<run, lost>>
       \/ /\ StartStep(s, "reserved", "failed")
          /\ run.status # "Running"
          /\ run' = Begun(starter[s].game)
          /\ lost' = starter[s].game
    /\ UNCHANGED <<up, active, board, feed, updater, observer, resumed, games, crashes, touched>>

\* The error path: the slot is released if it is still this request's.
Release(s) ==
    /\ StartStep(s, "failed", "idle")
    /\ active' = IF active = starter[s].game THEN NoGame ELSE active
    /\ UNCHANGED <<run, up, board, feed, updater, observer, resumed, games, crashes, lost, touched>>

\* publish writes the board, then sends it; then the observer is spawned.
StartPublish(s) ==
    /\ StartStep(s, "started", "written")
    /\ board' = Starting(starter[s].game)
    /\ UNCHANGED <<run, up, active, feed, updater, observer, resumed, games, crashes, lost, touched>>

StartObserved(s) ==
    /\ StartStep(s, "written", "idle")
    /\ feed' = Starting(starter[s].game)
    /\ observer' = [observer EXCEPT ![starter[s].game].pc = "check"]
    /\ UNCHANGED <<run, up, active, board, updater, resumed, games, crashes, lost, touched>>

-----------------------------------------------------------------------------
(* POST /api/chaos/{command} and POST /api/end-round. *)

UpdateStep(u, from, to) ==
    /\ updater[u].pc = from
    /\ updater' = [updater EXCEPT ![u].pc = to]

\* A game is active; the lock is dropped before the Update is sent.
UpdateCheck(u) ==
    /\ up = "Serving"
    /\ active # NoGame
    /\ UpdateStep(u, "idle", "checked")
    /\ UNCHANGED <<run, up, active, board, feed, starter, observer, resumed, games, crashes, lost, touched>>

\* execute_update on whatever execution is the latest: accepted and answered
\* with the handler's snapshot, accepted with the answer lost, or refused.
UpdateExecute(u) ==
    /\ updater[u].pc = "checked"
    /\ \/ /\ run.status = "Running"
          /\ run.version < MaxVersion
          /\ run' = Advanced
          /\ touched' = touched \cup {run.game}
          /\ updater' = [updater EXCEPT ![u] = [pc |-> "answered", snap |-> run']]
       \/ /\ run.status = "Running"
          /\ run.version < MaxVersion
          /\ run' = Advanced
          /\ touched' = touched \cup {run.game}
          /\ updater' = [updater EXCEPT ![u] = NoUpdate]
       \/ /\ UNCHANGED <<run, touched>>
          /\ updater' = [updater EXCEPT ![u] = NoUpdate]
    /\ UNCHANGED <<up, active, board, feed, starter, observer, resumed, games, crashes, lost>>

UpdatePublish(u) ==
    /\ UpdateStep(u, "answered", "written")
    /\ board' = updater[u].snap
    /\ UNCHANGED <<run, up, active, feed, starter, observer, resumed, games, crashes, lost, touched>>

UpdateSend(u) ==
    /\ updater[u].pc = "written"
    /\ updater' = [updater EXCEPT ![u] = NoUpdate]
    /\ feed' = updater[u].snap
    /\ UNCHANGED <<run, up, active, board, starter, observer, resumed, games, crashes, lost, touched>>

-----------------------------------------------------------------------------
(* observe_workflow. *)

ObserverStep(g, from, to) ==
    /\ observer[g].pc = from
    /\ observer' = [observer EXCEPT ![g].pc = to]

\* The top of the loop: stop watching a game that no longer holds the slot.
ObserverCheck(g) ==
    /\ \/ active = g /\ ObserverStep(g, "check", "query")
       \/ /\ active # g
          /\ observer[g].pc = "check"
          /\ observer' = [observer EXCEPT ![g] = NotWatching]
    /\ UNCHANGED <<run, up, active, board, feed, starter, updater, resumed, games, crashes, lost, touched>>

\* The handle of a resumed game names the Workflow id and not the run, so what
\* answers is the latest execution.
ObserverQuery(g) ==
    /\ observer[g].pc = "query"
    /\ observer' = [observer EXCEPT ![g] = [pc |-> "answered", snap |-> run]]
    /\ UNCHANGED <<run, up, active, board, feed, starter, updater, resumed, games, crashes, lost, touched>>

\* A failed query: back off and try again.
ObserverError(g) ==
    /\ ObserverStep(g, "query", "sleep")
    /\ UNCHANGED <<run, up, active, board, feed, starter, updater, resumed, games, crashes, lost, touched>>

ObserverPublish(g) ==
    /\ ObserverStep(g, "answered", "written")
    /\ board' = observer[g].snap
    /\ UNCHANGED <<run, up, active, feed, starter, updater, resumed, games, crashes, lost, touched>>

ObserverSend(g) ==
    /\ \/ observer[g].snap.status = "Finished" /\ ObserverStep(g, "written", "clear")
       \/ observer[g].snap.status # "Finished" /\ ObserverStep(g, "written", "sleep")
    /\ feed' = observer[g].snap
    /\ UNCHANGED <<run, up, active, board, starter, updater, resumed, games, crashes, lost, touched>>

\* Mutant: the slot is kept.
Kept(g) == active

\* The slot of a finished game is released, if it is still that game's.
Released(g) == IF active = g THEN NoGame ELSE active

ObserverClear(g) ==
    /\ observer[g].pc = "clear"
    /\ observer' = [observer EXCEPT ![g] = NotWatching]
    /\ active' = Released(g)
    /\ UNCHANGED <<run, up, board, feed, starter, updater, resumed, games, crashes, lost, touched>>

\* observer_delay has passed.
ObserverWake(g) ==
    /\ ObserverStep(g, "sleep", "check")
    /\ UNCHANGED <<run, up, active, board, feed, starter, updater, resumed, games, crashes, lost, touched>>

-----------------------------------------------------------------------------
(* Crash and restart. *)

\* The process exits, on command (crash_worker) or not; its memory and its tasks
\* are gone.  A start call on the wire may still reach Temporal.
Crash ==
    /\ up # "Down"
    /\ crashes < MaxCrashes
    /\ crashes' = crashes + 1
    /\ up' = "Down"
    /\ active' = NoGame
    /\ board' = DefaultSnapshot
    /\ feed' = DefaultSnapshot
    /\ starter' = [s \in Starters |-> Idle]
    /\ updater' = [u \in Updaters |-> NoUpdate]
    /\ observer' = [g \in Games |-> NotWatching]
    /\ resumed' = DefaultSnapshot
    /\ \/ run' = run
       \/ \E s \in Starters :
             /\ starter[s].pc = "reserved"
             /\ run.status # "Running"
             /\ run' = Begun(starter[s].game)
    /\ UNCHANGED <<games, lost, touched>>

\* run-web.sh, or the operator, runs the controller again.
Restart ==
    /\ up = "Down"
    /\ up' = "Resuming"
    /\ UNCHANGED <<run, active, board, feed, process, resumed, games, crashes, lost, touched>>

\* Mutant: the restoration forgets to take the slot.
ResumeUnslotted ==
    /\ up = "Resuming"
    /\ run.game # NoGame
    /\ up' = "Restored"
    /\ resumed' = run
    /\ lost' = NoGame
    /\ UNCHANGED <<run, active, board, feed, process, games, crashes, touched>>

\* resume_active_game: the restoration query is answered, ...
ResumeQuery ==
    /\ up = "Resuming"
    /\ run.game # NoGame
    /\ up' = "Restored"
    /\ resumed' = run
    /\ active' = IF run.status = "Running" THEN run.game ELSE active
    /\ lost' = NoGame
    /\ UNCHANGED <<run, board, feed, process, games, crashes, touched>>

\* ... or it fails (also when no game was ever played), and the controller
\* serves the empty default.
ResumeError ==
    /\ up = "Resuming"
    /\ up' = "Serving"
    /\ lost' = IF run.status = "Running" THEN run.game ELSE lost
    /\ UNCHANGED <<run, active, board, feed, process, resumed, games, crashes, touched>>

\* The restored snapshot is published and a running game is observed again;
\* only then are connections accepted.
ResumePublish ==
    /\ up = "Restored"
    /\ up' = "Serving"
    /\ board' = resumed
    /\ feed' = resumed
    /\ observer' = IF resumed.status = "Running"
                   THEN [observer EXCEPT ![resumed.game].pc = "check"] ELSE observer
    /\ UNCHANGED <<run, active, starter, updater, resumed, games, crashes, lost, touched>>

-----------------------------------------------------------------------------
Observe(g) ==
    \/ ObserverCheck(g) \/ ObserverQuery(g) \/ ObserverError(g)
    \/ ObserverPublish(g) \/ ObserverSend(g) \/ ObserverClear(g) \/ ObserverWake(g)

Next ==
    \/ RunProgress \/ RunFinish
    \/ \E s \in Starters :
          \/ Reserve(s) \/ StartWorkflow(s) \/ Release(s)
          \/ StartPublish(s) \/ StartObserved(s)
    \/ \E u \in Updaters :
          \/ UpdateCheck(u) \/ UpdateExecute(u) \/ UpdatePublish(u) \/ UpdateSend(u)
    \/ \E g \in Games : Observe(g)
    \/ Crash \/ Restart \/ ResumeQuery \/ ResumeError \/ ResumePublish

Spec == Init /\ [][Next]_vars

\* Every task is scheduled, a round closes by itself (GameWorkflow's
\* RoundCloses), and a query that is repeated is answered some day.  Nothing
\* obliges an operator to press a button or a crashed controller to come back.
Fairness ==
    /\ WF_vars(RunFinish)
    /\ \A s \in Starters :
          WF_vars(StartWorkflow(s) \/ Release(s) \/ StartPublish(s) \/ StartObserved(s))
    /\ \A g \in Games :
          /\ WF_vars(Observe(g))
          /\ SF_vars(ObserverQuery(g))
    /\ WF_vars(ResumeQuery \/ ResumeError \/ ResumePublish)

FairSpec == Spec /\ Fairness

-----------------------------------------------------------------------------
(* Properties. *)

TypeOK ==
    /\ run \in Snapshot
    /\ up \in {"Down", "Resuming", "Restored", "Serving"}
    /\ active \in 0..MaxGames
    /\ board \in Snapshot
    /\ feed \in Snapshot
    /\ starter \in [Starters ->
           [pc : {"idle", "reserved", "failed", "started", "written"}, game : 0..MaxGames]]
    /\ updater \in [Updaters ->
           [pc : {"idle", "checked", "answered", "written"}, snap : Snapshot]]
    /\ observer \in [Games ->
           [pc : {"none", "check", "query", "answered", "written", "clear", "sleep"},
            snap : Snapshot]]
    /\ resumed \in Snapshot
    /\ games \in 0..MaxGames
    /\ crashes \in 0..MaxCrashes
    /\ lost \in 0..MaxGames
    /\ touched \subseteq Games

InFlight(s) == starter[s].pc # "idle"

\* A taken slot always has somebody who will release it: the request that
\* took it, the observer of its game, or the restart in progress.
ActiveIsWatched ==
    active # NoGame =>
        \/ \E s \in Starters : InFlight(s) /\ starter[s].game = active
        \/ observer[active].pc # "none"
        \/ up = "Restored"

\* "Two simultaneous button presses cannot start two Workflows": from the
\* reservation until its observer runs, a start request holds the slot, so no
\* two requests are ever in flight, whatever they and the observers do.
SlotHeldByOne ==
    /\ \A s \in Starters : InFlight(s) => active = starter[s].game
    /\ \A s, t \in Starters : InFlight(s) /\ InFlight(t) => s = t

\* An observer never publishes another game's snapshot, though the handle of
\* a resumed game names the Workflow id and not the run.
ObserverReadsItsGame ==
    \A g \in Games :
        observer[g].pc \in {"answered", "written", "clear"} => observer[g].snap.game = g

\* The slot and the observers keep to their games through racing starts, lost
\* replies, a crash and a restoration.
SlotKept == TypeOK /\ SlotHeldByOne /\ ActiveIsWatched /\ ObserverReadsItsGame

\* While the controller serves, a running game holds the slot, so the operator
\* can reach it, unless the reply to the call that would have told the
\* controller was lost: that of its start, or of the last restoration query.
RunningGameHeld ==
    up = "Serving" /\ run.status = "Running" /\ run.game # lost => active = run.game

\* The controller implements the one-game slot: whatever requests race, replies
\* are lost and crashes interrupt, games are played one at a time and once each,
\* and only the games of lost replies escape the slot.
Slot == INSTANCE GameSlot WITH
    drawn <- games, holder <- active, latest <- run.game,
    playing <- (run.status = "Running"), serving <- (up = "Serving")

SlotSpec == Slot!Spec

\* The board of one game never goes back, until an Update has changed that
\* game: from then on its reply may be published late.  The finished board even
\* then stays, whatever observers, starts and restorations do: only the late
\* reply itself moves it again.
LateReply == \E u \in Updaters : updater[u].pc = "answered" /\ updater'[u].pc # "answered"

BoardMonotone ==
    [][board'.game = board.game =>
         /\ board.game \notin touched => board'.version >= board.version
         /\ board.status = "Finished" => board' = board \/ LateReply]_vars

\* No game keeps the slot for ever: once it closes, another can be started.
SlotFreed == \A g \in Games : active = g ~> active # g

\* A game that closes while an observer watches it is shown closed, to a page
\* load and to the open pages, unless the controller crashes meanwhile or the
\* late reply of an Update, of this game or of an earlier one, gets in between.
BoardSettles ==
    \A g \in Games :
        run.game = g /\ run.status = "Finished" /\ observer[g].pc # "none"
            ~> \/ \A shown \in {board, feed} : shown.game = g /\ shown.status = "Finished"
               \/ up = "Down"
               \/ touched # {}

\* Whatever fails and is tried again, a game that closes is shown and let go.
GamesSettle == SlotFreed /\ BoardSettles
=============================================================================

-------------------------- MODULE ControllerProofs --------------------------
(***************************************************************************)
(* Theorems about Controller: whatever requests race, fail and are lost,   *)
(* and wherever the controller crashes, the slot is held by one game that  *)
(* somebody will release, and the board of a game moves forward.           *)
(*                                                                         *)
(* What makes them inductive is who may touch the slot.  A start request   *)
(* in flight and an observer exclude each other, as do two of either, so   *)
(* the execution that Temporal runs is the one the holder began, and it    *)
(* cannot be replaced under the holder.                                    *)
(***************************************************************************)
EXTENDS Controller, TLAPS

Watched(g) == observer[g].pc # "none"

\* What is known of a start request in flight: it holds the slot, and the run is
\* its own once it was begun.  Its game is on the board only when an Update was
\* quicker than the request.
StarterOK(s) ==
    InFlight(s) =>
        /\ up = "Serving"
        /\ active = starter[s].game /\ starter[s].game \in Games
        /\ starter[s].pc = "reserved" => run.game < active /\ active \notin touched
        /\ starter[s].pc = "failed" => (run.game = active => lost = active)
        /\ starter[s].pc \in {"started", "written"} => run.game = active
        /\ board.game = active => /\ board.status # "Finished"
                                  /\ starter[s].pc = "written" \/ active \in touched

\* What is known of an observer: the run is of the game that it watches, what it
\* has read is no older than the board, and final when it says so.
ObserverOK(g) ==
    Watched(g) =>
        /\ up = "Serving" /\ active = g /\ run.game = g
        /\ observer[g].pc \in {"answered", "written", "clear"} =>
              /\ observer[g].snap.game = g
              /\ observer[g].snap.version <= run.version
              /\ observer[g].snap.status = "Finished" => observer[g].snap = run
        /\ observer[g].pc = "clear" => observer[g].snap.status = "Finished"
        /\ board.game = g =>
              /\ board.status = "Finished" => observer[g].pc \in {"written", "clear"}
                                              /\ observer[g].snap.status = "Finished"
              /\ observer[g].pc = "answered" /\ g \notin touched =>
                    board.version <= observer[g].snap.version

\* What is known of an Update: its reply is of a game it has touched, and no
\* younger than that game's run.
UpdaterOK(u) ==
    updater[u].pc # "idle" =>
        /\ up = "Serving"
        /\ updater[u].pc \in {"answered", "written"} =>
              /\ updater[u].snap.game \in touched
              /\ updater[u].snap.status = "Running"
              /\ updater[u].snap.game = run.game => updater[u].snap.version <= run.version

Processes ==
    /\ \A s \in Starters : StarterOK(s)
    /\ \A g \in Games : ObserverOK(g)
    /\ \A u \in Updaters : UpdaterOK(u)

\* Start requests and observers exclude one another.
Exclusive ==
    /\ \A s, t \in Starters : InFlight(s) /\ InFlight(t) => s = t
    /\ \A s \in Starters, g \in Games : ~(InFlight(s) /\ Watched(g))

\* Games are numbered as they are drawn.
Execution ==
    /\ active <= games /\ run.game <= games /\ board.game <= games
    /\ run.status = "Running" => run.version <= MaxVersion /\ run.game # NoGame
    /\ \A g \in touched : g <= games

\* The board is at most as far as the run, when it is of its game.
Board ==
    /\ board.game = NoGame => board = DefaultSnapshot
    /\ board.game = run.game =>
          board.version <= run.version /\ (board.status = "Finished" => board = run)

\* A controller that does not serve yet has nothing but what it restored.
Restoration ==
    /\ up # "Serving" => board = DefaultSnapshot
    /\ up \in {"Down", "Resuming"} => active = NoGame
    /\ up = "Restored" =>
          /\ resumed.game = run.game /\ resumed.game # NoGame
          /\ resumed.version <= run.version
          /\ run.status = "Running" => resumed.status = "Running"
          /\ resumed.status = "Finished" => resumed = run
          /\ active = IF resumed.status = "Running" THEN resumed.game ELSE NoGame

CInv ==
    /\ TypeOK /\ Processes /\ Exclusive /\ Execution /\ Board /\ Restoration
    /\ ActiveIsWatched /\ RunningGameHeld

-----------------------------------------------------------------------------
(* What a step of a process changes. *)

Requests  == [pc : {"idle", "reserved", "failed", "started", "written"}, game : 0..MaxGames]
Updates   == [pc : {"idle", "checked", "answered", "written"}, snap : Snapshot]
Observers == [pc : {"none", "check", "query", "answered", "written", "clear", "sleep"},
              snap : Snapshot]

StarterMoves(s, pc, game) ==
    /\ starter' \in [Starters -> Requests]
    /\ starter'[s].pc = pc /\ starter'[s].game = game
    /\ \A t \in Starters : t # s => starter'[t] = starter[t]

UpdaterMoves(u, pc, snap) ==
    /\ updater' \in [Updaters -> Updates]
    /\ updater'[u].pc = pc /\ updater'[u].snap = snap
    /\ \A w \in Updaters : w # u => updater'[w] = updater[w]

ObserverMoves(g, pc, snap) ==
    /\ observer' \in [Games -> Observers]
    /\ observer'[g].pc = pc /\ observer'[g].snap = snap
    /\ \A h \in Games : h # g => observer'[h] = observer[h]

LEMMA StartSteps ==
    ASSUME TypeOK, NEW s \in Starters, NEW from,
           NEW to \in {"idle", "reserved", "failed", "started", "written"},
           StartStep(s, from, to)
    PROVE  starter[s].pc = from /\ StarterMoves(s, to, starter[s].game)
BY DEF TypeOK, StartStep, StarterMoves, Requests

LEMMA UpdateSteps ==
    ASSUME TypeOK, NEW u \in Updaters, NEW from,
           NEW to \in {"idle", "checked", "answered", "written"},
           UpdateStep(u, from, to)
    PROVE  updater[u].pc = from /\ UpdaterMoves(u, to, updater[u].snap)
BY DEF TypeOK, UpdateStep, UpdaterMoves, Updates

LEMMA ObserverSteps ==
    ASSUME TypeOK, NEW g \in Games, NEW from,
           NEW to \in {"none", "check", "query", "answered", "written", "clear", "sleep"},
           ObserverStep(g, from, to)
    PROVE  observer[g].pc = from /\ ObserverMoves(g, to, observer[g].snap)
BY DEF TypeOK, ObserverStep, ObserverMoves, Observers

LEMMA Snapshots ==
    /\ DefaultSnapshot \in Snapshot
    /\ \A g \in Games : Begun(g) \in Snapshot /\ Starting(g) \in Snapshot
    /\ DefaultSnapshot.game = NoGame /\ DefaultSnapshot.version = 0
    /\ DefaultSnapshot.status = "Waiting"
BY ControllerAssumption DEF DefaultSnapshot, Begun, Starting, Snapshot, Games, NoGame

LEMMA Numbers ==
    ASSUME NEW x \in Snapshot
    PROVE  x.game \in Nat /\ x.version \in Nat
BY ControllerAssumption DEF Snapshot

LEMMA CurrentNumbers ==
    ASSUME TypeOK
    PROVE  /\ run \in Snapshot /\ run.game \in Nat /\ run.version \in Nat
           /\ board \in Snapshot /\ board.game \in Nat /\ board.version \in Nat
           /\ resumed \in Snapshot /\ resumed.game \in Nat /\ resumed.version \in Nat
           /\ \A g \in Games : /\ observer[g].snap \in Snapshot
                               /\ observer[g].snap.game \in Nat /\ observer[g].snap.version \in Nat
           /\ \A u \in Updaters : /\ updater[u].snap \in Snapshot
                                  /\ updater[u].snap.game \in Nat /\ updater[u].snap.version \in Nat
           /\ \A s \in Starters : starter[s].game \in Nat
           /\ active \in Nat /\ games \in Nat
<1>1. /\ run \in Snapshot /\ board \in Snapshot /\ resumed \in Snapshot
      /\ \A g \in Games : observer[g].snap \in Snapshot
      /\ \A u \in Updaters : updater[u].snap \in Snapshot
    BY DEF TypeOK
<1>2. (\A s \in Starters : starter[s].game \in Nat) /\ active \in Nat /\ games \in Nat
    BY ControllerAssumption DEF TypeOK
<1> QED BY <1>1, <1>2, Numbers

LEMMA RunSteps ==
    ASSUME TypeOK, run.version < MaxVersion
    PROVE  /\ Advanced \in Snapshot /\ Advanced.game = run.game
           /\ Advanced.status = run.status
           /\ Advanced.version = run.version + 1 /\ Advanced.version <= MaxVersion
<1>1. run.version + 1 \in 0..(MaxVersion + 1)
    BY CurrentNumbers, ControllerAssumption
<1> QED BY <1>1, CurrentNumbers, ControllerAssumption DEF TypeOK, Snapshot, Advanced

LEMMA InitCInv == Init => CInv
<1> SUFFICES ASSUME Init PROVE CInv
    OBVIOUS
<1> USE ControllerAssumption, Snapshots DEF Init, NoGame, Games
<1>1. /\ \A s \in Starters : starter[s].pc = "idle"
      /\ \A u \in Updaters : updater[u].pc = "idle"
      /\ \A g \in Games : observer[g].pc = "none"
    BY DEF Idle, NoUpdate, NotWatching
<1>2. Idle \in Requests /\ NoUpdate \in Updates /\ NotWatching \in Observers
    BY DEF Idle, NoUpdate, NotWatching, Requests, Updates, Observers
<1>3. /\ starter \in [Starters -> Requests] /\ updater \in [Updaters -> Updates]
      /\ observer \in [Games -> Observers]
    BY <1>2 DEF Init
<1>4. /\ run \in Snapshot /\ board \in Snapshot /\ feed \in Snapshot /\ resumed \in Snapshot
      /\ up \in {"Down", "Resuming", "Restored", "Serving"}
      /\ active \in 0..MaxGames /\ games \in 0..MaxGames /\ crashes \in 0..MaxCrashes
    OBVIOUS
<1>5. lost \in 0..MaxGames /\ touched \subseteq Games
    OBVIOUS
<1>6. TypeOK
    BY <1>3, <1>4, <1>5 DEF TypeOK, Requests, Updates, Observers
<1>7. Processes /\ Exclusive /\ ActiveIsWatched
    BY <1>1 DEF Processes, StarterOK, ObserverOK, UpdaterOK, Exclusive, ActiveIsWatched,
                InFlight, Watched
<1>8. Execution /\ Board /\ Restoration /\ RunningGameHeld
    BY DEF Execution, Board, Restoration, RunningGameHeld
<1> QED BY <1>6, <1>7, <1>8 DEF CInv

-----------------------------------------------------------------------------
(* The execution. *)

LEMMA RunKeepsCInv ==
    ASSUME CInv, RunProgress \/ RunFinish
    PROVE  CInv'
<1> USE DEF CInv
<1>1. /\ run.status = "Running" /\ run' \in Snapshot /\ run'.game = run.game
      /\ run'.version >= run.version
      /\ run'.status = "Running" => run'.version <= MaxVersion
      /\ UNCHANGED <<up, active, board, feed, starter, updater, observer, resumed, games,
                     crashes, lost, touched>>
  <2>1. CASE RunProgress
      BY <2>1, RunSteps, CurrentNumbers, ControllerAssumption DEF RunProgress, process
  <2>2. CASE RunFinish
    <3>1. run.version + 1 \in 0..(MaxVersion + 1)
        BY <2>2, CurrentNumbers, ControllerAssumption DEF RunFinish, Execution
    <3> QED BY <2>2, <3>1, CurrentNumbers DEF RunFinish, TypeOK, Snapshot, process
  <2> QED BY <2>1, <2>2
<1>2. TypeOK' /\ Exclusive' /\ ActiveIsWatched'
    BY <1>1 DEF TypeOK, Exclusive, ActiveIsWatched, InFlight, Watched
<1>3. Execution' /\ RunningGameHeld'
    BY <1>1 DEF Execution, RunningGameHeld
<1>4. /\ run.version \in Nat /\ run'.version \in Nat /\ board.version \in Nat
      /\ resumed.version \in Nat
      /\ \A g \in Games : observer[g].snap.version \in Nat
      /\ \A u \in Updaters : updater[u].snap.version \in Nat
    BY <1>1, ControllerAssumption DEF TypeOK, Snapshot
<1>5. Restoration' /\ Board'
    BY <1>1, <1>4 DEF Restoration, Board
<1>6. Processes'
  <2>1. ASSUME NEW s \in Starters PROVE StarterOK(s)'
      BY <1>1 DEF Processes, StarterOK, InFlight
  <2>2. ASSUME NEW g \in Games PROVE ObserverOK(g)'
      BY <1>1, <1>4 DEF Processes, ObserverOK, Watched
  <2>3. ASSUME NEW u \in Updaters PROVE UpdaterOK(u)'
      BY <1>1, <1>4 DEF Processes, UpdaterOK
  <2> QED BY <2>1, <2>2, <2>3 DEF Processes
<1> QED BY <1>2, <1>3, <1>5, <1>6

-----------------------------------------------------------------------------
(* POST /api/start. *)

LEMMA ReserveKeepsCInv ==
    ASSUME CInv, NEW s \in Starters, Reserve(s)
    PROVE  CInv'
<1> USE ControllerAssumption DEF CInv, NoGame, Games
<1>1. /\ up = "Serving" /\ active = NoGame /\ games' = games + 1 /\ active' = games + 1
      /\ games + 1 \in Games /\ StarterMoves(s, "reserved", games + 1)
      /\ UNCHANGED <<run, up, board, feed, updater, observer, resumed, crashes, lost, touched>>
    BY DEF Reserve, SlotFree, TypeOK, StarterMoves, Requests
<1>2. /\ \A t \in Starters : starter[t].pc = "idle"
      /\ \A g \in Games : observer[g].pc = "none"
    BY <1>1 DEF Processes, StarterOK, ObserverOK, InFlight, Watched
<1>3. \A t \in Starters : t # s => starter'[t].pc = "idle"
    BY <1>1, <1>2 DEF StarterMoves
<1>4. TypeOK'
    BY <1>1 DEF TypeOK, Requests, StarterMoves
<1>5. /\ run' \in Snapshot /\ run'.game \in Nat /\ run'.version \in Nat
      /\ board' \in Snapshot /\ board'.game \in Nat /\ board'.version \in Nat
    BY <1>4, Numbers DEF TypeOK
<1>6. Execution'
    BY <1>1, CurrentNumbers DEF Execution, TypeOK
<1>7. RunningGameHeld'
    BY <1>1 DEF Execution, RunningGameHeld
<1>8. Board'
    BY <1>1 DEF Board
<1>9. Restoration'
    BY <1>1, <1>2, <1>3, <1>4 DEF Restoration
<1>10. Exclusive' /\ ActiveIsWatched'
    BY <1>1, <1>2 DEF Exclusive, ActiveIsWatched, InFlight, Watched, StarterMoves
<1>11. Processes'
  <2>1. ASSUME NEW x \in Starters PROVE StarterOK(x)'
      BY <1>1, CurrentNumbers DEF StarterOK, Processes, Execution, InFlight, StarterMoves
  <2>2. ASSUME NEW x \in Games PROVE ObserverOK(x)'
      BY <1>1, <1>10 DEF ObserverOK, Exclusive, InFlight, StarterMoves
  <2>3. ASSUME NEW x \in Updaters PROVE UpdaterOK(x)'
      BY <1>1 DEF UpdaterOK, Processes
  <2> QED BY <2>1, <2>2, <2>3 DEF Processes
<1> QED BY <1>4, <1>6, <1>7, <1>8, <1>9, <1>10, <1>11

LEMMA StartWorkflowKeepsCInv ==
    ASSUME CInv, NEW s \in Starters, StartWorkflow(s)
    PROVE  CInv'
<1> USE ControllerAssumption DEF CInv, NoGame, Games
<1>1. /\ starter[s].pc = "reserved"
      /\ \/ /\ StarterMoves(s, "started", starter[s].game)
            /\ run' = Begun(starter[s].game) /\ lost' = lost
         \/ /\ StarterMoves(s, "failed", starter[s].game)
            /\ run' = Begun(starter[s].game) /\ lost' = starter[s].game
         \/ /\ StarterMoves(s, "failed", starter[s].game)
            /\ UNCHANGED <<run, lost>>
      /\ UNCHANGED <<up, active, board, feed, updater, observer, resumed, games, crashes, touched>>
    BY StartSteps DEF StartWorkflow
<1>2. /\ \A t \in Starters : t # s => starter[t].pc = "idle" /\ starter'[t].pc = "idle"
      /\ \A g \in Games : observer[g].pc = "none"
      /\ up = "Serving" /\ active = starter[s].game /\ starter[s].game \in Games
    BY <1>1 DEF Exclusive, Processes, StarterOK, InFlight, Watched, StarterMoves
<1>3. /\ Begun(active) \in Snapshot /\ Begun(active).game = active
      /\ Begun(active).status = "Running" /\ Begun(active).version = 1
    BY <1>2, Snapshots DEF Begun
<1>4. run.game # active /\ active \notin touched /\ board.game # active
    BY <1>1, <1>2, CurrentNumbers DEF Processes, StarterOK, InFlight
<1>5. TypeOK'
    BY <1>1, <1>2, <1>3, <1>4, CurrentNumbers
       DEF TypeOK, Requests, Updates, Observers, StarterMoves
<1>6. /\ run' \in Snapshot /\ run'.game \in Nat /\ run'.version \in Nat
      /\ board' \in Snapshot /\ board'.game \in Nat /\ board'.version \in Nat
    BY <1>5, Numbers DEF TypeOK
<1>7. Execution'
    BY <1>1, <1>3 DEF Execution, Processes, StarterOK, InFlight
<1>8. RunningGameHeld'
    BY <1>1, <1>3 DEF RunningGameHeld, Processes, StarterOK, InFlight
<1>9. Board'
    BY <1>1, <1>3 DEF Board, Processes, StarterOK, InFlight
<1>10. Restoration'
    BY <1>1, <1>2, <1>3, <1>4 DEF Restoration
<1>11. Exclusive' /\ ActiveIsWatched'
    BY <1>1 DEF Exclusive, ActiveIsWatched, InFlight, Watched, StarterMoves
<1>12. Processes'
  <2>1. ASSUME NEW x \in Starters PROVE StarterOK(x)'
      BY <1>1, <1>3 DEF StarterOK, Processes, Exclusive, InFlight, StarterMoves
  <2>2. ASSUME NEW x \in Games PROVE ObserverOK(x)'
      BY <1>1, <1>11 DEF ObserverOK, Exclusive, InFlight, StarterMoves
  <2>3. ASSUME NEW x \in Updaters PROVE UpdaterOK(x)'
      BY <1>1, <1>2, <1>3, <1>4 DEF UpdaterOK, Processes
  <2> QED BY <2>1, <2>2, <2>3 DEF Processes
<1> QED BY <1>5, <1>7, <1>8, <1>9, <1>10, <1>11, <1>12

LEMMA ReleaseKeepsCInv ==
    ASSUME CInv, NEW s \in Starters, Release(s)
    PROVE  CInv'
<1> USE ControllerAssumption DEF CInv, NoGame, Games
<1>1. /\ starter[s].pc = "failed" /\ StarterMoves(s, "idle", starter[s].game)
      /\ active' = NoGame
      /\ UNCHANGED <<run, up, board, feed, updater, observer, resumed, games, crashes, lost, touched>>
    BY StartSteps DEF Release, Processes, StarterOK, InFlight
<1>2. /\ \A t \in Starters : t # s => starter[t].pc = "idle" /\ starter'[t].pc = "idle"
      /\ \A g \in Games : observer[g].pc = "none"
      /\ up = "Serving" /\ active = starter[s].game /\ starter[s].game \in Games
    BY <1>1 DEF Exclusive, Processes, StarterOK, InFlight, Watched, StarterMoves
<1>3. TypeOK'
    BY <1>1 DEF TypeOK, Requests, StarterMoves
<1>4. /\ run' \in Snapshot /\ run'.game \in Nat /\ run'.version \in Nat
      /\ board' \in Snapshot /\ board'.game \in Nat /\ board'.version \in Nat
    BY <1>3, Numbers DEF TypeOK
<1>5. Execution'
    BY <1>1, CurrentNumbers DEF Execution
<1>6. RunningGameHeld'
    BY <1>1 DEF RunningGameHeld, Processes, StarterOK, InFlight
<1>7. Board'
    BY <1>1 DEF Board
<1>8. Restoration'
    BY <1>1, <1>2, <1>3, <1>4 DEF Restoration
<1>9. Exclusive' /\ ActiveIsWatched'
    BY <1>1 DEF Exclusive, ActiveIsWatched, InFlight, StarterMoves
<1>10. Processes'
  <2>1. ASSUME NEW x \in Starters PROVE StarterOK(x)'
      BY <1>1 DEF StarterOK, Exclusive, InFlight, StarterMoves
  <2>2. ASSUME NEW x \in Games PROVE ObserverOK(x)'
      BY <1>1 DEF ObserverOK, Exclusive, InFlight, Watched
  <2>3. ASSUME NEW x \in Updaters PROVE UpdaterOK(x)'
      BY <1>1 DEF UpdaterOK, Processes
  <2> QED BY <2>1, <2>2, <2>3 DEF Processes
<1> QED BY <1>3, <1>5, <1>6, <1>7, <1>8, <1>9, <1>10

LEMMA StartPublishKeepsCInv ==
    ASSUME CInv, NEW s \in Starters, StartPublish(s)
    PROVE  CInv'
<1> USE ControllerAssumption DEF CInv, NoGame, Games
<1>1. /\ starter[s].pc = "started" /\ StarterMoves(s, "written", starter[s].game)
      /\ board' = Starting(starter[s].game)
      /\ UNCHANGED <<run, up, active, feed, updater, observer, resumed, games, crashes, lost, touched>>
    BY StartSteps DEF StartPublish
<1>2. /\ \A t \in Starters : t # s => starter[t].pc = "idle" /\ starter'[t].pc = "idle"
      /\ \A g \in Games : observer[g].pc = "none"
      /\ up = "Serving" /\ active = starter[s].game /\ starter[s].game \in Games
    BY <1>1 DEF Exclusive, Processes, StarterOK, InFlight, Watched, StarterMoves
<1>3. /\ board' \in Snapshot /\ board'.game = active /\ run.game = active
      /\ board'.status = "Running" /\ board'.version = 0
    BY <1>1, <1>2, Snapshots DEF Starting, Processes, StarterOK, InFlight
<1>4. TypeOK'
    BY <1>1, <1>3 DEF TypeOK, Requests, StarterMoves
<1>5. /\ run' \in Snapshot /\ run'.game \in Nat /\ run'.version \in Nat
      /\ board' \in Snapshot /\ board'.game \in Nat /\ board'.version \in Nat
    BY <1>4, Numbers DEF TypeOK
<1>6. Execution'
    BY <1>1, <1>3 DEF Execution
<1>7. RunningGameHeld'
    BY <1>1 DEF RunningGameHeld
<1>8. Board'
    BY <1>2, <1>3, <1>5 DEF Board
<1>9. Restoration'
    BY <1>1, <1>2, <1>3, <1>4 DEF Restoration
<1>10. Exclusive' /\ ActiveIsWatched'
    BY <1>1 DEF Exclusive, ActiveIsWatched, InFlight, Watched, StarterMoves
<1>11. Processes'
  <2>1. ASSUME NEW x \in Starters PROVE StarterOK(x)'
      BY <1>1, <1>3 DEF StarterOK, Processes, Exclusive, InFlight, StarterMoves
  <2>2. ASSUME NEW x \in Games PROVE ObserverOK(x)'
      BY <1>1, <1>10 DEF ObserverOK, Exclusive, InFlight, StarterMoves
  <2>3. ASSUME NEW x \in Updaters PROVE UpdaterOK(x)'
      BY <1>1 DEF UpdaterOK, Processes
  <2> QED BY <2>1, <2>2, <2>3 DEF Processes
<1> QED BY <1>4, <1>6, <1>7, <1>8, <1>9, <1>10, <1>11

LEMMA StartObservedKeepsCInv ==
    ASSUME CInv, NEW s \in Starters, StartObserved(s)
    PROVE  CInv'
<1> USE ControllerAssumption DEF CInv, NoGame, Games
<1>1. /\ starter[s].pc = "written" /\ StarterMoves(s, "idle", starter[s].game)
      /\ feed' = Starting(starter[s].game)
      /\ observer' = [observer EXCEPT ![starter[s].game].pc = "check"]
      /\ UNCHANGED <<run, up, active, board, updater, resumed, games, crashes, lost, touched>>
    BY StartSteps DEF StartObserved
<1>2. /\ \A t \in Starters : t # s => starter[t].pc = "idle" /\ starter'[t].pc = "idle"
      /\ \A g \in Games : observer[g].pc = "none"
      /\ up = "Serving" /\ active = starter[s].game /\ starter[s].game \in Games
    BY <1>1 DEF Exclusive, Processes, StarterOK, InFlight, Watched, StarterMoves
<1>3. /\ feed' \in Snapshot /\ run.game = active
      /\ board.game = active => board.status # "Finished"
    BY <1>1, <1>2, Snapshots DEF Processes, StarterOK, InFlight
<1>4. ObserverMoves(active, "check", observer[active].snap)
  <2>1. observer \in [Games -> Observers]
      BY DEF TypeOK, Observers
  <2>2. active \in Games /\ observer' = [observer EXCEPT ![active].pc = "check"]
      BY <1>1, <1>2
  <2> QED BY <2>1, <2>2 DEF ObserverMoves, Observers
<1>5. TypeOK'
    BY <1>1, <1>3, <1>4 DEF TypeOK, Requests, Observers, StarterMoves, ObserverMoves
<1>6. /\ run' \in Snapshot /\ run'.game \in Nat /\ run'.version \in Nat
      /\ board' \in Snapshot /\ board'.game \in Nat /\ board'.version \in Nat
    BY <1>5, Numbers DEF TypeOK
<1>7. Execution'
    BY <1>1 DEF Execution
<1>8. RunningGameHeld'
    BY <1>1 DEF RunningGameHeld
<1>9. Board'
    BY <1>1 DEF Board
<1>10. Restoration'
    BY <1>1, <1>2, <1>3 DEF Restoration
<1>11. Exclusive' /\ ActiveIsWatched'
    BY <1>1, <1>2, <1>4 DEF Exclusive, ActiveIsWatched, InFlight, StarterMoves, ObserverMoves
<1>12. Processes'
  <2>1. ASSUME NEW x \in Starters PROVE StarterOK(x)'
      BY <1>1 DEF StarterOK, Exclusive, InFlight, StarterMoves
  <2>2. ASSUME NEW x \in Games PROVE ObserverOK(x)'
      BY <1>1, <1>2, <1>3 DEF ObserverOK, Watched
  <2>3. ASSUME NEW x \in Updaters PROVE UpdaterOK(x)'
      BY <1>1 DEF UpdaterOK, Processes
  <2> QED BY <2>1, <2>2, <2>3 DEF Processes
<1> QED BY <1>5, <1>7, <1>8, <1>9, <1>10, <1>11, <1>12

-----------------------------------------------------------------------------
(* POST /api/chaos/{command} and POST /api/end-round. *)

LEMMA UpdateCheckKeepsCInv ==
    ASSUME CInv, NEW u \in Updaters, UpdateCheck(u)
    PROVE  CInv'
<1> USE ControllerAssumption DEF CInv, NoGame, Games
<1>1. /\ up = "Serving" /\ UpdaterMoves(u, "checked", updater[u].snap)
      /\ UNCHANGED <<run, up, active, board, feed, starter, observer, resumed, games, crashes, lost, touched>>
    BY UpdateSteps DEF UpdateCheck
<1>2. TypeOK'
    BY <1>1 DEF TypeOK, Updates, UpdaterMoves
<1>3. /\ run' \in Snapshot /\ run'.game \in Nat /\ run'.version \in Nat
      /\ board' \in Snapshot /\ board'.game \in Nat /\ board'.version \in Nat
    BY <1>2, Numbers DEF TypeOK
<1>4. Execution'
    BY <1>1 DEF Execution
<1>5. RunningGameHeld'
    BY <1>1 DEF RunningGameHeld
<1>6. Board'
    BY <1>1 DEF Board
<1>7. Restoration'
    BY <1>1, <1>2, <1>3, <1>4 DEF Restoration
<1>8. Exclusive' /\ ActiveIsWatched'
    BY <1>1 DEF Exclusive, ActiveIsWatched, InFlight, Watched
<1>9. Processes'
  <2>1. ASSUME NEW x \in Starters PROVE StarterOK(x)'
      BY <1>1 DEF StarterOK, Processes, InFlight
  <2>2. ASSUME NEW x \in Games PROVE ObserverOK(x)'
      BY <1>1 DEF ObserverOK, Processes, Watched
  <2>3. ASSUME NEW x \in Updaters PROVE UpdaterOK(x)'
      BY <1>1 DEF UpdaterOK, Processes, UpdaterMoves
  <2> QED BY <2>1, <2>2, <2>3 DEF Processes
<1> QED BY <1>2, <1>4, <1>5, <1>6, <1>7, <1>8, <1>9

LEMMA UpdateExecuteKeepsCInv ==
    ASSUME CInv, NEW u \in Updaters, UpdateExecute(u)
    PROVE  CInv'
<1> USE ControllerAssumption DEF CInv, NoGame, Games
<1>1. /\ updater[u].pc = "checked"
      /\ \/ UNCHANGED <<run, touched>> /\ UpdaterMoves(u, "idle", DefaultSnapshot)
         \/ /\ run.status = "Running" /\ run'.status = run.status
            /\ run' \in Snapshot /\ run'.game = run.game /\ run'.version = run.version + 1
            /\ run'.version <= MaxVersion /\ touched' = touched \cup {run.game}
            /\ \/ UpdaterMoves(u, "answered", run') \/ UpdaterMoves(u, "idle", DefaultSnapshot)
      /\ UNCHANGED <<up, active, board, feed, starter, observer, resumed, games, crashes, lost>>
  <2>1. CASE UNCHANGED <<run, touched>> /\ updater' = [updater EXCEPT ![u] = NoUpdate]
      BY <2>1, Snapshots DEF UpdateExecute, TypeOK, UpdaterMoves, Updates, NoUpdate
  <2>2. CASE run' = Advanced /\ run.status = "Running" /\ run.version < MaxVersion
    <3>1. /\ run' \in Snapshot /\ run'.game = run.game /\ run'.status = run.status
          /\ run'.version = run.version + 1 /\ run'.version <= MaxVersion /\ run' # run
        BY <2>2, RunSteps, CurrentNumbers
    <3>2. /\ touched' = touched \cup {run.game}
          /\ \/ updater' = [updater EXCEPT ![u] = [pc |-> "answered", snap |-> run']]
             \/ updater' = [updater EXCEPT ![u] = NoUpdate]
        BY <2>2, <3>1 DEF UpdateExecute
    <3>3. UpdaterMoves(u, "answered", run') \/ UpdaterMoves(u, "idle", DefaultSnapshot)
      <4>1. updater \in [Updaters -> Updates]
          BY DEF TypeOK, Updates
      <4>2. run' \in Snapshot /\ DefaultSnapshot \in Snapshot
          BY <3>1, Snapshots
      <4> QED BY <3>2, <4>1, <4>2 DEF UpdaterMoves, Updates, NoUpdate
    <3> QED BY <2>2, <3>1, <3>2, <3>3 DEF UpdateExecute
  <2> QED BY <2>1, <2>2 DEF UpdateExecute
<1>2. up = "Serving"
    BY <1>1 DEF Processes, UpdaterOK
<1>3. run.status = "Running" => run.game \in Games
  <2>1. run.game \in 0..MaxGames
      BY DEF TypeOK, Snapshot
  <2> QED BY <2>1 DEF Execution
<1>4. TypeOK'
    BY <1>1, <1>2, <1>3, CurrentNumbers DEF TypeOK, Requests, Updates, Observers, UpdaterMoves
<1>5. /\ run' \in Snapshot /\ run'.game \in Nat /\ run'.version \in Nat
      /\ board' \in Snapshot /\ board'.game \in Nat /\ board'.version \in Nat
    BY <1>4, Numbers DEF TypeOK
<1>6. Execution'
    BY <1>1 DEF Execution
<1>7. RunningGameHeld'
    BY <1>1 DEF RunningGameHeld
<1>8. Board'
    BY <1>1, CurrentNumbers DEF Board
<1>9. Restoration'
    BY <1>1, <1>2, <1>3, <1>4 DEF Restoration
<1>10. Exclusive' /\ ActiveIsWatched'
    BY <1>1 DEF Exclusive, ActiveIsWatched, InFlight, Watched
<1>11. Processes'
  <2>1. ASSUME NEW x \in Starters PROVE StarterOK(x)'
      BY <1>1 DEF StarterOK, Processes, InFlight
  <2>2. ASSUME NEW x \in Games PROVE ObserverOK(x)'
      BY <1>1, CurrentNumbers DEF ObserverOK, Processes, Watched
  <2>3. ASSUME NEW x \in Updaters PROVE UpdaterOK(x)'
      BY <1>1, CurrentNumbers DEF UpdaterOK, Processes, UpdaterMoves
  <2> QED BY <2>1, <2>2, <2>3 DEF Processes
<1> QED BY <1>4, <1>6, <1>7, <1>8, <1>9, <1>10, <1>11

LEMMA UpdatePublishKeepsCInv ==
    ASSUME CInv, NEW u \in Updaters, UpdatePublish(u)
    PROVE  CInv'
<1> USE ControllerAssumption DEF CInv, NoGame, Games
<1>1. /\ updater[u].pc = "answered" /\ UpdaterMoves(u, "written", updater[u].snap)
      /\ board' = updater[u].snap /\ board' \in Snapshot
      /\ UNCHANGED <<run, up, active, feed, starter, observer, resumed, games, crashes, lost, touched>>
    BY UpdateSteps DEF UpdatePublish, TypeOK
<1>2. /\ up = "Serving" /\ board'.game \in touched /\ board'.game \in Games /\ board'.status = "Running"
      /\ board'.game = run.game => board'.version <= run.version
    BY <1>1 DEF Processes, UpdaterOK, TypeOK
<1>3. TypeOK'
    BY <1>1 DEF TypeOK, Updates, UpdaterMoves
<1>4. /\ run' \in Snapshot /\ run'.game \in Nat /\ run'.version \in Nat
      /\ board' \in Snapshot /\ board'.game \in Nat /\ board'.version \in Nat
    BY <1>3, Numbers DEF TypeOK
<1>5. Execution'
    BY <1>1, <1>2 DEF Execution
<1>6. RunningGameHeld'
    BY <1>1 DEF RunningGameHeld
<1>7. Board'
    BY <1>1, <1>2 DEF Board
<1>8. Restoration'
    BY <1>1, <1>2, <1>3, <1>4 DEF Restoration
<1>9. Exclusive' /\ ActiveIsWatched'
    BY <1>1 DEF Exclusive, ActiveIsWatched, InFlight, Watched
<1>10. Processes'
  <2>1. ASSUME NEW x \in Starters PROVE StarterOK(x)'
      BY <1>1, <1>2 DEF StarterOK, Processes, InFlight
  <2>2. ASSUME NEW x \in Games PROVE ObserverOK(x)'
      BY <1>1, <1>2 DEF ObserverOK, Processes, Watched
  <2>3. ASSUME NEW x \in Updaters PROVE UpdaterOK(x)'
      BY <1>1 DEF UpdaterOK, Processes, UpdaterMoves
  <2> QED BY <2>1, <2>2, <2>3 DEF Processes
<1> QED BY <1>3, <1>5, <1>6, <1>7, <1>8, <1>9, <1>10

LEMMA UpdateSendKeepsCInv ==
    ASSUME CInv, NEW u \in Updaters, UpdateSend(u)
    PROVE  CInv'
<1> USE ControllerAssumption DEF CInv, NoGame, Games
<1>1. /\ updater[u].pc = "written" /\ UpdaterMoves(u, "idle", DefaultSnapshot) /\ feed' \in Snapshot
      /\ UNCHANGED <<run, up, active, board, starter, observer, resumed, games, crashes, lost, touched>>
    BY Snapshots DEF UpdateSend, TypeOK, UpdaterMoves, Updates, NoUpdate
<1>2. TypeOK'
    BY <1>1 DEF TypeOK, Updates, UpdaterMoves
<1>3. /\ run' \in Snapshot /\ run'.game \in Nat /\ run'.version \in Nat
      /\ board' \in Snapshot /\ board'.game \in Nat /\ board'.version \in Nat
    BY <1>2, Numbers DEF TypeOK
<1>4. Execution'
    BY <1>1 DEF Execution
<1>5. RunningGameHeld'
    BY <1>1 DEF RunningGameHeld
<1>6. Board'
    BY <1>1 DEF Board
<1>7. Restoration'
    BY <1>1, <1>2, <1>3, <1>4 DEF Restoration
<1>8. Exclusive' /\ ActiveIsWatched'
    BY <1>1 DEF Exclusive, ActiveIsWatched, InFlight, Watched
<1>9. Processes'
  <2>1. ASSUME NEW x \in Starters PROVE StarterOK(x)'
      BY <1>1 DEF StarterOK, Processes, InFlight
  <2>2. ASSUME NEW x \in Games PROVE ObserverOK(x)'
      BY <1>1 DEF ObserverOK, Processes, Watched
  <2>3. ASSUME NEW x \in Updaters PROVE UpdaterOK(x)'
      BY <1>1 DEF UpdaterOK, Processes, UpdaterMoves
  <2> QED BY <2>1, <2>2, <2>3 DEF Processes
<1> QED BY <1>2, <1>4, <1>5, <1>6, <1>7, <1>8, <1>9

-----------------------------------------------------------------------------
(* observe_workflow. *)

LEMMA ObserverWaitsKeepsCInv ==
    ASSUME CInv, NEW g \in Games, ObserverCheck(g) \/ ObserverError(g) \/ ObserverWake(g)
    PROVE  CInv'
<1> USE ControllerAssumption DEF CInv, NoGame, Games
<1>1. /\ observer[g].pc \in {"check", "query", "sleep"}
      /\ \E pc \in {"check", "query", "sleep"} : ObserverMoves(g, pc, observer[g].snap)
      /\ UNCHANGED <<run, up, active, board, feed, starter, updater, resumed, games, crashes, lost, touched>>
    BY ObserverSteps
       DEF ObserverCheck, ObserverError, ObserverWake, Processes, ObserverOK, Watched
<1>2. Watched(g) /\ active = g /\ run.game = g /\ up = "Serving"
    BY <1>1 DEF Processes, ObserverOK, Watched
<1>3. /\ \A s \in Starters : starter[s].pc = "idle"
      /\ \A h \in Games : h # g => observer[h].pc = "none" /\ observer'[h].pc = "none"
    BY <1>1 DEF Exclusive, InFlight, Processes, ObserverOK, Watched, ObserverMoves
<1>4. TypeOK'
    BY <1>1 DEF TypeOK, Observers, ObserverMoves
<1>5. /\ run' \in Snapshot /\ run'.game \in Nat /\ run'.version \in Nat
      /\ board' \in Snapshot /\ board'.game \in Nat /\ board'.version \in Nat
    BY <1>4, Numbers DEF TypeOK
<1>6. Execution'
    BY <1>1 DEF Execution
<1>7. RunningGameHeld'
    BY <1>1 DEF RunningGameHeld
<1>8. Board'
    BY <1>1 DEF Board
<1>9. Restoration'
    BY <1>1, <1>2, <1>3, <1>4 DEF Restoration
<1>10. Exclusive' /\ ActiveIsWatched'
    BY <1>1, <1>2 DEF Exclusive, ActiveIsWatched, InFlight, ObserverMoves
<1>11. Processes'
  <2>1. ASSUME NEW x \in Starters PROVE StarterOK(x)'
      BY <1>1 DEF StarterOK, Processes, InFlight
  <2>2. ASSUME NEW x \in Games PROVE ObserverOK(x)'
      BY <1>1, <1>3, <1>5 DEF ObserverOK, Processes, Watched, ObserverMoves
  <2>3. ASSUME NEW x \in Updaters PROVE UpdaterOK(x)'
      BY <1>1 DEF UpdaterOK, Processes
  <2> QED BY <2>1, <2>2, <2>3 DEF Processes
<1> QED BY <1>4, <1>6, <1>7, <1>8, <1>9, <1>10, <1>11

LEMMA ObserverQueryKeepsCInv ==
    ASSUME CInv, NEW g \in Games, ObserverQuery(g)
    PROVE  CInv'
<1> USE ControllerAssumption DEF CInv, NoGame, Games
<1>1. /\ observer[g].pc = "query" /\ ObserverMoves(g, "answered", run)
      /\ UNCHANGED <<run, up, active, board, feed, starter, updater, resumed, games, crashes, lost, touched>>
    BY DEF ObserverQuery, TypeOK, ObserverMoves, Observers
<1>2. Watched(g) /\ active = g /\ run.game = g /\ up = "Serving"
    BY <1>1 DEF Processes, ObserverOK, Watched
<1>3. /\ \A s \in Starters : starter[s].pc = "idle"
      /\ \A h \in Games : h # g => observer[h].pc = "none" /\ observer'[h].pc = "none"
    BY <1>1 DEF Exclusive, InFlight, Processes, ObserverOK, Watched, ObserverMoves
<1>4. TypeOK'
    BY <1>1 DEF TypeOK, Observers, ObserverMoves
<1>5. /\ run' \in Snapshot /\ run'.game \in Nat /\ run'.version \in Nat
      /\ board' \in Snapshot /\ board'.game \in Nat /\ board'.version \in Nat
    BY <1>4, Numbers DEF TypeOK
<1>6. Execution'
    BY <1>1 DEF Execution
<1>7. RunningGameHeld'
    BY <1>1 DEF RunningGameHeld
<1>8. Board'
    BY <1>1 DEF Board
<1>9. Restoration'
    BY <1>1, <1>2, <1>3, <1>4 DEF Restoration
<1>10. Exclusive' /\ ActiveIsWatched'
    BY <1>1, <1>2 DEF Exclusive, ActiveIsWatched, InFlight, ObserverMoves
<1>11. Processes'
  <2>1. ASSUME NEW x \in Starters PROVE StarterOK(x)'
      BY <1>1 DEF StarterOK, Processes, InFlight
  <2>2. ASSUME NEW x \in Games PROVE ObserverOK(x)'
      BY <1>1, <1>3, <1>8, CurrentNumbers
         DEF ObserverOK, Processes, Execution, Board, Watched, ObserverMoves
  <2>3. ASSUME NEW x \in Updaters PROVE UpdaterOK(x)'
      BY <1>1 DEF UpdaterOK, Processes
  <2> QED BY <2>1, <2>2, <2>3 DEF Processes
<1> QED BY <1>4, <1>6, <1>7, <1>8, <1>9, <1>10, <1>11

LEMMA ObserverPublishKeepsCInv ==
    ASSUME CInv, NEW g \in Games, ObserverPublish(g)
    PROVE  CInv'
<1> USE ControllerAssumption DEF CInv, NoGame, Games
<1>1. /\ observer[g].pc = "answered" /\ ObserverMoves(g, "written", observer[g].snap)
      /\ board' = observer[g].snap /\ board' \in Snapshot
      /\ UNCHANGED <<run, up, active, feed, starter, updater, resumed, games, crashes, lost, touched>>
    BY ObserverSteps DEF ObserverPublish, TypeOK
<1>2. Watched(g) /\ active = g /\ run.game = g /\ up = "Serving"
    BY <1>1 DEF Processes, ObserverOK, Watched
<1>3. /\ \A s \in Starters : starter[s].pc = "idle"
      /\ \A h \in Games : h # g => observer[h].pc = "none" /\ observer'[h].pc = "none"
    BY <1>1 DEF Exclusive, InFlight, Processes, ObserverOK, Watched, ObserverMoves
<1>4. TypeOK'
    BY <1>1 DEF TypeOK, Observers, ObserverMoves
<1>5. /\ run' \in Snapshot /\ run'.game \in Nat /\ run'.version \in Nat
      /\ board' \in Snapshot /\ board'.game \in Nat /\ board'.version \in Nat
    BY <1>4, Numbers DEF TypeOK
<1>6. Execution'
    BY <1>1 DEF Execution, Processes, ObserverOK, Watched
<1>7. RunningGameHeld'
    BY <1>1 DEF RunningGameHeld
<1>8. Board'
    BY <1>1, <1>2 DEF Board, Processes, ObserverOK
<1>9. Restoration'
    BY <1>1, <1>2, <1>3, <1>4 DEF Restoration
<1>10. Exclusive' /\ ActiveIsWatched'
    BY <1>1, <1>2 DEF Exclusive, ActiveIsWatched, InFlight, ObserverMoves
<1>11. Processes'
  <2>1. ASSUME NEW x \in Starters PROVE StarterOK(x)'
      BY <1>1, <1>3 DEF StarterOK, InFlight
  <2>2. ASSUME NEW x \in Games PROVE ObserverOK(x)'
      BY <1>1, <1>4, <1>5, <1>6, <1>7, <1>8, <1>9, <1>10
         DEF ObserverOK, Processes, Watched, ObserverMoves
  <2>3. ASSUME NEW x \in Updaters PROVE UpdaterOK(x)'
      BY <1>1 DEF UpdaterOK, Processes
  <2> QED BY <2>1, <2>2, <2>3 DEF Processes
<1> QED BY <1>4, <1>6, <1>7, <1>8, <1>9, <1>10, <1>11

LEMMA ObserverSendKeepsCInv ==
    ASSUME CInv, NEW g \in Games, ObserverSend(g)
    PROVE  CInv'
<1> USE ControllerAssumption DEF CInv, NoGame, Games
<1>1. /\ observer[g].pc = "written"
      /\ \/ observer[g].snap.status = "Finished" /\ ObserverMoves(g, "clear", observer[g].snap)
         \/ observer[g].snap.status # "Finished" /\ ObserverMoves(g, "sleep", observer[g].snap)
      /\ feed' \in Snapshot
      /\ UNCHANGED <<run, up, active, board, starter, updater, resumed, games, crashes, lost, touched>>
    BY ObserverSteps DEF ObserverSend, TypeOK
<1>2. Watched(g) /\ active = g /\ run.game = g /\ up = "Serving"
    BY <1>1 DEF Processes, ObserverOK, Watched
<1>3. /\ \A s \in Starters : starter[s].pc = "idle"
      /\ \A h \in Games : h # g => observer[h].pc = "none" /\ observer'[h].pc = "none"
    BY <1>1 DEF Exclusive, InFlight, Processes, ObserverOK, Watched, ObserverMoves
<1>4. TypeOK'
    BY <1>1 DEF TypeOK, Observers, ObserverMoves
<1>5. /\ run' \in Snapshot /\ run'.game \in Nat /\ run'.version \in Nat
      /\ board' \in Snapshot /\ board'.game \in Nat /\ board'.version \in Nat
    BY <1>4, Numbers DEF TypeOK
<1>6. Execution'
    BY <1>1 DEF Execution
<1>7. RunningGameHeld'
    BY <1>1 DEF RunningGameHeld
<1>8. Board'
    BY <1>1 DEF Board
<1>9. Restoration'
    BY <1>1, <1>2, <1>3, <1>4 DEF Restoration
<1>10. Exclusive' /\ ActiveIsWatched'
    BY <1>1, <1>2 DEF Exclusive, ActiveIsWatched, InFlight, ObserverMoves
<1>11. Processes'
  <2>1. ASSUME NEW x \in Starters PROVE StarterOK(x)'
      BY <1>1 DEF StarterOK, Processes, InFlight
  <2>2. ASSUME NEW x \in Games PROVE ObserverOK(x)'
      BY <1>1, <1>3, <1>4, <1>5, <1>6, <1>7, <1>8, <1>9, <1>10
         DEF ObserverOK, Processes, Watched, ObserverMoves
  <2>3. ASSUME NEW x \in Updaters PROVE UpdaterOK(x)'
      BY <1>1 DEF UpdaterOK, Processes
  <2> QED BY <2>1, <2>2, <2>3 DEF Processes
<1> QED BY <1>4, <1>6, <1>7, <1>8, <1>9, <1>10, <1>11

LEMMA ObserverClearKeepsCInv ==
    ASSUME CInv, NEW g \in Games, ObserverClear(g)
    PROVE  CInv'
<1> USE ControllerAssumption DEF CInv, NoGame, Games
<1>1. /\ observer[g].pc = "clear" /\ ObserverMoves(g, "none", DefaultSnapshot)
      /\ active' = IF active = g THEN NoGame ELSE active
      /\ UNCHANGED <<run, up, board, feed, starter, updater, resumed, games, crashes, lost, touched>>
    BY Snapshots DEF ObserverClear, Released, TypeOK, ObserverMoves, Observers, NotWatching
<1>2. Watched(g) /\ active = g /\ run.game = g /\ up = "Serving"
    BY <1>1 DEF Processes, ObserverOK, Watched
<1>3. /\ \A s \in Starters : starter[s].pc = "idle"
      /\ \A h \in Games : h # g => observer[h].pc = "none" /\ observer'[h].pc = "none"
    BY <1>1 DEF Exclusive, InFlight, Processes, ObserverOK, Watched, ObserverMoves
<1>4. run.status = "Finished" /\ active' = NoGame
    BY <1>1, <1>2 DEF Processes, ObserverOK
<1>5. TypeOK'
    BY <1>1 DEF TypeOK, Observers, ObserverMoves
<1>6. /\ run' \in Snapshot /\ run'.game \in Nat /\ run'.version \in Nat
      /\ board' \in Snapshot /\ board'.game \in Nat /\ board'.version \in Nat
    BY <1>5, Numbers DEF TypeOK
<1>7. Execution'
    BY <1>1, CurrentNumbers DEF Execution
<1>8. RunningGameHeld'
    BY <1>1, <1>4 DEF RunningGameHeld
<1>9. Board'
    BY <1>1 DEF Board
<1>10. Restoration'
    BY <1>1, <1>2, <1>3, <1>4 DEF Restoration
<1>11. Exclusive' /\ ActiveIsWatched'
    BY <1>1, <1>4 DEF Exclusive, ActiveIsWatched, InFlight, Watched
<1>12. Processes'
  <2>1. ASSUME NEW x \in Starters PROVE StarterOK(x)'
      BY <1>1, <1>3 DEF StarterOK, InFlight
  <2>2. ASSUME NEW x \in Games PROVE ObserverOK(x)'
      BY <1>1, <1>4 DEF ObserverOK, Processes, Watched, ObserverMoves
  <2>3. ASSUME NEW x \in Updaters PROVE UpdaterOK(x)'
      BY <1>1 DEF UpdaterOK, Processes
  <2> QED BY <2>1, <2>2, <2>3 DEF Processes
<1> QED BY <1>5, <1>7, <1>8, <1>9, <1>10, <1>11, <1>12

-----------------------------------------------------------------------------
(* Crash and restart. *)

LEMMA CrashKeepsCInv ==
    ASSUME CInv, Crash
    PROVE  CInv'
<1> USE ControllerAssumption DEF CInv, NoGame, Games
<1>1. /\ up' = "Down" /\ active' = NoGame /\ UNCHANGED <<games, lost, touched>>
      /\ board' = DefaultSnapshot /\ feed' = DefaultSnapshot /\ resumed' = DefaultSnapshot
      /\ crashes' \in 0..MaxCrashes
      /\ \A s \in Starters : starter'[s].pc = "idle"
      /\ \A u \in Updaters : updater'[u].pc = "idle"
      /\ \A g \in Games : observer'[g].pc = "none"
    BY DEF Crash, TypeOK, Idle, NoUpdate, NotWatching
<1>2. /\ starter' \in [Starters -> Requests] /\ updater' \in [Updaters -> Updates]
      /\ observer' \in [Games -> Observers]
  <2>1. Idle \in Requests /\ NoUpdate \in Updates /\ NotWatching \in Observers
      BY Snapshots DEF Idle, NoUpdate, NotWatching, Requests, Updates, Observers
  <2> QED BY <2>1 DEF Crash
<1>3. run' = run \/ \E g \in Games : run' = Begun(g) /\ g <= games
    BY DEF Crash, Processes, StarterOK, InFlight, Execution
<1>4. /\ run' \in Snapshot /\ run'.game <= games
      /\ run'.status = "Running" => run'.version <= MaxVersion /\ run'.game # NoGame
      /\ board' \in Snapshot
    BY <1>1, <1>3, Snapshots DEF TypeOK, Execution, Begun
<1>5. board'.game = NoGame /\ board'.version = 0 /\ board'.status = "Waiting"
    BY <1>1, Snapshots
<1>6. TypeOK'
    BY <1>1, <1>2, <1>4 DEF TypeOK, Requests, Updates, Observers
<1>7. /\ run' \in Snapshot /\ run'.game \in Nat /\ run'.version \in Nat
      /\ board' \in Snapshot /\ board'.game \in Nat /\ board'.version \in Nat
    BY <1>6, Numbers DEF TypeOK
<1>8. Execution'
    BY <1>1, <1>4, <1>5, CurrentNumbers DEF Execution
<1>9. RunningGameHeld'
    BY <1>1 DEF RunningGameHeld
<1>10. Board'
    BY <1>1, <1>5, <1>7 DEF Board
<1>11. Restoration'
    BY <1>1, <1>2, <1>3, <1>4, <1>5 DEF Restoration
<1>12. Exclusive' /\ ActiveIsWatched'
    BY <1>1, <1>2 DEF Exclusive, ActiveIsWatched, InFlight
<1>13. Processes'
  <2>1. ASSUME NEW x \in Starters PROVE StarterOK(x)'
      BY <1>1 DEF StarterOK, InFlight
  <2>2. ASSUME NEW x \in Games PROVE ObserverOK(x)'
      BY <1>1 DEF ObserverOK, Watched
  <2>3. ASSUME NEW x \in Updaters PROVE UpdaterOK(x)'
      BY <1>1 DEF UpdaterOK
  <2> QED BY <2>1, <2>2, <2>3 DEF Processes
<1> QED BY <1>6, <1>8, <1>9, <1>10, <1>11, <1>12, <1>13

LEMMA ResumeKeepsCInv ==
    ASSUME CInv, Restart \/ ResumeQuery \/ ResumeError
    PROVE  CInv'
<1> USE ControllerAssumption DEF CInv, NoGame, Games
<1>1. /\ up \in {"Down", "Resuming"}
      /\ \/ up' = "Resuming" /\ UNCHANGED <<active, resumed, lost>>
         \/ /\ up' = "Serving" /\ lost' = IF run.status = "Running" THEN run.game ELSE lost
            /\ UNCHANGED <<active, resumed>>
         \/ /\ up' = "Restored" /\ run.game # NoGame /\ resumed' = run /\ lost' = NoGame
            /\ active' = IF run.status = "Running" THEN run.game ELSE active
      /\ UNCHANGED <<run, board, feed, starter, updater, observer, games, crashes, touched>>
    BY DEF Restart, ResumeQuery, ResumeError, process
<1>2. up # "Serving" => /\ \A s \in Starters : starter[s].pc = "idle"
                        /\ \A g \in Games : observer[g].pc = "none"
                        /\ \A u \in Updaters : updater[u].pc = "idle"
    BY DEF Processes, StarterOK, ObserverOK, UpdaterOK, InFlight, Watched
<1>3. active = NoGame /\ up # "Serving"
    BY <1>1 DEF Restoration
<1>4. lost' \in 0..MaxGames
    BY <1>1 DEF TypeOK, Snapshot
<1>5. resumed' \in Snapshot /\ active' \in 0..MaxGames
    BY <1>1 DEF TypeOK, Snapshot
<1>6. TypeOK'
    BY <1>1, <1>2, <1>4, <1>5 DEF TypeOK
<1>7. /\ run' \in Snapshot /\ run'.game \in Nat /\ run'.version \in Nat
      /\ board' \in Snapshot /\ board'.game \in Nat /\ board'.version \in Nat
    BY <1>6, Numbers DEF TypeOK
<1>8. Execution'
    BY <1>1 DEF Execution
<1>9. RunningGameHeld'
    BY <1>1, <1>2, <1>3, <1>4, <1>5, <1>6, <1>7, <1>8, CurrentNumbers
       DEF Execution, RunningGameHeld, Processes, StarterOK, ObserverOK, InFlight, Watched
<1>10. Board'
    BY <1>1 DEF Board
<1>11. Restoration'
    BY <1>1, <1>2, <1>3, <1>4, <1>5, CurrentNumbers DEF Restoration
<1>12. Exclusive' /\ ActiveIsWatched'
    BY <1>1, <1>2 DEF Exclusive, ActiveIsWatched, InFlight
<1>13. Processes'
  <2>1. ASSUME NEW x \in Starters PROVE StarterOK(x)'
      BY <1>1 DEF StarterOK, Processes, InFlight
  <2>2. ASSUME NEW x \in Games PROVE ObserverOK(x)'
      BY <1>1 DEF ObserverOK, Processes, Watched
  <2>3. ASSUME NEW x \in Updaters PROVE UpdaterOK(x)'
      BY <1>1 DEF UpdaterOK, Processes
  <2> QED BY <2>1, <2>2, <2>3 DEF Processes
<1> QED BY <1>6, <1>8, <1>9, <1>10, <1>11, <1>12, <1>13

LEMMA ResumePublishKeepsCInv ==
    ASSUME CInv, ResumePublish
    PROVE  CInv'
<1> USE ControllerAssumption DEF CInv, NoGame, Games
<1>1. /\ up = "Restored" /\ up' = "Serving" /\ board' = resumed /\ feed' = resumed
      /\ UNCHANGED <<run, active, starter, updater, resumed, games, crashes, lost, touched>>
    BY DEF ResumePublish
<1>2. up # "Serving" => /\ \A s \in Starters : starter[s].pc = "idle"
                        /\ \A g \in Games : observer[g].pc = "none"
                        /\ \A u \in Updaters : updater[u].pc = "idle"
    BY DEF Processes, StarterOK, ObserverOK, UpdaterOK, InFlight, Watched
<1>3. /\ resumed \in Snapshot /\ resumed.game \in Games /\ resumed.game = run.game
    BY <1>1 DEF Restoration, TypeOK, Snapshot
<1>4. \/ resumed.status = "Running" /\ ObserverMoves(resumed.game, "check", observer[resumed.game].snap)
      \/ resumed.status # "Running" /\ observer' = observer
    BY <1>3 DEF ResumePublish, TypeOK, ObserverMoves, Observers
<1>5. /\ run.status = "Running" => resumed.status = "Running"
      /\ resumed.version <= run.version
      /\ resumed.status = "Finished" => resumed = run
      /\ active = IF resumed.status = "Running" THEN resumed.game ELSE NoGame
    BY <1>1 DEF Restoration
<1>6. TypeOK'
    BY <1>1, <1>4 DEF TypeOK, Observers, ObserverMoves
<1>7. /\ run' \in Snapshot /\ run'.game \in Nat /\ run'.version \in Nat
      /\ board' \in Snapshot /\ board'.game \in Nat /\ board'.version \in Nat
    BY <1>6, Numbers DEF TypeOK
<1>8. Execution'
    BY <1>1, <1>3 DEF Execution
<1>9. RunningGameHeld'
    BY <1>1, <1>3, <1>5 DEF RunningGameHeld
<1>10. Board'
    BY <1>1, <1>3, <1>5 DEF Board
<1>11. Restoration'
    BY <1>1, <1>2, <1>3, <1>4 DEF Restoration
<1>12. Exclusive' /\ ActiveIsWatched'
    BY <1>1, <1>2, <1>4, <1>5 DEF Exclusive, ActiveIsWatched, InFlight, ObserverMoves
<1>13. Processes'
  <2>1. ASSUME NEW x \in Starters PROVE StarterOK(x)'
      BY <1>1 DEF StarterOK, Processes, InFlight
  <2>2. ASSUME NEW x \in Games PROVE ObserverOK(x)'
      BY <1>1, <1>3, <1>4, <1>5, <1>6, <1>8 DEF ObserverOK, Processes, Watched, ObserverMoves
  <2>3. ASSUME NEW x \in Updaters PROVE UpdaterOK(x)'
      BY <1>1 DEF UpdaterOK, Processes
  <2> QED BY <2>1, <2>2, <2>3 DEF Processes
<1> QED BY <1>6, <1>8, <1>9, <1>10, <1>11, <1>12, <1>13

-----------------------------------------------------------------------------
(* The theorems. *)

LEMMA NextKeepsCInv == CInv /\ [Next]_vars => CInv'
<1> SUFFICES ASSUME CInv, [Next]_vars PROVE CInv'
    OBVIOUS
<1>1. CASE UNCHANGED vars
    BY <1>1 DEF vars, process, CInv, TypeOK, Processes, StarterOK, ObserverOK, UpdaterOK,
                Exclusive, Execution, Board, Restoration, ActiveIsWatched, RunningGameHeld,
                InFlight, Watched
<1>2. CASE \E s \in Starters : \/ Reserve(s) \/ StartWorkflow(s) \/ Release(s)
                               \/ StartPublish(s) \/ StartObserved(s)
    BY <1>2, ReserveKeepsCInv, StartWorkflowKeepsCInv, ReleaseKeepsCInv,
       StartPublishKeepsCInv, StartObservedKeepsCInv
<1>3. CASE \E u \in Updaters : \/ UpdateCheck(u) \/ UpdateExecute(u)
                               \/ UpdatePublish(u) \/ UpdateSend(u)
    BY <1>3, UpdateCheckKeepsCInv, UpdateExecuteKeepsCInv, UpdatePublishKeepsCInv,
       UpdateSendKeepsCInv
<1>4. CASE \E g \in Games : Observe(g)
    BY <1>4, ObserverWaitsKeepsCInv, ObserverQueryKeepsCInv, ObserverPublishKeepsCInv,
       ObserverSendKeepsCInv, ObserverClearKeepsCInv DEF Observe
<1>5. CASE RunProgress \/ RunFinish
    BY <1>5, RunKeepsCInv
<1>6. CASE Crash \/ Restart \/ ResumeQuery \/ ResumeError \/ ResumePublish
    BY <1>6, CrashKeepsCInv, ResumeKeepsCInv, ResumePublishKeepsCInv
<1> QED BY <1>1, <1>2, <1>3, <1>4, <1>5, <1>6 DEF Next

LEMMA AlwaysCInv == Spec => []CInv
BY InitCInv, NextKeepsCInv, PTL DEF Spec

\* Whatever requests race, fail or are cut off by a crash, the single-game slot
\* is held by one of them, or by one observer of its own game (start_game,
\* observe_workflow, resume_active_game).
THEOREM SlotAlwaysKept == Spec => []SlotKept
<1>1. CInv => SlotKept
  <2> SUFFICES ASSUME CInv PROVE SlotKept
      OBVIOUS
  <2> USE DEF CInv
  <2>1. SlotHeldByOne
      BY DEF SlotHeldByOne, Processes, StarterOK, Exclusive
  <2>2. ObserverReadsItsGame
      BY DEF ObserverReadsItsGame, Processes, ObserverOK, Watched
  <2> QED BY <2>1, <2>2 DEF SlotKept
<1> QED BY <1>1, AlwaysCInv, PTL

\* A running game can be reached by the operator, unless the controller was never
\* told that it runs.
THEOREM RunningGamesAreHeld == Spec => []RunningGameHeld
<1>1. CInv => RunningGameHeld
    BY DEF CInv
<1> QED BY <1>1, AlwaysCInv, PTL

LEMMA BoardSteps ==
    ASSUME CInv, Next, board' # board, board'.game = board.game
    PROVE  /\ board.game \notin touched => board'.version >= board.version
           /\ board.status = "Finished" => LateReply
<1> USE ControllerAssumption, CurrentNumbers DEF CInv
<1>1. ASSUME NEW s \in Starters, StartPublish(s)
      PROVE  board.game \in touched /\ board.status # "Finished"
  <2>1. starter[s].pc = "started" /\ board' = Starting(starter[s].game)
      BY <1>1 DEF StartPublish, StartStep
  <2>2. board.game = starter[s].game
      BY <2>1 DEF Starting
  <2> QED BY <2>1, <2>2 DEF Processes, StarterOK, InFlight
<1>2. ASSUME NEW u \in Updaters, UpdatePublish(u)
      PROVE  board.game \in touched /\ LateReply
  <2>1. /\ updater[u].pc = "answered" /\ board' = updater[u].snap
        /\ UpdaterMoves(u, "written", updater[u].snap)
      BY <1>2, UpdateSteps DEF UpdatePublish
  <2> QED BY <2>1 DEF LateReply, UpdaterMoves, Processes, UpdaterOK
<1>3. ASSUME NEW g \in Games, ObserverPublish(g)
      PROVE  /\ board.game \notin touched => board'.version >= board.version
             /\ board.status # "Finished"
  <2>1. observer[g].pc = "answered" /\ board' = observer[g].snap
      BY <1>3 DEF ObserverPublish, ObserverStep
  <2>2. board.game = g
      BY <2>1 DEF Processes, ObserverOK, Watched
  <2> QED BY <2>1, <2>2 DEF Processes, ObserverOK, Watched
<1>4. ~Crash /\ ~ResumePublish
  <2>1. board.game = NoGame => board = DefaultSnapshot
      BY DEF Board
  <2>2. ASSUME Crash PROVE FALSE
      BY <2>1, <2>2, Snapshots DEF Crash
  <2>3. ASSUME ResumePublish PROVE FALSE
      BY <2>3, Snapshots DEF ResumePublish, Restoration
  <2> QED BY <2>2, <2>3
<1>5. \/ \E s \in Starters : StartPublish(s)
      \/ \E u \in Updaters : UpdatePublish(u)
      \/ \E g \in Games : ObserverPublish(g)
  <2>1. ~RunProgress /\ ~RunFinish /\ ~Restart /\ ~ResumeQuery /\ ~ResumeError
      BY DEF RunProgress, RunFinish, Restart, ResumeQuery, ResumeError
  <2>2. \A s \in Starters : ~Reserve(s) /\ ~StartWorkflow(s) /\ ~Release(s) /\ ~StartObserved(s)
      BY DEF Reserve, StartWorkflow, Release, StartObserved
  <2>3. \A u \in Updaters : ~UpdateCheck(u) /\ ~UpdateExecute(u) /\ ~UpdateSend(u)
      BY DEF UpdateCheck, UpdateExecute, UpdateSend
  <2>4. \A g \in Games : Observe(g) => ObserverPublish(g)
      BY DEF Observe, ObserverCheck, ObserverQuery, ObserverError, ObserverSend, ObserverClear,
             ObserverWake
  <2> QED BY <1>4, <2>1, <2>2, <2>3, <2>4 DEF Next
<1> QED BY <1>1, <1>2, <1>3, <1>5

\* The published board of one game moves forward, and the finished one stays, but
\* for the late reply of an Update (publish, called by every handler and task).
THEOREM BoardsMoveForward == Spec => BoardMonotone
<1> DEFINE Step == board'.game = board.game =>
                       /\ board.game \notin touched => board'.version >= board.version
                       /\ board.status = "Finished" => board' = board \/ LateReply
<1>1. CInv /\ [Next]_vars => [Step]_vars
  <2> SUFFICES ASSUME CInv, Next PROVE Step
      OBVIOUS
  <2>1. CASE board' = board
      BY <2>1, CurrentNumbers DEF CInv
  <2>2. CASE board' # board
      BY <2>2, BoardSteps
  <2> QED BY <2>1, <2>2
<1> QED BY <1>1, AlwaysCInv, PTL DEF Spec, BoardMonotone
-----------------------------------------------------------------------------
(* The controller implements the one-game slot. *)

Playing == run.status = "Running"
Serving == up = "Serving"

\* What the slot is made of; a step that leaves it alone is a stutter.
SlotState == <<games, active, run.game, Playing, Serving, lost>>

LEMMA RunStepsOfSlot ==
    ASSUME CInv, RunProgress \/ RunFinish
    PROVE  Slot!Finish \/ UNCHANGED SlotState
<1>1. CASE RunProgress
    BY <1>1, RunSteps, CurrentNumbers DEF RunProgress, process, SlotState, Playing, Serving, CInv
<1>2. CASE RunFinish
    BY <1>2 DEF RunFinish, process, Slot!Finish
<1> QED BY <1>1, <1>2

LEMMA StartStepsOfSlot ==
    ASSUME CInv, NEW s \in Starters,
           \/ Reserve(s) \/ StartWorkflow(s) \/ Release(s) \/ StartPublish(s) \/ StartObserved(s)
    PROVE  Slot!Take \/ Slot!Begin \/ Slot!Release \/ UNCHANGED SlotState
<1> USE DEF CInv
<1>1. CASE Reserve(s)
    BY <1>1, CurrentNumbers, ControllerAssumption
       DEF Reserve, SlotFree, NoGame, Slot!Take, Slot!Nobody
<1>2. CASE StartWorkflow(s)
  <2>1. /\ starter[s].pc = "reserved"
        /\ UNCHANGED <<up, active, games>>
        /\ \/ UNCHANGED <<run, lost>>
           \/ /\ run.status # "Running" /\ run' = Begun(starter[s].game)
              /\ lost' \in {lost, starter[s].game}
      BY <1>2 DEF StartWorkflow, StartStep
  <2>2. active = starter[s].game /\ run.game < active
      BY <2>1 DEF Processes, StarterOK, InFlight
  <2>3. CASE UNCHANGED <<run, lost>>
      BY <2>1, <2>3 DEF SlotState, Playing, Serving
  <2>4. CASE run.status # "Running" /\ run' = Begun(active) /\ lost' \in {lost, active}
    <3>1. run'.game = active /\ run'.status = "Running"
        BY <2>4 DEF Begun
    <3> QED BY <2>1, <2>2, <2>4, <3>1, CurrentNumbers DEF Slot!Begin, Slot!Begins
  <2> QED BY <2>1, <2>2, <2>3, <2>4
<1>3. CASE Release(s)
  <2>1. /\ starter[s].pc = "failed" /\ UNCHANGED <<games, run, up, lost>>
        /\ active' = IF active = starter[s].game THEN NoGame ELSE active
      BY <1>3 DEF Release, StartStep
  <2>2. /\ up = "Serving" /\ active = starter[s].game
        /\ run.game = active => lost = active
      BY <2>1 DEF Processes, StarterOK, InFlight
  <2> QED BY <2>1, <2>2 DEF Slot!Release, Slot!Nobody, NoGame
<1>4. CASE StartPublish(s) \/ StartObserved(s)
    BY <1>4 DEF StartPublish, StartObserved, SlotState, Playing, Serving
<1> QED BY <1>1, <1>2, <1>3, <1>4

LEMMA UpdateStepsOfSlot ==
    ASSUME CInv, NEW u \in Updaters,
           \/ UpdateCheck(u) \/ UpdateExecute(u) \/ UpdatePublish(u) \/ UpdateSend(u)
    PROVE  UNCHANGED SlotState
<1> USE DEF SlotState, Playing, Serving
<1>1. CASE UpdateExecute(u)
  <2>1. run' = run \/ (run' = Advanced /\ run.version < MaxVersion)
      BY <1>1 DEF UpdateExecute
  <2>2. run'.game = run.game /\ run'.status = run.status
      BY <2>1, RunSteps DEF CInv
  <2> QED BY <1>1, <2>2 DEF UpdateExecute
<1>2. CASE UpdateCheck(u) \/ UpdatePublish(u) \/ UpdateSend(u)
    BY <1>2 DEF UpdateCheck, UpdatePublish, UpdateSend
<1> QED BY <1>1, <1>2

LEMMA ObserverStepsOfSlot ==
    ASSUME CInv, NEW g \in Games, Observe(g)
    PROVE  Slot!Release \/ UNCHANGED SlotState
<1>1. CASE ObserverClear(g)
  <2>1. /\ observer[g].pc = "clear" /\ UNCHANGED <<games, run, up, lost>>
        /\ active' = IF active = g THEN NoGame ELSE active
      BY <1>1 DEF ObserverClear, Released
  <2>2. up = "Serving" /\ active = g /\ run.status = "Finished"
      BY <2>1 DEF CInv, Processes, ObserverOK, Watched
  <2> QED BY <2>1, <2>2 DEF Slot!Release, Slot!Nobody, NoGame
<1>2. CASE \/ ObserverCheck(g) \/ ObserverQuery(g) \/ ObserverError(g)
           \/ ObserverPublish(g) \/ ObserverSend(g) \/ ObserverWake(g)
    BY <1>2 DEF ObserverCheck, ObserverQuery, ObserverError, ObserverPublish, ObserverSend,
                ObserverWake, SlotState, Playing, Serving
<1> QED BY <1>1, <1>2 DEF Observe

LEMMA RestartStepsOfSlot ==
    ASSUME CInv, Crash \/ Restart \/ ResumeQuery \/ ResumeError \/ ResumePublish
    PROVE  Slot!Crash \/ Slot!Recover \/ Slot!Serve \/ UNCHANGED SlotState
<1> USE DEF CInv
<1>1. CASE Crash
  <2>1. /\ up' = "Down" /\ active' = NoGame /\ UNCHANGED <<games, lost>>
        /\ \/ run' = run
           \/ \E s \in Starters : /\ starter[s].pc = "reserved" /\ run.status # "Running"
                                  /\ run' = Begun(starter[s].game)
      BY <1>1 DEF Crash
  <2>2. ASSUME NEW s \in Starters, starter[s].pc = "reserved"
        PROVE  active = starter[s].game /\ run.game < active
      BY <2>2 DEF Processes, StarterOK, InFlight
  <2>3. \/ run' = run
        \/ /\ run.game < active /\ run.status # "Running"
           /\ run'.game = active /\ run'.status = "Running"
      BY <2>1, <2>2 DEF Begun
  <2> QED BY <2>1, <2>3, CurrentNumbers DEF Slot!Crash, Slot!Begins, Slot!Nobody, NoGame
<1>2. CASE Restart
    BY <1>2 DEF Restart, process, SlotState, Playing, Serving
<1>3. CASE ResumeQuery
    BY <1>3 DEF ResumeQuery, Slot!Recover, Slot!Nobody, NoGame
<1>4. CASE ResumeError
    BY <1>4 DEF ResumeError, process, Slot!Serve, Restoration, Execution
<1>5. CASE ResumePublish
  <2>1. run.status = "Running" => active = run.game
      BY <1>5 DEF ResumePublish, Restoration
  <2> QED BY <1>5, <2>1 DEF ResumePublish, Slot!Serve
<1> QED BY <1>1, <1>2, <1>3, <1>4, <1>5

\* Every step of the controller is a step of the one-game slot or leaves it
\* alone: games are played one at a time, once each and in order, and the slot is
\* let go of, or found empty after a restart, only when no game is being played
\* or the call that would have told the controller of it got no reply
\* (start_game, observe_workflow, resume_active_game).
THEOREM ImplementsGameSlot == Spec => SlotSpec
<1>1. Init => Slot!Init
    BY Snapshots DEF Init, Slot!Init, Slot!Nobody, NoGame
<1>2. CInv /\ [Next]_vars => [Slot!Next]_(Slot!slot)
  <2> SUFFICES ASSUME CInv, [Next]_vars PROVE Slot!Next \/ UNCHANGED SlotState
      BY DEF Slot!slot, SlotState, Playing, Serving
  <2>1. CASE UNCHANGED vars
      BY <2>1 DEF vars, SlotState, Playing, Serving
  <2>2. CASE Next
      BY <2>2, RunStepsOfSlot, StartStepsOfSlot, UpdateStepsOfSlot, ObserverStepsOfSlot,
         RestartStepsOfSlot DEF Next, Slot!Next
  <2> QED BY <2>1, <2>2
<1> QED BY <1>1, <1>2, AlwaysCInv, PTL DEF Spec, SlotSpec, Slot!Spec
=============================================================================

------------------------- MODULE BadgeWorkerProofs -------------------------
(***************************************************************************)
(* Proofs about BadgeWorker: for any number of rounds, questions and       *)
(* power-ups, any hold and any failure, a badge never asks a question it   *)
(* crashed on, its memory is its flash, what is on the screen is what the  *)
(* Activity asks, and no results are drawn for a game already left.        *)
(*                                                                         *)
(* What the tasks share is the session's game: the Activity that asks, the *)
(* watcher and everything the badge crashed on are of that game or of an   *)
(* earlier one (Flash, Asked, Watches).  The screen needs two facts beside *)
(* its own: a panel is dark only on the way to sleep, and the sleep        *)
(* monitor never draws while the Activity asks (Panel).                    *)
(*                                                                         *)
(* The motor needs one fact more: a task waits for it at one place only,   *)
(* and is in the queue exactly from when it asks for the motor until its   *)
(* turn has ended (MotorInv), so that an aborted watcher can leave the     *)
(* middle of the queue, nobody is left in it who does not play, and nobody *)
(* waits for a turn that was taken away.                                   *)
(***************************************************************************)
EXTENDS BadgeWorker, TLAPS

AnyQuestion == Questions \cup {"none"}
AnyTask == [game : Nat, question : AnyQuestion]

Asking == activity.pc \in {"started", "refusing", "choosing"}

(* A record by its fields; what matters of each is its type. *)
ActivityType(a) == a = [pc |-> a.pc, task |-> a.task] /\ a.task \in AnyTask
ViewType(v) == v = [kind |-> v.kind, task |-> v.task] /\ v.task \in AnyTask
WatcherType(w) == w = [pc |-> w.pc, game |-> w.game, tries |-> w.tries] /\ w.game \in Nat
PowerupType(p) == p = [pc |-> p.pc, game |-> p.game, sequence |-> p.sequence]
PowerType(p) == p = [pc |-> p.pc, hold |-> p.hold, shown |-> p.shown]
RoundType(r) ==
    /\ r = [game |-> r.game, running |-> r.running, notices |-> r.notices]
    /\ r.game \in Nat
SessionType(s) ==
    /\ s = [game |-> s.game, deadline |-> s.deadline, abandoned |-> s.abandoned]
    /\ s.game \in Nat /\ s.deadline \in Nat /\ s.abandoned \subseteq AnyQuestion

Types ==
    /\ RoundType(round) /\ SessionType(session)
    /\ ActivityType(activity) /\ ViewType(screen)
    /\ WatcherType(watcher) /\ PowerupType(powerup) /\ PowerType(power)
    /\ dark \subseteq AnyTask

Flash ==
    /\ session = nvs
    /\ session.game <= round.game
    /\ \A t \in dark : /\ t.game <= session.game
                       /\ t.game = session.game => t.question \in session.abandoned

Asked ==
    /\ Asking => activity.task.game = session.game
    /\ activity.pc = "choosing" => activity.task \notin dark

Watches == watcher.pc # "none" => watcher.game = session.game

Shown ==
    \/ screen = View("question", activity.task)
    \/ screen.kind = "powerup" /\ PowerupActive
    \/ screen.kind \in {"results", "pending"} /\ screen.task.game = activity.task.game
    \/ screen.kind \in {"sleeping", "off"} /\ power.pc \in {"release", "stopping"}

Panel ==
    /\ up = "on" /\ screen.kind = "off" => power.pc = "stopping"
    /\ up # "on" => activity.pc = "free" /\ watcher.pc = "none" /\ powerup.pc = "idle"
    /\ Asking => Shown

WInv == Types /\ Flash /\ Asked /\ Watches /\ Panel

-----------------------------------------------------------------------------
(* The steps. *)

LEMMA InitWInv == Init => WInv
<1> SUFFICES ASSUME Init PROVE WInv
    OBVIOUS
<1> USE DEF Init, Free, NoTask, NoSession, NoGame, NoWatcher, NoNotice, Watching, NotShown,
            Plain, View
<1>1. /\ RoundType(round) /\ SessionType(session)
      /\ ActivityType(activity) /\ ViewType(screen)
      /\ WatcherType(watcher) /\ PowerupType(powerup) /\ PowerType(power)
      /\ dark \subseteq AnyTask
    BY DEF RoundType, SessionType, ActivityType, ViewType, WatcherType, PowerupType,
           PowerType, AnyTask, AnyQuestion
<1>2. Flash /\ Asked /\ Watches /\ Panel
    BY DEF Flash, Asked, Watches, Panel, Asking
<1> QED BY <1>1, <1>2 DEF WInv, Types

\* A question is asked: its game is the latest, and the session's from now on.
LEMMA AnswerQuestionKeepsWInv ==
    ASSUME WInv, up = "on",
           NEW q \in Questions, NEW d \in Deadlines, NEW saved \in BOOLEAN,
           AnswerQuestion(q, d, saved)
    PROVE  WInv'
<1> DEFINE task == [game |-> round.game, question |-> q]
<1> USE BadgeAssumption DEF WInv
<1>a. task \in AnyTask /\ round.game \in Nat /\ d \in Nat
    BY DEF Types, RoundType, AnyTask, AnyQuestion
<1>b. UNCHANGED <<round, up, dark, powerup, power>>
    BY DEF AnswerQuestion, outside
<1>c. activity = Free /\ activity.pc = "free"
    BY DEF AnswerQuestion, Free
<1>0. /\ task \in AnyTask /\ round.game \in Nat /\ d \in Nat
      /\ activity = Free /\ activity.pc = "free"
      /\ UNCHANGED <<round, up, dark, powerup, power>>
    BY <1>a, <1>b, <1>c
<1>1. Draw(View("question", task)) /\ ViewType(View("question", task))
    BY <1>0 DEF AnswerQuestion, View, ViewType
<1>2. CASE ~saved
  <2>1. UNCHANGED <<nvs, session, activity, watcher>>
      BY <1>2 DEF AnswerQuestion, Save, buzzer
  <2>2. Types'
      BY <1>0, <1>1, <2>1 DEF Types, Draw
  <2>3. (Flash /\ Asked /\ Watches)'
      BY <1>0, <2>1 DEF Flash, Asked, Watches, Asking
  <2>4. Panel'
      BY <1>0, <1>1, <2>1 DEF Panel, Asking, Draw, View
  <2> QED BY <2>2, <2>3, <2>4
<1>3. CASE saved
  <2>1. /\ session' = nvs'
        /\ SessionType(session')
        /\ session'.game = round.game
        /\ session.game = round.game => session'.abandoned = session.abandoned
    <3>1. CASE BeginChanges(task.game, d)
      <4>1. session' = BegunSession(task.game, d) /\ nvs' = session'
          BY <1>3, <3>1 DEF AnswerQuestion, Save
      <4> QED BY <1>0, <4>1 DEF BegunSession, Types, SessionType
    <3>2. CASE ~BeginChanges(task.game, d)
      <4>1. UNCHANGED <<nvs, session>> /\ session.game = round.game
          BY <1>3, <3>2 DEF AnswerQuestion, BeginChanges
      <4> QED BY <4>1 DEF Flash, Types
    <3> QED BY <3>1, <3>2
  <2>2. activity' = [pc |-> "started", task |-> task] /\ StartResultWatcher(round.game)
      BY <1>3 DEF AnswerQuestion
  <2>3. WatcherType(watcher') /\ watcher'.game = round.game
      BY <1>0, <2>2 DEF StartResultWatcher, Watched, Types, WatcherType
  <2>4. Types'
    <3>1. ActivityType(activity')
        BY <1>0, <2>2 DEF ActivityType
    <3> QED BY <1>0, <1>1, <2>1, <2>3, <3>1 DEF Types, Draw
  <2>5. Flash'
      BY <1>0, <2>1 DEF Flash, Types, SessionType, AnyTask
  <2>6. (Asked /\ Watches)'
      BY <1>0, <2>1, <2>2, <2>3 DEF Asked, Watches, Asking
  <2>7. Panel'
    <3>1. Shown'
        BY <1>0, <1>1, <2>2 DEF Shown, Panel, Draw, View
    <3>2. screen'.kind = "off" => power'.pc = "stopping"
        BY <1>0, <1>1 DEF Panel, Draw, View
    <3> QED BY <1>0, <2>2, <3>1, <3>2 DEF Panel
  <2> QED BY <2>4, <2>5, <2>6, <2>7
<1> QED BY <1>2, <1>3

\* The wait begins only for a question the badge has not abandoned.
LEMMA SignalledKeepsWInv ==
    ASSUME WInv, up = "on", Signalled
    PROVE  WInv'
<1> USE DEF WInv, outside, store
<1>1. /\ activity.pc = "started" /\ ActivityType(activity')
      /\ activity'.task = activity.task
      /\ activity'.pc = "choosing" => ~IsAbandoned(activity.task)
      /\ UNCHANGED <<round, up, nvs, session, dark, screen, watcher, powerup, power>>
    BY DEF Signalled, Types, ActivityType
<1>2. Types' /\ Flash' /\ Watches'
    BY <1>1 DEF Types, Flash, Watches
<1>3. Asked'
    BY <1>1 DEF Asked, Asking, IsAbandoned, Flash
<1>4. Panel'
    BY <1>1 DEF Panel, Asking, Shown, PowerupActive
<1> QED BY <1>2, <1>3, <1>4

\* The badge goes dark only with its question abandoned in flash.
LEMMA ChoosePanicKeepsWInv ==
    ASSUME WInv, up = "on", NEW saved \in BOOLEAN, ChoosePanic(saved)
    PROVE  WInv'
<1> DEFINE task == activity.task
           next == [session EXCEPT !.abandoned = @ \cup {task.question}]
<1> USE DEF WInv
<1>0. /\ activity.pc = "choosing" /\ task \in AnyTask /\ task.game = session.game
      /\ UNCHANGED <<round, up, watcher, powerup, power>>
    BY DEF ChoosePanic, Types, ActivityType, Asked, Asking, outside
<1>1. CASE ~saved
  <2>1. UNCHANGED <<nvs, session, dark, screen>> /\ activity' = Free
      BY <1>1 DEF ChoosePanic, Save, buzzer
  <2>2. activity'.pc = "free" /\ ActivityType(activity')
      BY <2>1 DEF Free, NoTask, NoGame, AnyTask, AnyQuestion, ActivityType
  <2>3. Types' /\ Flash' /\ Asked' /\ Watches'
      BY <1>0, <2>1, <2>2 DEF Types, Flash, Asked, Asking, Watches
  <2>4. Panel'
      BY <1>0, <2>1, <2>2 DEF Panel, Asking
  <2> QED BY <2>3, <2>4
<1>2. CASE saved
  <2>1. /\ activity' = [activity EXCEPT !.pc = "crashing"] /\ activity'.pc = "crashing"
        /\ ActivityType(activity')
        /\ dark' = dark \cup {task}
        /\ Draw(View("crash", task)) /\ ViewType(View("crash", task))
      BY <1>0, <1>2 DEF ChoosePanic, Types, ActivityType, View, ViewType
  <2>2. /\ session' = nvs'
        /\ SessionType(session')
        /\ session'.game = session.game
        /\ session.abandoned \cup {task.question} = session'.abandoned
    <3>1. CASE IsAbandoned(task)
      <4>1. UNCHANGED <<nvs, session>>
          BY <1>0, <3>1 DEF ChoosePanic
      <4> QED BY <3>1, <4>1 DEF IsAbandoned, Flash, Types
    <3>2. CASE ~IsAbandoned(task)
      <4>1. session' = next /\ nvs' = next
          BY <1>0, <1>2, <3>2 DEF ChoosePanic, Save
      <4> QED BY <1>0, <4>1 DEF Types, SessionType, AnyTask
    <3> QED BY <3>1, <3>2
  <2>3. Types'
      BY <1>0, <2>1, <2>2 DEF Types, Draw
  <2>4. Flash'
      BY <1>0, <2>1, <2>2 DEF Flash, Types, SessionType, AnyTask
  <2>5. (Asked /\ Watches /\ Panel)'
      BY <1>0, <2>1, <2>2 DEF Asked, Asking, Watches, Panel, Draw, View
  <2> QED BY <2>3, <2>4, <2>5
<1> QED BY <1>1, <1>2

\* What neither asks a question nor touches the session keeps its facts.
LEMMA SessionUntouched ==
    ASSUME Flash, Asked, Watches,
           UNCHANGED <<round, nvs, session, dark>>,
           activity'.pc \in {"started", "refusing", "choosing"} => activity' = activity,
           watcher'.pc # "none" => watcher.pc # "none" /\ watcher'.game = watcher.game
    PROVE  Flash' /\ Asked' /\ Watches'
BY DEF Flash, Asked, Asking, Watches

\* The other steps of an Activity.
LEMMA ActivityKeepsWInv ==
    ASSUME WInv, up = "on",
           \/ Refused \/ Cancelled \/ VerdictPlayed \/ Answered
           \/ CrashPlayed \/ BlackoutEnds \/ RecoveryPlayed \/ Recovered
           \/ \E correct \in BOOLEAN : ChooseAnswer(correct)
    PROVE  WInv'
<1> USE DEF WInv
<1>1. /\ activity.pc # "free" /\ activity.task \in AnyTask
      /\ UNCHANGED <<round, up, nvs, session, dark, watcher, powerup, power>>
      /\ ActivityType(activity') /\ activity'.pc \notin {"started", "refusing", "choosing"}
  <2> USE DEF outside, store, Types, ActivityType, AnyTask, AnyQuestion, ActivityStep, Return,
              Free, NoTask, NoGame
  <2>1. CASE Refused \/ Cancelled \/ Recovered \/ Answered
      BY <2>1 DEF Refused, Cancelled, Recovered, Answered
  <2>2. CASE VerdictPlayed \/ CrashPlayed \/ RecoveryPlayed
      BY <2>2 DEF VerdictPlayed, CrashPlayed, RecoveryPlayed
  <2>3. CASE BlackoutEnds \/ \E correct \in BOOLEAN : ChooseAnswer(correct)
      BY <2>3 DEF BlackoutEnds, ChooseAnswer
  <2> QED BY <2>1, <2>2, <2>3
<1>2. ViewType(screen') /\ (screen'.kind = "off" => screen' = screen)
  <2> USE <1>1 DEF Types, ViewType, Draw, View, Plain, AnyTask, AnyQuestion, NoTask, NoGame
  <2>1. CASE Refused \/ Cancelled \/ Recovered \/ Answered
      BY <2>1 DEF Refused, Cancelled, Recovered, Answered, Return
  <2>2. CASE VerdictPlayed \/ CrashPlayed \/ RecoveryPlayed
      BY <2>2 DEF VerdictPlayed, CrashPlayed, RecoveryPlayed
  <2>3. CASE BlackoutEnds \/ \E correct \in BOOLEAN : ChooseAnswer(correct)
      BY <2>3 DEF BlackoutEnds, ChooseAnswer
  <2> QED BY <2>1, <2>2, <2>3
<1>3. Types'
    BY <1>1, <1>2 DEF Types
<1>4. Flash' /\ Asked' /\ Watches'
    BY <1>1, SessionUntouched
<1>5. Panel'
    BY <1>1, <1>2 DEF Panel, Asking
<1> QED BY <1>3, <1>4, <1>5

\* The watcher draws only results of the session's game.
LEMMA WatcherKeepsWInv ==
    ASSUME WInv, up = "on", Watcher
    PROVE  WInv'
<1> USE DEF WInv
<1>1. /\ UNCHANGED <<round, up, nvs, session, dark, activity, powerup, power>>
      /\ WatcherType(watcher') /\ watcher.pc # "none" /\ watcher'.game = watcher.game
  <2> USE DEF outside, store, Types, WatcherType, WatcherStep
  <2>1. CASE ResultsShown
      BY <2>1 DEF ResultsShown
  <2>2. CASE QueryAgain
      BY <2>2 DEF QueryAgain
  <2>3. CASE ResultPending
      BY <2>3 DEF ResultPending
  <2>4. CASE ResultsPlayed
      BY <2>4 DEF ResultsPlayed
  <2> QED BY <2>1, <2>2, <2>3, <2>4 DEF Watcher
<1>2. \/ screen' = screen
      \/ /\ screen'.kind \in {"results", "pending"} /\ screen'.task.game = watcher.game
         /\ ViewType(screen')
  <2> DEFINE of == [NoTask EXCEPT !.game = watcher.game]
  <2>1. of \in AnyTask /\ of.game = watcher.game
      BY DEF Types, WatcherType, NoTask, NoGame, AnyTask, AnyQuestion
  <2>2. CASE ResultsShown
      BY <2>1, <2>2 DEF ResultsShown, Draw, View, ViewType
  <2>3. CASE ResultPending
      BY <2>1, <2>3 DEF ResultPending, Draw, View, ViewType
  <2>4. CASE QueryAgain \/ ResultsPlayed
      BY <2>4 DEF QueryAgain, ResultsPlayed
  <2> QED BY <2>2, <2>3, <2>4 DEF Watcher
<1>3. Types'
    BY <1>1, <1>2 DEF Types
<1>4. Flash' /\ Asked' /\ Watches'
    BY <1>1, SessionUntouched
<1>5. Panel'
    BY <1>1, <1>2 DEF Panel, Asking, Asked, Watches, Shown, PowerupActive
<1> QED BY <1>3, <1>4, <1>5

\* What an overlay leaves behind is the question asked.
LEMMA PowerupsKeepWInv ==
    ASSUME WInv, up = "on", Powerups
    PROVE  WInv'
<1> USE DEF WInv
<1>1. /\ UNCHANGED <<round, up, nvs, session, dark, activity, watcher, power>>
      /\ PowerupType(powerup')
  <2> USE DEF outside, store, Types, PowerupType
  <2>1. CASE PowerupQuery
      BY <2>1 DEF PowerupQuery
  <2>2. CASE PowerupPlayed
      BY <2>2 DEF PowerupPlayed
  <2>3. CASE OverlayEnds
      BY <2>3 DEF OverlayEnds
  <2> QED BY <2>1, <2>2, <2>3 DEF Powerups
<1>2. \/ screen' = screen /\ (screen.kind = "powerup" /\ PowerupActive => PowerupActive')
      \/ screen' = View("powerup", NoTask) /\ PowerupActive'
      \/ screen' = Underneath
  <2> USE DEF PowerupActive, Types, PowerupType
  <2>1. CASE PowerupQuery
      BY <2>1 DEF PowerupQuery, Draw, Plain
  <2>2. CASE PowerupPlayed
      BY <2>2 DEF PowerupPlayed
  <2>3. CASE OverlayEnds /\ screen.kind # "off"
      BY <2>3 DEF OverlayEnds, Draw
  <2>4. CASE OverlayEnds /\ screen.kind = "off"
      BY <2>4 DEF OverlayEnds, Draw
  <2> QED BY <2>1, <2>2, <2>3, <2>4 DEF Powerups
<1>3. Underneath = View("question", activity.task) \/ (~Asking /\ Underneath = Plain("waiting"))
    BY DEF Underneath, ActivityActive, Asking
<1>4. ViewType(screen')
    BY <1>2, <1>3
    DEF Types, ViewType, ActivityType, Plain, View, AnyTask, AnyQuestion, NoTask, NoGame
<1>5. Types'
    BY <1>1, <1>4 DEF Types
<1>6. Flash' /\ Asked' /\ Watches'
    BY <1>1, SessionUntouched
<1>7. Panel'
  <2>1. screen'.kind = "off" => screen.kind = "off"
      BY <1>2, <1>3 DEF View, Plain
  <2>2. Asking => Shown'
      BY <1>1, <1>2, <1>3 DEF Panel, Shown, View
  <2> QED BY <1>1, <2>1, <2>2 DEF Panel, Asking
<1> QED BY <1>5, <1>6, <1>7

\* A look at a held DOWN draws a countdown, or is the last.
LEMMA HoldDownDraws ==
    ASSUME HoldDown, PowerType(power)
    PROVE  /\ ~Busy /\ power.pc = "poll" /\ PowerType(power')
           /\ UNCHANGED <<outside, store, activity, watcher, powerup>>
           /\ \/ screen' = screen
              \/ Draw(Plain("countdown"))
              \/ Draw(Plain("sleeping")) /\ power'.pc = "release"
<1>1. PICK hold \in (IF power.hold = 0 THEN {1} ELSE power.hold..Due) :
         \/ hold < Armed /\ power' = [power EXCEPT !.hold = hold] /\ UNCHANGED <<screen, buzzer>>
         \/ /\ hold \in Armed..(Due - 1)
            /\ \/ Countdown(hold, Remaining(hold), "pulse")
               \/ /\ Remaining(hold) = power.shown
                  /\ power' = [power EXCEPT !.hold = hold]
                  /\ UNCHANGED <<screen, buzzer>>
         \/ /\ hold = Due
            /\ \/ Countdown(hold, 0, "last")
               \/ /\ power.shown = 0
                  /\ power' = [power EXCEPT !.pc = "release", !.hold = hold]
                  /\ Draw(Plain("sleeping"))
                  /\ UNCHANGED buzzer
    BY DEF HoldDown
<1>2. CASE power' = [power EXCEPT !.hold = hold] /\ screen' = screen
    BY <1>2 DEF HoldDown, PowerType
<1>3. CASE \E seconds, next : Countdown(hold, seconds, next)
    BY <1>3 DEF HoldDown, Countdown, PowerType
<1>4. CASE /\ power' = [power EXCEPT !.pc = "release", !.hold = hold]
           /\ Draw(Plain("sleeping"))
  <2>1. power' = [pc |-> "release", hold |-> hold, shown |-> power.shown]
      BY <1>4 DEF PowerType
  <2> QED BY <1>4, <2>1 DEF HoldDown, PowerType
<1> QED BY <1>1, <1>2, <1>3, <1>4

\* The sleep monitor draws over a question only once sleep is due.
LEMMA PowerKeepsWInv ==
    ASSUME WInv, up = "on", Disarm \/ HoldDown \/ CountdownPlayed \/ PowerOff
    PROVE  WInv'
<1> USE DEF WInv
<1>1. /\ UNCHANGED <<round, up, nvs, session, dark, activity, watcher, powerup>>
      /\ PowerType(power')
  <2> USE DEF outside, store, Types, PowerType, Watching
  <2>1. CASE Disarm
      BY <2>1 DEF Disarm
  <2>2. CASE HoldDown
      BY <2>2, HoldDownDraws
  <2>3. CASE CountdownPlayed
      BY <2>3 DEF CountdownPlayed
  <2>4. CASE PowerOff
      BY <2>4 DEF PowerOff
  <2> QED BY <2>1, <2>2, <2>3, <2>4
<1>2. ViewType(screen')
  <2>1. \/ screen' = screen
        \/ \E kind \in {"waiting", "countdown", "sleeping", "off"} : screen' = Plain(kind)
      BY HoldDownDraws DEF Disarm, CountdownPlayed, PowerOff, Draw, Types
  <2> QED BY <2>1 DEF Types, ViewType, Plain, View, AnyTask, AnyQuestion, NoTask, NoGame
<1>3. /\ screen'.kind = "off" => power'.pc = "stopping"
      /\ Asking => Shown'
  <2> USE DEF Panel, Shown, Asking, PowerupActive
  <2>1. CASE Disarm
      BY <1>1, <2>1 DEF Disarm, Busy, ActivityActive, Draw, Plain, View
  <2>2. CASE HoldDown
    <3>1. /\ power.pc = "poll" /\ ~Asking
          /\ screen' = screen \/ Draw(Plain("countdown")) \/ Draw(Plain("sleeping"))
        BY <2>2, HoldDownDraws DEF Busy, ActivityActive, Types
    <3> QED BY <1>1, <3>1 DEF Draw, Plain, View
  <2>3. CASE CountdownPlayed
      BY <1>1, <2>3 DEF CountdownPlayed, Draw, Plain, View, Types, PowerType
  <2>4. CASE PowerOff
      BY <1>1, <2>4 DEF PowerOff, Plain, View, Types, PowerType
  <2> QED BY <2>1, <2>2, <2>3, <2>4
<1>4. Types'
    BY <1>1, <1>2 DEF Types
<1>5. Flash' /\ Asked' /\ Watches'
    BY <1>1, SessionUntouched
<1>6. Panel'
    BY <1>1, <1>3 DEF Panel, Asking
<1> QED BY <1>4, <1>5, <1>6

\* The motor is nobody's business here.
LEMMA HapticsKeepWInv ==
    ASSUME WInv, Haptics
    PROVE  WInv'
<1>1. UNCHANGED <<outside, store, screen, activity, watcher, powerup, power>>
    BY DEF Haptics, PulseStart, PulseEnd
<1> QED BY <1>1 DEF outside, store, WInv, Types, Flash, Asked, Asking, Watches, Panel, Shown,
                    PowerupActive

\* Going to sleep, an empty battery, and the restart after either.
LEMMA RestartKeepsWInv ==
    ASSUME WInv, Sleep \/ BatteryOut \/ Boot
    PROVE  WInv'
<1> USE DEF WInv
<1>1. CASE Sleep \/ BatteryOut
  <2>1. /\ UNCHANGED <<round, nvs, session, dark>>
        /\ activity' = Free /\ watcher' = NoWatcher /\ powerup' = NoNotice
        /\ power' = Watching /\ screen' = Plain("off") /\ up' # "on"
      BY <1>1 DEF Sleep, BatteryOut, Halt, store
  <2>2. activity'.pc = "free" /\ watcher'.pc = "none" /\ powerup'.pc = "idle"
      BY <2>1 DEF Free, NoWatcher, NoNotice
  <2>3. /\ ActivityType(activity') /\ ViewType(screen')
        /\ WatcherType(watcher') /\ PowerupType(powerup') /\ PowerType(power')
      BY <2>1 DEF ActivityType, ViewType, WatcherType, PowerupType, PowerType, Free, NoWatcher,
                  NoNotice, Watching, Plain, View, NoTask, NoGame, AnyTask, AnyQuestion
  <2>4. Types'
      BY <2>1, <2>3 DEF Types
  <2> QED BY <2>1, <2>2, <2>4, SessionUntouched DEF Panel, Asking
<1>2. CASE Boot
  <2>1. /\ UNCHANGED <<round, nvs, session, dark, activity, watcher, powerup, power>>
        /\ up # "on" /\ screen' = Plain("waiting")
      BY <1>2 DEF Boot, Flash
  <2>2. ViewType(screen') /\ screen'.kind = "waiting"
      BY <2>1 DEF ViewType, Plain, View, NoTask, NoGame, AnyTask, AnyQuestion
  <2>3. activity'.pc = "free"
      BY <2>1 DEF Panel
  <2>4. Types'
      BY <2>1, <2>2 DEF Types
  <2> QED BY <2>1, <2>2, <2>3, <2>4, SessionUntouched DEF Panel, Asking
<1> QED BY <1>1, <1>2

\* Rounds begin and end, and commands are accepted, without the badge.
LEMMA OutsideKeepsWInv ==
    ASSUME WInv, NextRound \/ FinishRound \/ Command
    PROVE  WInv'
<1> USE DEF WInv
<1>1. /\ UNCHANGED <<up, nvs, session, dark, screen, activity, watcher, powerup, power>>
      /\ RoundType(round') /\ round'.game >= round.game
    BY DEF NextRound, FinishRound, Command, store, Types, RoundType
<1>2. Types'
    BY <1>1 DEF Types
<1>3. Flash'
    BY <1>1 DEF Flash, Types, RoundType, SessionType
<1>4. Asked' /\ Watches' /\ Panel'
    BY <1>1 DEF Asked, Asking, Watches, Panel, Shown, PowerupActive
<1> QED BY <1>2, <1>3, <1>4

LEMMA NextKeepsWInv == WInv /\ [Next]_vars => WInv'
<1> SUFFICES ASSUME WInv, [Next]_vars PROVE WInv'
    OBVIOUS
<1>1. CASE UNCHANGED vars
    BY <1>1 DEF vars, outside, store, WInv, Types, Flash, Asked, Asking, Watches, Panel, Shown,
                PowerupActive
<1>2. CASE up = "on" /\ \E q \in Questions, d \in Deadlines, saved \in BOOLEAN :
                             AnswerQuestion(q, d, saved)
    BY <1>2, AnswerQuestionKeepsWInv
<1>3. CASE up = "on" /\ Activity
    BY <1>3, SignalledKeepsWInv, ActivityKeepsWInv DEF Activity
<1>4. CASE up = "on" /\ Choose
    BY <1>4, ChoosePanicKeepsWInv, ActivityKeepsWInv DEF Choose
<1>5. CASE up = "on" /\ (Watcher \/ Powerups \/ Haptics)
    BY <1>5, WatcherKeepsWInv, PowerupsKeepWInv, HapticsKeepWInv
<1>6. CASE up = "on" /\ Power
    BY <1>6, PowerKeepsWInv, RestartKeepsWInv DEF Power
<1>7. CASE NextRound \/ FinishRound \/ Command \/ BatteryOut \/ Boot
    BY <1>7, OutsideKeepsWInv, RestartKeepsWInv
<1> QED BY <1>1, <1>2, <1>3, <1>4, <1>5, <1>6, <1>7 DEF Next

LEMMA AlwaysWInv == Spec => []WInv
BY InitWInv, NextKeepsWInv, PTL DEF Spec

\* Only the watcher draws results; every other step leaves them or draws
\* something else.
LEMMA ResultsDrawn ==
    ASSUME WInv, Next, screen' # screen, screen'.kind \in {"results", "pending"}
    PROVE  screen'.task.game >= session.game
<1> USE DEF WInv
<1>1. CASE Watcher
  <2>1. watcher.game = session.game /\ session.game \in Nat
      BY <1>1 DEF Watcher, ResultsShown, QueryAgain, ResultPending, ResultsPlayed, WatcherStep,
                  Watches, Types, SessionType
  <2>2. screen'.task.game = watcher.game
      BY <1>1 DEF Watcher, ResultsShown, QueryAgain, ResultPending, ResultsPlayed, Draw, View,
                  NoTask
  <2> QED BY <2>1, <2>2
<1>2. CASE \E q \in Questions, d \in Deadlines, saved \in BOOLEAN : AnswerQuestion(q, d, saved)
    BY <1>2 DEF AnswerQuestion, Draw, View
<1>3. CASE Activity
    BY <1>3 DEF Activity, Signalled, Refused, Cancelled, Return, VerdictPlayed, Answered,
                CrashPlayed, BlackoutEnds, RecoveryPlayed, Recovered, Draw, Plain, View
<1>4. CASE Choose
    BY <1>4 DEF Choose, ChoosePanic, ChooseAnswer, Draw, View, buzzer
<1>5. CASE Powerups
    BY <1>5 DEF Powerups, PowerupQuery, PowerupPlayed, OverlayEnds, Underneath, Draw, Plain, View
<1>6. CASE Power \/ BatteryOut \/ Boot
    BY <1>6, HoldDownDraws DEF Power, Disarm, CountdownPlayed, Sleep, PowerOff, BatteryOut, Boot,
                Halt, Draw, Plain, View, Types
<1>7. CASE Haptics \/ NextRound \/ FinishRound \/ Command
    BY <1>7 DEF Haptics, PulseStart, PulseEnd, NextRound, FinishRound, Command
<1> QED BY <1>1, <1>2, <1>3, <1>4, <1>5, <1>6, <1>7 DEF Next

-----------------------------------------------------------------------------
(* The motor and its queue.  A task waits in the queue once and plays until *)
(* its turn has ended; that is what lets a task be taken out of the middle. *)

Pulses == [who : Players, pulses : Nat]

Queue ==
    /\ haptics \in Seq(Pulses)
    /\ \A i, j \in 1..Len(haptics) : haptics[i].who = haptics[j].who => i = j

\* The only turn without pulses is that of the way to sleep.
Stopping == power.pc = "stopping"
Turns ==
    \A i \in 1..Len(haptics) :
        haptics[i].pulses = 0 <=> haptics[i].who = "power" /\ Stopping

MotorInv ==
    /\ Queue /\ Turns
    /\ motor \in BOOLEAN
    /\ motor => up = "on" /\ haptics # <<>> /\ Head(haptics).pulses > 0
    /\ \A who \in Players : InQueue(who) <=> Playing(who)

LEMMA QueueGrows ==
    ASSUME Queue, NEW who \in Players, NEW n \in Nat, ~InQueue(who),
           haptics' = Append(haptics, [who |-> who, pulses |-> n])
    PROVE  /\ Queue' /\ haptics' # <<>>
           /\ \A x \in Players : InQueue(x)' <=> x = who \/ InQueue(x)
           /\ \A i \in 1..Len(haptics') :
                 \/ haptics'[i].who = who /\ haptics'[i].pulses = n
                 \/ \E j \in 1..Len(haptics) : haptics'[i] = haptics[j]
           /\ IF haptics = <<>> THEN Head(haptics').pulses = n
                                ELSE Head(haptics') = Head(haptics)
<1> DEFINE turn == [who |-> who, pulses |-> n]
<1>1. haptics \in Seq(Pulses) /\ turn \in Pulses /\ turn.who = who /\ turn.pulses = n
    BY DEF Queue, Pulses
<1> HIDE DEF turn
<1>2. haptics' = Append(haptics, turn)
    BY DEF turn
<1>3. /\ haptics' \in Seq(Pulses) /\ Len(haptics') = Len(haptics) + 1
      /\ Len(haptics) \in Nat
      /\ \A i \in 1..Len(haptics) : haptics'[i] = haptics[i]
      /\ haptics'[Len(haptics) + 1] = turn
    BY <1>1, <1>2
<1>4. \A i \in 1..Len(haptics) : haptics[i].who # who
    BY DEF InQueue
<1>5. \A i \in 1..Len(haptics') :
         i = Len(haptics) + 1 \/ (i \in 1..Len(haptics) /\ haptics'[i] = haptics[i])
    BY <1>3
<1>6. Queue'
    BY <1>1, <1>3, <1>4, <1>5 DEF Queue
<1>7. ASSUME NEW x \in Players
      PROVE  InQueue(x)' <=> x = who \/ InQueue(x)
  <2>1. ASSUME InQueue(x)' PROVE x = who \/ InQueue(x)
      BY <1>1, <1>3, <1>5, <2>1 DEF InQueue
  <2>2. ASSUME InQueue(x) PROVE InQueue(x)'
    <3>1. PICK i \in 1..Len(haptics) : haptics[i].who = x
        BY <2>2 DEF InQueue
    <3>2. i \in 1..Len(haptics') /\ haptics'[i].who = x
        BY <1>3, <3>1
    <3> QED BY <3>2 DEF InQueue
  <2>3. InQueue(who)'
    <3>1. Len(haptics) + 1 \in 1..Len(haptics') /\ haptics'[Len(haptics) + 1].who = who
        BY <1>1, <1>3
    <3> QED BY <3>1 DEF InQueue
  <2> QED BY <2>1, <2>2, <2>3
<1>8. haptics' # <<>>
    BY <1>3
<1>9. IF haptics = <<>> THEN Head(haptics').pulses = n ELSE Head(haptics') = Head(haptics)
    BY <1>1, <1>3, <1>8
<1>10. \A i \in 1..Len(haptics') :
         \/ haptics'[i].who = who /\ haptics'[i].pulses = n
         \/ \E j \in 1..Len(haptics) : haptics'[i] = haptics[j]
    BY <1>1, <1>3, <1>5
<1> QED BY <1>6, <1>7, <1>8, <1>9, <1>10

LEMMA QueueAdvances ==
    ASSUME Queue, haptics # <<>>, haptics' = Tail(haptics)
    PROVE  /\ Queue'
           /\ \A x \in Players : InQueue(x)' <=> InQueue(x) /\ x # Head(haptics).who
           /\ \A i \in 1..Len(haptics') : \E j \in 1..Len(haptics) : haptics'[i] = haptics[j]
<1>1. /\ haptics' \in Seq(Pulses) /\ Len(haptics') = Len(haptics) - 1
      /\ Len(haptics) \in Nat \ {0}
      /\ \A i \in 1..Len(haptics') : i + 1 \in 1..Len(haptics) /\ haptics'[i] = haptics[i + 1]
      /\ Head(haptics) = haptics[1]
    BY DEF Queue
<1>2. Queue'
  <2> SUFFICES ASSUME NEW i \in 1..Len(haptics'), NEW j \in 1..Len(haptics'),
                      haptics'[i].who = haptics'[j].who
               PROVE  i = j
      BY <1>1 DEF Queue
  <2>1. i + 1 = j + 1
      BY <1>1 DEF Queue
  <2> QED BY <2>1
<1>3. ASSUME NEW x \in Players, InQueue(x)'
      PROVE  InQueue(x) /\ x # Head(haptics).who
  <2>1. PICK i \in 1..Len(haptics') : haptics'[i].who = x
      BY <1>3 DEF InQueue
  <2>2. i + 1 \in 1..Len(haptics) /\ haptics[i + 1].who = x /\ i + 1 # 1 /\ 1 \in 1..Len(haptics)
      BY <1>1, <2>1
  <2> QED BY <1>1, <2>2 DEF InQueue, Queue
<1>4. ASSUME NEW x \in Players, InQueue(x), x # Head(haptics).who
      PROVE  InQueue(x)'
  <2>1. PICK j \in 1..Len(haptics) : haptics[j].who = x
      BY <1>4 DEF InQueue
  <2>2. j # 1
      BY <1>1, <1>4, <2>1
  <2>3. j - 1 \in 1..Len(haptics') /\ haptics'[j - 1] = haptics[(j - 1) + 1] /\ (j - 1) + 1 = j
      BY <1>1, <2>2
  <2> QED BY <2>1, <2>3 DEF InQueue
<1>5. \A i \in 1..Len(haptics') : \E j \in 1..Len(haptics) : haptics'[i] = haptics[j]
    BY <1>1
<1> QED BY <1>2, <1>3, <1>4, <1>5

LEMMA QueuePulses ==
    ASSUME Queue, haptics # <<>>, Head(haptics).pulses > 1,
           haptics' = [haptics EXCEPT ![1] = [who |-> @.who, pulses |-> @.pulses - 1]]
    PROVE  /\ Queue' /\ \A x \in Players : InQueue(x)' <=> InQueue(x)
           /\ Len(haptics') = Len(haptics)
           /\ \A i \in 1..Len(haptics) :
                 /\ haptics'[i].who = haptics[i].who
                 /\ haptics'[i].pulses = 0 <=> haptics[i].pulses = 0
<1> DEFINE turn == [who |-> haptics[1].who, pulses |-> haptics[1].pulses - 1]
<1>1. /\ haptics \in Seq(Pulses) /\ Len(haptics) \in Nat \ {0} /\ 1 \in 1..Len(haptics)
      /\ Head(haptics) = haptics[1] /\ haptics[1] \in Pulses
    BY DEF Queue
<1>2. /\ turn \in Pulses /\ turn.who = haptics[1].who
      /\ turn.pulses # 0 /\ haptics[1].pulses # 0
    BY <1>1 DEF Pulses
<1> HIDE DEF turn
<1>3. haptics' = [haptics EXCEPT ![1] = turn]
    BY DEF turn
<1>4. /\ haptics' \in Seq(Pulses) /\ Len(haptics') = Len(haptics)
      /\ haptics'[1] = turn /\ \A i \in 1..Len(haptics) : i # 1 => haptics'[i] = haptics[i]
    BY <1>1, <1>2, <1>3
<1>5. \A i \in 1..Len(haptics) : haptics'[i].who = haptics[i].who
    BY <1>2, <1>4
<1>6. \A i \in 1..Len(haptics) : haptics'[i].pulses = 0 <=> haptics[i].pulses = 0
    BY <1>2, <1>4
<1> QED BY <1>4, <1>5, <1>6 DEF Queue, InQueue

LEMMA Joined ==
    ASSUME NEW S, NEW a \in Seq(S), NEW b \in Seq(S)
    PROVE  /\ a \o b \in Seq(S) /\ Len(a \o b) = Len(a) + Len(b)
           /\ \A i \in 1..Len(a) : (a \o b)[i] = a[i]
           /\ \A i \in 1..Len(b) : (a \o b)[Len(a) + i] = b[i]
OBVIOUS

LEMMA FirstIsHead ==
    ASSUME NEW S, NEW t \in Seq(S), Len(t) # 0
    PROVE  t # <<>> /\ Head(t) = t[1]
OBVIOUS

LEMMA TurnsLeft ==
    ASSUME Turns, Stopping' <=> Stopping,
           \A i \in 1..Len(haptics') : \E j \in 1..Len(haptics) : haptics'[i] = haptics[j]
    PROVE  Turns'
BY DEF Turns

\* The watcher's place is given up, whoever is before and behind it.
LEMMA QueueCloses ==
    ASSUME Queue, haptics' = AbortedWait
    PROVE  /\ Queue'
           /\ \A x \in Players : InQueue(x)' <=> InQueue(x) /\ x # "watcher"
           /\ \A i \in 1..Len(haptics') : \E j \in 1..Len(haptics) : haptics'[i] = haptics[j]
           /\ haptics # <<>> /\ Head(haptics).who # "watcher"
                 => haptics' # <<>> /\ Head(haptics') = Head(haptics)
<1> DEFINE at == Place("watcher")
           n == Len(haptics)
<1>1. haptics \in Seq(Pulses) /\ n \in Nat /\ (haptics # <<>> => n # 0 /\ Head(haptics) = haptics[1])
    BY DEF Queue
<1>2. CASE ~InQueue("watcher")
  <2>1. haptics' = haptics
      BY <1>2 DEF AbortedWait
  <2> QED BY <1>1, <1>2, <2>1 DEF Queue, InQueue
<1>3. CASE InQueue("watcher")
  <2>1. at \in 1..n /\ haptics[at].who = "watcher"
      BY <1>3 DEF InQueue, Place
  <2>2. haptics' = SubSeq(haptics, 1, at - 1) \o SubSeq(haptics, at + 1, n)
      BY <1>3 DEF AbortedWait, RemoveAt
  <2> HIDE DEF at, n
  <2>3. PICK k \in 1..n : k = at
      BY <2>1
  <2>4. /\ SubSeq(haptics, 1, k - 1) \in Seq(Pulses) /\ SubSeq(haptics, k + 1, n) \in Seq(Pulses)
        /\ Len(SubSeq(haptics, 1, k - 1)) = k - 1 /\ Len(SubSeq(haptics, k + 1, n)) = n - k
        /\ \A i \in 1..(k - 1) : SubSeq(haptics, 1, k - 1)[i] = haptics[i]
        /\ \A i \in 1..(n - k) : SubSeq(haptics, k + 1, n)[i] = haptics[i + k]
      BY <1>1, <2>3 DEF n
  <2>5. /\ haptics' \in Seq(Pulses) /\ Len(haptics') = n - 1
        /\ \A i \in 1..(k - 1) : haptics'[i] = haptics[i]
        /\ \A i \in k..(n - 1) : haptics'[i] = haptics[i + 1]
    <3> DEFINE a == SubSeq(haptics, 1, k - 1)
               b == SubSeq(haptics, k + 1, n)
    <3>1. haptics' = a \o b
        BY <2>2, <2>3
    <3>2. /\ a \in Seq(Pulses) /\ b \in Seq(Pulses) /\ Len(a) = k - 1 /\ Len(b) = n - k
          /\ \A i \in 1..(k - 1) : a[i] = haptics[i]
          /\ \A i \in 1..(n - k) : b[i] = haptics[i + k]
        BY <2>4
    <3> HIDE DEF a, b
    <3>3. /\ haptics' \in Seq(Pulses) /\ Len(haptics') = (k - 1) + (n - k)
          /\ \A i \in 1..(k - 1) : haptics'[i] = a[i]
          /\ \A i \in 1..(n - k) : haptics'[(k - 1) + i] = b[i]
        BY <3>1, <3>2, Joined
    <3>4. ASSUME NEW i \in k..(n - 1)
          PROVE  haptics'[i] = haptics[i + 1]
      <4>1. i - k + 1 \in 1..(n - k) /\ (k - 1) + (i - k + 1) = i /\ (i - k + 1) + k = i + 1
          BY <1>1 DEF n
      <4> QED BY <3>2, <3>3, <4>1
    <3> QED BY <1>1, <3>2, <3>3, <3>4 DEF n
  <2>6. ASSUME NEW i \in 1..(n - 1)
        PROVE  \E h \in 1..n : /\ h # k /\ haptics'[i] = haptics[h]
                              /\ h = IF i < k THEN i ELSE i + 1
      BY <1>1, <2>5
  <2>7. \A h \in 1..n : haptics[h].who = "watcher" => h = k
      BY <2>1, <2>3 DEF Queue, n
  <2>8. Queue'
    <3> SUFFICES ASSUME NEW i \in 1..(n - 1), NEW j \in 1..(n - 1),
                        haptics'[i].who = haptics'[j].who
                 PROVE  i = j
        BY <2>5 DEF Queue
    <3>1. PICK h \in 1..n : haptics'[i] = haptics[h] /\ h = IF i < k THEN i ELSE i + 1
        BY <2>6
    <3>2. PICK l \in 1..n : haptics'[j] = haptics[l] /\ l = IF j < k THEN j ELSE j + 1
        BY <2>6
    <3>3. h = l
        BY <3>1, <3>2 DEF Queue, n
    <3> QED BY <1>1, <3>1, <3>2, <3>3
  <2>9. \A x \in Players : InQueue(x)' => InQueue(x) /\ x # "watcher"
      BY <2>5, <2>6, <2>7 DEF InQueue, n
  <2>10. ASSUME NEW x \in Players, InQueue(x), x # "watcher"
         PROVE  InQueue(x)'
    <3>1. PICK h \in 1..n : haptics[h].who = x
        BY <2>10 DEF InQueue, n
    <3>2. h # k
        BY <2>1, <2>3, <2>10, <3>1
    <3>3. CASE h < k
      <4>1. h \in 1..(n - 1) /\ haptics'[h] = haptics[h]
          BY <1>1, <2>5, <3>3
      <4> QED BY <2>5, <3>1, <4>1 DEF InQueue
    <3>4. CASE h > k
      <4>1. h - 1 \in k..(n - 1) /\ h - 1 \in 1..(n - 1) /\ (h - 1) + 1 = h
          BY <1>1, <3>4
      <4>2. haptics'[h - 1] = haptics[h]
          BY <2>5, <4>1
      <4> QED BY <2>5, <3>1, <4>1, <4>2 DEF InQueue
    <3> QED BY <1>1, <3>2, <3>3, <3>4
  <2>11. ASSUME haptics # <<>>, Head(haptics).who # "watcher"
         PROVE  haptics' # <<>> /\ Head(haptics') = Head(haptics)
    <3>1. k # 1 /\ n # 0 /\ Head(haptics) = haptics[1]
        BY <1>1, <2>1, <2>3, <2>11
    <3>2. 1 \in 1..(k - 1) /\ Len(haptics') # 0
        BY <1>1, <2>5, <3>1
    <3>3. haptics'[1] = haptics[1]
        BY <2>5, <3>2
    <3>4. haptics' # <<>> /\ Head(haptics') = haptics'[1]
        BY <2>5, <3>2, FirstIsHead
    <3> QED BY <3>1, <3>3, <3>4
  <2>12. \A i \in 1..Len(haptics') : \E j \in 1..Len(haptics) : haptics'[i] = haptics[j]
      BY <2>5, <2>6 DEF n
  <2> QED BY <2>8, <2>9, <2>10, <2>11, <2>12
<1> QED BY <1>2, <1>3

LEMMA PlayBegins ==
    ASSUME MotorInv, up = "on", up' = up, NEW who \in Players, NEW n \in Nat, 0 < n,
           Play(who, n), ~Playing(who), Playing(who)',
           Stopping' <=> Stopping, who = "power" => ~Stopping,
           \A x \in Players : x # who => (Playing(x)' <=> Playing(x))
    PROVE  MotorInv'
<1>1. ~InQueue(who)
    BY DEF MotorInv
<1>2. /\ haptics' = Append(haptics, [who |-> who, pulses |-> n])
      /\ motor' = (motor \/ haptics = <<>>) /\ motor' \in BOOLEAN
    BY DEF Play
<1>3. /\ Queue' /\ haptics' # <<>>
      /\ \A x \in Players : InQueue(x)' <=> x = who \/ InQueue(x)
      /\ \A i \in 1..Len(haptics') :
            \/ haptics'[i].who = who /\ haptics'[i].pulses = n
            \/ \E j \in 1..Len(haptics) : haptics'[i] = haptics[j]
      /\ IF haptics = <<>> THEN Head(haptics').pulses = n
                           ELSE Head(haptics') = Head(haptics)
    BY <1>1, <1>2, QueueGrows DEF MotorInv
<1>4. Turns'
    BY <1>3 DEF Turns, MotorInv
<1>5. motor' => Head(haptics').pulses > 0
    BY <1>2, <1>3 DEF MotorInv
<1> QED BY <1>2, <1>3, <1>4, <1>5 DEF MotorInv

LEMMA PlayEnds ==
    ASSUME MotorInv, NEW who \in Players, Played(who), ~Playing(who)',
           Stopping' <=> Stopping,
           \A x \in Players : x # who => (Playing(x)' <=> Playing(x))
    PROVE  MotorInv'
<1>1. haptics # <<>> /\ Head(haptics).who = who /\ haptics' = Tail(haptics) /\ motor' = FALSE
    BY DEF Played, MotorInv
<1>2. /\ Queue' /\ \A x \in Players : InQueue(x)' <=> InQueue(x) /\ x # who
      /\ \A i \in 1..Len(haptics') : \E j \in 1..Len(haptics) : haptics'[i] = haptics[j]
    BY <1>1, QueueAdvances DEF MotorInv
<1>3. Turns'
    BY <1>2 DEF Turns, MotorInv
<1> QED BY <1>1, <1>2, <1>3 DEF MotorInv

LEMMA MotorLeft ==
    ASSUME MotorInv, up' = up, UNCHANGED buzzer, Stopping' <=> Stopping,
           \A x \in Players : Playing(x)' <=> Playing(x)
    PROVE  MotorInv'
BY DEF MotorInv, Queue, Turns, InQueue, buzzer

-----------------------------------------------------------------------------
(* Types and motor, step by step. *)

SessionSet == [game : 0..MaxGames, deadline : Deadlines \cup {0}, abandoned : SUBSET Questions]
ScreenTasks == [game : 0..MaxGames, question : Questions \cup {"none"}]

SInv == WInv /\ TypeOK /\ MotorInv

LEMMA Drawn ==
    ASSUME SInv, NEW view, view.task \in ScreenTasks, Draw(view)
    PROVE  screen'.task \in ScreenTasks
BY DEF SInv, TypeOK, ScreenTasks, Draw

LEMMA Views ==
    /\ \A kind : Plain(kind).task \in ScreenTasks
    /\ \A kind, task : View(kind, task).task = task
    /\ \A kind : \A g \in 0..MaxGames : View(kind, [NoTask EXCEPT !.game = g]).task \in ScreenTasks
    /\ Tasks \subseteq ScreenTasks
BY BadgeAssumption DEF Plain, View, NoTask, NoGame, ScreenTasks, Tasks, Games

LEMMA InitSInv == Init => SInv
<1> SUFFICES ASSUME Init PROVE SInv
    OBVIOUS
<1> USE BadgeAssumption
<1>1. TypeOK
  <2>1. round \in [game : 0..MaxGames, running : BOOLEAN, notices : 0..MaxNotices]
      BY DEF Init, NoGame
  <2>2. {nvs, session} \subseteq SessionSet
      BY DEF Init, NoSession, NoGame, SessionSet
  <2>3. screen.task \in ScreenTasks /\ activity = Free
      BY Views DEF Init
  <2>4. /\ watcher.game \in 0..MaxGames /\ watcher.tries \in 0..Queries
        /\ powerup.sequence \in 0..MaxNotices
      BY DEF Init, NoWatcher, NoNotice, NoGame
  <2>5. power.hold \in 0..Due /\ power.shown \in NotShown..SleepHold
      BY DEF Init, Watching, Due, NotShown
  <2>6. motor \in BOOLEAN /\ up \in {"on", "asleep", "off"} /\ dark \subseteq Tasks
      BY DEF Init
  <2> QED BY <2>1, <2>2, <2>3, <2>4, <2>5, <2>6 DEF TypeOK, SessionSet, ScreenTasks
<1>2. MotorInv
  <2>1. haptics = <<>> /\ motor = FALSE
      BY DEF Init
  <2>2. haptics \in Seq(Pulses) /\ Len(haptics) = 0
      BY <2>1
  <2>3. Queue /\ \A who \in Players : ~InQueue(who)
      BY <2>2 DEF Queue, InQueue
  <2>4. \A who \in Players : ~Playing(who)
      BY DEF Init, Free, NoWatcher, NoNotice, Watching, Playing
  <2>5. Turns
      BY <2>2 DEF Turns
  <2> QED BY <2>1, <2>3, <2>4, <2>5 DEF MotorInv
<1> QED BY <1>1, <1>2, InitWInv DEF SInv

\* A new watcher takes the old one's place at the motor away.
LEMMA AnswerQuestionShares ==
    ASSUME SInv, up = "on",
           NEW q \in Questions, NEW d \in Deadlines, NEW saved \in BOOLEAN,
           AnswerQuestion(q, d, saved)
    PROVE  TypeOK' /\ MotorInv'
<1> DEFINE task == [game |-> round.game, question |-> q]
<1>1. /\ UNCHANGED <<round, up, dark, powerup, power>>
      /\ activity.pc = "free" /\ round.game \in Games /\ Draw(View("question", task))
  <2>1. round.game \in Games
      BY DEF AnswerQuestion, SInv, TypeOK, Games, NoGame
  <2> QED BY <2>1 DEF AnswerQuestion, outside, Free
<1>2. task \in Tasks
    BY <1>1 DEF Tasks
<1>3. screen'.task \in ScreenTasks
  <2>1. View("question", task).task \in ScreenTasks
      BY <1>2, Views
  <2> QED BY <1>1, <2>1, Drawn
<1>4. session \in SessionSet /\ session = nvs
    BY DEF SInv, TypeOK, SessionSet, WInv, Flash
<1>5. {nvs', session'} \subseteq SessionSet
  <2>1. BegunSession(task.game, d) \in SessionSet
      BY <1>1, <1>4, BadgeAssumption DEF BegunSession, SessionSet, Games
  <2> QED BY <1>4, <2>1 DEF AnswerQuestion, Save
<1>6. CASE ~saved
  <2>1. UNCHANGED <<activity, watcher, haptics, motor>>
      BY <1>6 DEF AnswerQuestion, buzzer
  <2>2. MotorInv'
      BY <1>1, <2>1, MotorLeft DEF SInv, buzzer, Playing, Stopping
  <2> QED BY <1>1, <1>3, <1>5, <2>1, <2>2 DEF SInv, TypeOK, SessionSet, ScreenTasks
<1>7. CASE saved
  <2>1. activity' = [pc |-> "started", task |-> task] /\ StartResultWatcher(round.game)
      BY <1>7 DEF AnswerQuestion
  <2>2. watcher'.game \in 0..MaxGames /\ watcher'.tries \in 0..Queries
      BY <1>1, <2>1, BadgeAssumption DEF StartResultWatcher, SInv, TypeOK, Games
  <2>3. \A x \in Players : x # "watcher" => (Playing(x)' <=> Playing(x))
    <3>1. ~Playing("activity") /\ ~Playing("activity")'
        BY <1>1, <2>1 DEF Playing
    <3> QED BY <1>1, <3>1 DEF Playing, Players
  <2>4. MotorInv'
    <3>1. CASE UNCHANGED <<watcher, haptics, motor>>
      <4>1. Playing("watcher")' <=> Playing("watcher")
          BY <3>1 DEF Playing
      <4> QED BY <1>1, <2>3, <3>1, <4>1, MotorLeft DEF SInv, buzzer, Stopping
    <3>2. CASE haptics' = AbortedWait /\ motor' = AbortedPulse /\ watcher'.pc = "asleep"
      <4>1. /\ Queue'
            /\ \A x \in Players : InQueue(x)' <=> InQueue(x) /\ x # "watcher"
            /\ \A i \in 1..Len(haptics') : \E j \in 1..Len(haptics) : haptics'[i] = haptics[j]
            /\ haptics # <<>> /\ Head(haptics).who # "watcher"
                  => haptics' # <<>> /\ Head(haptics') = Head(haptics)
          BY <3>2, QueueCloses DEF SInv, MotorInv
      <4>2. motor' \in BOOLEAN /\ (motor' => haptics' # <<>> /\ Head(haptics').pulses > 0)
          BY <3>2, <4>1 DEF AbortedPulse, SInv, MotorInv
      <4>3. Turns'
          BY <1>1, <4>1, TurnsLeft DEF SInv, MotorInv, Stopping
      <4>4. ~Playing("watcher")'
          BY <3>2 DEF Playing
      <4> QED BY <1>1, <2>3, <4>1, <4>2, <4>3, <4>4 DEF SInv, MotorInv
    <3> QED BY <2>1, <3>1, <3>2 DEF StartResultWatcher, buzzer
  <2>5. activity'.task \in Tasks /\ motor' \in BOOLEAN
      BY <1>2, <2>1, <2>4 DEF MotorInv
  <2> QED BY <1>1, <1>3, <1>5, <2>2, <2>4, <2>5 DEF SInv, TypeOK, SessionSet, ScreenTasks
<1> QED BY <1>6, <1>7

\* An Activity plays alone between two awaits, and is done with the motor before
\* it goes on.
LEMMA ActivityShares ==
    ASSUME SInv, up = "on", Activity \/ \E correct \in BOOLEAN : ChooseAnswer(correct)
    PROVE  TypeOK' /\ MotorInv'
<1> USE DEF SInv
<1>1. /\ UNCHANGED <<round, up, nvs, session, dark, watcher, powerup, power>>
      /\ activity.pc # "free" /\ activity.task \in Tasks
      /\ activity' = Free \/ activity' = [pc |-> activity'.pc, task |-> activity.task]
  <2>1. activity.pc # "free" => activity.task \in Tasks /\ activity = [pc |-> activity.pc, task |-> activity.task]
      BY DEF TypeOK, Free, WInv, Types, ActivityType
  <2> USE <2>1 DEF outside, store, ActivityStep, Return
  <2>2. CASE Signalled \/ Refused \/ Cancelled \/ Recovered \/ Answered
      BY <2>2 DEF Signalled, Refused, Cancelled, Recovered, Answered
  <2>3. CASE VerdictPlayed \/ CrashPlayed \/ RecoveryPlayed
      BY <2>3 DEF VerdictPlayed, CrashPlayed, RecoveryPlayed
  <2>4. CASE BlackoutEnds \/ \E correct \in BOOLEAN : ChooseAnswer(correct)
      BY <2>4 DEF BlackoutEnds, ChooseAnswer
  <2> QED BY <2>2, <2>3, <2>4 DEF Activity
<1>2. screen'.task \in ScreenTasks
  <2>1. screen.task \in ScreenTasks
      BY DEF TypeOK, ScreenTasks
  <2>2. \A kind : View(kind, activity.task).task \in ScreenTasks
      BY <1>1, Views
  <2>3. \/ screen' = screen
        \/ \E kind : Draw(View(kind, activity.task)) \/ Draw(Plain(kind))
      BY DEF Activity, Signalled, Refused, Cancelled, Recovered, Return, Answered, VerdictPlayed,
             CrashPlayed, RecoveryPlayed, BlackoutEnds, ChooseAnswer
  <2> QED BY <2>1, <2>2, <2>3, Drawn, Views
<1>3. \A x \in Players : x # "activity" => (Playing(x)' <=> Playing(x))
    BY <1>1 DEF Playing
<1>4. MotorInv'
  <2> USE DEF Playing, Players
  <2>1. CASE Signalled \/ Refused \/ Cancelled \/ Recovered \/ Answered
    <3>1. /\ UNCHANGED buzzer /\ ~Playing("activity")
          /\ activity'.pc \in {"free", "refusing", "choosing"}
        BY <2>1 DEF Signalled, Refused, Cancelled, Recovered, Answered, Return, Free,
                    WInv, Types, ActivityType
    <3>2. ~Playing("activity")'
        BY <3>1
    <3> QED BY <1>1, <1>3, <3>1, <3>2, MotorLeft DEF Stopping
  <2>2. CASE VerdictPlayed \/ CrashPlayed \/ RecoveryPlayed
    <3>1. Played("activity") /\ activity'.pc \in {"holding", "away", "telling"}
        BY <2>2 DEF VerdictPlayed, CrashPlayed, RecoveryPlayed, ActivityStep,
                    WInv, Types, ActivityType
    <3>2. ~Playing("activity")'
        BY <3>1
    <3> QED BY <1>1, <1>3, <3>1, <3>2, PlayEnds DEF Stopping
  <2>3. CASE BlackoutEnds \/ \E correct \in BOOLEAN : ChooseAnswer(correct)
    <3>1. /\ Play("activity", 1) \/ Play("activity", 2)
          /\ activity.pc \in {"away", "choosing"}
          /\ activity' = [activity EXCEPT !.pc = "back"]
                \/ activity' = [activity EXCEPT !.pc = "verdict"]
        BY <2>3 DEF BlackoutEnds, ChooseAnswer, ActivityStep
    <3>2. activity'.pc \in {"back", "verdict"}
        BY <3>1 DEF WInv, Types, ActivityType
    <3>3. ~Playing("activity") /\ Playing("activity")'
        BY <3>1, <3>2
    <3>4. PICK n \in {1, 2} : Play("activity", n)
        BY <3>1
    <3> QED BY <1>1, <1>3, <3>3, <3>4, PlayBegins DEF Stopping
  <2> QED BY <2>1, <2>2, <2>3 DEF Activity
<1>5. activity' = Free \/ activity'.task \in Tasks
    BY <1>1
<1>6. motor' \in BOOLEAN
    BY <1>4 DEF MotorInv
<1> QED BY <1>1, <1>2, <1>4, <1>5, <1>6 DEF TypeOK, ScreenTasks

\* Going dark: the crash is felt only when it was written down.
LEMMA PanicShares ==
    ASSUME SInv, up = "on", NEW saved \in BOOLEAN, ChoosePanic(saved)
    PROVE  TypeOK' /\ MotorInv'
<1> DEFINE task == activity.task
           next == [session EXCEPT !.abandoned = @ \cup {task.question}]
<1> USE DEF SInv
<1>1. /\ UNCHANGED <<round, up, watcher, powerup, power>>
      /\ activity.pc = "choosing"
      /\ activity = [pc |-> activity.pc, task |-> task]
  <2>1. activity = [pc |-> activity.pc, task |-> task]
      BY DEF WInv, Types, ActivityType
  <2> QED BY <2>1 DEF ChoosePanic, outside
<1>2. task \in Tasks /\ task.question \in Questions
    BY <1>1 DEF TypeOK, Free, Tasks
<1>3. session \in SessionSet /\ session = nvs
    BY DEF TypeOK, SessionSet, WInv, Flash
<1>4. {nvs', session'} \subseteq SessionSet
  <2>1. next \in SessionSet
      BY <1>2, <1>3 DEF SessionSet
  <2> QED BY <1>3, <2>1 DEF ChoosePanic, Save
<1>5. \A x \in Players : x # "activity" => (Playing(x)' <=> Playing(x))
    BY <1>1 DEF Playing
<1>6. CASE ~saved
  <2>1. UNCHANGED <<dark, screen, haptics, motor>> /\ activity' = Free
      BY <1>6 DEF ChoosePanic, buzzer
  <2>2. MotorInv'
    <3>1. ~Playing("activity") /\ ~Playing("activity")'
        BY <1>1, <2>1 DEF Playing, Free
    <3> QED BY <1>1, <1>5, <2>1, <3>1, MotorLeft DEF buzzer, Stopping
  <2> QED BY <1>1, <1>4, <2>1, <2>2 DEF TypeOK, SessionSet, ScreenTasks
<1>7. CASE saved
  <2>1. /\ activity' = [activity EXCEPT !.pc = "crashing"]
        /\ dark' = dark \cup {task} /\ Draw(View("crash", task)) /\ Play("activity", 1)
      BY <1>7 DEF ChoosePanic
  <2>2. activity'.pc = "crashing" /\ activity'.task = task
      BY <1>1, <2>1
  <2>3. screen'.task \in ScreenTasks
    <3>1. View("crash", task).task \in ScreenTasks
        BY <1>2, Views
    <3> QED BY <2>1, <3>1, Drawn
  <2>4. ~Playing("activity") /\ Playing("activity")'
      BY <1>1, <2>2 DEF Playing
  <2>5. MotorInv'
      BY <1>1, <1>5, <2>1, <2>4, PlayBegins DEF Players, Stopping
  <2>6. motor' \in BOOLEAN
      BY <2>5 DEF MotorInv
  <2> QED BY <1>1, <1>2, <1>4, <2>1, <2>2, <2>3, <2>5, <2>6 DEF TypeOK, SessionSet, ScreenTasks
<1> QED BY <1>6, <1>7

LEMMA WatcherShares ==
    ASSUME SInv, up = "on", Watcher
    PROVE  TypeOK' /\ MotorInv'
<1> USE DEF SInv
<1>1. watcher = [pc |-> watcher.pc, game |-> watcher.game, tries |-> watcher.tries]
    BY DEF WInv, Types, WatcherType
<1>2. watcher.game \in 0..MaxGames /\ watcher.tries \in 0..Queries
    BY DEF TypeOK
<1>3. /\ UNCHANGED <<round, up, nvs, session, dark, activity, powerup, power>>
      /\ watcher'.game = watcher.game /\ watcher'.tries \in 0..Queries
  <2> USE <1>1, <1>2, BadgeAssumption DEF outside, store, WatcherStep
  <2>1. CASE ResultsShown
      BY <2>1 DEF ResultsShown
  <2>2. CASE QueryAgain
      BY <2>2 DEF QueryAgain
  <2>3. CASE ResultPending
      BY <2>3 DEF ResultPending
  <2>4. CASE ResultsPlayed
      BY <2>4 DEF ResultsPlayed
  <2> QED BY <2>1, <2>2, <2>3, <2>4 DEF Watcher
<1>4. screen'.task \in ScreenTasks
  <2>1. screen.task \in ScreenTasks
      BY DEF TypeOK, ScreenTasks
  <2>2. screen' = screen \/ \E kind : Draw(View(kind, [NoTask EXCEPT !.game = watcher.game]))
      BY DEF Watcher, ResultsShown, QueryAgain, ResultPending, ResultsPlayed
  <2> QED BY <1>2, <2>1, <2>2, Drawn, Views
<1>5. \A x \in Players : x # "watcher" => (Playing(x)' <=> Playing(x))
    BY <1>3 DEF Playing
<1>6. MotorInv'
  <2> USE DEF Playing, Players
  <2>1. CASE ResultsShown
    <3>1. PICK n \in {1, 3} : Play("watcher", n)
        BY <2>1 DEF ResultsShown
    <3>2. watcher.pc = "asleep" /\ watcher'.pc = "telling"
        BY <1>1, <2>1 DEF ResultsShown, WatcherStep
    <3>3. ~Playing("watcher") /\ Playing("watcher")'
        BY <3>2
    <3> QED BY <1>3, <1>5, <3>1, <3>3, PlayBegins DEF Stopping
  <2>2. CASE QueryAgain \/ ResultPending
    <3>1. UNCHANGED buzzer /\ watcher.pc = "asleep" /\ watcher'.pc \in {"asleep", "done"}
        BY <1>1, <2>2 DEF QueryAgain, ResultPending, WatcherStep
    <3>2. ~Playing("watcher") /\ ~Playing("watcher")'
        BY <3>1
    <3> QED BY <1>3, <1>5, <3>1, <3>2, MotorLeft DEF Stopping
  <2>3. CASE ResultsPlayed
    <3>1. Played("watcher") /\ watcher'.pc = "done"
        BY <1>1, <2>3 DEF ResultsPlayed, WatcherStep
    <3>2. ~Playing("watcher")'
        BY <3>1
    <3> QED BY <1>3, <1>5, <3>1, <3>2, PlayEnds DEF Stopping
  <2> QED BY <2>1, <2>2, <2>3 DEF Watcher
<1>7. motor' \in BOOLEAN
    BY <1>6 DEF MotorInv
<1> QED BY <1>2, <1>3, <1>4, <1>6, <1>7 DEF TypeOK, ScreenTasks

LEMMA PowerupsShare ==
    ASSUME SInv, up = "on", Powerups
    PROVE  TypeOK' /\ MotorInv'
<1> USE DEF SInv
<1>1. powerup = [pc |-> powerup.pc, game |-> powerup.game, sequence |-> powerup.sequence]
    BY DEF WInv, Types, PowerupType
<1>2. /\ UNCHANGED <<round, up, nvs, session, dark, activity, watcher, power>>
      /\ powerup'.sequence \in 0..MaxNotices
  <2> USE <1>1 DEF outside, store, TypeOK
  <2>1. CASE PowerupQuery
      BY <2>1 DEF PowerupQuery
  <2>2. CASE PowerupPlayed
      BY <2>2 DEF PowerupPlayed
  <2>3. CASE OverlayEnds
      BY <2>3 DEF OverlayEnds
  <2> QED BY <2>1, <2>2, <2>3 DEF Powerups
<1>3. screen'.task \in ScreenTasks
  <2>1. screen.task \in ScreenTasks
      BY DEF TypeOK, ScreenTasks
  <2>2. Underneath.task \in ScreenTasks
    <3>1. activity.pc # "free" => activity.task \in Tasks
        BY DEF TypeOK, Free
    <3> QED BY <3>1, Views DEF Underneath, ActivityActive
  <2>3. screen' = screen \/ Draw(Plain("powerup")) \/ Draw(Underneath)
      BY DEF Powerups, PowerupQuery, PowerupPlayed, OverlayEnds
  <2> QED BY <2>1, <2>2, <2>3, Drawn, Views
<1>4. \A x \in Players : x # "powerup" => (Playing(x)' <=> Playing(x))
    BY <1>2 DEF Playing
<1>5. MotorInv'
  <2> USE DEF Playing, Players
  <2>1. CASE PowerupQuery
    <3>1. \/ powerup'.pc = "playing" /\ Play("powerup", 2)
          \/ powerup'.pc = "idle" /\ UNCHANGED buzzer
        BY <2>1 DEF PowerupQuery
    <3>2. powerup.pc = "idle"
        BY <2>1 DEF PowerupQuery
    <3>3. CASE powerup'.pc = "playing" /\ Play("powerup", 2)
      <4>1. ~Playing("powerup") /\ Playing("powerup")'
          BY <3>2, <3>3
      <4> QED BY <1>2, <1>4, <3>3, <4>1, PlayBegins DEF Stopping
    <3>4. CASE powerup'.pc = "idle" /\ UNCHANGED buzzer
      <4>1. ~Playing("powerup") /\ ~Playing("powerup")'
          BY <3>2, <3>4
      <4> QED BY <1>2, <1>4, <3>4, <4>1, MotorLeft DEF Stopping
    <3> QED BY <3>1, <3>3, <3>4
  <2>2. CASE PowerupPlayed
    <3>1. Played("powerup") /\ powerup'.pc = "overlay"
        BY <1>1, <2>2 DEF PowerupPlayed
    <3>2. ~Playing("powerup")'
        BY <3>1
    <3> QED BY <1>2, <1>4, <3>1, <3>2, PlayEnds DEF Stopping
  <2>3. CASE OverlayEnds
    <3>1. UNCHANGED buzzer /\ powerup.pc = "overlay" /\ powerup'.pc = "idle"
        BY <1>1, <2>3 DEF OverlayEnds
    <3>2. ~Playing("powerup") /\ ~Playing("powerup")'
        BY <3>1
    <3> QED BY <1>2, <1>4, <3>1, <3>2, MotorLeft DEF Stopping
  <2> QED BY <2>1, <2>2, <2>3 DEF Powerups
<1>6. motor' \in BOOLEAN
    BY <1>5 DEF MotorInv
<1> QED BY <1>2, <1>3, <1>5, <1>6 DEF TypeOK, ScreenTasks

\* How long DOWN is held and what the countdown shows stay in their bounds, and
\* each of its seconds is one pulse.
LEMMA HoldDownShares ==
    ASSUME SInv, HoldDown
    PROVE  /\ power'.hold \in 0..Due /\ power'.shown \in NotShown..SleepHold
           /\ \/ UNCHANGED buzzer /\ power'.pc \in {"poll", "release"}
              \/ Play("power", 1) /\ power'.pc \in {"pulse", "last"}
<1> USE BadgeAssumption DEF SInv
<1>1. /\ power = [pc |-> power.pc, hold |-> power.hold, shown |-> power.shown]
      /\ power.hold \in 0..Due /\ power.shown \in NotShown..SleepHold
    BY DEF WInv, Types, PowerType, TypeOK
<1>2. PICK hold \in (IF power.hold = 0 THEN {1} ELSE power.hold..Due) :
         \/ hold < Armed /\ power' = [power EXCEPT !.hold = hold] /\ UNCHANGED <<screen, buzzer>>
         \/ /\ hold \in Armed..(Due - 1)
            /\ \/ Countdown(hold, Remaining(hold), "pulse")
               \/ /\ Remaining(hold) = power.shown
                  /\ power' = [power EXCEPT !.hold = hold]
                  /\ UNCHANGED <<screen, buzzer>>
         \/ /\ hold = Due
            /\ \/ Countdown(hold, 0, "last")
               \/ /\ power.shown = 0
                  /\ power' = [power EXCEPT !.pc = "release", !.hold = hold]
                  /\ Draw(Plain("sleeping"))
                  /\ UNCHANGED buzzer
    BY DEF HoldDown
<1>0. power.pc = "poll"
    BY DEF HoldDown
<1>3. hold \in 0..Due
    BY <1>1, <1>2 DEF Due
<1>4. CASE power' = [power EXCEPT !.hold = hold] /\ UNCHANGED <<screen, buzzer>>
  <2>1. power' = [pc |-> "poll", hold |-> hold, shown |-> power.shown]
      BY <1>0, <1>1, <1>4
  <2> QED BY <1>1, <1>3, <1>4, <2>1
<1>5. CASE hold \in Armed..(Due - 1) /\ Countdown(hold, Remaining(hold), "pulse")
  <2>1. Remaining(hold) \in NotShown..SleepHold
      BY <1>5 DEF Remaining, Armed, Due, NotShown
  <2> QED BY <1>3, <1>5, <2>1 DEF Countdown
<1>6. CASE Countdown(hold, 0, "last")
    BY <1>3, <1>6 DEF Countdown, NotShown
<1>7. CASE power' = [power EXCEPT !.pc = "release", !.hold = hold] /\ UNCHANGED buzzer
  <2>1. power' = [pc |-> "release", hold |-> hold, shown |-> power.shown]
      BY <1>1, <1>7
  <2> QED BY <1>1, <1>3, <1>7, <2>1
<1> QED BY <1>2, <1>4, <1>5, <1>6, <1>7

LEMMA PowerShares ==
    ASSUME SInv, up = "on", Disarm \/ HoldDown \/ CountdownPlayed \/ PowerOff
    PROVE  TypeOK' /\ MotorInv'
<1> USE BadgeAssumption DEF SInv
<1>1. /\ power = [pc |-> power.pc, hold |-> power.hold, shown |-> power.shown]
      /\ power.hold \in 0..Due /\ power.shown \in NotShown..SleepHold
    BY DEF WInv, Types, PowerType, TypeOK
<1>2. UNCHANGED <<round, up, nvs, session, dark, activity, watcher, powerup>>
    BY DEF Disarm, HoldDown, CountdownPlayed, PowerOff, outside, store
<1>3. power'.hold \in 0..Due /\ power'.shown \in NotShown..SleepHold
    BY <1>1, HoldDownShares DEF Disarm, Watching, Due, NotShown, CountdownPlayed, PowerOff
<1>4. screen'.task \in ScreenTasks
  <2>1. screen.task \in ScreenTasks
      BY DEF TypeOK, ScreenTasks
  <2>2. CASE HoldDown
      BY <2>1, <2>2, HoldDownDraws, Drawn, Views DEF WInv, Types
  <2>3. CASE Disarm \/ CountdownPlayed \/ PowerOff
    <3>1. screen' = screen \/ screen' = Plain("off") \/ \E kind : Draw(Plain(kind))
        BY <2>3 DEF Disarm, CountdownPlayed, PowerOff
    <3> QED BY <2>1, <3>1, Drawn, Views
  <2> QED BY <2>2, <2>3
<1>5. \A x \in Players : x # "power" => (Playing(x)' <=> Playing(x))
    BY <1>2 DEF Playing
<1>6. MotorInv'
  <2> USE DEF Playing, Players
  <2>1. CASE Disarm
    <3>1. UNCHANGED buzzer /\ power.pc = "poll" /\ power'.pc = "poll"
        BY <2>1 DEF Disarm, Watching
    <3>2. ~Playing("power") /\ ~Playing("power")'
        BY <3>1
    <3> QED BY <1>2, <1>5, <3>1, <3>2, MotorLeft DEF Stopping
  <2>2. CASE HoldDown
    <3>1. power.pc = "poll"
        BY <2>2 DEF HoldDown
    <3>2. CASE UNCHANGED buzzer /\ power'.pc \in {"poll", "release"}
      <4>1. ~Playing("power") /\ ~Playing("power")'
          BY <3>1, <3>2
      <4> QED BY <1>2, <1>5, <3>1, <3>2, <4>1, MotorLeft DEF Stopping
    <3>3. CASE Play("power", 1) /\ power'.pc \in {"pulse", "last"}
      <4>1. ~Playing("power") /\ Playing("power")'
          BY <3>1, <3>3
      <4> QED BY <1>2, <1>5, <3>1, <3>3, <4>1, PlayBegins DEF Stopping
    <3> QED BY <2>2, <3>2, <3>3, HoldDownShares
  <2>3. CASE CountdownPlayed
    <3>1. Played("power") /\ power.pc \in {"pulse", "last"} /\ power'.pc \in {"poll", "release"}
        BY <1>1, <2>3 DEF CountdownPlayed
    <3>2. ~Playing("power")'
        BY <3>1
    <3> QED BY <1>2, <1>5, <3>1, <3>2, PlayEnds DEF Stopping
  <2>4. CASE PowerOff
    <3>1. /\ power.pc = "release" /\ power'.pc = "stopping" /\ motor' = motor
          /\ haptics' = Append(haptics, [who |-> "power", pulses |-> 0])
        BY <1>1, <2>4 DEF PowerOff
    <3>2. ~InQueue("power")
        BY <3>1 DEF MotorInv
    <3>3. /\ Queue' /\ haptics' # <<>>
          /\ \A x \in Players : InQueue(x)' <=> x = "power" \/ InQueue(x)
          /\ \A i \in 1..Len(haptics') :
                \/ haptics'[i].who = "power" /\ haptics'[i].pulses = 0
                \/ \E j \in 1..Len(haptics) : haptics'[i] = haptics[j]
          /\ haptics # <<>> /\ Head(haptics') = Head(haptics)
        BY <2>4, <3>1, <3>2, QueueGrows DEF MotorInv, PowerOff
    <3>4. \A j \in 1..Len(haptics) : haptics[j].who # "power" /\ haptics[j].pulses # 0
        BY <3>2 DEF InQueue, MotorInv, Turns
    <3>5. Turns'
        BY <3>1, <3>3, <3>4 DEF Turns, Stopping
    <3>6. Playing("power")'
        BY <3>1
    <3> QED BY <1>2, <1>5, <3>1, <3>3, <3>5, <3>6 DEF MotorInv
  <2> QED BY <2>1, <2>2, <2>3, <2>4
<1>7. motor' \in BOOLEAN
    BY <1>6 DEF MotorInv
<1> QED BY <1>2, <1>3, <1>4, <1>6, <1>7 DEF TypeOK, ScreenTasks

LEMMA HapticsShare ==
    ASSUME SInv, up = "on", Haptics
    PROVE  TypeOK' /\ MotorInv'
<1> USE DEF SInv
<1>1. UNCHANGED <<round, up, nvs, session, dark, screen, activity, watcher, powerup, power>>
    BY DEF Haptics, PulseStart, PulseEnd, outside, store
<1>2. CASE PulseStart
  <2>1. motor' = TRUE /\ haptics' = haptics /\ haptics # <<>> /\ Head(haptics).pulses > 0
      BY <1>2 DEF PulseStart
  <2> QED BY <1>1, <2>1 DEF MotorInv, Queue, Turns, Stopping, InQueue, Playing, TypeOK
<1>3. CASE PulseEnd
  <2>1. /\ motor' = FALSE /\ haptics # <<>> /\ Head(haptics).pulses > 1
        /\ haptics' = [haptics EXCEPT ![1] = [who |-> @.who, pulses |-> @.pulses - 1]]
      BY <1>3 DEF PulseEnd, MotorInv
  <2>2. /\ Queue' /\ \A x \in Players : InQueue(x)' <=> InQueue(x)
        /\ Len(haptics') = Len(haptics)
        /\ \A i \in 1..Len(haptics) :
              /\ haptics'[i].who = haptics[i].who
              /\ haptics'[i].pulses = 0 <=> haptics[i].pulses = 0
      BY <2>1, QueuePulses DEF MotorInv
  <2>3. Turns'
      BY <1>1, <2>2 DEF MotorInv, Turns, Stopping
  <2> QED BY <1>1, <2>1, <2>2, <2>3 DEF MotorInv, Playing, TypeOK
<1> QED BY <1>2, <1>3 DEF Haptics

\* A badge that is off or asleep has left the motor off, and so has its restart.
LEMMA RestartShares ==
    ASSUME SInv, Sleep \/ BatteryOut \/ Boot
    PROVE  TypeOK' /\ MotorInv'
<1> USE BadgeAssumption DEF SInv
<1>1. CASE Sleep \/ BatteryOut
  <2>1. /\ UNCHANGED <<round, nvs, session, dark>>
        /\ activity' = Free /\ watcher' = NoWatcher /\ powerup' = NoNotice
        /\ power' = Watching /\ screen' = Plain("off") /\ up' \in {"asleep", "off"}
        /\ haptics' = <<>> /\ motor' = FALSE
      BY <1>1 DEF Sleep, BatteryOut, Halt, store
  <2>2. haptics' \in Seq(Pulses) /\ Len(haptics') = 0
      BY <2>1
  <2>3. Queue' /\ \A who \in Players : ~InQueue(who)'
      BY <2>2 DEF Queue, InQueue
  <2>4. MotorInv'
    <3>1. \A who \in Players : ~Playing(who)'
        BY <2>1 DEF Free, NoWatcher, NoNotice, Watching, Playing
    <3>2. Turns'
        BY <2>2 DEF Turns
    <3> QED BY <2>1, <2>3, <3>1, <3>2 DEF MotorInv
  <2>5. screen'.task \in ScreenTasks
      BY <2>1, Views
  <2>6. /\ watcher'.game \in 0..MaxGames /\ watcher'.tries \in 0..Queries
        /\ powerup'.sequence \in 0..MaxNotices
      BY <2>1 DEF NoWatcher, NoNotice, NoGame
  <2>7. power'.hold \in 0..Due /\ power'.shown \in NotShown..SleepHold
      BY <2>1 DEF Watching, Due, NotShown
  <2> QED BY <2>1, <2>4, <2>5, <2>6, <2>7 DEF TypeOK, ScreenTasks
<1>2. CASE Boot
  <2>1. /\ UNCHANGED <<round, nvs, dark, activity, watcher, powerup, power, haptics>>
        /\ session' = nvs /\ up' = "on" /\ screen' = Plain("waiting") /\ motor' = FALSE
      BY <1>2 DEF Boot
  <2>2. MotorInv'
      BY <2>1 DEF MotorInv, Queue, Turns, Stopping, InQueue, Playing
  <2>3. screen'.task \in ScreenTasks
      BY <2>1, Views
  <2> QED BY <2>1, <2>2, <2>3 DEF TypeOK, ScreenTasks
<1> QED BY <1>1, <1>2

LEMMA OutsideShares ==
    ASSUME SInv, NextRound \/ FinishRound \/ Command
    PROVE  TypeOK' /\ MotorInv'
<1> USE BadgeAssumption DEF SInv
<1>1. UNCHANGED <<up, nvs, session, dark, screen, activity, watcher, powerup, power, haptics, motor>>
    BY DEF NextRound, FinishRound, Command, store, buzzer
<1>2. round' \in [game : 0..MaxGames, running : BOOLEAN, notices : 0..MaxNotices]
  <2>1. round \in [game : 0..MaxGames, running : BOOLEAN, notices : 0..MaxNotices]
      BY DEF TypeOK
  <2>2. CASE NextRound
      BY <2>1, <2>2 DEF NextRound
  <2>3. CASE FinishRound
      BY <2>1, <2>3 DEF FinishRound
  <2>4. CASE Command
      BY <2>1, <2>4 DEF Command
  <2> QED BY <2>2, <2>3, <2>4
<1>3. MotorInv'
    BY <1>1 DEF MotorInv, Queue, Turns, Stopping, InQueue, Playing
<1> QED BY <1>1, <1>2, <1>3 DEF TypeOK

LEMMA NextKeepsSInv == SInv /\ [Next]_vars => SInv'
<1> SUFFICES ASSUME SInv, [Next]_vars PROVE TypeOK' /\ MotorInv'
    BY NextKeepsWInv DEF SInv
<1>1. CASE UNCHANGED vars
    BY <1>1 DEF SInv, vars, outside, store, buzzer, TypeOK, MotorInv, Queue, Turns,
                Stopping, InQueue, Playing
<1>2. CASE up = "on" /\ \E q \in Questions, d \in Deadlines, saved \in BOOLEAN :
                             AnswerQuestion(q, d, saved)
    BY <1>2, AnswerQuestionShares
<1>3. CASE up = "on" /\ (Activity \/ Choose)
    BY <1>3, ActivityShares, PanicShares DEF Choose
<1>4. CASE up = "on" /\ (Watcher \/ Powerups \/ Haptics)
    BY <1>4, WatcherShares, PowerupsShare, HapticsShare
<1>5. CASE up = "on" /\ Power
    BY <1>5, PowerShares, RestartShares DEF Power
<1>6. CASE NextRound \/ FinishRound \/ Command \/ BatteryOut \/ Boot
    BY <1>6, OutsideShares, RestartShares
<1> QED BY <1>1, <1>2, <1>3, <1>4, <1>5, <1>6 DEF Next

LEMMA AlwaysSInv == Spec => []SInv
BY InitSInv, NextKeepsSInv, PTL DEF Spec

-----------------------------------------------------------------------------
(* The theorems. *)

\* A badge never waits for a choice on a question it crashed on, through any
\* failed write, extension, round and restart (session.rs, main.rs 226-234).
THEOREM AbandonedStaysAbandoned == Spec => []AbandonedNeverAsked
<1>1. WInv => AbandonedNeverAsked
    BY DEF WInv, Asked, AbandonedNeverAsked
<1> QED BY <1>1, AlwaysWInv, PTL

\* The screen asks the question that the choice answers, or says why not; four
\* tasks draw on it (main.rs, power.rs).
THEOREM ChoicesAreShown == Spec => []ScreenAsksTheQuestion
<1>1. WInv => ScreenAsksTheQuestion
    BY DEF WInv, Panel, Asking, Shown, ScreenAsksTheQuestion
<1> QED BY <1>1, AlwaysWInv, PTL

\* The result watcher draws no results of a game the badge has left (main.rs
\* 441-503).
THEOREM ResultsAreCurrent == Spec => NoOldResults
<1>1. WInv /\ [Next]_vars
        => [screen' # screen /\ screen'.kind \in {"results", "pending"}
              => screen'.task.game >= session.game]_vars
    BY ResultsDrawn
<1> QED BY <1>1, AlwaysWInv, PTL DEF Spec, NoOldResults

\* What the tasks of a badge share is as each of them left it: the session in
\* memory is the one in flash, the motor runs only while somebody plays it who
\* will stop it, and whoever waits for it has a place in the queue whose turn
\* can come, through any failed write, abort, sleep and restart (haptics.rs,
\* session.rs, start_result_watcher).
THEOREM SharedStateIsKept == Spec => []SharedStateKept
<1>1. SInv => SharedStateKept
    BY DEF SInv, MotorInv, Turns, Stopping, WInv, Flash, SharedStateKept, MemoryIsFlash,
           MotorIsPlayed
<1> QED BY <1>1, AlwaysSInv, PTL
=============================================================================

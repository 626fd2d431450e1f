----------------------------- MODULE BadgeWorker -----------------------------
(***************************************************************************)
(* One badge between two restarts and across them: the Activity that asks  *)
(* a question (answer_question of firmware/src/main.rs), the watcher of    *)
(* the game's results, the poller of power-ups, the sleep monitor          *)
(* (power.rs), the motor they share (haptics.rs) and the session kept in   *)
(* flash (session.rs).                                                     *)
(*                                                                         *)
(* All of them are tasks of one single-threaded runtime, so an action is   *)
(* what one task does between two awaits.  They meet on one screen, on one *)
(* motor behind a first-come lock, and on the flags and the question the   *)
(* Activity holds while it runs.  How a choice is read off the buttons is  *)
(* BadgeButtons; here the holder answers, crashes or does neither.  Time   *)
(* is left out: a sleep ends at any moment.  DOWN may be found held or not   *)
(* whenever it is sampled.                                                 *)
(***************************************************************************)
EXTENDS Integers, SequencesExt

CONSTANTS
    MaxGames,   \* bound: rounds played
    Questions,
    Deadlines,  \* deadlines a task carries; a later one has been extended
    Queries,    \* the watcher's queries, 45
    SleepHold,  \* SLEEP_HOLD in seconds, each with its countdown screen
    MaxNotices  \* bound: power-ups of one game

ASSUME BadgeAssumption ==
    /\ MaxGames \in Nat /\ MaxNotices \in Nat
    /\ Deadlines \subseteq Nat \ {0}
    /\ Queries \in Nat \ {0} /\ SleepHold \in Nat \ {0}

Games == 1..MaxGames
NoGame == 0

VARIABLES
    round,      \* Temporal: the latest game, and its notices
    up,         \* "on", "asleep" or "off"
    nvs,        \* the session in flash
    session,    \* the session in memory
    screen,
    activity,   \* answer_question: where it is, and the task it holds
    watcher,    \* the result watcher
    powerup,    \* monitor_powerups
    power,      \* power::monitor
    haptics,    \* who holds the motor, or waits for it, and pulses to play
    motor,
    dark        \* history: the questions the badge crashed on

outside  == <<round, up>>
store    == <<nvs, session, dark>>
buzzer   == <<haptics, motor>>
vars == <<outside, store, screen, activity, watcher, powerup, power, buzzer>>

NoTask == [game |-> NoGame, question |-> "none"]
Tasks == [game : Games, question : Questions]

View(kind, task) == [kind |-> kind, task |-> task]
Plain(kind) == View(kind, NoTask)

Free == [pc |-> "free", task |-> NoTask]
NoWatcher == [pc |-> "none", game |-> NoGame, tries |-> 0]
NoNotice == [pc |-> "idle", game |-> NoGame, sequence |-> 0]
NoSession == [game |-> NoGame, deadline |-> 0, abandoned |-> {}]

\* How long DOWN has been held: 0 not at all, 1 shorter than SLEEP_ARM_DELAY,
\* then the seconds that remain, rounded up, and at last SLEEP_HOLD.  Rounding
\* reaches 0 seconds just before the hold is complete.
Armed == 2
Due == SleepHold + 3
NotShown == -1
Watching == [pc |-> "poll", hold |-> 0, shown |-> NotShown]

Init ==
    /\ round = [game |-> NoGame, running |-> FALSE, notices |-> 0]
    /\ up = "on"
    /\ nvs = NoSession /\ session = NoSession
    /\ screen = Plain("waiting")
    /\ activity = Free
    /\ watcher = NoWatcher
    /\ powerup = NoNotice
    /\ power = Watching
    /\ haptics = <<>> /\ motor = FALSE
    /\ dark = {}

ActivityActive == activity.pc # "free"
PowerupActive == powerup.pc # "idle"

\* The panel that power_off switched off shows nothing any more.
Draw(view) == screen' = IF screen.kind = "off" THEN screen ELSE view

-----------------------------------------------------------------------------
(* Plausible slips in the definitions below, for the mutation runs. *)

\* A new deadline begins a new session.
FreshSession(g, d) == [game |-> g, deadline |-> d, abandoned |-> {}]

\* Any watcher still running will do.
AnyWatcher(g) == watcher.pc \notin {"none", "done"}

\* The aborted watcher leaves the motor as it is.
MotorLeftOn == motor

\* The aborted watcher's place in the queue is not given up.
KeepsPlace == haptics

\* The overlay puts the waiting screen back, question or not.
RestoresWaiting == Plain("waiting")

-----------------------------------------------------------------------------
(* The motor: pulse, gap, play and off of haptics.rs.                      *)

\* A task is in the queue once, if at all: it waits for its own play to end.
InQueue(who) == \E i \in 1..Len(haptics) : haptics[i].who = who
Place(who) == CHOOSE i \in 1..Len(haptics) : haptics[i].who = who

\* play takes the lock, at once if nobody holds it, and starts a pulse.
Play(who, pulses) ==
    /\ haptics' = Append(haptics, [who |-> who, pulses |-> pulses])
    /\ motor' = (motor \/ haptics = <<>>)

\* The last pulse ends: MotorOffGuard::stop, and the lock passes on.
Played(who) ==
    /\ motor
    /\ Head(haptics) = [who |-> who, pulses |-> 1]
    /\ haptics' = Tail(haptics)
    /\ motor' = FALSE

\* The next in line, or the next pulse after a gap.
PulseStart ==
    /\ haptics # <<>> /\ ~motor
    /\ Head(haptics).pulses > 0
    /\ motor' = TRUE
    /\ UNCHANGED <<outside, store, screen, activity, watcher, powerup, power, haptics>>

PulseEnd ==
    /\ motor /\ Head(haptics).pulses > 1
    /\ haptics' = [haptics EXCEPT ![1] = [who |-> @.who, pulses |-> @.pulses - 1]]
    /\ motor' = FALSE
    /\ UNCHANGED <<outside, store, screen, activity, watcher, powerup, power>>

\* Aborting the watcher drops its MotorOffGuard and its place at the lock.
AbortedPulse == motor /\ Head(haptics).who # "watcher"
AbortedWait ==
    IF InQueue("watcher") THEN RemoveAt(haptics, Place("watcher")) ELSE haptics

-----------------------------------------------------------------------------
(* The session: begin_game, is_abandoned and abandon of session.rs.        *)

\* begin_game starts a session for a new game and prolongs that of this one.
BegunSession(g, d) ==
    IF session.game # g THEN [game |-> g, deadline |-> d, abandoned |-> {}]
                        ELSE [session EXCEPT !.deadline = d]

BeginChanges(g, d) == session.game # g \/ session.deadline < d

IsAbandoned(task) == session.game = task.game /\ task.question \in session.abandoned

\* save, then the assignment; a failed save leaves both as they were.
Save(next, saved) ==
    IF saved THEN nvs' = next /\ session' = next ELSE UNCHANGED <<nvs, session>>

-----------------------------------------------------------------------------
(* answer_question.                                                        *)

ActivityStep(from, to) ==
    /\ activity.pc = from
    /\ activity' = [activity EXCEPT !.pc = to]

\* start_result_watcher leaves the watcher of this game alone and replaces
\* any other.
Watched(g) == watcher.game = g /\ watcher.pc \notin {"none", "done"}

StartResultWatcher(g) ==
    IF Watched(g)
      THEN UNCHANGED <<watcher, buzzer>>
      ELSE /\ watcher' = [pc |-> "asleep", game |-> g, tries |-> 0]
           /\ haptics' = AbortedWait
           /\ motor' = AbortedPulse

\* The question is drawn before anything can fail, the session begun, the
\* watcher started; the Activity then waits for its Signal.  A failed save ends
\* it at once, and Temporal will retry.
AnswerQuestion(q, d, saved) ==
    LET task == [game |-> round.game, question |-> q] IN
    /\ round.game # NoGame
    /\ activity = Free
    /\ saved \/ BeginChanges(task.game, d)
    /\ Draw(View("question", task))
    /\ IF BeginChanges(task.game, d) THEN Save(BegunSession(task.game, d), saved)
                                     ELSE UNCHANGED <<nvs, session>>
    /\ IF saved
         THEN /\ activity' = [pc |-> "started", task |-> task]
              /\ StartResultWatcher(task.game)
         ELSE UNCHANGED <<activity, watcher, buzzer>>
    /\ UNCHANGED <<outside, dark, powerup, power>>

\* badge_started was sent, was refused, or took 750 ms.
Signalled ==
    /\ activity.pc = "started"
    /\ activity' = [activity EXCEPT
           !.pc = IF IsAbandoned(activity.task) THEN "refusing" ELSE "choosing"]
    /\ UNCHANGED <<outside, store, screen, watcher, powerup, power, buzzer>>

\* An error returned to Temporal; what the screen shows is left there.
Return(from) ==
    /\ activity.pc = from
    /\ activity' = Free
    /\ UNCHANGED <<outside, store, screen, watcher, powerup, power, buzzer>>

\* 250 ms after the refusal.
Refused == Return("refusing")

\* The deadline, the local ceiling or a cancellation ends the wait.
Cancelled == Return("choosing")

ChooseAnswer(correct) ==
    /\ ActivityStep("choosing", "verdict")
    /\ Draw(View("feedback", activity.task))
    /\ Play("activity", IF correct THEN 1 ELSE 2)
    /\ UNCHANGED <<outside, store, watcher, powerup, power>>

VerdictPlayed ==
    /\ ActivityStep("verdict", "holding")
    /\ Played("activity")
    /\ UNCHANGED <<outside, store, screen, watcher, powerup, power>>

\* FEEDBACK_HOLD is over; the answer is returned.
Answered ==
    /\ activity.pc = "holding"
    /\ activity' = Free
    /\ Draw(Plain("waiting"))
    /\ UNCHANGED <<outside, store, watcher, powerup, power, buzzer>>

\* The question is abandoned in flash before the badge goes dark.
ChoosePanic(saved) ==
    /\ activity.pc = "choosing"
    /\ IF session.game = activity.task.game /\ ~IsAbandoned(activity.task)
         THEN Save([session EXCEPT !.abandoned = @ \cup {activity.task.question}], saved)
         ELSE UNCHANGED <<nvs, session>>
    /\ IF saved
         THEN /\ activity' = [activity EXCEPT !.pc = "crashing"]
              /\ dark' = dark \cup {activity.task}
              /\ Draw(View("crash", activity.task))
              /\ Play("activity", 1)
         ELSE /\ activity' = Free
              /\ UNCHANGED <<dark, screen, buzzer>>
    /\ UNCHANGED <<outside, watcher, powerup, power>>

CrashPlayed ==
    /\ ActivityStep("crashing", "away")
    /\ Played("activity")
    /\ UNCHANGED <<outside, store, screen, watcher, powerup, power>>

\* panic_event was sent or not, and HEARTBEAT_BLACKOUT is over.
BlackoutEnds ==
    /\ ActivityStep("away", "back")
    /\ Draw(View("recovered", activity.task))
    /\ Play("activity", 2)
    /\ UNCHANGED <<outside, store, watcher, powerup, power>>

RecoveryPlayed ==
    /\ ActivityStep("back", "telling")
    /\ Played("activity")
    /\ UNCHANGED <<outside, store, screen, watcher, powerup, power>>

\* recovered was sent or not; the Activity ends in an error.
Recovered == Return("telling")

-----------------------------------------------------------------------------
(* The result watcher of one game; it queries the run that started it.     *)

WatcherStep(from, to) ==
    /\ watcher.pc = from
    /\ watcher' = [watcher EXCEPT !.pc = to]

Finished(g) == g < round.game \/ (g = round.game /\ ~round.running)

\* A query is answered: the first at the deadline the game's first task
\* carried, the others a second apart.
ResultsShown ==
    /\ watcher.tries < Queries
    /\ WatcherStep("asleep", "telling")
    /\ Finished(watcher.game)
    /\ Draw(View("results", [NoTask EXCEPT !.game = watcher.game]))
    /\ \E won \in BOOLEAN : Play("watcher", IF won THEN 3 ELSE 1)
    /\ UNCHANGED <<outside, store, activity, powerup, power>>

\* Not finished yet, or the query failed.
QueryAgain ==
    /\ watcher.pc = "asleep" /\ watcher.tries < Queries
    /\ watcher' = [watcher EXCEPT !.tries = @ + 1]
    /\ UNCHANGED <<outside, store, screen, activity, powerup, power, buzzer>>

ResultPending ==
    /\ watcher.tries = Queries
    /\ WatcherStep("asleep", "done")
    /\ Draw(View("pending", [NoTask EXCEPT !.game = watcher.game]))
    /\ UNCHANGED <<outside, store, activity, powerup, power, buzzer>>

ResultsPlayed ==
    /\ WatcherStep("telling", "done")
    /\ Played("watcher")
    /\ UNCHANGED <<outside, store, screen, activity, powerup, power>>

-----------------------------------------------------------------------------
(* monitor_powerups: a query, whatever it finds, and the pause after it.   *)

\* The sequence starts over with a game; a notice is drawn if it is new, the
\* game runs and it is no older than POWERUP_FRESHNESS_MS.
PowerupQuery ==
    LET seen == IF powerup.game = round.game THEN powerup.sequence ELSE 0 IN
    /\ round.game # NoGame
    /\ powerup.pc = "idle"
    /\ \E fresh \in BOOLEAN :
          LET overlay == round.notices > seen /\ round.running /\ fresh IN
          /\ powerup' = [pc |-> IF overlay THEN "playing" ELSE "idle",
                         game |-> round.game, sequence |-> round.notices]
          /\ IF overlay THEN Draw(Plain("powerup")) /\ Play("powerup", 2)
                        ELSE UNCHANGED <<screen, buzzer>>
    /\ UNCHANGED <<outside, store, activity, watcher, power>>

PowerupPlayed ==
    /\ powerup.pc = "playing"
    /\ powerup' = [powerup EXCEPT !.pc = "overlay"]
    /\ Played("powerup")
    /\ UNCHANGED <<outside, store, screen, activity, watcher, power>>

\* What the badge is asking as the overlay ends.
Underneath == IF ActivityActive THEN View("question", activity.task) ELSE Plain("waiting")

\* POWERUP_OVERLAY is over.
OverlayEnds ==
    /\ powerup.pc = "overlay"
    /\ powerup' = [powerup EXCEPT !.pc = "idle"]
    /\ Draw(Underneath)
    /\ UNCHANGED <<outside, store, activity, watcher, power, buzzer>>

-----------------------------------------------------------------------------
(* power::monitor.                                                         *)

Busy == ActivityActive \/ PowerupActive

Remaining(hold) == SleepHold + 2 - hold

\* Sleep is disarmed by an Activity, an overlay or a released DOWN; the last
\* also takes a countdown off the screen.
Disarm ==
    /\ power.pc = "poll"
    /\ power' = Watching
    /\ IF ~Busy /\ power.shown # NotShown THEN Draw(Plain("waiting")) ELSE screen' = screen
    /\ UNCHANGED <<outside, store, activity, watcher, powerup, buzzer>>

\* A new second of the countdown is drawn and felt, the last one only once.
Countdown(hold, seconds, next) ==
    /\ seconds # power.shown
    /\ power' = [pc |-> next, hold |-> hold, shown |-> seconds]
    /\ Draw(Plain("countdown"))
    /\ Play("power", 1)

\* DOWN is held, for as long as it has been.
HoldDown ==
    /\ power.pc = "poll"
    /\ ~Busy
    /\ \E hold \in (IF power.hold = 0 THEN {1} ELSE power.hold..Due) :
          \/ hold < Armed /\ power' = [power EXCEPT !.hold = hold] /\ UNCHANGED <<screen, buzzer>>
          \/ /\ hold \in Armed..(Due - 1)
             /\ \/ Countdown(hold, Remaining(hold), "pulse")
                \/ /\ Remaining(hold) = power.shown
                   /\ power' = [power EXCEPT !.hold = hold]
                   /\ UNCHANGED <<screen, buzzer>>
          \/ /\ hold = Due
             /\ \/ Countdown(hold, 0, "last")
                \/ /\ power.shown = 0
                   /\ power' = [power EXCEPT !.pc = "release", !.hold = hold]
                   /\ Draw(Plain("sleeping"))
                   /\ UNCHANGED buzzer
    /\ UNCHANGED <<outside, store, activity, watcher, powerup>>

CountdownPlayed ==
    /\ Played("power")
    /\ \/ /\ power.pc = "pulse"
          /\ power' = [power EXCEPT !.pc = "poll"]
          /\ screen' = screen
       \/ /\ power.pc = "last"
          /\ power' = [power EXCEPT !.pc = "release"]
          /\ Draw(Plain("sleeping"))
    /\ UNCHANGED <<outside, store, activity, watcher, powerup>>

\* The memory of the process is gone.
Halt(how) ==
    /\ up' = how
    /\ screen' = Plain("off")
    /\ activity' = Free /\ watcher' = NoWatcher
    /\ powerup' = NoNotice
    /\ power' = Watching
    /\ haptics' = <<>>
    /\ UNCHANGED <<round, store>>

\* Once every button is released the panel is switched off; haptics::off needs
\* the motor's lock, and the chip sleeps as soon as it has it.
Sleep ==
    /\ \/ power.pc = "release" /\ haptics = <<>>
       \/ power.pc = "stopping" /\ Head(haptics).who = "power"
    /\ Halt("asleep")
    /\ motor' = FALSE

PowerOff ==
    /\ power.pc = "release"
    /\ haptics # <<>>
    /\ power' = [power EXCEPT !.pc = "stopping"]
    /\ screen' = Plain("off")
    /\ haptics' = Append(haptics, [who |-> "power", pulses |-> 0])
    /\ UNCHANGED <<outside, store, activity, watcher, powerup, motor>>

-----------------------------------------------------------------------------
(* Outside: Temporal, the holder, the battery.                             *)

NextRound ==
    /\ ~round.running /\ round.game < MaxGames
    /\ round' = [game |-> round.game + 1, running |-> TRUE, notices |-> 0]
    /\ UNCHANGED <<up, store, screen, activity, watcher, powerup, power, buzzer>>

FinishRound ==
    /\ round.running
    /\ round' = [round EXCEPT !.running = FALSE]
    /\ UNCHANGED <<up, store, screen, activity, watcher, powerup, power, buzzer>>

\* An accepted command leaves a notice.
Command ==
    /\ round.running /\ round.notices < MaxNotices
    /\ round' = [round EXCEPT !.notices = @ + 1]
    /\ UNCHANGED <<up, store, screen, activity, watcher, powerup, power, buzzer>>

BatteryOut ==
    /\ up = "on"
    /\ Halt("off")
    /\ motor' = FALSE

\* main and run_worker: the session is loaded, the motor stopped, the tasks start.
Boot ==
    /\ up # "on"
    /\ up' = "on"
    /\ session' = nvs
    /\ screen' = Plain("waiting")
    /\ motor' = FALSE
    /\ UNCHANGED <<round, nvs, dark, activity, watcher, powerup, power, haptics>>

-----------------------------------------------------------------------------
Activity ==
    \/ Signalled \/ Refused \/ Cancelled
    \/ VerdictPlayed \/ Answered
    \/ CrashPlayed \/ BlackoutEnds \/ RecoveryPlayed \/ Recovered

Choose == \E yes \in BOOLEAN : ChoosePanic(yes) \/ ChooseAnswer(yes)

Watcher == ResultsShown \/ QueryAgain \/ ResultPending \/ ResultsPlayed
Powerups == PowerupQuery \/ PowerupPlayed \/ OverlayEnds
Power == Disarm \/ HoldDown \/ CountdownPlayed \/ Sleep \/ PowerOff
Haptics == PulseStart \/ PulseEnd

Next ==
    \/ /\ up = "on"
       /\ \/ \E q \in Questions, d \in Deadlines, saved \in BOOLEAN : AnswerQuestion(q, d, saved)
          \/ Activity \/ Choose \/ Watcher \/ Powerups \/ Power \/ Haptics
    \/ NextRound \/ FinishRound \/ Command \/ BatteryOut \/ Boot

Spec == Init /\ [][Next]_vars

\* The runtime polls every task whose sleep or lock is ready; holders, Temporal
\* and the battery owe nothing.
Fairness ==
    /\ WF_vars(up = "on" /\ Activity)
    /\ WF_vars(up = "on" /\ Haptics)
    /\ WF_vars(up = "on" /\ ResultsPlayed)
    /\ WF_vars(up = "on" /\ (PowerupPlayed \/ OverlayEnds))
    /\ WF_vars(up = "on" /\ CountdownPlayed)
    /\ WF_vars(up = "on" /\ power.pc = "stopping" /\ Sleep)

FairSpec == Spec /\ Fairness

-----------------------------------------------------------------------------
(* Properties.                                                             *)

TypeOK ==
    /\ round \in [game : 0..MaxGames, running : BOOLEAN, notices : 0..MaxNotices]
    /\ motor \in BOOLEAN
    /\ up \in {"on", "asleep", "off"}
    /\ {nvs, session} \subseteq [game : 0..MaxGames, deadline : Deadlines \cup {0},
                                 abandoned : SUBSET Questions]
    /\ screen.task \in [game : 0..MaxGames, question : Questions \cup {"none"}]
    /\ activity = Free \/ activity.task \in Tasks
    /\ watcher.game \in 0..MaxGames /\ watcher.tries \in 0..Queries
    /\ powerup.sequence \in 0..MaxNotices
    /\ power.hold \in 0..Due /\ power.shown \in NotShown..SleepHold
    /\ dark \subseteq Tasks

\* "The badge refuses that question for the rest of the game": it never waits
\* for a choice on a question it crashed on, whatever was saved, extended,
\* failed to be saved or restarted in between.
AbandonedNeverAsked == activity.pc = "choosing" => activity.task \notin dark

\* What the badge knows is what it would know after a restart, also when the
\* write to flash fails.
MemoryIsFlash == session = nvs

\* While it waits for a choice, the screen asks the question the choice will
\* answer, unless it says that input is suppressed (the power-up), that the
\* game is over, or the badge is already on its way to sleep.
ScreenAsksTheQuestion ==
    activity.pc = "choosing" =>
        \/ screen = View("question", activity.task)
        \/ screen.kind = "powerup" /\ PowerupActive
        \/ screen.kind \in {"results", "pending"} /\ screen.task.game = activity.task.game
        \/ screen.kind \in {"sleeping", "off"} /\ power.pc # "poll"

\* The results of a game are never drawn over those who play a later one.
NoOldResults ==
    [][screen' # screen /\ screen'.kind \in {"results", "pending"}
         => screen'.task.game >= session.game]_vars

Players == {"activity", "watcher", "powerup", "power"}

Playing(who) ==
    \/ who = "activity" /\ activity.pc \in {"verdict", "crashing", "back"}
    \/ who = "watcher" /\ watcher.pc = "telling"
    \/ who = "powerup" /\ powerup.pc = "playing"
    \/ who = "power" /\ power.pc \in {"pulse", "last", "stopping"}

\* The motor runs only while somebody plays it who will stop it: a task that is
\* aborted, asleep or gone leaves it off.  And nobody waits for a turn that never
\* comes: who plays is in the queue, who is in it plays, and whose turn it is can
\* go on, with pulses to play or, on the way to sleep, with none and the motor off.
MotorIsPlayed ==
    /\ motor => up = "on" /\ haptics # <<>> /\ Head(haptics).pulses > 0
    /\ \A who \in Players : InQueue(who) <=> Playing(who)
    /\ \A i \in 1..Len(haptics) :
          haptics[i].pulses = 0 <=> haptics[i].who = "power" /\ power.pc = "stopping"

\* What the tasks share, memory and motor, is as each of them left it, whoever is
\* aborted or restarted and whatever write fails.
SharedStateKept == TypeOK /\ MemoryIsFlash /\ MotorIsPlayed

\* Whoever has the motor, and whoever is aborted while it waits for it, an
\* Activity always ends and frees the badge's slot, and an overlay is always
\* lifted, and with it the suppression of the buttons.
TasksReturn ==
    /\ ActivityActive ~> ~ActivityActive
    /\ PowerupActive ~> ~PowerupActive

(* What documents say of the badge.                                        *)

\* "Sleep is disabled while an Activity owns the controls."
SleepLeavesActivity == [][up' = "asleep" /\ up = "on" => ~ActivityActive]_vars
=============================================================================

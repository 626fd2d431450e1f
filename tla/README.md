# Temporal Trivia Badge: TLA+ models and proofs

TLA+ modules for the program in this repository, TLC configurations that check
them on small instances, and TLAPS proofs of the properties that matter most.
Line numbers are those of the sources under `src/`.

## 1. The system

Physical ESP32 badges and a Mac controller play 60-second trivia rounds over
Temporal Cloud. One Workflow per round schedules every question as an Activity;
badges execute Activities, controllers and pages watch the Workflow's snapshot.

| Component | State | Operations | Properties that make it correct |
|---|---|---|---|
| **Game Workflow** `web/src/workflow.rs`, `web/src/model.rs` | the `GameSnapshot`, assignments, attempts seen, the remaining deck, the outstanding Activities | `run` (loop, tick, results), Signals `badge_started`, `panic_event`, `recovered`, Updates `apply_chaos`, `end_round` with validators, Query `snapshot` | each question is asked once and scored at most once; the slots stay filled; the round ends at its deadline; modifiers never overlap; the winners lead the final board; handoffs really happened |
| **Snapshot** `shared/src/lib.rs` | event feed, players, winners | `push_kind`, `target_backlog`, `finish`, `.env` parsing | the bounded feed keeps the durable story |
| **Controller** `web/src/main.rs`, `run-web.sh` | `active_workflow`, the published snapshot, the event stream, one observer per game | HTTP handlers, `observe_workflow`, `resume_active_game`, exit and restart | one game at a time; a running game is reachable; the board only moves forward and settles on the final one; a crash loses nothing |
| **Deck** `web/src/questions.rs` | cursors into the shuffled banks | `build_deck`, the math bank, validation | no question repeats within a game; quotas; it ends, and fails only for want of questions |
| **Badge Activity** `firmware/src/main.rs` | `activity_active`, `powerup_active`, `current_question`, `point_value`, the result watcher, the screen | `answer_question`, `wait_for_choice`, `monitor_powerups`, result watcher | an answer is deliberate; the screen shows what the badge is doing; a crash moves the question to another badge |
| **Badge session** `firmware/src/session.rs` | game, deadline, abandoned questions in NVS | `begin_game`, `abandon`, `is_abandoned` | a badge never answers a question it abandoned, across reboots |
| **Badge power** `firmware/src/power.rs` | DOWN timer, countdown | `monitor`, deep sleep | a badge never sleeps over an Activity |
| **Badge devices** `haptics.rs`, `input.rs`, `identity.rs`, `display.rs` | drivers | pulses, sampling, drawing | device I/O |
| **Badge screen** `badge-screen/src/lib.rs` | frame buffer | layout of each screen, wrapping | text fits |
| **Scoreboard page** `web/static/index.html` | latest snapshot, recovery state | rendering, event stream, recovery polling, operator controls | the frozen board is released only by a restored, continuing one, or by the timeout |
| **Simulator** `web/src/bin/simulate_badges.rs` | answers counted | an Activity: Signal, think, answer | its questions come back when it fails |
| Build scripts, `firmware/vendor` | | | deployment, third-party SDK |

How they interact: the controller starts the Workflow and hosts its Worker (both
die together in a crash); badges poll Activities, Signal the Workflow by id and
query its snapshot; the controller polls the snapshot into `state.snapshot` and
broadcasts it; Updates travel controller → Temporal → Workflow and their
returned snapshots are published by the requesting handler. Temporal is the only
durable state except the badge's NVS session.

What is hard to test: Signals and Updates handled between two waits of the loop;
a deadline moved in both directions while a timer is armed; late timers; lost and
reordered Signals; two start requests around an awaited call; snapshots published
after an await; ambiguous RPC failures; a crash between any two steps; a badge's
screen and motor shared by four tasks, one of which is aborted; heartbeats that the
SDK holds back while a timeout runs, and a loop that sends none; questions offered again to the badge that
crashed on them; a page whose requests, stream and timers race over a
restart, and whose polls outlive the recovery they were sent for. `PROJECT.json` lists every hazard at its line.

## 2. Modules

| Module | Models | Checked by | Proved in |
|---|---|---|---|
| `TriviaGame` | the abstract game: a round opens, badges join and are scored once per question, closing names the leaders | `GameRound.cfg` | `GameWorkflowProofs` (`RoundIsAGame`) |
| `GameWorkflow` | the Workflow of one round | `MCGameWorkflow` with `GameRound`, `GameHandoff` | `GameWorkflowProofs` |
| `GameSlot` | the abstract slot: one game at a time, taken, begun, released, recovered after a crash | `Controller.cfg` | `ControllerProofs` (`ImplementsGameSlot`) |
| `Controller` | the controller, its crash and its restart | `Controller.cfg` | `ControllerProofs` |
| `BoardPage` | the scoreboard page over a crash of the controller | `BoardPage.cfg` | `BoardPageProofs` |
| `BadgeButtons` | a badge waiting for its holder's choice | `BadgeButtons.cfg`, `FindDeadSides` | `BadgeButtonsProofs` |
| `BadgeWorker` | the tasks of one badge, its session in flash, its restarts | `BadgeWorker.cfg`, `FindSleep` | `BadgeWorkerProofs` |
| `BadgeFleet` | the badges on one Task Queue: reserve, heartbeats, timeouts, retries | `BadgeFleet.cfg`, `FindHeldButton` | `BadgeFleetProofs` |
| `EventWindow` | the bounded event feed | `MCAlgorithms` with `Algorithms` | `AlgorithmProofs` |
| `Deck` | `build_deck` | `MCAlgorithms` with `Algorithms` | `AlgorithmProofs` |
| `ScreenText` | the text of a question on the badge's panel | `MCAlgorithms` with `Algorithms`, `FindCutAnswer` | `AlgorithmProofs` |

`Counting` holds the lemmas about finite sets of numbers that the proofs share.

One badge is modelled three times, each time for what the others leave out: its
buttons over milliseconds (`BadgeButtons`), its tasks without time
(`BadgeWorker`), and its heartbeats in seconds beside other badges
(`BadgeFleet`). What one says is what the next assumes: `BadgeButtons` shows that a
choice is deliberate and that a heartbeat is recorded while input is watched,
`BadgeWorker` takes the choice as one step, `BadgeFleet` takes the heartbeats of that
loop, and the silence of the one before it.
In the same way `Controller` says what becomes of its board, and `BoardPage` what a
page makes of it.

### GameWorkflow

`run` is a coroutine. An action is a stretch without a wait: a Signal or Update
handler, or a wake-up of `run` up to its next wait.

| Code | Model |
|---|---|
| `run` 47-98, then its first pass | `Start` |
| the loop's body 100-182: expire, deadline, top up, exhausted, arm the tick | `LoopBody(out, limit)`, part of every action that wakes the loop |
| `tick => continue`, and the bare `tick.await` when nothing is pending | `Tick` |
| `record_answer` accepting an answer | `AnswerCompleted` |
| `Err(error)` of an Activity, and a malformed answer | `ActivityClosed` |
| `drop(pending)`, `finish`, return | `Close` |
| `badge_started`, `panic_event` | `BadgeStarted`, `PanicEvent` |
| `apply_chaos`, `end_round` with their validators | `ApplyChaos`, `EndRound` |
| Temporal's clock and timer | `AdvanceTime`: a due timer is delivered at most `MaxLag` late |

`recovered` only adds an event to the feed, so it is no action. A question is its
place in the deck, which makes the deque a set taken in increasing order
(`FirstOf`). `latest_answer`, `latest_failure`, event texts, reasons, search
attributes and the memo are display data and left out. An Update's validator and
handler are one step: the SDK runs them in one activation, one after the other.
Time is an integer; the code's milliseconds only enter through comparisons, sums
and the minimum of the tick.

The environment is open: any badge may answer any outstanding question, an
Activity may fail, any Signal of a scheduled question may arrive, late, twice,
out of order or never. `runner` records which badge ran an attempt; the one rule
is that an attempt runs on one badge. Workflow tasks deliver Signals and Updates
before timers and results; the model allows every order.

### Controller

Every request, Update and observer is a process with a program counter; a step
ends at an await or where a lock is dropped. The slot check and its reservation
are one step (one lock), the check of an Update and its execution are two.
`publish` is two steps, the board and the broadcast. `start_workflow` succeeds,
fails, or fails with the execution started; a query may fail; a crash takes the
memory of the process, and a start on the wire may still reach Temporal. The
Workflow is reduced to game, status and version; its Worker lives in the
process, so it stands still while the controller is down. `board` is what a page
load sees, `feed` the last message sent to open pages. `lost` is a history
variable: the game of which no reply reached the controller, because the reply to
its start was lost or its restoration failed.

`GameSlot` is what this promises: games are drawn in order, at most one is played,
only a game that took the slot begins, and the slot is let go only when its game
is not played or is the lost one. The refinement (`SlotSpec`) reads it off
`active`, `games`, `run`, `up` and `lost`; requests, Updates, observers and
publishing stutter.

### EventWindow

`push_kind` with its eviction. The vector only sees appends and removals, so an
event is its push number and the window a set of them. The loop of `push_kind`
runs at most once because the window was not overfull before (`TypeOK`).

### BadgeButtons

`wait_for_choice` looks at the sampled buttons every 20 ms, in a loop that waits
until none is held (`Drain`) and then in one that waits for an answer (`Look`).
Nothing is awaited inside a look except the heartbeat before it, so a look is one
step; the last look of the first loop and the first of the second, with nothing
awaited between them, are one step as well. The holder presses and releases
between looks, `monitor_powerups` raises and lowers `powerup_active`, Temporal
cancels, and time passes in ticks of one look; a look comes up to `MaxGap` late.
The deadline is any of `Deadlines`, one of them never reached: a badge may run on
a stale build-time clock. An overlay lasts longer than a look can be late
(1,500 ms against 20). `fresh`, `seen`, `together` and `sent` are history. The
buttons are not debounced by the code and not in the model.

### BadgeWorker

All tasks of a badge run on one single-threaded runtime, so an action is what one
task does between two awaits. They meet on the screen, on the motor behind its
first-come lock (`haptics`, a queue), and on what the Activity leaves for them to
see (`activity_active`, `powerup_active`, `current_question`: the fields of
`activity` and `powerup`).

| Code | Model |
|---|---|
| `answer_question` to its first wait, `begin_game`, `start_result_watcher` | `AnswerQuestion` |
| the `badge_started` Signal, `is_abandoned` | `Signalled`, `Refused` |
| the choice, its verdict and feedback | `ChooseAnswer`, `VerdictPlayed`, `Answered`, `Cancelled` |
| the crash: `abandon`, blackout, `recovered` | `ChoosePanic` to `Recovered` |
| the result watcher, and its abortion | `ResultsShown`, `QueryAgain`, `ResultPending`, `AbortedWait`, `AbortedPulse` |
| `monitor_powerups` | `PowerupQuery`, `PowerupPlayed`, `OverlayEnds` |
| `power::monitor`, `power_off`, deep sleep | `Disarm`, `HoldDown`, `CountdownPlayed`, `PowerOff`, `Sleep` |
| `haptics.rs` | `Play`, `Played`, `PulseStart`, `PulseEnd` |
| `main`, `run_worker` at boot | `Boot` |

A sleep ends at any moment; a write to flash may fail at every call; the battery
may go at any time. `dark` is history: the questions the badge crashed on.

### BadgeFleet

A tick is a second, and what is due happens before the next, in any order.
Temporal is external: a question waits, is given to a badge whose poll it has (even
one that has died, for up to a minute), times out five seconds after the last
heartbeat it got, and is offered again after a backoff. The SDK sends a heartbeat
at once or holds it back for 0.8 of the timeout; one held back at the start of a
blackout still goes out. A badge first waits for the release of a button that is down
already (`draining`, `Release`), in a loop that records no heartbeat, and records none
while it shows the feedback of an answer (`feedback`). It learns that its question is
gone from the reply to its first heartbeat (`Cancelled`), or, while it drains, from the
SDK's own timer, five seconds after the heartbeat timeout (`GivesUp`). `active_badge_count` and `recovery_capacity` are read when
the round starts, as in the code. A simulated badge sends no heartbeats and fails
its Activity when its Signal is refused. `BlackoutExtra` bounds what the Signals
and the haptics add to the six seconds, `Feedback` what the 1.1 seconds and the haptics
of an answer take. A button held over costs one of `MaxFaults`, as an empty battery does.

### BoardPage

The script of a page is single-threaded: an action is what runs between two
awaits, so a request is sent by one action and answered by another, and several
are under way at once (`requests`, a bag). A snapshot is a game and a version that
only grows; the counters `stateContinued` compares grow with it. `timer` is what
`recoveryPollTimer` names and `loose` the timers it named before, which nobody can
cancel. The stream delivers a bounded queue that skips its oldest message
(`Lag`, the broadcast channel's 128). A poll may come back when its recovery is over, or
when another one is on: the page does not ask, so neither does `PollArrives`, and
`recoveryProof` stays when a recovery ends. `frozen.late` is history: an answer to a
poll of an earlier recovery was on its way as the board froze. Assumed: the old
process's answers have come and its stream has broken before the two seconds of the
restart are over.

### Deck, ScreenText and their instance

`Deck` is `build_deck` one category of a batch at a time. A question is its place in
its shuffled bank and a batch of the deck is a set, so the shuffles need no state;
only the generated math bank keeps its prompts, because it can repeat one.
`ScreenText` is `compact_wrapped` one pass of `wrap`'s loop at a time; a text is the
sequence of its words' lengths, the lines are the `pieces` of words on them, and
`lines`, `column`, `word` and `taken` are where the loop is, on the panel and in the
text. `MCAlgorithms` runs `Deck`, `ScreenText` and
`EventWindow` one per behaviour: they share nothing, and the instance of each has
its initial states in one run.

## 3. Runs

| Run | Question | Bounds |
|---|---|---|
| `round` | questions, deadline, modifiers, scores, winners under every interleaving; the Workflow implements `TriviaGame` | 2 badges, 3 questions (the middle one Rust), duration 3, modifiers 2, extension 2, tick 1, lag 1: modifiers overlap ticks, expire between passes and are replayed; the deadline is extended, brought forward and both |
| `handoff` | handoffs and attempt counts under lost, repeated, reordered Signals; a round closes though nobody answers | 3 badges, 2 questions one at a time, 3 attempts, 3 Signals: A-B-C with the middle one lost, a late first attempt, one heard twice; the round lasts 1 and has no chaos (`RoundLengthBounded` in `round` bounds it under all of it, and the clock does not stop) |
| `controller` | slot, observers, restoration; the controller implements `GameSlot`; the board moves forward and settles, the slot is freed | 2 start requests, 1 Update, 2 games, 1 crash: two starts race, and an Update of one game is published over the next |
| `algorithms` | the deck, the event feed, the word wrap | a pattern of 2, 1, 1, 2 with banks of up to 3, 2, 2 and 4 and decks of up to 11: each bank runs out in each place of a batch; a window of 4 and 11 pushes (the code's 24 only scales it); texts of up to 68 characters in words on and about the length of a line, and every shape of an authored answer |
| `badge_buttons` | answers are deliberate, crashes held, heartbeats kept; the wait ends with a stuck button and a stuck clock | 4 buttons, any of them held and an overlay up or not when the question arrives, 1 more overlay, hold and heartbeat of 2 looks, an overlay of 3, ceiling 5: a combination can complete, be broken or be cut by an overlay, an overlay can pass while the first loop waits, and the deadline or the ceiling comes first |
| `badge_worker` | screen, motor, memory and flash are shared correctly; Activities and overlays end | 2 games, 1 question each with 2 deadlines, so that a session is begun, prolonged and replaced; 1 notice; a hold of 1 second; any failed write, any battery |
| `fleet` | the reserve is free, timeouts hit only who sends no heartbeats, a crash times out first, every question is answered | 2 real badges and 1 simulated, 2 questions, the code's own seconds (5, 4, 6), 1 crash, 1 fault: the crash meets a held button, a dead poll, a failing simulator or an empty battery. Safety also holds with 2 faults, longer feedback and blackouts and backoffs of 1 and 2 seconds, in a longer run |
| `board` | the frozen board is released rightly and always, nothing is missed and the page catches up, the attract loop comes | 1 game of 3 versions, 2 requests at a time, a queue of 1, 1 event: a recovery can time out before the restart, and a poll outlive it. Safety also holds with 2 events, where an answer of the first recovery proves the second, in a longer run |

Each property has a mutation (`PROJECT.json`, "mutants"): a plausible slip in one
definition that makes TLC find it violated.

All runs turn deadlock checking off: a finished round stops, and so do a
controller whose bounds are spent, a wait that has ended, a deck that is built and
a fleet whose questions are answered.

What the runs show, beyond the names of their properties:

- The event feed, the deck and the scores hold as one would hope. The dealing loop
  always ends, a deck fails only for want of questions, and the loop that would fill
  it up with general questions (questions.rs 65-67) never adds one.
- While at most one badge is off, in its blackout or busy with a question it has lost, a
  badge is left for every question that waits (`ReserveIsFree` in `FleetKept`). The
  timeout takes a question only from a badge that is off, died before it was given it, is
  in its blackout, or had a button held over from before the question for all of the
  timeout but a second and the feedback (`HeldOver` in `TimeoutMeansGone`). The SDK's throttle alone
  costs no badge its question, nor does the feedback.
- The page always gets its board back, and a proof does not take it behind the board it
  froze, as long as the proof it began with is of the game it froze and no answer to a
  poll of an earlier recovery was on its way.

Four runs check what a comment or document says and find it not to hold:

- `dead_sides`: RIGHT let go and LEFT pressed within one look leave both armed
  with no combination begun; neither answers again until LEFT and RIGHT are held
  together and let go, or an overlay comes.
- `sleep_over_activity`: the sleep monitor looks for an Activity only as it polls
  DOWN. One that starts during the last pulse, or while the buttons are let go, is
  cut off by the deep sleep.
- `held_button`: a button held from before the question for as long as the heartbeat
  timeout returns the question to the Task Queue, from a badge that is on and whose
  holder simulated no failure (firmware/README.md:116-117). Meanwhile the badge is busy
  with a question it has lost; `ReserveIsFree` counts it as gone.
- `cut_answer`: an answer is accepted by its characters and drawn by its words; four
  answers of the source lose their last word, and two of one question are drawn
  alike.

### Where the documents say more than the code does

These have no run of their own: a property states how far each goes, or the model
allows it, or nothing in the code bounds it.

- An extension accepted between `end_round` and the loop's next pass revives the
  round (workflow.rs 417-418). `EndedRoundCloses` names this as the one exception,
  `RoundLengthBounded` bounds it. `end_round` handled when the deadline has passed
  but the tick is late, then the extension, sets a deadline beyond the
  `max_deadline_unix_ms` that running Activities carry (workflow.rs 124-126).
- An answer handled past the deadline, before the next pass, is scored
  (GAME_SPEC.md:18 speaks of zero points). `LateAnswerIsLast`: one answer at most,
  and it closes the round.
- A late Update reply moves the finished board (GAME_SPEC.md:41-42);
  `BoardMonotone` says that nothing else does.
- A failed restoration query lets the controller serve an empty board while the
  round runs (main.rs 156-159); `RunningGameHeld` excepts exactly that.
- A heartbeat that the SDK held back when the blackout began delays the timeout to
  as late as eight seconds after the crash, so the badge is back before its question
  is offered to others (GAME_SPEC.md:9-12); `CrashTimesOutFirst` excepts exactly that.
- A badge that died within the last minute is counted as a poller, and the reserve
  with it; with one badge, or with every badge crashed on a question, the question
  waits for the deadline (`EveryQuestionAnswered` excepts `NobodyLeft`).
- The points a badge shows with an answer are those of its last Query; double points
  that begin after it, or end while the feedback is held, make the Workflow record
  others (display.rs:73-74 and badge-screen/src/lib.rs:153-154 call them the value
  Temporal will record).
- The page: a recovery begun by a broken stream compares with the proof of the page's
  load (index.html 1695), so once the game has changed it waits for the 12 seconds,
  or accepts the empty board of a controller that could not restore its game. A
  recovery that times out shows the board of the page's load for 2.5 seconds. A
  stream that breaks with no restart behind it freezes the board until the limit. A
  late `/api/state` reply is drawn over a newer message (`PageCatchesUp` excepts
  it). Two chains of polls may run side by side. A poll that outlives its recovery draws
  the board of a proof, an older one perhaps, on a page that is not frozen; 2.5 seconds later
  the page asks for the board again (`Finishing` in `NothingMissed`). When it was answered before the next recovery began,
  it may prove that one and draw its board over a newer frozen one (GAME_SPEC.md:67-71
  speaks of a snapshot that continues the frozen board; `FrozenBoardContinues` excepts
  `frozen.late`). A round started from another page
  does not end this page's attract loop. `temporal_query_succeeded` of the recovery
  proof is the constant true (main.rs 233).

### Fairness

- `GameWorkflow`: weak fairness of `Start`, `AdvanceTime` and `Tick`: Temporal's
  clock moves and a durable timer that is due is delivered, to whichever process
  holds the Workflow. Badges and Signals have none.
- `Controller`: weak fairness of every task, of the round's end (`RoundCloses` above)
  and of the restoration, and strong fairness of the observer's query, which is
  retried for ever and is not refused for ever.
- `BadgeButtons`: weak fairness of the clock and of the looks: the runtime wakes a
  sleeping task.
- `BadgeWorker`: weak fairness of the Activity's, the overlay's and the motor's
  steps while the badge is on: the runtime polls every task whose sleep or lock is
  ready. Whether a wait for a choice ends is `WaitEnds` of `BadgeButtons`; here its
  cancellation is a step of the Activity.
- `BadgeFleet`: weak fairness of the clockwork (a second's work and its end), of a
  player who some day answers and of the SDK's timer that cancels an Activity it has
  heard no heartbeat of, and strong fairness of the match between a waiting
  question and a badge that keeps polling. The last is an assumption about the
  server, which is not in this repository. A button that is held need never be let go.
- `BoardPage`: weak fairness of requests (each is answered or fails), timers, the
  stream's delivery and reconnection, the observer that publishes and the
  supervisor that restarts. People owe nothing.
- `Deck`: weak fairness of its single loop.

Operators, holders, batteries and crashes have none.

## 4. Proofs

Every safety and every action property of the passing runs has a theorem. They hold
for every value of the constants that the assumptions named below admit.

`GameWorkflow`, for every number of badges, deck, duration, extension, tick, lag and
backlog, from `ConstantsAssumption` alone:

- `TypeCorrect`, `ModifiersNeverOverlap`: inductive as they stand.
- `OverrunStaysBounded`, `RoundLengthStaysBounded`, `EndedRoundsClose`,
  `StaleModifiersLapse`, from `TimingInv`: the bounds speak of the deadline, but what holds the round back is
  the armed tick. `TickArmed` says that it is due no later than a tick after the
  deadline in force, and that the deadline is within its nominal bound or already
  behind the clock, which is the case `end_round` adds. `ModifierTicks` says the
  tick comes less than a tick after an armed modifier's end. `EndedRoundsClose` gives
  the slack of the extension only to one accepted since the last `end_round`
  (`revived`): before it, an extension buys nothing.
- `QuestionsAccounted`, from `BoardInv`, which adds the type and the finiteness
  of the deck.
- `LateAnswersEndTheRound`, `SuddenDeathEndsTheRound`: action properties of the
  single pass an answer makes.
- `WinnersLeadTheBoard`, `ScoresAreEarned`: inductive under `TypeOK`.
- `RoundIsAGame`: initial states map to initial states, and each action to
  `Open`, `Join`, `Answer`, `Expire` or a stutter.
- `BacklogIsKept`, from `BacklogInv`, which adds `BoardInv`. A pass asks for the first
  questions of the deck up to the target, so what must be known is how many the first
  n of a set are (`Counting`: n, or all of them when there are fewer); the target
  only grows while a round runs, because badges only join.
- `HandoffsHappened`, from `HandoffInv`: the badge that is heard of for an attempt is
  the one that ran it (`HeardRan`), which no Signal that comes late or twice can undo.
- `AttemptsStayCounted`: inductive under `TypeOK`; an attempt is counted as it joins
  the set of those seen.

The other components:

- `FeedBounded`, `FeedKeepsTheStory` (`EventWindow`), from `FeedInv`, which
  describes the window without counting (its story events and its answers are
  each a suffix, it has room only while nothing was evicted, story events went
  only after the last answer); a suffix is then determined by its size.
- `AnswersAreFresh`, `CrashesWereHeld`, `HeartbeatsKeepFlowing`,
  `SidesAnswerAlone` (`BadgeButtons`), from its `IInv`: no overlay fits between two
  looks, so none ends before a look has seen it (`Pace`); what is held or armed
  while input counts was pressed for this question (`Trusted`); an armed side is
  what the last look saw, or both are (`Arms`); a combination began no earlier
  than both sides were first seen together (`Hold`). They hold for every hold,
  interval, lateness and number of overlays with an overlay longer than a look can
  be late plus one.

- `AbandonedStaysAbandoned`, `ChoicesAreShown`, `ResultsAreCurrent`, `SharedStateIsKept`
  (`BadgeWorker`), from its `WInv`, under `BadgeAssumption` alone. What the tasks share
  is the session's game: the Activity that asks and the watcher are of that game
  (`Asked`, `Watches`), and what the badge crashed on is of that game and abandoned
  in the session, or of an earlier one (`Flash`). `AbandonedNeverAsked` alone is not
  inductive: the wait begins a step after the session was read. For the screen, a
  panel is dark only on the way to sleep, and a badge that is off asks nothing
  (`Panel`); the sleep monitor draws only while no Activity runs or once sleep is
  due, the watcher only results of the question's own game, and an overlay leaves
  the question behind. `SharedStateIsKept` needs the motor as well (`MotorInv`): a task
  is in the queue once, exactly while it plays, and the motor runs only for the head of
  the queue. The delicate step is the abortion of the result watcher, which leaves
  the queue from wherever it stands and stops the motor only if it was the head. That
  the queue and the players are the same says that nobody waits for a turn that never
  comes (with the pulses of whose turn it is, the safety half of `TasksReturn`).

- `FleetIsKept`, `TimeoutsMeanGone`, `CrashesTimeOutFirst` (`BadgeFleet`), from
  `FleetInv`, for any number of badges, questions and crashes. The server and a badge
  each have a view of who has which question; what a badge does bounds the age of
  its last heartbeat (`BadgeOK`), which is why only a blackout, an empty battery or a
  button held over makes the two views differ; `stuck` remembers how long the button
  was held, and a badge whose button was let go in time sends its first heartbeat, or
  its answer, before the timeout. `Bounded` keeps the questions out within the capacity,
  so that a badge is left for each that waits. `TimingAssumption` is what the argument
  needs of the code's seconds: the throttle (4) is shorter than the heartbeat timeout
  (5), which is shorter than the blackout (6 and more), and a simulated badge thinks
  for less than the timeout, the feedback too. It fails when a constant of the code is changed so
  that a timeout can hit a badge that is there.

- `TypesHold`, `FrozenBoardIsContinued`, `NothingIsMissed` (`BoardPage`), from `PInv`, for any number of
  requests, crashes, games and messages that wait. A board that the page has, or that
  is on its way to it, was shown by the controller once: it is no newer than the round
  nor, when it is of the same game, than the controller's (`Behind`). An answer that
  has not arrived is of the process that runs, since a restart comes after the old
  answers (`RequestOK`). A poll that had no answer as the board froze gets one that
  is no older than that board, whichever recovery sent it (`PollOK`). `PageAssumption` asks for
  one game at least: the proof showed that a page loaded into a round has one.
  `NothingIsMissed` is the safety half of `PageCatchesUp`, and needs `MInv`: the last
  message of a live stream is the controller's board (`Queued`), and an answer on its
  way that is older than that board is harmless, because the page has seen the newer
  one or will be told of it (`Current`). Whatever a poll draws, in a recovery or after
  one, is followed by a request 2.5 seconds later, and no later timer can lose that one
  (`Finishing`).

- `ButtonsTyped`: the type invariant of `BadgeButtons`, on which its other proofs rest.
- `WaitsAreShort` (`BadgeButtons`): the wait has two ends, the deadline and, for a clock
  that never gets there, the local ceiling, and outlasts neither by more than a look may
  come late (`DueInTime`: no look is due after either). Both loops must keep this, also
  with a button held for ever and under an overlay.

- `ImplementsGameSlot` (`Controller`): initial states map to initial states, and every
  step to `Take`, `Begin`, `Finish`, `Release`, `Crash`, `Recover`, `Serve` or a
  stutter, under `CInv`. What `CInv` had to add for it: a game that is reserved has a
  number no run has had yet, and a start that failed leaves its game running only as
  the lost one.

- `SlotAlwaysKept`, `RunningGamesAreHeld`, `BoardsMoveForward` (`Controller`), from
  `CInv`, for any number of requests, Updates, crashes and versions. At most one start
  request is between its reservation and its last publish, and then nothing is watched
  (`Exclusive`): the slot belongs to that request or to the one observer, and the run
  in Temporal is the holder's. What a process has read is therefore of the game in the
  slot, no older than the board and no newer than the run (`StarterOK`, `ObserverOK`,
  `UpdaterOK`). `ObserverOK` also shows that an observer's early return for a game that is no
  longer active never fires. `Board` adds that the board is no
  further than the run when both are of one game.

- `DeckIsWellDealt`, `DeckIsCompleteOrShort` (`Deck`), from `DInv`, for every quota,
  every size of the banks and of the deck. The cursors say all there is to say: what
  was dealt from a bank is its questions up to the cursor (`Passed`), so what comes
  next is new, and what was dealt counts as much as the sum of the cursors (`Counted`).
  An empty batch means that every bank is used up (`Dealing`), which is why nothing
  is left for the loop that fills up. `MathPromptsDiffer` settles the generated bank
  for all its hundred prompts.

- `TextsAreDrawn` (`ScreenText`), from `TextInv`, for texts of any number of words of any
  length. The loop's place on the panel and its place in the text move together: what is
  on the panel is what the cursor has passed, letter by letter (`PassedIsShown`), a line
  that is finished has something on it and the one being filled has up to its column
  (`LinesUsed`), and all of it is read in the order of the text (`InOrder`). A piece that
  is placed begins where the cursor is, so it follows everything there (`PieceIsRead`).
- `ShippedAnswersFit` (`ScreenText`), from `AnswerInv`: one word fills a line at a time,
  two words have a line each, so a line is left until all of it is placed. It rests on
  `ShippedLengths`, which says of the authored banks what the source of questions does
  not check; TLC evaluates it on the lengths of those banks.

Termination itself is liveness and stays with TLC. What can be proved is that a loop
cannot go round without getting on, by an action property of a bounded measure:
`DealingAdvances` for the two unbounded loops of `build_deck` (the phase, then the deck,
then the pattern), `WrappingAdvances` for the inner loop of `wrap` (a line or a word), and
`WaitsAreShort` for the wait's.

Some of these invariants have a theorem and no run of their own, because a stronger
or a neighbouring property is the one that is run: `ModifiersExclusive`,
`OverrunBounded`, `WinnersLead`, `ScoresMatchTallies` (run are the refinement of
`TriviaGame` and `RoundLengthBounded`), `RunningGameHeld` (run is the refinement of
`GameSlot`), `SideAnsweredAlone`, `DeckAdvances`, `WrapAdvances`, `WaitIsShort` (run are
`DeckEnds`, `TextIsDrawn` and `WaitEnds`), `TypeOK` of `BadgeButtons`, `EventWindow` and
`BoardPage`. `MemoryIsFlash` is run as a part of
`SharedStateKept`.

Model-checked only: liveness, because the prover handles neither fairness nor ENABLED:
`RoundCloses`, `GamesSettle`, `DeckEnds`, `WaitEnds`, `TasksReturn`,
`EveryQuestionAnswered`, `RecoveryEnds`, `PageCatchesUp`, `AttractComes`. The one fold
of the models, the characters of a text (`Characters`), is used by `FindCutAnswer` only.

## 5. What could come next

1. A Workflow that an operator terminates, in `Controller`: its queries keep saying
   Running, so its observer polls for ever and the slot stays taken. Nothing in the
   program terminates one.
2. An abstract page that `BoardPage` implements: shown, frozen, released.
3. A bound on how long a badge may show the wrong points: it needs one on the Queries
   of `monitor_powerups`, which may fail and wait for an overlay.

## 6. Not modelled

- Device drivers (`input.rs`, `identity.rs`, `display.rs`), TLS, Wi-Fi and clock
  set-up: device I/O with no state the rest depends on. Boot is one step.
- The drawing of the screens other than a question's text, and the page's lanes,
  ticker and tray: fixed layouts.
- The parsing of the source of questions and of `.env`, the shuffling of answers, a
  corrupt session blob, the history endpoint, search attributes and the memo: data.
- The set-up of the simulator, build scripts: deployment.
- The vendored SDK and Temporal's server, which appear as the environment: one
  running execution per Workflow id, an attempt on one Worker, deterministic replay,
  heartbeat timeouts and backoffs as `BadgeFleet` states them.

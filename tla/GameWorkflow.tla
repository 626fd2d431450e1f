---------------------------- MODULE GameWorkflow ----------------------------
(***************************************************************************)
(* The Temporal Workflow of one trivia round (web/src/workflow.rs, with    *)
(* the target and the finish of shared/src/lib.rs).                        *)
(*                                                                         *)
(* The Workflow is one coroutine: `run` loops over "expire the chaos       *)
(* modifiers, check the deadline, top up the pending Activities, arm a     *)
(* tick, wait for the tick or for an Activity", and Signals and Updates    *)
(* run their handlers between two of its waits.  An action below is one    *)
(* such uninterrupted stretch: a handler, or the wake-up of `run` up to    *)
(* its next wait.  Temporal hands an activation's Signals and Updates over *)
(* before its timers and Activity results; every order of single jobs is   *)
(* allowed here, which includes that one.                                  *)
(*                                                                         *)
(* The environment is open: Temporal and the badges may deliver any result *)
(* of a pending Activity and any Signal of a scheduled question, in any    *)
(* order and more than once.  A question is its position in the deck, so   *)
(* the deque of remaining questions is a set taken in increasing order.    *)
(* An answer is abstracted to right or wrong, texts and the event feed are *)
(* left out (EventWindow models the feed).  `recorded`, `endedAt`,         *)
(* `revived` and `runner` are history variables no action reads to decide  *)
(* anything that the code decides.                                         *)
(***************************************************************************)
EXTENDS Integers, FiniteSets

CONSTANTS
    Badges,         \* badge ids
    NoBadge,        \* not a badge: nobody has run this attempt
    DeckSize,       \* number of questions in the deck
    Rust,           \* the questions of category "rust"
    Duration,       \* GameInput.duration_seconds
    ChaosDuration,  \* CHAOS_DURATION_MS
    Extension,      \* GAME_EXTENSION_MS
    TickLength,     \* the 1,000 ms of the run loop's timer
    Override,       \* backlog_override, 0 for none
    MinBacklog,     \* the 10 of target_backlog
    Commands,       \* the chaos commands the operator plays
    MaxAttempt,     \* bound: attempts of one Activity
    MaxSignals,     \* bound: Signals delivered in a round
    MaxLag          \* bound: how late a fired timer reaches the Workflow

Questions == 1..DeckSize
Attempts  == 1..MaxAttempt
AllCommands == {"DoublePoints", "RustOnly", "SuddenDeath", "ExtendThirtySeconds"}
NoTime == -1

ASSUME ConstantsAssumption ==
    /\ NoBadge \notin Badges
    /\ IsFiniteSet(Badges)
    /\ DeckSize \in Nat
    /\ Rust \subseteq Questions
    /\ Duration \in Nat \ {0}
    /\ ChaosDuration \in Nat \ {0}
    /\ Extension \in Nat
    /\ TickLength \in Nat \ {0}
    /\ Override \in Nat
    /\ MinBacklog \in Nat \ {0}
    /\ Commands \subseteq AllCommands
    /\ MaxAttempt \in Nat
    /\ MaxSignals \in Nat
    /\ MaxLag \in Nat

VARIABLES
    now,                \* Workflow time
    status,             \* snapshot.status
    deadline,           \* snapshot.deadline_unix_ms
    tickAt,             \* when the armed tick is due
    available,          \* the deck's questions not yet scheduled
    pending,            \* questions whose Activity is outstanding
    scheduled,          \* snapshot.scheduled_questions
    completed,          \* snapshot.completed_questions
    players,            \* keys of snapshot.players
    score,              \* PlayerScore.score
    correct,            \* PlayerScore.correct
    wrong,              \* PlayerScore.wrong
    panics,             \* PlayerScore.panics
    winners,            \* snapshot.winners
    doubleUntil,        \* chaos.double_points_until_unix_ms
    rustUntil,          \* chaos.rust_only_until_unix_ms
    suddenDeath,        \* chaos.sudden_death
    extensionUsed,      \* chaos.extension_used
    powerups,           \* chaos.latest_powerup.sequence
    assignments,        \* badge_id and attempt last heard for each question
    attemptsSeen,       \* attempts_seen
    activityAttempts,   \* snapshot.activity_attempts
    reassignments,      \* snapshot.reassignments, also heartbeat_timeouts
    latestReassignment, \* snapshot.latest_reassignment
    signals,            \* Signals delivered so far
    recorded,           \* history: questions whose answer was recorded
    endedAt,            \* history: when end_round was last accepted
    revived,            \* history: the extension was accepted since then
    runner              \* history: the badge each attempt ran on

clockVars   == <<now, tickAt>>
deckVars    == <<available, pending, scheduled>>
boardVars   == <<completed, score, correct, wrong, recorded>>
chaosVars   == <<doubleUntil, rustUntil, suddenDeath, extensionUsed, powerups>>
handoffVars == <<assignments, attemptsSeen, activityAttempts, reassignments,
                 latestReassignment, signals, runner>>
endVars     == <<endedAt, revived>>
vars == <<clockVars, status, deadline, deckVars, boardVars, players, panics,
          winners, chaosVars, handoffVars, endVars>>

-----------------------------------------------------------------------------
(* Plausible slips in the definitions below, for the mutation runs. *)

\* The deck read by position instead of popped.
FirstByIndex(S, n) == {q \in Questions : q <= n}

\* One question too many per top-up.
FirstPlusOne(S, n) == {q \in S : Cardinality({p \in S : p < q}) <= n}

\* Modifiers cleared one instant late.
ExpireLate(until) == IF until < now THEN NoTime ELSE until

\* The deadline only counts as passed an instant later.
DeadlineMissed(limit) == now > limit

\* The deadline is only noticed by a pass at that very instant.
DeadlineHit(limit) == now = limit

\* The wrong answer decides under sudden death.
DecidesOnWrong(right) == suddenDeath /\ ~right

\* Any later attempt counts as a handoff, on the same badge too.
LaterAttempt(q, b, a) ==
    assignments[q].attempt # 0 /\ a > assignments[q].attempt

\* Only a rising attempt number is counted.
RisingAttempt(q, a) == a > assignments[q].attempt

\* The extended round is given a whole new duration.
RestartedDeadline == now + Duration + Extension

\* The deadline is brought forward by the round's length, not to the present.
EndRoundByDuration ==
    /\ status = "Running"
    /\ deadline' = deadline - Duration
    /\ endedAt' = now
    /\ revived' = FALSE
    /\ UNCHANGED <<clockVars, status, deckVars, boardVars, players, panics, winners,
                   chaosVars, handoffVars>>

\* An extended round keeps the deadline it was extended to.
EndRoundKeepsExtension ==
    /\ status = "Running"
    /\ deadline' = IF extensionUsed THEN deadline ELSE now
    /\ endedAt' = now
    /\ revived' = FALSE
    /\ UNCHANGED <<clockVars, status, deckVars, boardVars, players, panics, winners,
                   chaosVars, handoffVars>>

-----------------------------------------------------------------------------
Unassigned == [badge |-> NoBadge, attempt |-> 0]
NoReassignment == [question |-> 0, from |-> NoBadge, to |-> NoBadge, attempt |-> 0]

\* GameSnapshot::target_backlog: how many Activities the round keeps out.
TargetBacklog(members) ==
    IF Override # 0 THEN Override
    ELSE IF 2 * Cardinality(members) > MinBacklog
         THEN 2 * Cardinality(members) ELSE MinBacklog

\* The first n questions of S in deck order: what n calls of
\* take_next_question remove.
FirstOf(S, n) == {q \in S : Cardinality({p \in S : p < q}) < n}

\* active_points: what an answer handled now is worth.
ActivePoints == IF doubleUntil # NoTime /\ doubleUntil > now THEN 2 ELSE 1

\* active_modifier(..).is_some(): a gameplay modifier is held, expired or not.
ModifierHeld == doubleUntil # NoTime \/ rustUntil # NoTime \/ suddenDeath

\* expire_chaos on one modifier's end time.
Expire(until) == IF until <= now THEN NoTime ELSE until

\* The badges GameSnapshot::finish names: every player with the best score.
Leaders(members, points) ==
    {b \in members : \A c \in members : points[c] <= points[b]}

\* Leaving the loop: drop(pending) and GameSnapshot::finish, on the board as
\* this step leaves it.
Close ==
    /\ status' = "Finished"
    /\ pending' = {}
    /\ winners' = Leaders(players', score')
    /\ tickAt' = NoTime

\* The deadline check at the top of the loop.
DeadlinePassed(limit) == now >= limit

\* What record_answer returns: a correct answer under sudden death.
Decides(right) == suddenDeath /\ right

\* The loop from its top to its next wait, with `out` the Activities still
\* outstanding and `limit` the deadline it reads: expire the modifiers, close
\* at the deadline, otherwise top up the Activities and close on an exhausted
\* deck or arm the next tick.
LoopBody(out, limit) ==
    LET eligible == IF rustUntil' = NoTime THEN available ELSE available \cap Rust
        taken    == FirstOf(eligible, TargetBacklog(players') - Cardinality(out))
    IN  /\ doubleUntil' = Expire(doubleUntil)
        /\ rustUntil' = Expire(rustUntil)
        /\ UNCHANGED <<suddenDeath, extensionUsed, powerups>>
        /\ \/ /\ DeadlinePassed(limit)
              /\ UNCHANGED <<available, scheduled>>
              /\ Close
           \/ /\ ~DeadlinePassed(limit)
              /\ available' = available \ taken
              /\ scheduled' = scheduled + Cardinality(taken)
              /\ \/ out \cup taken = {} /\ available' = {} /\ Close
                 \/ /\ out \cup taken # {} \/ available' # {}
                    /\ pending' = out \cup taken
                    /\ tickAt' = now + IF limit - now < TickLength
                                       THEN limit - now ELSE TickLength
                    /\ status' = "Running"
                    /\ winners' = winners

-----------------------------------------------------------------------------
Init ==
    /\ now = 0
    /\ status = "Waiting"
    /\ deadline = NoTime
    /\ tickAt = NoTime
    /\ available = Questions
    /\ pending = {}
    /\ scheduled = 0
    /\ completed = 0
    /\ players = {}
    /\ score = [b \in Badges |-> 0]
    /\ correct = [b \in Badges |-> 0]
    /\ wrong = [b \in Badges |-> 0]
    /\ panics = [b \in Badges |-> 0]
    /\ winners = {}
    /\ doubleUntil = NoTime
    /\ rustUntil = NoTime
    /\ suddenDeath = FALSE
    /\ extensionUsed = FALSE
    /\ powerups = 0
    /\ assignments = [q \in Questions |-> Unassigned]
    /\ attemptsSeen = {}
    /\ activityAttempts = 0
    /\ reassignments = 0
    /\ latestReassignment = NoReassignment
    /\ signals = 0
    /\ recorded = {}
    /\ endedAt = NoTime
    /\ revived = FALSE
    /\ runner = [x \in Questions \X Attempts |-> NoBadge]

\* The first activation of `run`: the snapshot turns Running, the deadline is
\* set, and the loop body runs for the first time.
Start ==
    /\ status = "Waiting"
    /\ deadline' = now + Duration
    /\ UNCHANGED <<now, boardVars, players, panics, handoffVars, endVars>>
    /\ LoopBody({}, deadline')

\* Time passes; a due tick is delivered at most MaxLag late.
AdvanceTime ==
    /\ status = "Running"
    /\ now < tickAt + MaxLag
    /\ now' = now + 1
    /\ UNCHANGED <<tickAt, status, deadline, deckVars, boardVars, players, panics,
                   winners, chaosVars, handoffVars, endVars>>

\* The tick wins the select, or is awaited with nothing pending: `continue`.
Tick ==
    /\ status = "Running"
    /\ now >= tickAt
    /\ UNCHANGED <<now, deadline, boardVars, players, panics, handoffVars, endVars>>
    /\ LoopBody(pending, deadline)

\* record_answer for a well-formed answer of badge b to q: a badge whose
\* Signals were all lost joins the board here.  A correct answer under sudden
\* death leaves the loop, any other goes back to its top.
AnswerCompleted(q, b, right) ==
    /\ status = "Running"
    /\ q \in pending
    /\ score' = [score EXCEPT ![b] = @ + IF right THEN ActivePoints ELSE -ActivePoints]
    /\ correct' = [correct EXCEPT ![b] = @ + IF right THEN 1 ELSE 0]
    /\ wrong' = [wrong EXCEPT ![b] = @ + IF right THEN 0 ELSE 1]
    /\ players' = players \cup {b}
    /\ completed' = completed + 1
    /\ recorded' = recorded \cup {q}
    /\ UNCHANGED <<now, deadline, panics, handoffVars, endVars>>
    /\ \/ /\ Decides(right)
          /\ Close
          /\ UNCHANGED <<available, scheduled, chaosVars>>
       \/ /\ ~Decides(right)
          /\ LoopBody(pending \ {q}, deadline)

\* The Activity of q ends without a recorded answer: it failed for good, or
\* record_answer rejected its answer as malformed.  Only the feed changes; the
\* question is consumed either way.
ActivityClosed(q) ==
    /\ status = "Running"
    /\ q \in pending
    /\ UNCHANGED <<now, deadline, boardVars, players, panics, handoffVars, endVars>>
    /\ LoopBody(pending \ {q}, deadline)

\* A Signal about attempt a of q, running on b, can arrive: the Activity has
\* been scheduled and Temporal ran that attempt on no other badge.
Signalled(q, b, a) ==
    /\ status = "Running"
    /\ signals < MaxSignals
    /\ q \notin available
    /\ runner[<<q, a>>] \in {NoBadge, b}
    /\ signals' = signals + 1
    /\ runner' = [runner EXCEPT ![<<q, a>>] = b]

\* is_reassignment against the assignment last heard for q.
IsReassignment(q, b, a) ==
    /\ assignments[q] # Unassigned
    /\ assignments[q].badge # b
    /\ a > assignments[q].attempt

\* attempts_seen.insert(..) says whether the attempt was not counted before.
NewAttempt(q, a) == <<q, a>> \notin attemptsSeen

\* The badge_started Signal.
BadgeStarted(q, b, a) ==
    /\ Signalled(q, b, a)
    /\ \/ /\ IsReassignment(q, b, a)
          /\ reassignments' = reassignments + 1
          /\ latestReassignment' = [question |-> q, from |-> assignments[q].badge,
                                    to |-> b, attempt |-> a]
       \/ /\ ~IsReassignment(q, b, a)
          /\ UNCHANGED <<reassignments, latestReassignment>>
    /\ assignments' = [assignments EXCEPT ![q] = [badge |-> b, attempt |-> a]]
    /\ attemptsSeen' = attemptsSeen \cup {<<q, a>>}
    /\ activityAttempts' = activityAttempts + IF NewAttempt(q, a) THEN 1 ELSE 0
    /\ players' = players \cup {b}
    /\ UNCHANGED <<clockVars, status, deadline, deckVars, boardVars, panics, winners,
                   chaosVars, endVars>>

\* The panic_event Signal.
PanicEvent(q, b, a) ==
    /\ Signalled(q, b, a)
    /\ players' = players \cup {b}
    /\ panics' = [panics EXCEPT ![b] = @ + 1]
    /\ UNCHANGED <<clockVars, status, deadline, deckVars, boardVars, winners, chaosVars,
                   assignments, attemptsSeen, activityAttempts, reassignments,
                   latestReassignment, endVars>>

\* validate_apply_chaos: the extension only once, a gameplay modifier only
\* while none is held.
ChaosAllowed(command) ==
    /\ status = "Running"
    /\ IF command = "ExtendThirtySeconds" THEN ~extensionUsed ELSE ~ModifierHeld

\* The deadline an extension sets.
ExtendedDeadline == deadline + Extension

\* The apply_chaos Update, accepted by its validator.
ApplyChaos(command) ==
    /\ ChaosAllowed(command)
    /\ doubleUntil' = IF command = "DoublePoints" THEN now + ChaosDuration ELSE doubleUntil
    /\ rustUntil' = IF command = "RustOnly" THEN now + ChaosDuration ELSE rustUntil
    /\ suddenDeath' = (suddenDeath \/ command = "SuddenDeath")
    /\ extensionUsed' = (extensionUsed \/ command = "ExtendThirtySeconds")
    /\ deadline' = IF command = "ExtendThirtySeconds" THEN ExtendedDeadline ELSE deadline
    /\ powerups' = powerups + 1
    /\ revived' = (revived \/ (command = "ExtendThirtySeconds" /\ endedAt # NoTime))
    /\ UNCHANGED <<clockVars, status, deckVars, boardVars, players, panics, winners,
                   handoffVars, endedAt>>

\* The end_round Update, accepted by its validator.
EndRound ==
    /\ status = "Running"
    /\ deadline' = now
    /\ endedAt' = now
    /\ revived' = FALSE
    /\ UNCHANGED <<clockVars, status, deckVars, boardVars, players, panics, winners,
                   chaosVars, handoffVars>>

Next ==
    \/ Start
    \/ AdvanceTime
    \/ Tick
    \/ \E q \in Questions, b \in Badges, right \in BOOLEAN : AnswerCompleted(q, b, right)
    \/ \E q \in Questions : ActivityClosed(q)
    \/ \E q \in Questions, b \in Badges, a \in Attempts : BadgeStarted(q, b, a)
    \/ \E q \in Questions, b \in Badges, a \in Attempts : PanicEvent(q, b, a)
    \/ \E command \in Commands : ApplyChaos(command)
    \/ EndRound

Spec == Init /\ [][Next]_vars

\* Temporal's clock moves and a durable timer that is due is delivered, to
\* whichever process holds the Workflow; nothing obliges a badge to answer or
\* a Signal to arrive.
Fairness == WF_vars(Start) /\ WF_vars(AdvanceTime) /\ WF_vars(Tick)

FairSpec == Spec /\ Fairness

-----------------------------------------------------------------------------
(* The type invariant. *)

Assignment == {Unassigned} \cup [badge : Badges, attempt : Attempts]
Reassignment == {NoReassignment} \cup
    [question : Questions, from : Badges, to : Badges, attempt : Attempts]

\* Every variable holds a value of its kind.
TypeOK ==
    /\ now \in Nat
    /\ status \in {"Waiting", "Running", "Finished"}
    /\ deadline \in Nat \cup {NoTime}
    /\ tickAt \in Nat \cup {NoTime}
    /\ available \subseteq Questions
    /\ pending \subseteq Questions
    /\ scheduled \in Nat
    /\ completed \in Nat
    /\ players \subseteq Badges
    /\ score \in [Badges -> Int]
    /\ correct \in [Badges -> Nat]
    /\ wrong \in [Badges -> Nat]
    /\ panics \in [Badges -> Nat]
    /\ winners \subseteq Badges
    /\ doubleUntil \in Nat \cup {NoTime}
    /\ rustUntil \in Nat \cup {NoTime}
    /\ suddenDeath \in BOOLEAN
    /\ extensionUsed \in BOOLEAN
    /\ powerups \in Nat
    /\ assignments \in [Questions -> Assignment]
    /\ attemptsSeen \subseteq Questions \X Attempts
    /\ activityAttempts \in Nat
    /\ reassignments \in Nat
    /\ latestReassignment \in Reassignment
    /\ signals \in Nat
    /\ recorded \subseteq Questions
    /\ endedAt \in Nat \cup {NoTime}
    /\ revived \in BOOLEAN
    /\ runner \in [Questions \X Attempts -> Badges \cup {NoBadge}]

(* Questions: each is asked once and scored at most once. *)

\* Over any interleaving of ticks, answers, failures and Rust-only reordering,
\* a question is in the deck, outstanding, scored or lost, and never in two of
\* these; the counters the board shows are the sizes of those sets.
QuestionAccounting ==
    /\ available \cap pending = {}
    /\ recorded \cap (available \cup pending) = {}
    /\ completed = Cardinality(recorded)
    /\ scheduled = DeckSize - Cardinality(available)

\* The Activities the loop may top up with, as its last pass saw them.
Eligible == IF rustUntil = NoTime THEN available ELSE available \cap Rust

\* "Reserving one badge": a running round never has more Activities out than
\* its target, and while an eligible question remains it never has fewer
\* than the target the loop's last pass could know (players only join).
BacklogKept ==
    status = "Running" =>
        /\ Cardinality(pending) <= TargetBacklog(players)
        /\ Eligible # {} => Cardinality(pending) >= TargetBacklog({})

(* The deadline and the tick. *)

\* A running round is never seen more than a tick and the timer's lag past
\* its deadline, whatever end_round and the extension did to the deadline
\* while the tick was armed: the loop re-reads it on every pass.
OverrunBounded ==
    status = "Running" => now <= deadline + TickLength + MaxLag

\* No sequence of Updates keeps a round running for longer than its duration
\* and one extension, give or take the timer's lag at both ends.
RoundLengthBounded ==
    status = "Running" => now <= Duration + Extension + 2 * MaxLag

\* end_round closes the round within a tick and the timer's lag, extended before
\* or not; the one thing that can still keep it open is an extension accepted
\* after it, which validate_apply_chaos allows until the loop's next pass.
EndedRoundCloses ==
    status = "Running" /\ endedAt # NoTime =>
        now <= endedAt + (IF revived THEN Extension ELSE 0) + TickLength + MaxLag

\* An answer the loop handles once the deadline is behind it is the last: at
\* most one answer is scored late, because recording it re-reads the deadline.
LateAnswerIsLast ==
    [][completed' # completed /\ now >= deadline => status' = "Finished"]_vars

\* Why the two bounds above hold: the tick is armed no later than the deadline
\* it was armed under and no more than a tick ahead, and the deadline only
\* passes its nominal bound when end_round sets it to the present.
TickArmed ==
    status = "Running" =>
        /\ tickAt # NoTime /\ deadline # NoTime
        /\ now <= tickAt + MaxLag
        /\ tickAt <= now + TickLength
        /\ tickAt <= deadline + TickLength
        /\ LET bound == IF extensionUsed THEN Duration + Extension + MaxLag ELSE Duration
           IN  tickAt <= bound /\ (deadline <= bound \/ deadline <= now)

(* The chaos modifiers. *)

\* Double points, Rust-only and sudden death never overlap, even though an
\* expired modifier is only cleared by the loop's next pass.
ModifiersExclusive ==
    /\ ~(doubleUntil # NoTime /\ rustUntil # NoTime)
    /\ suddenDeath => doubleUntil = NoTime /\ rustUntil = NoTime

\* An expired modifier blocks the next command for less than a tick and lag.
StaleModifierBounded ==
    status = "Running" =>
        /\ doubleUntil # NoTime => now < doubleUntil + TickLength + MaxLag
        /\ rustUntil # NoTime => now < rustUntil + TickLength + MaxLag

\* Once sudden death is armed the first correct answer handled decides: every
\* answer after it is dropped with the loop.
SuddenDeathDecides ==
    [][suddenDeath /\ correct' # correct => status' = "Finished"]_vars

(* The board. *)

\* A badge's score is what its right and wrong answers can have earned, a badge
\* with answers is on the board, and every recorded answer is in a tally.
ScoresMatchTallies ==
    \A b \in Badges :
        /\ correct[b] - 2 * wrong[b] <= score[b]
        /\ score[b] <= 2 * correct[b] - wrong[b]
        /\ correct[b] + wrong[b] + panics[b] > 0 => b \in players

\* The winners are the leaders of the final board, counting the very answer
\* that closed the round.
WinnersLead ==
    status = "Finished" => winners = Leaders(players, score)

(* Handoffs. *)

\* The latest handoff the board shows did happen: the named badges ran that
\* question, the receiving one at a later attempt, on two different badges.
HandoffHappened ==
    LET r == latestReassignment
    IN  r # NoReassignment =>
            /\ r.from # r.to
            /\ runner[<<r.question, r.attempt>>] = r.to
            /\ \E a \in Attempts : a < r.attempt /\ runner[<<r.question, a>>] = r.from

\* The attempts counter counts every attempt once however often and in
\* whatever order its Signal is delivered, and each handoff needs a retry.
AttemptsCounted ==
    /\ activityAttempts = Cardinality(attemptsSeen)
    /\ reassignments > 0 => \E x \in attemptsSeen : x[2] > 1

(* Liveness and refinement. *)

\* A running round closes, though no badge ever answers.
RoundCloses == status = "Running" ~> status = "Finished"

\* The round implements the abstract game.
Game == INSTANCE TriviaGame WITH
    phase <- status, members <- players, scored <- recorded,
    points <- score, podium <- winners
GameSpec == Game!Spec
=============================================================================

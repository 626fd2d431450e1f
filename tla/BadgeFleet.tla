------------------------------ MODULE BadgeFleet -----------------------------
(***************************************************************************)
(* The badges of a round on one Activity Task Queue: the controller counts *)
(* them (active_badge_count and recovery_capacity of web/src/main.rs), the *)
(* Workflow keeps that many questions out but one, and every badge, real   *)
(* (firmware/src/main.rs) or simulated (simulate_badges.rs), has one       *)
(* Activity slot.  A badge that crashes, or whose battery is taken out,    *)
(* loses its question to the heartbeat timeout, unless it reports first;   *)
(* so does one on which a button is held from before the question came,    *)
(* because the loop that waits for its release sends no heartbeat.         *)
(*                                                                         *)
(* A tick is a second.  What is due happens before the next tick, in any   *)
(* order.  BadgeButtons and BadgeWorker say what one badge does inside an  *)
(* Activity; here only its heartbeats and its result count.  The server    *)
(* and the SDK's heartbeat manager (the vendored temporalio-sdk-core) are  *)
(* external.  The deadline of the round, which ends all of this, is in     *)
(* GameWorkflow.                                                           *)
(***************************************************************************)
EXTENDS Integers, FiniteSetsExt

CONSTANTS
    Hardware,          \* the physical badges
    Simulated,         \* the simulated ones
    DeckSize,          \* the questions of the round
    HeartbeatTimeout,  \* heartbeat_timeout of the Activity, five seconds
    Throttle,          \* how long the SDK holds a heartbeat back, 0.8 of it
    Blackout,          \* HEARTBEAT_BLACKOUT, six seconds
    BlackoutExtra,     \* the Signals and the haptics before and after it
    Feedback,          \* FEEDBACK_HOLD and the haptics before it, rounded up
    Delays,            \* how long a simulated badge takes, its Signal included
    MaxCrashes,        \* bound: simulated crashes
    MaxFaults          \* bound: batteries out at the start or taken out later,
                       \*        failed simulator Signals, buttons held over

Badges == Hardware \cup Simulated
Questions == 1 .. DeckSize
Nobody == "nobody"

ASSUME FleetAssumption ==
    /\ IsFiniteSet(Hardware) /\ IsFiniteSet(Simulated)
    /\ Hardware \cap Simulated = {}
    /\ Nobody \notin Badges
    /\ DeckSize \in Nat
    /\ {HeartbeatTimeout, Throttle, Blackout, BlackoutExtra, Feedback,
        MaxCrashes, MaxFaults} \subseteq Nat
    /\ Delays \subseteq Nat

\* What the constants of the two programs and of the SDK promise about time: a
\* heartbeat is sent well within its timeout (0.8 of five seconds, the first one
\* after at most two), so is an answer after its feedback, a simulated badge
\* answers within it, and the blackout of a crash (six seconds) outlasts it.
ASSUME TimingAssumption ==
    /\ 1 + Feedback < HeartbeatTimeout
    /\ Throttle < HeartbeatTimeout
    /\ HeartbeatTimeout < Blackout
    /\ \A delay \in Delays : delay < HeartbeatTimeout

VARIABLES
    question,   \* each question on the queue: where it is, whose, since when
    badge,      \* each badge: what it does, with which question, for how long
    polls,      \* the badges whose poll the server has
    abandoned,  \* the questions each badge crashed on, in its NVS
    counted,    \* the badges that were counted when the round started
    crashes,    \* simulated crashes so far
    faults      \* batteries out, Signals failed and buttons held over so far

vars == <<question, badge, polls, abandoned, counted, crashes, faults>>

InDeck == [at |-> "deck", by |-> Nobody, age |-> 0]
Ready == [at |-> "ready", by |-> Nobody, age |-> 0]
Backoff == [at |-> "backoff", by |-> Nobody, age |-> 0]
Answered == [at |-> "answered", by |-> Nobody, age |-> 0]
Started(b) == [at |-> "started", by |-> b, age |-> 0]

\* `sent`: a heartbeat has been sent; `held`: one is held back; `late`: one was
\* when the blackout began; `stuck`: for how long a button was held over from
\* before the question (a history, read by properties only).
Doing(pc, q, left) ==
    [pc |-> pc, q |-> q, left |-> left, sent |-> FALSE, held |-> FALSE, late |-> FALSE,
     stuck |-> 0]
Polling == Doing("polling", 0, 0)
Off == Doing("off", 0, 0)

On(b) == badge[b].pc # "off"
Holds(b) == badge[b].q # 0 /\ question[badge[b].q].by = b
-----------------------------------------------------------------------------
(* Plausible slips in the definitions below, for the mutation runs. *)

\* No badge is kept back.
EveryBadge(n) == Max({n, 1})

\* The throttle is a full heartbeat timeout and a bit.
SlowThrottle == HeartbeatTimeout + 1

\* The recovery comes before the timeout.
ShortBlackout == {HeartbeatTimeout - 2}

\* A failed question goes back to where no poll finds it.
NotRetried == [at |-> "started", by |-> Nobody, age |-> 0]

-----------------------------------------------------------------------------
(* The Workflow: the deck's next questions fill the slots. *)

\* recovery_capacity
Capacity(n) == Max({n - 1, 1})

Out(qs) == Cardinality({q \in Questions : qs[q].at \in {"ready", "backoff", "started"}})

TopUp(qs) ==
    LET room == Capacity(Cardinality(counted)) - Out(qs)
        next(q) == Cardinality({p \in 1 .. q : qs[p].at = "deck"})
    IN  [q \in Questions |->
            IF qs[q].at = "deck" /\ next(q) <= room THEN Ready ELSE qs[q]]

\* A badge that was on within the last minute still counts, and its poll is
\* still there; the start is refused when there is none.
Init ==
    /\ badge \in [Badges -> {Polling, Off}]
    /\ polls \in SUBSET Badges
    /\ \A b \in Badges : On(b) => b \in polls
    /\ counted = polls
    /\ counted # {}
    /\ question = TopUp([q \in Questions |-> InDeck])
    /\ abandoned = [b \in Badges |-> {}]
    /\ crashes = 0
    /\ faults = Cardinality({b \in Badges : ~On(b)})
    /\ faults <= MaxFaults
-----------------------------------------------------------------------------
(* The server gives a question to a badge. *)

\* The loop that waits for an answer sends its first heartbeat a second after it
\* begins, so within the second tick.
Decides(q) == Doing("deciding", q, 1)

\* What a real badge does with a question: it refuses what it abandoned, and it
\* first waits for the release of a button that is down already.
Taken(b, q) ==
    \/ /\ q \in abandoned[b]
       /\ badge' = [badge EXCEPT ![b] = Doing("refusing", q, 0)]
       /\ UNCHANGED faults
    \/ /\ q \notin abandoned[b]
       /\ badge' = [badge EXCEPT ![b] = Decides(q)]
       /\ UNCHANGED faults
    \/ /\ q \notin abandoned[b]
       /\ faults < MaxFaults
       /\ faults' = faults + 1
       /\ badge' = [badge EXCEPT ![b] = Doing("draining", q, 0)]

\* The poll of a badge that is off is answered all the same.
Dispatch(b, q) ==
    /\ question[q].at = "ready"
    /\ b \in polls
    /\ question' = [question EXCEPT ![q] = Started(b)]
    /\ polls' = polls \ {b}
    /\ \/ ~On(b) /\ UNCHANGED <<badge, faults>>
       \/ On(b) /\ b \in Hardware /\ Taken(b, q)
       \/ /\ On(b) /\ b \in Simulated
          /\ \E delay \in Delays : badge' = [badge EXCEPT ![b] = Doing("thinking", q, delay)]
          /\ UNCHANGED faults
    /\ UNCHANGED <<abandoned, counted, crashes>>

\* The badge reports and polls again; the server forgets a report on a question
\* that is no longer that badge's.
Report(b, result) ==
    /\ question' = IF Holds(b)
                   THEN TopUp([question EXCEPT ![badge[b].q] = result]) ELSE question
    /\ badge' = [badge EXCEPT ![b] = Polling]
    /\ polls' = polls \cup {b}
    /\ UNCHANGED <<abandoned, counted, crashes>>

\* The retry policy: a failed or lost Activity is scheduled again.
Failed == Backoff

\* An answer is reported after its feedback, during which no heartbeat is sent.
Answer(b) ==
    /\ badge[b].pc = "deciding"
    /\ \E lasts \in 1 .. Feedback :
          badge' = [badge EXCEPT ![b] = [@ EXCEPT !.pc = "feedback", !.left = lasts]]
    /\ UNCHANGED <<question, polls, abandoned, counted, crashes, faults>>

FeedbackEnds(b) ==
    /\ badge[b].pc = "feedback"
    /\ badge[b].left = 0
    /\ Report(b, Answered)
    /\ UNCHANGED faults

Refuse(b) == badge[b].pc = "refusing" /\ Report(b, Failed) /\ UNCHANGED faults

\* A simulated badge answers after its delay, ...
SimulatorAnswers(b) ==
    /\ badge[b].pc = "thinking"
    /\ badge[b].left = 0
    /\ Report(b, Answered)
    /\ UNCHANGED faults

\* ... and fails the Activity when its Signal fails.
SimulatorFails(b) ==
    /\ badge[b].pc = "thinking"
    /\ faults < MaxFaults
    /\ faults' = faults + 1
    /\ Report(b, Failed)
-----------------------------------------------------------------------------
(* A button held over from before the question. *)

\* The button is let go, and only now does the loop with the heartbeats begin.
Release(b) ==
    /\ badge[b].pc = "draining"
    /\ LET q == badge[b].q
           stuck == IF Holds(b) THEN question[q].age ELSE 0
       IN  badge' = [badge EXCEPT ![b] = [Decides(q) EXCEPT !.stuck = stuck]]
    /\ UNCHANGED <<question, polls, abandoned, counted, crashes, faults>>

\* It is not: the SDK cancels the Activity, five seconds after the heartbeat
\* timeout, and the server forgets the report.
GivesUp(b) ==
    /\ badge[b].pc = "draining"
    /\ ~Holds(b)
    /\ Report(b, Failed)
    /\ UNCHANGED faults

\* The reply to its first heartbeat tells a badge that its question is gone.
Unknown(b) == badge[b].pc = "deciding" /\ badge[b].sent /\ ~Holds(b)

Cancelled(b) == Unknown(b) /\ Report(b, Failed) /\ UNCHANGED faults
-----------------------------------------------------------------------------
(* The simulated crash of a real badge. *)

BlackoutLasts == Blackout .. Blackout + BlackoutExtra

Panic(b) ==
    /\ badge[b].pc = "deciding"
    /\ crashes < MaxCrashes
    /\ crashes' = crashes + 1
    /\ abandoned' = [abandoned EXCEPT ![b] = @ \cup {badge[b].q}]
    /\ \E lasts \in BlackoutLasts :
          badge' = [badge EXCEPT ![b] = [@ EXCEPT !.pc = "blackout", !.left = lasts,
                                                  !.late = badge[b].held]]
    /\ UNCHANGED <<question, polls, counted, faults>>

\* The badge is back and reports the failure.
BlackoutEnds(b) ==
    /\ badge[b].pc = "blackout"
    /\ badge[b].left = 0
    /\ Report(b, Failed)
    /\ UNCHANGED faults
-----------------------------------------------------------------------------
(* Heartbeats. *)

ThrottleInterval == Throttle

\* A heartbeat held back is sent when the throttle is over, whatever the badge
\* is doing by then.
FlushDue(b) == Holds(b) /\ badge[b].held /\ question[badge[b].q].age >= ThrottleInterval

Flush(b) ==
    /\ FlushDue(b)
    /\ question' = [question EXCEPT ![badge[b].q] = Started(b)]
    /\ badge' = [badge EXCEPT ![b] = [@ EXCEPT !.held = FALSE]]
    /\ UNCHANGED <<polls, abandoned, counted, crashes, faults>>

TimedOut(q) == question[q].at = "started" /\ question[q].age >= HeartbeatTimeout

Timeout(q) ==
    /\ TimedOut(q)
    /\ question' = [question EXCEPT ![q] = Failed]
    /\ UNCHANGED <<badge, polls, abandoned, counted, crashes, faults>>

\* Something the next second waits for.
Due ==
    \/ \E q \in Questions : TimedOut(q) \/ (question[q].at = "ready" /\ polls # {})
    \/ \E b \in Badges : \/ FlushDue(b)
                         \/ badge[b].pc = "refusing"
                         \/ Unknown(b)
                         \/ /\ badge[b].pc \in {"blackout", "feedback", "thinking"}
                            /\ badge[b].left = 0

Deciding == {b \in Badges : badge[b].pc = "deciding"}

\* While its player decides, a badge records a heartbeat a second, the first one
\* up to two seconds after that loop began.
MustBeat(b) == badge[b].sent \/ badge[b].left = 0

Sends(b, beats) == b \in beats /\ ~badge[b].sent

\* A second: a first heartbeat is sent at once and a later one is held back.
Tick ==
    /\ ~Due
    /\ \E beats \in SUBSET Deciding :
          /\ \A b \in Deciding : MustBeat(b) => b \in beats
          /\ question' = [q \in Questions |->
                CASE question[q].at = "backoff" -> Ready
                  [] question[q].at = "started" ->
                        IF \E b \in beats : badge[b].q = q /\ Holds(b) /\ Sends(b, beats)
                        THEN [question[q] EXCEPT !.age = 0]
                        ELSE [question[q] EXCEPT !.age = @ + 1]
                  [] OTHER -> question[q]]
          /\ badge' = [b \in Badges |->
                [badge[b] EXCEPT !.left = Max({@ - 1, 0}),
                                 !.sent = @ \/ b \in beats,
                                 !.held = @ \/ (b \in beats /\ badge[b].sent)]]
    /\ UNCHANGED <<polls, abandoned, counted, crashes, faults>>
-----------------------------------------------------------------------------
(* Batteries. *)

\* A poll that was out stays with the server, ...
PowerOff(b) ==
    /\ On(b)
    /\ faults < MaxFaults
    /\ faults' = faults + 1
    /\ badge' = [badge EXCEPT ![b] = Off]
    /\ UNCHANGED <<question, polls, abandoned, counted, crashes>>

\* ... until it expires.
PollExpires(b) ==
    /\ ~On(b)
    /\ b \in polls
    /\ polls' = polls \ {b}
    /\ UNCHANGED <<question, badge, abandoned, counted, crashes, faults>>

PowerOn(b) ==
    /\ ~On(b)
    /\ badge' = [badge EXCEPT ![b] = Polling]
    /\ polls' = polls \cup {b}
    /\ UNCHANGED <<question, abandoned, counted, crashes, faults>>

\* What happens by itself within its second, and the second's end.
Clockwork ==
    \/ \E b \in Badges, q \in Questions : Dispatch(b, q)
    \/ \E b \in Badges :
          \/ Refuse(b) \/ FeedbackEnds(b) \/ Cancelled(b)
          \/ SimulatorAnswers(b) \/ BlackoutEnds(b) \/ Flush(b)
    \/ \E q \in Questions : Timeout(q)
    \/ Tick

Next ==
    \/ Clockwork
    \/ \E b \in Badges :
          \/ Answer(b) \/ Release(b) \/ GivesUp(b) \/ SimulatorFails(b) \/ Panic(b)
          \/ PowerOff(b) \/ PollExpires(b) \/ PowerOn(b)

Spec == Init /\ [][Next]_vars

\* Time passes, players answer some day, the SDK cancels an Activity that it has
\* heard no heartbeat of, and the server does not keep a waiting question from a
\* badge that keeps polling for it.  A held button need never be let go.
Fairness ==
    /\ WF_vars(Clockwork)
    /\ \A b \in Badges : WF_vars(Answer(b)) /\ WF_vars(GivesUp(b))
    /\ \A b \in Badges, q \in Questions : SF_vars(On(b) /\ Dispatch(b, q))

FairSpec == Spec /\ Fairness
-----------------------------------------------------------------------------
QuestionState ==
    [at : {"deck", "ready", "backoff", "started", "answered"},
     by : Badges \cup {Nobody}, age : 0 .. HeartbeatTimeout]

BadgeState ==
    [pc : {"polling", "off", "draining", "deciding", "feedback", "refusing", "thinking",
           "blackout"},
     q : 0 .. DeckSize, left : Nat, sent : BOOLEAN, held : BOOLEAN, late : BOOLEAN,
     stuck : 0 .. HeartbeatTimeout]

TypeOK ==
    /\ question \in [Questions -> QuestionState]
    /\ badge \in [Badges -> BadgeState]
    /\ polls \subseteq Badges
    /\ abandoned \in [Badges -> SUBSET Questions]
    /\ counted \subseteq Badges
    /\ crashes \in 0 .. MaxCrashes
    /\ faults \in 0 .. MaxFaults

Waiting == {q \in Questions : question[q].at \in {"ready", "backoff"}}
Free == {b \in polls : On(b)}

\* A badge that a held button cost its question is busy with one it has not got.
Astray(b) == badge[b].q # 0 /\ ~Holds(b)
Unavailable == {b \in counted : badge[b].pc \in {"off", "blackout"} \/ Astray(b)}

\* "Reserving one badge to pick up heartbeat-timeout retries": while at most one
\* of the badges that were counted is gone, off, in its blackout or astray after
\* a held button, the questions that wait never outnumber the free badges, and a
\* question that at most one of them is gone for or has crashed on finds a free
\* badge that will take it.
Lost(q) == Unavailable \cup {b \in counted : q \in abandoned[b]}

ReserveIsFree ==
    Cardinality(counted) > 1 =>
        /\ Cardinality(Unavailable) <= 1 => Cardinality(Waiting) <= Cardinality(Free)
        /\ \A q \in Waiting :
              Cardinality(Lost(q)) <= 1 => \E b \in Free : q \notin abandoned[b]

\* The heartbeat timeout takes a question only from a badge that is off, that
\* was off when it was given the question, that is in its blackout, or on which
\* a button was held over from before the question for so long that the answer,
\* or the first heartbeat, comes too late: while the button is down the badge is
\* in the loop that sends none.  The SDK's throttle never costs a badge its
\* question, nor does the feedback, nor does a simulated badge that thinks for
\* less than the timeout (Delays).
HeldOver(b) ==
    \/ badge[b].pc = "draining"
    \/ /\ badge[b].pc \in {"deciding", "feedback"}
       /\ ~badge[b].sent
       /\ badge[b].stuck + 1 + Feedback >= HeartbeatTimeout

TimeoutMeansGone ==
    [][\A q \in Questions : Timeout(q) =>
          LET b == question[q].by
          IN  badge[b].q # q \/ badge[b].pc = "blackout" \/ HeldOver(b)]_vars

\* "Only a simulated Worker failure returns the question to the Task Queue",
\* says the badge's README of a badge that keeps its power: not so, a button
\* held over returns it too.
OnlyACrashReturns ==
    [][\A q \in Questions : Timeout(q) =>
          LET b == question[q].by
          IN  badge[b].q # q \/ badge[b].pc = "blackout"]_vars

\* The timeout takes a crashed badge's question before the badge is back,
\* unless the SDK held a heartbeat back when the blackout began.
CrashTimesOutFirst ==
    [][\A b \in Badges : BlackoutEnds(b) /\ Holds(b) => badge[b].late]_vars

\* A badge is never asked again what it crashed on: what it waits for an answer
\* to, it has not abandoned.
Asking(b) == badge[b].pc \in {"draining", "deciding", "feedback"}

NeverAnswersAbandoned ==
    \A b \in Badges : Asking(b) => badge[b].q \notin abandoned[b]

\* What the round relies on while badges come and go.
FleetKept == TypeOK /\ ReserveIsFree /\ NeverAnswersAbandoned

\* Every question that is given out is answered in the end, after crashes, dead
\* polls, timeouts and refusals, unless no badge is left that would take it.
NobodyLeft(q) == \A b \in Badges : ~On(b) \/ q \in abandoned[b]

EveryQuestionAnswered ==
    \A q \in Questions :
        question[q].at = "ready" ~> question[q].at = "answered" \/ NobodyLeft(q)
=============================================================================

------------------------- MODULE GameWorkflowProofs -------------------------
(***************************************************************************)
(* What is true of a round for every deck, every set of badges, every      *)
(* duration and every sequence of commands: proofs about GameWorkflow.     *)
(*                                                                         *)
(* First its clock: types, modifiers, deadlines.  Then its board: each     *)
(* question is scored at most once, the backlog stays at its target, the   *)
(* tallies, the winners and the handoffs are right, and the Workflow       *)
(* implements the abstract game of TriviaGame.                             *)
(***************************************************************************)
EXTENDS GameWorkflow, Counting

-----------------------------------------------------------------------------
(* The deck. *)

\* A set of questions is finite.
LEMMA QuestionsFinite ==
    ASSUME NEW S \in SUBSET Questions
    PROVE  IsFiniteSet(S) /\ Cardinality(S) \in Nat
<1>1. DeckSize \in Nat
    BY ConstantsAssumption
<1>2. IsFiniteSet(Questions)
    BY <1>1, FS_Interval DEF Questions
<1>3. IsFiniteSet(S)
    BY <1>2, FS_Subset
<1> QED BY <1>3, FS_CardinalityType

\* What is taken off a set of questions belongs to it.
LEMMA FirstOfSubset ==
    ASSUME NEW S, NEW n
    PROVE  FirstOf(S, n) \in SUBSET S
BY DEF FirstOf

-----------------------------------------------------------------------------
(* Type correctness. *)

\* One pass of the loop keeps the types of what it writes.
LEMMA LoopBodyType ==
    ASSUME TypeOK, NEW out \in SUBSET Questions, NEW limit \in Nat \cup {NoTime},
           players' \in SUBSET Badges, LoopBody(out, limit)
    PROVE  /\ status' \in {"Waiting", "Running", "Finished"}
           /\ tickAt' \in Nat \cup {NoTime}
           /\ available' \subseteq Questions
           /\ pending' \subseteq Questions
           /\ scheduled' \in Nat
           /\ winners' \subseteq Badges
           /\ doubleUntil' \in Nat \cup {NoTime}
           /\ rustUntil' \in Nat \cup {NoTime}
           /\ suddenDeath' \in BOOLEAN
           /\ extensionUsed' \in BOOLEAN
           /\ powerups' \in Nat
<1> DEFINE eligible == IF rustUntil' = NoTime THEN available ELSE available \cap Rust
           taken == FirstOf(eligible, TargetBacklog(players') - Cardinality(out))
<1>1. taken \in SUBSET available
    BY FirstOfSubset
<1>2. taken \in SUBSET Questions /\ available \in SUBSET Questions
    BY <1>1 DEF TypeOK
<1>3. Cardinality(taken) \in Nat
    BY <1>2, QuestionsFinite
<1> HIDE DEF taken
<1>4. /\ doubleUntil' = Expire(doubleUntil)
      /\ rustUntil' = Expire(rustUntil)
      /\ UNCHANGED <<suddenDeath, extensionUsed, powerups>>
      /\ \/ UNCHANGED <<available, scheduled>> /\ Close
         \/ /\ ~DeadlinePassed(limit)
            /\ available' = available \ taken
            /\ scheduled' = scheduled + Cardinality(taken)
            /\ \/ Close
               \/ /\ pending' = out \cup taken
                  /\ tickAt' = now + IF limit - now < TickLength
                                     THEN limit - now ELSE TickLength
                  /\ status' = "Running"
                  /\ winners' = winners
    BY DEF LoopBody, taken
<1>5. Close => /\ status' = "Finished"
               /\ pending' = {}
               /\ winners' \subseteq Badges
               /\ tickAt' = NoTime
    BY DEF Close, Leaders
<1>6. now \in Nat /\ TickLength \in Nat
    BY ConstantsAssumption DEF TypeOK
<1>7. ~DeadlinePassed(limit) => limit \in Nat
    BY <1>6 DEF DeadlinePassed, NoTime
<1>8. tickAt' \in Nat \cup {NoTime}
    BY <1>4, <1>5, <1>6, <1>7
<1>9. /\ available' \subseteq Questions
      /\ pending' \subseteq Questions
      /\ winners' \subseteq Badges
      /\ status' \in {"Waiting", "Running", "Finished"}
    BY <1>2, <1>4, <1>5 DEF TypeOK
<1>10. scheduled' \in Nat
    BY <1>3, <1>4 DEF TypeOK
<1>11. /\ doubleUntil' \in Nat \cup {NoTime}
       /\ rustUntil' \in Nat \cup {NoTime}
       /\ suddenDeath' \in BOOLEAN
       /\ extensionUsed' \in BOOLEAN
       /\ powerups' \in Nat
    BY <1>4 DEF TypeOK, Expire
<1> QED BY <1>8, <1>9, <1>10, <1>11

LEMMA TypeInit == Init => TypeOK
<1> SUFFICES ASSUME Init PROVE TypeOK
    OBVIOUS
<1>1. assignments \in [Questions -> Assignment] /\ latestReassignment \in Reassignment
    BY DEF Init, Assignment, Reassignment
<1>2. runner \in [Questions \X Attempts -> Badges \cup {NoBadge}]
    BY DEF Init
<1>3. /\ score \in [Badges -> Int]
      /\ correct \in [Badges -> Nat]
      /\ wrong \in [Badges -> Nat]
      /\ panics \in [Badges -> Nat]
    BY DEF Init
<1>4. /\ now \in Nat
      /\ deadline \in Nat \cup {NoTime}
      /\ tickAt \in Nat \cup {NoTime}
      /\ available \subseteq Questions
      /\ pending \subseteq Questions
      /\ doubleUntil \in Nat \cup {NoTime}
      /\ rustUntil \in Nat \cup {NoTime}
      /\ recorded \subseteq Questions
      /\ attemptsSeen \subseteq Questions \X Attempts
      /\ endedAt \in Nat \cup {NoTime}
      /\ revived \in BOOLEAN
    BY DEF Init
<1> QED BY <1>1, <1>2, <1>3, <1>4 DEF Init, TypeOK

LEMMA TypeNext == TypeOK /\ [Next]_vars => TypeOK'
<1> SUFFICES ASSUME TypeOK, [Next]_vars PROVE TypeOK'
    OBVIOUS
<1>1. CASE Start
  <2>1. deadline' \in Nat \cup {NoTime}
      BY <1>1, ConstantsAssumption DEF Start, TypeOK
  <2>2. LoopBody({}, deadline') /\ players' \in SUBSET Badges
      BY <1>1 DEF Start, TypeOK
  <2>3. UNCHANGED <<now, boardVars, players, panics, handoffVars, endVars>>
      BY <1>1 DEF Start
  <2> QED BY <2>1, <2>2, <2>3, LoopBodyType DEF TypeOK, boardVars, handoffVars, endVars
<1>2. CASE AdvanceTime
    BY <1>2 DEF AdvanceTime, TypeOK, deckVars, boardVars, chaosVars, handoffVars, endVars
<1>3. CASE Tick
  <2>1. LoopBody(pending, deadline) /\ players' \in SUBSET Badges
      BY <1>3 DEF Tick, TypeOK
  <2>2. UNCHANGED <<now, deadline, boardVars, players, panics, handoffVars, endVars>>
      BY <1>3 DEF Tick
  <2>3. pending \in SUBSET Questions /\ deadline \in Nat \cup {NoTime}
      BY DEF TypeOK
  <2> QED BY <2>1, <2>2, <2>3, LoopBodyType DEF TypeOK, boardVars, handoffVars, endVars
<1>4. ASSUME NEW q \in Questions, NEW b \in Badges, NEW right \in BOOLEAN,
             AnswerCompleted(q, b, right)
      PROVE  TypeOK'
  <2>1. /\ players' \subseteq Badges
        /\ completed' \in Nat
        /\ recorded' \subseteq Questions
        /\ UNCHANGED <<now, deadline, panics, handoffVars, endVars>>
      BY <1>4 DEF AnswerCompleted, TypeOK
  <2>2. ActivePoints \in Int
      BY DEF ActivePoints
  <2>3. score' \in [Badges -> Int]
      BY <1>4, <2>2 DEF AnswerCompleted, TypeOK
  <2>4. correct' \in [Badges -> Nat] /\ wrong' \in [Badges -> Nat]
      BY <1>4 DEF AnswerCompleted, TypeOK
  <2>5. CASE Close /\ UNCHANGED <<available, scheduled, chaosVars>>
      BY <2>1, <2>3, <2>4, <2>5
      DEF TypeOK, Close, Leaders, handoffVars, endVars, chaosVars
  <2>6. CASE LoopBody(pending \ {q}, deadline)
    <3>1. pending \ {q} \in SUBSET Questions /\ deadline \in Nat \cup {NoTime}
        BY DEF TypeOK
    <3> QED BY <2>1, <2>3, <2>4, <2>6, <3>1, LoopBodyType DEF TypeOK, handoffVars, endVars
  <2> QED BY <1>4, <2>5, <2>6 DEF AnswerCompleted
<1>5. ASSUME NEW q \in Questions, ActivityClosed(q)
      PROVE  TypeOK'
  <2>1. LoopBody(pending \ {q}, deadline) /\ players' \in SUBSET Badges
      BY <1>5 DEF ActivityClosed, TypeOK
  <2>2. UNCHANGED <<now, deadline, boardVars, players, panics, handoffVars, endVars>>
      BY <1>5 DEF ActivityClosed
  <2>3. pending \ {q} \in SUBSET Questions /\ deadline \in Nat \cup {NoTime}
      BY DEF TypeOK
  <2> QED BY <2>1, <2>2, <2>3, LoopBodyType DEF TypeOK, boardVars, handoffVars, endVars
<1>6. ASSUME NEW q \in Questions, NEW b \in Badges, NEW a \in Attempts
      PROVE  BadgeStarted(q, b, a) => TypeOK'
  <2> SUFFICES ASSUME BadgeStarted(q, b, a) PROVE TypeOK'
      OBVIOUS
  <2>1. signals' \in Nat /\ runner' \in [Questions \X Attempts -> Badges \cup {NoBadge}]
      BY DEF BadgeStarted, Signalled, TypeOK
  <2>2. assignments' \in [Questions -> Assignment]
      BY DEF BadgeStarted, TypeOK, Assignment
  <2>3. IsReassignment(q, b, a) => assignments[q].badge \in Badges
      BY DEF IsReassignment, TypeOK, Assignment
  <2>4. reassignments' \in Nat /\ latestReassignment' \in Reassignment
      BY <2>3 DEF BadgeStarted, TypeOK, Reassignment
  <2>5. attemptsSeen' \subseteq Questions \X Attempts /\ activityAttempts' \in Nat
      BY DEF BadgeStarted, TypeOK
  <2>6. players' \subseteq Badges
      BY DEF BadgeStarted, TypeOK
  <2> QED BY <2>1, <2>2, <2>4, <2>5, <2>6
      DEF BadgeStarted, TypeOK, clockVars, deckVars, boardVars, chaosVars, endVars
<1>7. ASSUME NEW q \in Questions, NEW b \in Badges, NEW a \in Attempts
      PROVE  PanicEvent(q, b, a) => TypeOK'
  <2> SUFFICES ASSUME PanicEvent(q, b, a) PROVE TypeOK'
      OBVIOUS
  <2>1. signals' \in Nat /\ runner' \in [Questions \X Attempts -> Badges \cup {NoBadge}]
      BY DEF PanicEvent, Signalled, TypeOK
  <2>2. panics' \in [Badges -> Nat] /\ players' \subseteq Badges
      BY DEF PanicEvent, TypeOK
  <2> QED BY <2>1, <2>2 DEF PanicEvent, TypeOK, clockVars, deckVars, boardVars, chaosVars,
                                 endVars
<1>8. ASSUME NEW command \in Commands, ApplyChaos(command)
      PROVE  TypeOK'
    BY <1>8, ConstantsAssumption
    DEF ApplyChaos, ExtendedDeadline, TypeOK, clockVars, deckVars, boardVars, handoffVars,
        endVars, NoTime
<1>9. CASE EndRound
    BY <1>9 DEF EndRound, TypeOK, clockVars, deckVars, boardVars, chaosVars, handoffVars, endVars
<1>10. CASE UNCHANGED vars
    BY <1>10 DEF TypeOK, vars, clockVars, deckVars, boardVars, chaosVars, handoffVars, endVars
<1> QED BY <1>1, <1>2, <1>3, <1>4, <1>5, <1>6, <1>7, <1>8, <1>9, <1>10 DEF Next

\* In every reachable state of a round, for every value of the constants,
\* each field of the Workflow's state holds a value of its kind.
THEOREM TypeCorrect == Spec => []TypeOK
<1> QED BY TypeInit, TypeNext, PTL DEF Spec

-----------------------------------------------------------------------------
(* The gameplay modifiers. *)

LEMMA ModifiersInit == Init => ModifiersExclusive
BY DEF Init, ModifiersExclusive

LEMMA ModifiersNext == ModifiersExclusive /\ [Next]_vars => ModifiersExclusive'
<1> SUFFICES ASSUME ModifiersExclusive, [Next]_vars PROVE ModifiersExclusive'
    OBVIOUS
<1>1. \A out, limit : LoopBody(out, limit) => ModifiersExclusive'
    BY DEF LoopBody, Expire, ModifiersExclusive
<1>2. UNCHANGED chaosVars => ModifiersExclusive'
    BY DEF chaosVars, ModifiersExclusive
<1>3. CASE Start
    BY <1>1, <1>3 DEF Start
<1>4. CASE Tick
    BY <1>1, <1>4 DEF Tick
<1>5. ASSUME NEW q \in Questions, NEW b \in Badges, NEW right \in BOOLEAN,
             AnswerCompleted(q, b, right)
      PROVE  ModifiersExclusive'
    BY <1>1, <1>2, <1>5 DEF AnswerCompleted
<1>6. ASSUME NEW q \in Questions, ActivityClosed(q)
      PROVE  ModifiersExclusive'
    BY <1>1, <1>6 DEF ActivityClosed
<1>7. ASSUME NEW q \in Questions, NEW b \in Badges, NEW a \in Attempts,
             BadgeStarted(q, b, a) \/ PanicEvent(q, b, a)
      PROVE  ModifiersExclusive'
    BY <1>2, <1>7 DEF BadgeStarted, PanicEvent
<1>8. ASSUME NEW command \in Commands, ApplyChaos(command)
      PROVE  ModifiersExclusive'
  <2>1. CASE ModifierHeld
      BY <1>8, <2>1 DEF ApplyChaos, ExtendedDeadline, ChaosAllowed, ModifiersExclusive
  <2>2. CASE ~ModifierHeld
      BY <1>8, <2>2 DEF ApplyChaos, ExtendedDeadline, ModifierHeld, ModifiersExclusive
  <2> QED BY <2>1, <2>2
<1>9. CASE AdvanceTime \/ EndRound \/ UNCHANGED vars
    BY <1>2, <1>9 DEF AdvanceTime, EndRound, vars
<1> QED BY <1>3, <1>4, <1>5, <1>6, <1>7, <1>8, <1>9 DEF Next

\* Double points, Rust-only and sudden death are never held together.
THEOREM ModifiersNeverOverlap == Spec => []ModifiersExclusive
<1> QED BY ModifiersInit, ModifiersNext, PTL DEF Spec

-----------------------------------------------------------------------------
(* The deadline and the tick. *)

\* The state before the round starts, as far as the timing depends on it.
Fresh == status = "Waiting" =>
            /\ now = 0
            /\ ~extensionUsed
            /\ doubleUntil = NoTime /\ rustUntil = NoTime

\* An unexpired modifier outlasts the armed tick but for one tick.
ModifierTicks ==
    status = "Running" =>
        /\ doubleUntil # NoTime => tickAt < doubleUntil + TickLength
        /\ rustUntil # NoTime => tickAt < rustUntil + TickLength

TimingInv == TypeOK /\ Fresh /\ TickArmed /\ ModifierTicks

\* A pass of the loop re-arms the tick under the deadline it reads, which has
\* not passed, or closes the round.
LEMMA LoopBodyTiming ==
    ASSUME TypeOK, NEW out, NEW limit \in Nat \cup {NoTime},
           LoopBody(out, limit), now' = now
    PROVE  \/ status' = "Finished"
           \/ /\ status' = "Running"
              /\ now < limit
              /\ limit # NoTime
              /\ tickAt' \in Nat
              /\ tickAt' <= limit
              /\ now <= tickAt'
              /\ tickAt' <= now + TickLength
              /\ extensionUsed' = extensionUsed
              /\ doubleUntil' # NoTime => tickAt' < doubleUntil' + TickLength
              /\ rustUntil' # NoTime => tickAt' < rustUntil' + TickLength
<1>1. now \in Nat /\ TickLength \in Nat \ {0}
      /\ doubleUntil \in Nat \cup {NoTime} /\ rustUntil \in Nat \cup {NoTime}
    BY ConstantsAssumption DEF TypeOK
<1>2. CASE Close
    BY <1>2 DEF Close
<1>3. CASE /\ now < limit
           /\ tickAt' = now + (IF limit - now < TickLength THEN limit - now ELSE TickLength)
           /\ status' = "Running"
  <2>1. limit \in Nat
      BY <1>1, <1>3 DEF NoTime
  <2>2. tickAt' \in Nat /\ tickAt' <= limit /\ now <= tickAt' /\ tickAt' <= now + TickLength
      BY <1>1, <1>3, <2>1
  <2>3. /\ extensionUsed' = extensionUsed
        /\ doubleUntil' = Expire(doubleUntil)
        /\ rustUntil' = Expire(rustUntil)
      BY DEF LoopBody
  <2>4. doubleUntil' # NoTime => tickAt' < doubleUntil' + TickLength
      BY <1>1, <2>2, <2>3 DEF Expire, NoTime
  <2>5. rustUntil' # NoTime => tickAt' < rustUntil' + TickLength
      BY <1>1, <2>2, <2>3 DEF Expire, NoTime
  <2> QED BY <1>3, <2>1, <2>2, <2>3, <2>4, <2>5 DEF NoTime
<1> QED BY <1>1, <1>2, <1>3 DEF LoopBody, DeadlinePassed, NoTime

\* The same pass, as a step of a running round.
LEMMA PassTiming ==
    ASSUME TimingInv, TypeOK', status = "Running", NEW out,
           LoopBody(out, deadline), now' = now, deadline' = deadline
    PROVE  TimingInv'
<1>1. deadline \in Nat \cup {NoTime}
    BY DEF TimingInv, TypeOK
<1>2. CASE status' = "Finished"
    BY <1>2 DEF TimingInv, Fresh, TickArmed, ModifierTicks
<1>3. CASE status' # "Finished"
  <2>1. /\ status' = "Running" /\ now < deadline /\ deadline # NoTime
        /\ tickAt' \in Nat /\ tickAt' <= deadline
        /\ now <= tickAt' /\ tickAt' <= now + TickLength
        /\ extensionUsed' = extensionUsed
      BY <1>1, <1>3, LoopBodyTiming DEF TimingInv
  <2>2. ModifierTicks'
      BY <1>1, <1>3, LoopBodyTiming DEF TimingInv, ModifierTicks
  <2>3. now \in Nat /\ deadline \in Nat
      BY <1>1, <2>1 DEF TimingInv, TypeOK
  <2>4. Fresh'
      BY <2>1 DEF Fresh
  <2>5. MaxLag \in Nat /\ TickLength \in Nat /\ Duration \in Nat /\ Extension \in Nat
      BY ConstantsAssumption
  <2>6. TickArmed'
    <3> DEFINE bound == IF extensionUsed THEN Duration + Extension + MaxLag ELSE Duration
    <3>1. deadline <= bound \/ deadline <= now
        BY DEF TimingInv, TickArmed
    <3>2. bound \in Nat
        BY <2>5
    <3> HIDE DEF bound
    <3>3. tickAt' <= bound /\ deadline <= bound
        BY <2>1, <2>3, <3>1, <3>2
    <3>4. tickAt' # NoTime
        BY <2>1 DEF NoTime
    <3>6. now <= tickAt' + MaxLag /\ tickAt' <= deadline + TickLength
      <4> DEFINE armed == tickAt'
      <4>1. armed \in Nat /\ now <= armed /\ armed <= deadline
          BY <2>1
      <4> HIDE DEF armed
      <4>2. now <= armed + MaxLag /\ armed <= deadline + TickLength
          BY <2>3, <2>5, <4>1
      <4> QED BY <4>2 DEF armed
    <3>5. bound = IF extensionUsed' THEN Duration + Extension + MaxLag ELSE Duration
        BY <2>1 DEF bound
    <3> QED BY <2>1, <3>3, <3>4, <3>5, <3>6 DEF TickArmed
  <2> QED BY <2>2, <2>4, <2>6 DEF TimingInv
<1> QED BY <1>2, <1>3

\* A step that leaves the clock, the deadline and the modifiers alone.
LEMMA StutterTiming ==
    ASSUME TimingInv, TypeOK', UNCHANGED <<clockVars, status, deadline, chaosVars>>
    PROVE  TimingInv'
BY DEF TimingInv, Fresh, TickArmed, ModifierTicks, clockVars, chaosVars

LEMMA TimingInit == Init => TimingInv
<1> SUFFICES ASSUME Init PROVE TimingInv
    OBVIOUS
<1>1. TypeOK
    BY TypeInit
<1> QED BY <1>1 DEF Init, TimingInv, Fresh, TickArmed, ModifierTicks

LEMMA TimingNext == TimingInv /\ [Next]_vars => TimingInv'
<1> SUFFICES ASSUME TimingInv, [Next]_vars PROVE TimingInv'
    OBVIOUS
<1>0. TypeOK /\ TypeOK'
    BY TypeNext DEF TimingInv
<1>c. /\ MaxLag \in Nat /\ TickLength \in Nat \ {0} /\ Duration \in Nat \ {0}
      /\ Extension \in Nat /\ ChaosDuration \in Nat \ {0}
    BY ConstantsAssumption
<1>1. CASE Start
  <2>1. now = 0 /\ now' = 0 /\ ~extensionUsed /\ deadline' = Duration
        /\ LoopBody({}, deadline')
      BY <1>1, <1>c DEF Start, TimingInv, Fresh
  <2>2. CASE status' = "Finished"
      BY <1>0, <2>2 DEF TimingInv, Fresh, TickArmed, ModifierTicks
  <2>3. CASE status' # "Finished"
    <3>1. deadline' \in Nat \cup {NoTime}
        BY <1>0 DEF TypeOK
    <3>2. /\ status' = "Running" /\ tickAt' \in Nat /\ tickAt' <= deadline'
          /\ now <= tickAt' /\ tickAt' <= now + TickLength
          /\ extensionUsed' = extensionUsed
          /\ doubleUntil' # NoTime => tickAt' < doubleUntil' + TickLength
          /\ rustUntil' # NoTime => tickAt' < rustUntil' + TickLength
        BY <1>0, <2>1, <2>3, <3>1, LoopBodyTiming
    <3>3. ~extensionUsed'
        BY <2>1, <3>2
    <3>4. /\ tickAt' # NoTime /\ deadline' # NoTime
          /\ now <= tickAt' + MaxLag
          /\ tickAt' <= deadline' + TickLength
          /\ tickAt' <= Duration
      <4> DEFINE armed == tickAt'
      <4>1. armed \in Nat /\ armed <= deadline'
          BY <3>2
      <4> HIDE DEF armed
      <4>2. /\ armed # NoTime
            /\ now <= armed + MaxLag
            /\ armed <= Duration + TickLength
            /\ armed <= Duration
          BY <1>c, <2>1, <4>1 DEF NoTime
      <4> QED BY <1>c, <2>1, <4>2 DEF armed, NoTime
    <3>5. TickArmed'
      <4>1. now' = now /\ now \in Nat /\ deadline' <= Duration
          BY <1>0, <1>c, <2>1 DEF TypeOK
      <4>2. now' <= tickAt' + MaxLag /\ tickAt' <= now' + TickLength
          BY <3>2, <3>4, <4>1
      <4> QED BY <3>3, <3>4, <4>1, <4>2 DEF TickArmed
    <3> QED BY <1>0, <3>2, <3>5 DEF TimingInv, Fresh, ModifierTicks
  <2> QED BY <2>2, <2>3
<1>2. CASE AdvanceTime
  <2>1. /\ status = "Running" /\ now < tickAt + MaxLag /\ now' = now + 1
        /\ UNCHANGED <<tickAt, status, deadline, chaosVars>>
      BY <1>2 DEF AdvanceTime
  <2>2. now \in Nat /\ tickAt \in Nat /\ deadline \in Nat
      BY <1>0, <2>1 DEF TimingInv, TypeOK, TickArmed
  <2>3. TickArmed'
    <3> DEFINE bound == IF extensionUsed THEN Duration + Extension + MaxLag ELSE Duration
    <3>1. /\ now <= tickAt + MaxLag /\ tickAt <= now + TickLength
          /\ tickAt <= deadline + TickLength
          /\ tickAt <= bound /\ (deadline <= bound \/ deadline <= now)
          /\ tickAt # NoTime /\ deadline # NoTime
        BY <2>1 DEF TimingInv, TickArmed
    <3>2. bound \in Nat
        BY <1>c
    <3>3. extensionUsed' = extensionUsed
        BY <2>1 DEF chaosVars
    <3> HIDE DEF bound
    <3>4. /\ now' <= tickAt + MaxLag /\ tickAt <= now' + TickLength
          /\ deadline <= bound \/ deadline <= now'
        BY <1>c, <2>1, <2>2, <3>1, <3>2
    <3> QED BY <2>1, <3>1, <3>3, <3>4 DEF TickArmed, bound
  <2>4. ModifierTicks'
      BY <2>1 DEF TimingInv, ModifierTicks, chaosVars
  <2> QED BY <1>0, <2>1, <2>3, <2>4 DEF TimingInv, Fresh
<1>3. CASE Tick
    BY <1>0, <1>3, PassTiming DEF Tick
<1>4. ASSUME NEW q \in Questions, NEW b \in Badges, NEW right \in BOOLEAN,
             AnswerCompleted(q, b, right)
      PROVE  TimingInv'
  <2>1. CASE Close
      BY <1>0, <2>1 DEF Close, TimingInv, Fresh, TickArmed, ModifierTicks
  <2>2. CASE LoopBody(pending \ {q}, deadline)
      BY <1>0, <1>4, <2>2, PassTiming DEF AnswerCompleted
  <2> QED BY <1>4, <2>1, <2>2 DEF AnswerCompleted
<1>5. ASSUME NEW q \in Questions, ActivityClosed(q)
      PROVE  TimingInv'
    BY <1>0, <1>5, PassTiming DEF ActivityClosed
<1>6. ASSUME NEW q \in Questions, NEW b \in Badges, NEW a \in Attempts,
             BadgeStarted(q, b, a) \/ PanicEvent(q, b, a)
      PROVE  TimingInv'
  <2>1. UNCHANGED <<clockVars, status, deadline, chaosVars>>
      BY <1>6 DEF BadgeStarted, PanicEvent
  <2> QED BY <1>0, <2>1, StutterTiming
<1>7. ASSUME NEW command \in Commands, ApplyChaos(command)
      PROVE  TimingInv'
  <2>1. status = "Running" /\ status' = status /\ now' = now /\ tickAt' = tickAt
      BY <1>7 DEF ApplyChaos, ExtendedDeadline, ChaosAllowed, clockVars
  <2>2. now \in Nat /\ tickAt \in Nat /\ deadline \in Nat
      BY <1>0, <2>1 DEF TimingInv, TypeOK, TickArmed
  <2>3. /\ now <= tickAt + MaxLag /\ tickAt <= now + TickLength
        /\ tickAt <= deadline + TickLength /\ tickAt # NoTime
      BY <2>1 DEF TimingInv, TickArmed
  <2>4. ModifierTicks'
    <3>1. doubleUntil' \in {doubleUntil, now + ChaosDuration}
          /\ rustUntil' \in {rustUntil, now + ChaosDuration}
        BY <1>7 DEF ApplyChaos, ExtendedDeadline
    <3>2. tickAt < now + ChaosDuration + TickLength
        BY <1>c, <2>2, <2>3
    <3> QED BY <2>1, <3>1, <3>2 DEF TimingInv, ModifierTicks
  <2>5. CASE command = "ExtendThirtySeconds"
    <3>1. ~extensionUsed /\ extensionUsed' /\ deadline' = deadline + Extension
        BY <1>7, <2>5 DEF ApplyChaos, ExtendedDeadline, ChaosAllowed
    <3>2. tickAt <= Duration /\ (deadline <= Duration \/ deadline <= now)
        BY <2>1, <3>1 DEF TimingInv, TickArmed
    <3>3. /\ deadline' \in Nat /\ tickAt <= deadline' + TickLength
          /\ tickAt <= Duration + Extension + MaxLag
          /\ deadline' <= Duration + Extension + MaxLag
        BY <1>c, <2>2, <2>3, <3>1, <3>2
    <3>4. TickArmed'
        BY <2>1, <2>3, <3>1, <3>3 DEF TickArmed, NoTime
    <3> QED BY <1>0, <2>1, <2>4, <3>4 DEF TimingInv, Fresh
  <2>6. CASE command # "ExtendThirtySeconds"
    <3>1. deadline' = deadline
        BY <1>7, <2>6 DEF ApplyChaos, ExtendedDeadline
    <3>2. extensionUsed' = extensionUsed
        BY <1>0, <1>7, <2>6 DEF ApplyChaos, ExtendedDeadline, TypeOK
    <3>3. TickArmed'
        BY <2>1, <3>1, <3>2 DEF TimingInv, TickArmed
    <3> QED BY <1>0, <2>1, <2>4, <3>3 DEF TimingInv, Fresh
  <2> QED BY <2>5, <2>6
<1>8. CASE EndRound
  <2>1. /\ status = "Running" /\ deadline' = now
        /\ UNCHANGED <<clockVars, status, chaosVars>>
      BY <1>8 DEF EndRound
  <2>2. now \in Nat
      BY <1>0 DEF TypeOK
  <2>3. TickArmed'
      BY <1>c, <2>1, <2>2 DEF TimingInv, TickArmed, clockVars, chaosVars, NoTime
  <2>4. ModifierTicks'
      BY <2>1 DEF TimingInv, ModifierTicks, clockVars, chaosVars
  <2> QED BY <1>0, <2>1, <2>3, <2>4 DEF TimingInv, Fresh
<1>9. CASE UNCHANGED vars
    BY <1>0, <1>9, StutterTiming DEF vars
<1> QED BY <1>1, <1>2, <1>3, <1>4, <1>5, <1>6, <1>7, <1>8, <1>9 DEF Next

LEMMA TimingBounds ==
    TimingInv => OverrunBounded /\ RoundLengthBounded /\ StaleModifierBounded
<1> SUFFICES ASSUME TimingInv, status = "Running"
             PROVE  /\ now <= deadline + TickLength + MaxLag
                    /\ now <= Duration + Extension + 2 * MaxLag
                    /\ doubleUntil # NoTime => now < doubleUntil + TickLength + MaxLag
                    /\ rustUntil # NoTime => now < rustUntil + TickLength + MaxLag
    BY DEF OverrunBounded, RoundLengthBounded, StaleModifierBounded
<1>1. /\ MaxLag \in Nat /\ TickLength \in Nat /\ Duration \in Nat /\ Extension \in Nat
    BY ConstantsAssumption
<1>2. /\ now \in Nat /\ tickAt \in Nat /\ deadline \in Nat
      /\ doubleUntil \in Nat \cup {NoTime} /\ rustUntil \in Nat \cup {NoTime}
    BY DEF TimingInv, TypeOK, TickArmed
<1>3. /\ now <= tickAt + MaxLag
      /\ tickAt <= deadline + TickLength
    BY DEF TimingInv, TickArmed
<1>4. tickAt <= Duration + Extension + MaxLag
    BY <1>1, <1>2 DEF TimingInv, TickArmed
<1>5. /\ doubleUntil # NoTime => tickAt < doubleUntil + TickLength
      /\ rustUntil # NoTime => tickAt < rustUntil + TickLength
    BY DEF TimingInv, ModifierTicks
<1> QED BY <1>1, <1>2, <1>3, <1>4, <1>5

\* However Updates move the deadline, a running round is never more than a
\* tick and the timer's lag past it (the run loop's re-read deadline).
THEOREM OverrunStaysBounded == Spec => []OverrunBounded
<1> QED BY TimingInit, TimingNext, TimingBounds, PTL DEF Spec

\* No sequence of Updates makes a round outlive its duration and one extension
\* by more than the timer's lag at both ends.
THEOREM RoundLengthStaysBounded == Spec => []RoundLengthBounded
<1> QED BY TimingInit, TimingNext, TimingBounds, PTL DEF Spec

\* No expired modifier refuses the operator's next command for longer than a
\* tick and the timer's lag (expire_chaos runs only in the loop).
THEOREM StaleModifiersLapse == Spec => []StaleModifierBounded
<1> QED BY TimingInit, TimingNext, TimingBounds, PTL DEF Spec

-----------------------------------------------------------------------------
(* The operator's end of the round. *)

\* The deadline end_round set can only have been moved by an extension accepted
\* since, and there is only one extension.
EndedDeadline ==
    /\ status = "Waiting" => endedAt = NoTime
    /\ revived => extensionUsed
    /\ status = "Running" /\ endedAt # NoTime =>
           deadline <= endedAt + (IF revived THEN Extension ELSE 0)

EndedInv == TimingInv /\ EndedDeadline

\* A pass of the loop, and everything but the two Updates, leaves it be.
LEMMA PassEnded ==
    ASSUME EndedDeadline, status # "Waiting" \/ endedAt = NoTime, status' # "Waiting",
           status' = "Running" => status = "Running" \/ endedAt = NoTime,
           status' = "Running" /\ endedAt # NoTime => UNCHANGED deadline,
           UNCHANGED <<endedAt, revived, extensionUsed>>
    PROVE  EndedDeadline'
BY DEF EndedDeadline

LEMMA EndedInit == Init => EndedInv
BY TimingInit DEF Init, EndedInv, EndedDeadline

LEMMA EndedNext == EndedInv /\ [Next]_vars => EndedInv'
<1> SUFFICES ASSUME EndedInv, [Next]_vars PROVE EndedDeadline'
    BY TimingNext DEF EndedInv
<1>0. TypeOK /\ TypeOK' /\ EndedDeadline /\ TickArmed
    BY TypeNext DEF EndedInv, TimingInv
<1>c. Extension \in Nat
    BY ConstantsAssumption
<1>l. ASSUME NEW out, NEW limit, LoopBody(out, limit)
      PROVE  status' # "Waiting" /\ UNCHANGED extensionUsed
  BY <1>l DEF LoopBody, Close
<1>1. CASE Start
  <2>1. endedAt = NoTime /\ UNCHANGED <<endedAt, revived>>
      BY <1>0, <1>1 DEF Start, EndedDeadline, endVars
  <2>2. status' # "Waiting" /\ UNCHANGED extensionUsed
      BY <1>1, <1>l DEF Start
  <2> QED BY <1>0, <2>1, <2>2 DEF EndedDeadline
<1>2. CASE AdvanceTime
    BY <1>0, <1>2 DEF AdvanceTime, EndedDeadline, chaosVars, endVars
<1>3. CASE Tick
  <2>1. /\ status = "Running" /\ status' # "Waiting"
        /\ UNCHANGED <<deadline, extensionUsed, endedAt, revived>>
      BY <1>3, <1>l DEF Tick, endVars
  <2> QED BY <1>0, <2>1, PassEnded
<1>4. ASSUME NEW q \in Questions, NEW b \in Badges, NEW right \in BOOLEAN,
             AnswerCompleted(q, b, right)
      PROVE  EndedDeadline'
  <2>1. /\ status = "Running" /\ UNCHANGED <<deadline, endedAt, revived>>
      BY <1>4 DEF AnswerCompleted, endVars
  <2>2. CASE Close /\ UNCHANGED chaosVars
      BY <1>0, <2>1, <2>2 DEF Close, EndedDeadline, chaosVars
  <2>3. CASE LoopBody(pending \ {q}, deadline)
      BY <1>0, <1>l, <2>1, <2>3, PassEnded
  <2> QED BY <1>4, <2>2, <2>3 DEF AnswerCompleted
<1>5. ASSUME NEW q \in Questions, ActivityClosed(q)
      PROVE  EndedDeadline'
  <2>1. /\ status = "Running" /\ status' # "Waiting"
        /\ UNCHANGED <<deadline, extensionUsed, endedAt, revived>>
      BY <1>5, <1>l DEF ActivityClosed, endVars
  <2> QED BY <1>0, <2>1, PassEnded
<1>6. ASSUME NEW q \in Questions, NEW b \in Badges, NEW a \in Attempts,
             BadgeStarted(q, b, a) \/ PanicEvent(q, b, a)
      PROVE  EndedDeadline'
    BY <1>0, <1>6 DEF BadgeStarted, PanicEvent, EndedDeadline, chaosVars, endVars
<1>7. ASSUME NEW command \in Commands, ApplyChaos(command)
      PROVE  EndedDeadline'
  <2>1. /\ status = "Running" /\ status' = "Running" /\ endedAt' = endedAt
        /\ revived' = (revived \/ (command = "ExtendThirtySeconds" /\ endedAt # NoTime))
      BY <1>7 DEF ApplyChaos, ChaosAllowed
  <2>2. CASE command = "ExtendThirtySeconds"
    <3>1. ~extensionUsed /\ extensionUsed' /\ deadline' = deadline + Extension
        BY <1>7, <2>2 DEF ApplyChaos, ExtendedDeadline, ChaosAllowed
    <3>2. ~revived /\ (endedAt # NoTime => revived')
        BY <1>0, <2>1, <2>2, <3>1 DEF EndedDeadline
    <3>3. deadline \in Nat /\ endedAt \in Nat \cup {NoTime}
        BY <1>0, <2>1 DEF TypeOK, TickArmed
    <3>4. endedAt # NoTime => deadline <= endedAt + 0
        BY <1>0, <2>1, <3>2 DEF EndedDeadline
    <3>5. endedAt # NoTime => deadline' <= endedAt + Extension
        BY <1>c, <3>1, <3>3, <3>4 DEF NoTime
    <3> QED BY <2>1, <3>1, <3>2, <3>5 DEF EndedDeadline
  <2>3. CASE command # "ExtendThirtySeconds"
    <3>1. deadline' = deadline /\ extensionUsed' = extensionUsed /\ revived' = revived
        BY <1>0, <1>7, <2>1, <2>3 DEF ApplyChaos, TypeOK
    <3> QED BY <1>0, <2>1, <3>1 DEF EndedDeadline
  <2> QED BY <2>2, <2>3
<1>8. CASE EndRound
  <2>1. /\ status = "Running" /\ status' = "Running" /\ ~revived'
        /\ now \in Nat /\ deadline' = now /\ endedAt' = now
      BY <1>0, <1>8 DEF EndRound, TypeOK
  <2>2. deadline' <= endedAt' + 0
      BY <2>1
  <2> QED BY <2>1, <2>2 DEF EndedDeadline
<1>9. CASE UNCHANGED vars
    BY <1>0, <1>9 DEF vars, chaosVars, endVars, EndedDeadline
<1> QED BY <1>1, <1>2, <1>3, <1>4, <1>5, <1>6, <1>7, <1>8, <1>9 DEF Next

LEMMA EndedBound == EndedInv => EndedRoundCloses
<1> SUFFICES ASSUME EndedInv, status = "Running", endedAt # NoTime
             PROVE  now <= endedAt + (IF revived THEN Extension ELSE 0)
                               + TickLength + MaxLag
    BY DEF EndedRoundCloses
<1>1. now <= deadline + TickLength + MaxLag
    BY TimingBounds DEF EndedInv, OverrunBounded
<1>2. deadline <= endedAt + (IF revived THEN Extension ELSE 0)
    BY DEF EndedInv, EndedDeadline
<1>3. /\ now \in Nat /\ deadline \in Nat /\ endedAt \in Nat
      /\ TickLength \in Nat /\ MaxLag \in Nat /\ Extension \in Nat
    BY ConstantsAssumption DEF EndedInv, TimingInv, TypeOK, TickArmed
<1> QED BY <1>1, <1>2, <1>3

\* end_round closes a running round within a tick and the timer's lag, also one
\* that was extended before, for every interleaving of Updates with the loop;
\* only an extension accepted after the end keeps it open, and only by its length.
THEOREM EndedRoundsClose == Spec => []EndedRoundCloses
<1> QED BY EndedInit, EndedNext, EndedBound, PTL DEF Spec

-----------------------------------------------------------------------------
(* Questions. *)

BoardInv == TypeOK /\ QuestionAccounting

\* One pass of the loop only moves questions from the deck to the pending set.
LEMMA LoopBodyAccounting ==
    ASSUME TypeOK, NEW out \in SUBSET Questions, NEW limit,
           out \cap available = {}, scheduled = DeckSize - Cardinality(available),
           LoopBody(out, limit)
    PROVE  /\ available' \subseteq available
           /\ pending' \subseteq out \cup available
           /\ available' \cap pending' = {}
           /\ scheduled' = DeckSize - Cardinality(available')
<1> DEFINE eligible == IF rustUntil' = NoTime THEN available ELSE available \cap Rust
           taken == FirstOf(eligible, TargetBacklog(players') - Cardinality(out))
<1>1. taken \in SUBSET available
    BY FirstOfSubset
<1>2. \/ UNCHANGED <<available, scheduled>> /\ pending' = {}
      \/ /\ available' = available \ taken
         /\ scheduled' = scheduled + Cardinality(taken)
         /\ pending' = {} \/ pending' = out \cup taken
    BY DEF LoopBody, Close, taken
<1> HIDE DEF taken
<1>3. IsFiniteSet(available) /\ Cardinality(available) \in Nat /\ Cardinality(taken) \in Nat
    BY <1>1, QuestionsFinite DEF TypeOK
<1>4. available \cap taken = taken
    BY <1>1
<1>5. Cardinality(available \ taken) = Cardinality(available) - Cardinality(taken)
    BY <1>3, <1>4, FS_Difference
<1>6. DeckSize \in Nat
    BY ConstantsAssumption
<1>7. CASE UNCHANGED <<available, scheduled>> /\ pending' = {}
    BY <1>7
<1>8. CASE /\ available' = available \ taken
           /\ scheduled' = scheduled + Cardinality(taken)
           /\ pending' = {} \/ pending' = out \cup taken
  <2>1. scheduled' = DeckSize - Cardinality(available')
      BY <1>3, <1>5, <1>6, <1>8
  <2> QED BY <1>1, <1>8, <2>1
<1> QED BY <1>2, <1>7, <1>8

\* A pass after the Activity of q, or none, left the pending set, with the
\* recorded answers `done` still outside the deck and the pending set.
LEMMA PassAccounting ==
    ASSUME BoardInv, TypeOK', NEW out \in SUBSET pending,
           LoopBody(out, deadline),
           recorded' \cap (available \cup out) = {},
           completed' = Cardinality(recorded')
    PROVE  BoardInv'
<1>1. out \in SUBSET Questions /\ out \cap available = {}
    BY DEF BoardInv, TypeOK, QuestionAccounting
<1>2. scheduled = DeckSize - Cardinality(available)
    BY DEF BoardInv, QuestionAccounting
<1>3. /\ available' \subseteq available
      /\ pending' \subseteq out \cup available
      /\ available' \cap pending' = {}
      /\ scheduled' = DeckSize - Cardinality(available')
    BY <1>1, <1>2, LoopBodyAccounting DEF BoardInv
<1> QED BY <1>3 DEF BoardInv, QuestionAccounting

\* A step that leaves the questions alone.
LEMMA StutterAccounting ==
    ASSUME BoardInv, TypeOK', UNCHANGED <<deckVars, recorded, completed>>
    PROVE  BoardInv'
BY DEF BoardInv, QuestionAccounting, deckVars

LEMMA BoardInit == Init => BoardInv
<1> SUFFICES ASSUME Init PROVE BoardInv
    OBVIOUS
<1>1. TypeOK
    BY TypeInit
<1>2. DeckSize \in Nat
    BY ConstantsAssumption
<1>3. Cardinality(Questions) = DeckSize
    BY <1>2, FS_Interval DEF Questions
<1>4. Cardinality({}) = 0
    BY FS_EmptySet
<1> QED BY <1>1, <1>2, <1>3, <1>4 DEF Init, BoardInv, QuestionAccounting

\* q has an answer recorded in this step.
LEMMA RecordAnswer ==
    ASSUME BoardInv, NEW q \in pending, completed' = completed + 1,
           recorded' = recorded \cup {q}
    PROVE  /\ q \notin recorded
           /\ completed' = Cardinality(recorded')
           /\ recorded' \cap (available \cup (pending \ {q})) = {}
<1>1. q \notin recorded /\ q \notin available
    BY DEF BoardInv, QuestionAccounting
<1>2. IsFiniteSet(recorded)
    BY QuestionsFinite DEF BoardInv, TypeOK
<1>3. Cardinality(recorded \cup {q}) = Cardinality(recorded) + 1
    BY <1>1, <1>2, FS_AddElement
<1> QED BY <1>1, <1>3 DEF BoardInv, QuestionAccounting

LEMMA BoardNext == BoardInv /\ [Next]_vars => BoardInv'
<1> SUFFICES ASSUME BoardInv, [Next]_vars PROVE BoardInv'
    OBVIOUS
<1>0. TypeOK /\ TypeOK'
    BY TypeNext DEF BoardInv
<1>1. CASE Start
  <2>1. LoopBody({}, deadline') /\ recorded' = recorded /\ completed' = completed
      BY <1>1 DEF Start, boardVars
  <2>2. /\ available' \subseteq available
        /\ pending' \subseteq available
        /\ available' \cap pending' = {}
        /\ scheduled' = DeckSize - Cardinality(available')
      BY <1>0, <2>1, LoopBodyAccounting DEF BoardInv, QuestionAccounting
  <2> QED BY <1>0, <2>1, <2>2 DEF BoardInv, QuestionAccounting
<1>2. CASE Tick
    BY <1>0, <1>2, PassAccounting
    DEF Tick, boardVars, BoardInv, QuestionAccounting
<1>3. ASSUME NEW q \in Questions, NEW b \in Badges, NEW right \in BOOLEAN,
             AnswerCompleted(q, b, right)
      PROVE  BoardInv'
  <2>1. q \in pending /\ completed' = completed + 1 /\ recorded' = recorded \cup {q}
      BY <1>3 DEF AnswerCompleted
  <2>2. /\ completed' = Cardinality(recorded')
        /\ recorded' \cap (available \cup (pending \ {q})) = {}
      BY <2>1, RecordAnswer
  <2>3. CASE Close /\ UNCHANGED <<available, scheduled, chaosVars>>
      BY <1>0, <2>2, <2>3 DEF Close, BoardInv, QuestionAccounting
  <2>4. CASE LoopBody(pending \ {q}, deadline)
      BY <1>0, <2>2, <2>4, PassAccounting
  <2> QED BY <1>3, <2>3, <2>4 DEF AnswerCompleted
<1>4. ASSUME NEW q \in Questions, ActivityClosed(q)
      PROVE  BoardInv'
  <2>1. LoopBody(pending \ {q}, deadline) /\ UNCHANGED <<recorded, completed>>
      BY <1>4 DEF ActivityClosed, boardVars
  <2> QED BY <1>0, <2>1, PassAccounting DEF BoardInv, QuestionAccounting
<1>5. ASSUME NEW q \in Questions, NEW b \in Badges, NEW a \in Attempts,
             BadgeStarted(q, b, a) \/ PanicEvent(q, b, a)
      PROVE  BoardInv'
  <2>1. UNCHANGED <<deckVars, boardVars>>
      BY <1>5 DEF BadgeStarted, PanicEvent
  <2> QED BY <1>0, <2>1, StutterAccounting DEF boardVars
<1>6. ASSUME NEW command \in Commands, ApplyChaos(command)
      PROVE  BoardInv'
  <2>1. UNCHANGED <<deckVars, boardVars>>
      BY <1>6 DEF ApplyChaos, ExtendedDeadline
  <2> QED BY <1>0, <2>1, StutterAccounting DEF boardVars
<1>7. CASE AdvanceTime \/ EndRound \/ UNCHANGED vars
  <2>1. UNCHANGED <<deckVars, boardVars>>
      BY <1>7 DEF AdvanceTime, EndRound, vars
  <2> QED BY <1>0, <2>1, StutterAccounting DEF boardVars
<1> QED BY <1>1, <1>2, <1>3, <1>4, <1>5, <1>6, <1>7 DEF Next

\* Whatever the order of ticks, answers, failures and commands, a question is
\* never asked again once it left the deck, never scored twice, and the
\* board's counters are the numbers of questions asked and scored.
THEOREM QuestionsAccounted == Spec => []QuestionAccounting
<1>1. BoardInv => QuestionAccounting
    BY DEF BoardInv
<1> QED BY <1>1, BoardInit, BoardNext, PTL DEF Spec
-----------------------------------------------------------------------------
(* The backlog. *)

\* The target only grows as badges join.
LEMMA TargetGrows ==
    ASSUME NEW S \in SUBSET Badges, NEW T \in SUBSET Badges, S \subseteq T
    PROVE  /\ TargetBacklog(S) \in Nat /\ TargetBacklog(T) \in Nat
           /\ TargetBacklog(S) <= TargetBacklog(T)
<1>1. IsFiniteSet(T) /\ IsFiniteSet(S)
    BY ConstantsAssumption, FS_Subset
<1>2. Cardinality(S) <= Cardinality(T)
    BY <1>1, FS_Subset
<1>3. Cardinality(S) \in Nat /\ Cardinality(T) \in Nat
    BY <1>1, FS_CardinalityType
<1> QED BY <1>2, <1>3, ConstantsAssumption DEF TargetBacklog

\* A pass tops up to the target exactly, unless it takes all it may take.
LEMMA PassBacklog ==
    ASSUME TypeOK, NEW out \in SUBSET Questions, NEW limit, players' \in SUBSET Badges,
           out \cap available = {}, Cardinality(out) <= TargetBacklog(players'),
           LoopBody(out, limit)
    PROVE  BacklogKept'
<1> DEFINE eligible == IF rustUntil' = NoTime THEN available ELSE available \cap Rust
           target == TargetBacklog(players')
           taken == FirstOf(eligible, target - Cardinality(out))
<1> SUFFICES ASSUME status' = "Running"
             PROVE  /\ Cardinality(pending') <= target
                    /\ Eligible' # {} => Cardinality(pending') >= TargetBacklog({})
    BY Zenon DEF BacklogKept, target
<1>1. available' = available \ taken /\ pending' = out \cup taken
    BY DEF LoopBody, Close
<1>2. /\ eligible \in SUBSET available /\ eligible \in SUBSET Nat /\ IsFiniteSet(eligible)
      /\ Eligible' = eligible \ taken
  <2>1. eligible \in SUBSET available /\ eligible \in SUBSET Questions
      BY DEF TypeOK
  <2>2. Questions \subseteq Nat
      BY ConstantsAssumption DEF Questions
  <2>3. Eligible' = eligible \ taken
    <3>1. taken \subseteq eligible
        BY FirstOfSubset
    <3> HIDE DEF taken
    <3> QED BY <1>1, <3>1 DEF Eligible
  <2> QED BY <2>1, <2>2, <2>3, QuestionsFinite
<1> DEFINE n == target - Cardinality(out)
<1>3. target \in Nat /\ TargetBacklog({}) \in Nat /\ TargetBacklog({}) <= target
    BY TargetGrows
<1>4. Cardinality(out) \in Nat /\ IsFiniteSet(out)
    BY QuestionsFinite
<1> HIDE DEF eligible, target
<1>5. n \in Nat /\ Cardinality(out) + n = target
    BY <1>3, <1>4 DEF target
<1> HIDE DEF n
<1>6. taken = Leading(eligible, n)
    BY DEF FirstOf, Leading, Below, n
<1>7. taken \in SUBSET eligible
    BY <1>6 DEF Leading
<1> HIDE DEF taken
<1>8. IsFiniteSet(taken) /\ Cardinality(taken) \in Nat /\ Cardinality(taken) <= n
    BY <1>2, <1>5, <1>6, LeadingBounded
<1>9. Cardinality(out \cup taken) = Cardinality(out) + Cardinality(taken)
  <2>1. out \cap taken = {}
      BY <1>2, <1>7
  <2>2. Cardinality(out \cup taken)
            = Cardinality(out) + Cardinality(taken) - Cardinality(out \cap taken)
      BY <1>4, <1>8, FS_Union
  <2> QED BY <1>4, <1>8, <2>1, <2>2, FS_EmptySet
<1>10. Cardinality(pending') <= target
    BY <1>1, <1>3, <1>4, <1>5, <1>8, <1>9
<1>11. CASE taken = eligible
    BY <1>2, <1>10, <1>11
<1>12. CASE taken # eligible
  <2>1. Cardinality(taken) = n
      BY <1>2, <1>5, <1>6, <1>12, LeadingFull
  <2>2. Cardinality(pending') = target
      BY <1>1, <1>5, <1>9, <2>1
  <2> QED BY <1>3, <1>10, <2>2
<1> QED BY <1>11, <1>12

\* A badge that joins raises the target, a command only narrows the choice.
LEMMA BacklogStutter ==
    ASSUME TypeOK, TypeOK', BacklogKept, status = "Running", pending' = pending,
           players \subseteq players', Eligible' \subseteq Eligible
    PROVE  BacklogKept'
<1>1. /\ TargetBacklog(players) \in Nat /\ TargetBacklog(players') \in Nat
      /\ TargetBacklog(players) <= TargetBacklog(players')
    BY TargetGrows DEF TypeOK
<1>2. Cardinality(pending) \in Nat /\ Cardinality(pending) <= TargetBacklog(players)
    BY QuestionsFinite DEF TypeOK, BacklogKept
<1>3. Cardinality(pending') <= TargetBacklog(players')
    BY <1>1, <1>2
<1>4. Eligible' # {} => Cardinality(pending') >= TargetBacklog({})
    BY DEF BacklogKept
<1> QED BY <1>3, <1>4 DEF BacklogKept

\* What is left out after an Activity ends, or nothing did, is within the target.
LEMMA OutstandingBacklog ==
    ASSUME BoardInv, BacklogKept, status = "Running", NEW out \in SUBSET pending,
           players' \in SUBSET Badges, players \subseteq players'
    PROVE  /\ out \in SUBSET Questions /\ out \cap available = {}
           /\ Cardinality(out) <= TargetBacklog(players')
<1>1. /\ pending \in SUBSET Questions /\ players \in SUBSET Badges
      /\ pending \cap available = {}
    BY DEF BoardInv, TypeOK, QuestionAccounting
<1>2. /\ IsFiniteSet(pending) /\ Cardinality(pending) \in Nat
      /\ Cardinality(out) \in Nat
    BY <1>1, QuestionsFinite
<1>3. Cardinality(out) <= Cardinality(pending)
    BY <1>2, FS_Subset
<1>4. Cardinality(pending) <= TargetBacklog(players)
    BY DEF BacklogKept
<1>5. /\ TargetBacklog(players) \in Nat /\ TargetBacklog(players') \in Nat
      /\ TargetBacklog(players) <= TargetBacklog(players')
    BY <1>1, TargetGrows
<1> QED BY <1>1, <1>2, <1>3, <1>4, <1>5

BacklogInv == BoardInv /\ BacklogKept

LEMMA BacklogNext == BacklogInv /\ [Next]_vars => BacklogInv'
<1> SUFFICES ASSUME BacklogInv, [Next]_vars PROVE BacklogKept'
    BY BoardNext DEF BacklogInv
<1>0. TypeOK /\ TypeOK' /\ BoardInv /\ BacklogKept
    BY TypeNext DEF BacklogInv, BoardInv
<1>1. CASE Start
  <2>1. LoopBody({}, deadline') /\ players' \in SUBSET Badges
      BY <1>0, <1>1 DEF Start, TypeOK
  <2>2. Cardinality({}) <= TargetBacklog(players')
      BY <2>1, TargetGrows, FS_EmptySet
  <2> QED BY <1>0, <2>1, <2>2, PassBacklog
<1>2. CASE Tick
  <2>1. /\ status = "Running" /\ LoopBody(pending, deadline)
        /\ players' \in SUBSET Badges /\ players \subseteq players'
      BY <1>0, <1>2 DEF Tick, TypeOK
  <2>2. /\ pending \in SUBSET Questions /\ pending \cap available = {}
        /\ Cardinality(pending) <= TargetBacklog(players')
      BY <1>0, <2>1, OutstandingBacklog
  <2> QED BY <1>0, <2>1, <2>2, PassBacklog
<1>3. ASSUME NEW q \in Questions, NEW b \in Badges, NEW right \in BOOLEAN,
             AnswerCompleted(q, b, right)
      PROVE  BacklogKept'
  <2>1. /\ status = "Running" /\ pending \ {q} \in SUBSET pending
        /\ players' \in SUBSET Badges /\ players \subseteq players'
      BY <1>0, <1>3 DEF AnswerCompleted, TypeOK
  <2>2. CASE Close
      BY <2>2 DEF Close, BacklogKept
  <2>3. CASE LoopBody(pending \ {q}, deadline)
    <3>1. /\ pending \ {q} \in SUBSET Questions /\ (pending \ {q}) \cap available = {}
          /\ Cardinality(pending \ {q}) <= TargetBacklog(players')
        BY <1>0, <2>1, OutstandingBacklog
    <3> QED BY <1>0, <2>1, <2>3, <3>1, PassBacklog
  <2> QED BY <1>3, <2>2, <2>3 DEF AnswerCompleted
<1>4. ASSUME NEW q \in Questions, ActivityClosed(q)
      PROVE  BacklogKept'
  <2>1. /\ status = "Running" /\ LoopBody(pending \ {q}, deadline)
        /\ pending \ {q} \in SUBSET pending
        /\ players' \in SUBSET Badges /\ players \subseteq players'
      BY <1>0, <1>4 DEF ActivityClosed, TypeOK
  <2>2. /\ pending \ {q} \in SUBSET Questions /\ (pending \ {q}) \cap available = {}
        /\ Cardinality(pending \ {q}) <= TargetBacklog(players')
      BY <1>0, <2>1, OutstandingBacklog
  <2> QED BY <1>0, <2>1, <2>2, PassBacklog
<1>5. ASSUME NEW q \in Questions, NEW b \in Badges, NEW a \in Attempts,
             BadgeStarted(q, b, a) \/ PanicEvent(q, b, a)
      PROVE  BacklogKept'
  <2>1. /\ status = "Running" /\ pending' = pending /\ players \subseteq players'
        /\ UNCHANGED <<available, rustUntil>>
      BY <1>5 DEF BadgeStarted, PanicEvent, Signalled, deckVars, chaosVars
  <2>2. Eligible' = Eligible
      BY <2>1 DEF Eligible
  <2> QED BY <1>0, <2>1, <2>2, BacklogStutter
<1>6. ASSUME NEW command \in Commands, ApplyChaos(command)
      PROVE  BacklogKept'
  <2>1. /\ status = "Running" /\ UNCHANGED <<pending, available, players>>
        /\ rustUntil' \in {rustUntil, now + ChaosDuration}
      BY <1>6 DEF ApplyChaos, ExtendedDeadline, ChaosAllowed, deckVars
  <2>2. now + ChaosDuration # NoTime
      BY <1>0, ConstantsAssumption DEF TypeOK, NoTime
  <2>3. Eligible' \subseteq Eligible
      BY <2>1, <2>2 DEF Eligible
  <2> QED BY <1>0, <2>1, <2>3, BacklogStutter
<1>7. CASE AdvanceTime \/ EndRound
  <2>1. /\ status = "Running"
        /\ UNCHANGED <<deckVars, players, chaosVars>>
      BY <1>7 DEF AdvanceTime, EndRound
  <2>2. Eligible' = Eligible /\ pending' = pending /\ players' = players
      BY <2>1 DEF Eligible, deckVars, chaosVars
  <2> QED BY <1>0, <2>1, <2>2, BacklogStutter
<1>8. CASE UNCHANGED vars
    BY <1>0, <1>8
    DEF vars, deckVars, chaosVars, BacklogKept, Eligible, TargetBacklog
<1> QED BY <1>1, <1>2, <1>3, <1>4, <1>5, <1>6, <1>7, <1>8 DEF Next

\* "Reserving one badge": whatever the deck, the number of badges and the
\* order of answers, failures and Rust-only commands, a running round has no
\* more Activities out than its target, and no fewer than the target it
\* started with while a question it may ask remains.
THEOREM BacklogIsKept == Spec => []BacklogKept
<1>1. Init => BacklogInv
    BY BoardInit DEF Init, BacklogInv, BacklogKept
<1>2. BacklogInv => BacklogKept
    BY DEF BacklogInv
<1> QED BY <1>1, <1>2, BacklogNext, PTL DEF Spec

-----------------------------------------------------------------------------
(* The steps a round promises. *)

\* A pass of the loop goes on or closes, and closing names the leaders.
LEMMA PassOutcome ==
    ASSUME NEW out, NEW limit, LoopBody(out, limit)
    PROVE  \/ status' = "Running" /\ winners' = winners
           \/ status' = "Finished" /\ winners' = Leaders(players', score')
BY DEF LoopBody, Close

\* Whoever wrote the answer, an answer handled with the deadline behind it
\* closes the round: at most one answer is ever scored late.
THEOREM LateAnswersEndTheRound == Spec => LateAnswerIsLast
<1>1. TypeOK /\ [Next]_vars => (completed' # completed /\ now >= deadline => status' = "Finished")
  <2> SUFFICES ASSUME TypeOK, [Next]_vars, completed' # completed, now >= deadline
               PROVE  status' = "Finished"
      OBVIOUS
  <2>1. PICK q \in Questions, b \in Badges, right \in BOOLEAN : AnswerCompleted(q, b, right)
      BY DEF Next, vars, boardVars, Start, AdvanceTime, Tick, ActivityClosed, BadgeStarted,
             PanicEvent, ApplyChaos, EndRound
  <2>2. CASE Close
      BY <2>2 DEF Close
  <2>3. CASE LoopBody(pending \ {q}, deadline)
    <3>1. now \in Nat /\ deadline \in Int
        BY DEF TypeOK, NoTime
    <3>2. ~(now < deadline)
        BY <3>1
    <3> QED BY <2>3, <3>2 DEF LoopBody, DeadlinePassed, Close
  <2> QED BY <2>1, <2>2, <2>3 DEF AnswerCompleted
<1> QED BY <1>1, TypeCorrect, PTL DEF Spec, LateAnswerIsLast

\* With sudden death armed, the step that records a correct answer closes the
\* round, so no second answer is recorded after it.
THEOREM SuddenDeathEndsTheRound == Spec => SuddenDeathDecides
<1>1. TypeOK /\ [Next]_vars => (suddenDeath /\ correct' # correct => status' = "Finished")
  <2> SUFFICES ASSUME TypeOK, [Next]_vars, suddenDeath, correct' # correct
               PROVE  status' = "Finished"
      OBVIOUS
  <2>1. PICK q \in Questions, b \in Badges, right \in BOOLEAN : AnswerCompleted(q, b, right)
      BY DEF Next, vars, boardVars, Start, AdvanceTime, Tick, ActivityClosed, BadgeStarted,
             PanicEvent, ApplyChaos, EndRound
  <2>2. correct \in [Badges -> Nat]
      BY DEF TypeOK
  <2>3. correct' = [correct EXCEPT ![b] = @ + IF right THEN 1 ELSE 0]
      BY <2>1 DEF AnswerCompleted
  <2>4. right
      BY <2>2, <2>3
  <2> QED BY <2>1, <2>4 DEF AnswerCompleted, Decides, Close
<1> QED BY <1>1, TypeCorrect, PTL DEF Spec, SuddenDeathDecides

-----------------------------------------------------------------------------
(* Refinement. *)

LEMMA GameInit == Init => Game!Init
BY DEF Init, Game!Init

LEMMA GameNext == BoardInv /\ [Next]_vars => [Game!Next]_(Game!game)
<1> SUFFICES ASSUME BoardInv, [Next]_vars PROVE [Game!Next]_(Game!game)
    OBVIOUS
<1>1. CASE Start
  <2>1. /\ status = "Waiting"
        /\ UNCHANGED <<players, recorded, score>>
        /\ LoopBody({}, deadline')
      BY <1>1 DEF Start, boardVars
  <2>2. Game!Open
      BY <2>1, PassOutcome
      DEF Game!Open, Game!GoOn, Game!Shut, Game!Best, Leaders
  <2> QED BY <2>2 DEF Game!Next
<1>2. ASSUME NEW out, LoopBody(out, deadline), status = "Running",
             UNCHANGED <<players, recorded, score>>
      PROVE  [Game!Next]_(Game!game)
  <2>1. \/ status' = status /\ winners' = winners
        \/ status' = "Finished" /\ winners' = Leaders(players', score')
      BY <1>2, PassOutcome
  <2> QED BY <1>2, <2>1
      DEF Game!Next, Game!Expire, Game!Shut, Game!Best, Game!game, Leaders
<1>3. CASE Tick
    BY <1>2, <1>3 DEF Tick, boardVars
<1>4. ASSUME NEW q \in Questions, ActivityClosed(q)
      PROVE  [Game!Next]_(Game!game)
    BY <1>2, <1>4 DEF ActivityClosed, boardVars
<1>5. ASSUME NEW q \in Questions, NEW b \in Badges, NEW right \in BOOLEAN,
             AnswerCompleted(q, b, right)
      PROVE  [Game!Next]_(Game!game)
  <2> DEFINE worth == IF right THEN ActivePoints ELSE -ActivePoints
  <2>1. worth \in Game!Worth
      BY DEF ActivePoints, Game!Worth
  <2> HIDE DEF worth
  <2>2. /\ status = "Running"
        /\ q \in pending
        /\ completed' = completed + 1
        /\ recorded' = recorded \cup {q}
        /\ players' = players \cup {b}
      BY <1>5 DEF AnswerCompleted
  <2>3. score' = [score EXCEPT ![b] = @ + worth]
      BY <1>5 DEF AnswerCompleted, worth
  <2>4. q \notin recorded
      BY <2>2, RecordAnswer
  <2>5. \/ status' = "Running" /\ winners' = winners
        \/ status' = "Finished" /\ winners' = Leaders(players', score')
      BY <1>5, PassOutcome DEF AnswerCompleted, Close
  <2>6. Game!Answer(b, q, worth)
      BY <2>2, <2>3, <2>4, <2>5
      DEF Game!Answer, Game!GoOn, Game!Shut, Game!Best, Leaders
  <2> QED BY <2>1, <2>6 DEF Game!Next
<1>6. ASSUME NEW q \in Questions, NEW b \in Badges, NEW a \in Attempts,
             BadgeStarted(q, b, a) \/ PanicEvent(q, b, a)
      PROVE  [Game!Next]_(Game!game)
  <2>1. /\ status = "Running"
        /\ players' = players \cup {b}
        /\ UNCHANGED <<status, recorded, score, winners>>
      BY <1>6 DEF BadgeStarted, PanicEvent, Signalled, boardVars
  <2>2. Game!Join(b)
      BY <2>1 DEF Game!Join
  <2> QED BY <2>2 DEF Game!Next
<1>7. ASSUME NEW command \in Commands, ApplyChaos(command)
      PROVE  [Game!Next]_(Game!game)
    BY <1>7 DEF ApplyChaos, ExtendedDeadline, Game!game, boardVars
<1>8. CASE AdvanceTime \/ EndRound \/ UNCHANGED vars
    BY <1>8 DEF AdvanceTime, EndRound, vars, Game!game, boardVars
<1> QED BY <1>1, <1>3, <1>4, <1>5, <1>6, <1>7, <1>8 DEF Next

\* The Workflow implements the game it promises: a round opens once, scores
\* each question at most once, and closes for good on the leaders of its
\* final board.
THEOREM RoundIsAGame == Spec => GameSpec
<1> QED BY BoardInit, BoardNext, GameInit, GameNext, PTL DEF Spec, GameSpec, Game!Spec

-----------------------------------------------------------------------------
(* The final board. *)

LEMMA WinnersNext == WinnersLead /\ [Next]_vars => WinnersLead'
<1> SUFFICES ASSUME WinnersLead, [Next]_vars, status' = "Finished"
             PROVE  winners' = Leaders(players', score')
    BY DEF WinnersLead, Leaders
<1>1. CASE status = "Finished"
  <2>1. UNCHANGED <<players, score, winners>>
      BY <1>1 DEF Next, vars, boardVars, Start, AdvanceTime, Tick, AnswerCompleted,
                  ActivityClosed, BadgeStarted, PanicEvent, Signalled, ApplyChaos,
                  ChaosAllowed, EndRound
  <2> QED BY <1>1, <2>1 DEF WinnersLead, Leaders
<1>2. CASE status # "Finished"
  <2>1. Close \/ \E out, limit : LoopBody(out, limit)
      BY <1>2 DEF Next, vars, Start, AdvanceTime, Tick, AnswerCompleted, ActivityClosed,
                  BadgeStarted, PanicEvent, ApplyChaos, EndRound
  <2>2. CASE Close
      BY <2>2 DEF Close
  <2>3. CASE \E out, limit : LoopBody(out, limit)
      BY <2>3, PassOutcome
  <2> QED BY <2>1, <2>2, <2>3
<1> QED BY <1>1, <1>2

\* The winners of a closed round lead its final board: the answer that closed
\* the round is counted, and nothing moves afterwards.
THEOREM WinnersLeadTheBoard == Spec => []WinnersLead
<1>1. Init => WinnersLead
    BY DEF Init, WinnersLead
<1> QED BY <1>1, WinnersNext, PTL DEF Spec

\* A tally that is right stays right when one answer is recorded.
LEMMA TallyStep ==
    ASSUME TypeOK, ScoresMatchTallies, NEW q, NEW b \in Badges, NEW right \in BOOLEAN,
           AnswerCompleted(q, b, right)
    PROVE  ScoresMatchTallies'
<1> SUFFICES ASSUME NEW c \in Badges
             PROVE  /\ correct'[c] - 2 * wrong'[c] <= score'[c]
                    /\ score'[c] <= 2 * correct'[c] - wrong'[c]
                    /\ correct'[c] + wrong'[c] + panics'[c] > 0 => c \in players'
    BY DEF ScoresMatchTallies
<1> DEFINE sc == score[c] co == correct[c] wr == wrong[c] pa == panics[c]
           sc2 == score'[c] co2 == correct'[c] wr2 == wrong'[c] pa2 == panics'[c]
<1>1. /\ sc \in Int /\ co \in Nat /\ wr \in Nat /\ pa \in Nat
      /\ co - 2 * wr <= sc
      /\ sc <= 2 * co - wr
      /\ co + wr + pa > 0 => c \in players
    BY DEF TypeOK, ScoresMatchTallies
<1>2. /\ score' = [score EXCEPT ![b] = @ + IF right THEN ActivePoints ELSE -ActivePoints]
      /\ correct' = [correct EXCEPT ![b] = @ + IF right THEN 1 ELSE 0]
      /\ wrong' = [wrong EXCEPT ![b] = @ + IF right THEN 0 ELSE 1]
      /\ players' = players \cup {b}
      /\ panics' = panics
    BY DEF AnswerCompleted
<1>3. ActivePoints \in 1..2
    BY DEF ActivePoints
<1>4. CASE c # b
  <2>1. sc2 = sc /\ co2 = co /\ wr2 = wr /\ pa2 = pa
      BY <1>2, <1>4 DEF TypeOK
  <2> HIDE DEF sc, co, wr, pa
  <2>2. co2 - 2 * wr2 <= sc2 /\ sc2 <= 2 * co2 - wr2
        /\ (co2 + wr2 + pa2 > 0 => c \in players)
      BY <1>1, <2>1
  <2> QED BY <1>2, <2>2
<1>5. CASE c = b
  <2>1. /\ sc2 = sc + IF right THEN ActivePoints ELSE -ActivePoints
        /\ co2 = co + IF right THEN 1 ELSE 0
        /\ wr2 = wr + IF right THEN 0 ELSE 1
      BY <1>2, <1>5 DEF TypeOK
  <2> HIDE DEF sc, co, wr, pa, sc2, co2, wr2, pa2
  <2>2. co2 - 2 * wr2 <= sc2 /\ sc2 <= 2 * co2 - wr2
    <3>1. CASE right
      <4>1. sc2 = sc + ActivePoints /\ co2 = co + 1 /\ wr2 = wr
          BY <1>1, <2>1, <3>1
      <4> QED BY <1>1, <1>3, <4>1
    <3>2. CASE ~right
      <4>1. sc2 = sc - ActivePoints /\ co2 = co /\ wr2 = wr + 1
          BY <1>1, <1>3, <2>1, <3>2
      <4> QED BY <1>1, <1>3, <4>1
    <3> QED BY <3>1, <3>2
  <2> QED BY <1>2, <1>5, <2>2 DEF sc2, co2, wr2
<1> QED BY <1>4, <1>5

LEMMA TallyNext == TypeOK /\ ScoresMatchTallies /\ [Next]_vars => ScoresMatchTallies'
<1> SUFFICES ASSUME TypeOK, ScoresMatchTallies, [Next]_vars PROVE ScoresMatchTallies'
    OBVIOUS
<1>1. ASSUME NEW q \in Questions, NEW b \in Badges, NEW right \in BOOLEAN,
             AnswerCompleted(q, b, right)
      PROVE  ScoresMatchTallies'
    BY <1>1, TallyStep
<1>2. ASSUME NEW q \in Questions, NEW b \in Badges, NEW a \in Attempts,
             PanicEvent(q, b, a)
      PROVE  ScoresMatchTallies'
  <2>1. /\ panics' = [panics EXCEPT ![b] = @ + 1]
        /\ players' = players \cup {b}
        /\ UNCHANGED <<score, correct, wrong>>
      BY <1>2 DEF PanicEvent, boardVars
  <2>2. \A c \in Badges : c # b => panics'[c] = panics[c]
      BY <2>1 DEF TypeOK
  <2> QED BY <2>1, <2>2 DEF ScoresMatchTallies
<1>3. CASE UNCHANGED <<score, correct, wrong, panics>> /\ players \subseteq players'
    BY <1>3 DEF ScoresMatchTallies
<1>4. ASSUME NEW q \in Questions, NEW b \in Badges, NEW a \in Attempts,
             BadgeStarted(q, b, a)
      PROVE  ScoresMatchTallies'
    BY <1>3, <1>4 DEF BadgeStarted, boardVars
<1>5. ASSUME NEW q \in Questions, ActivityClosed(q)
      PROVE  ScoresMatchTallies'
    BY <1>3, <1>5 DEF ActivityClosed, boardVars
<1>6. ASSUME NEW command \in Commands, ApplyChaos(command)
      PROVE  ScoresMatchTallies'
    BY <1>3, <1>6 DEF ApplyChaos, ExtendedDeadline, boardVars
<1>7. CASE Start \/ AdvanceTime \/ Tick \/ EndRound \/ UNCHANGED vars
    BY <1>3, <1>7 DEF Start, AdvanceTime, Tick, EndRound, vars, boardVars
<1> QED BY <1>1, <1>2, <1>4, <1>5, <1>6, <1>7 DEF Next

\* For any number of badges and answers, with double points coming and going,
\* every badge's score is one its own right and wrong answers can have earned.
THEOREM ScoresAreEarned == Spec => []ScoresMatchTallies
<1>1. Init => ScoresMatchTallies
    BY DEF Init, ScoresMatchTallies
<1> QED BY <1>1, TallyNext, TypeCorrect, PTL DEF Spec
-----------------------------------------------------------------------------
(* Handoffs. *)

\* An assignment is one that was heard of: its badge ran its attempt.
HeardRan ==
    \A q \in Questions :
        assignments[q] # Unassigned =>
            runner[<<q, assignments[q].attempt>>] = assignments[q].badge

HandoffInv == TypeOK /\ HeardRan /\ HandoffHappened

LEMMA HandoffTypes ==
    ASSUME TypeOK
    PROVE  /\ \A q \in Questions :
                  assignments[q] # Unassigned =>
                      assignments[q].badge \in Badges /\ assignments[q].attempt \in Attempts
           /\ latestReassignment # NoReassignment =>
                  /\ latestReassignment.question \in Questions
                  /\ latestReassignment.from \in Badges
                  /\ latestReassignment.to \in Badges
                  /\ latestReassignment.attempt \in Attempts
           /\ NoBadge \notin Badges
BY ConstantsAssumption DEF TypeOK, Assignment, Reassignment

\* A Signal leaves every attempt that ran with the badge it ran on.
LEMMA RunnerKept ==
    ASSUME TypeOK, NEW q \in Questions, NEW b \in Badges, NEW a \in Attempts,
           Signalled(q, b, a)
    PROVE  /\ runner'[<<q, a>>] = b
           /\ \A x \in Questions \X Attempts : runner[x] # NoBadge => runner'[x] = runner[x]
<1>1. <<q, a>> \in Questions \X Attempts
    OBVIOUS
<1>2. /\ runner' = [runner EXCEPT ![<<q, a>>] = b]
      /\ runner[<<q, a>>] \in {NoBadge, b}
      /\ runner \in [Questions \X Attempts -> Badges \cup {NoBadge}]
    BY DEF Signalled, TypeOK
<1> QED BY <1>1, <1>2

\* What was heard and shown stays true while no attempt changes its badge.
LEMMA HandoffKept ==
    ASSUME HandoffInv,
           \A x \in Questions \X Attempts : runner[x] # NoBadge => runner'[x] = runner[x]
    PROVE  /\ UNCHANGED assignments => HeardRan'
           /\ UNCHANGED latestReassignment => HandoffHappened'
<1>0. TypeOK /\ HeardRan /\ HandoffHappened
    BY DEF HandoffInv
<1>1. ASSUME UNCHANGED assignments, NEW p \in Questions, assignments[p] # Unassigned
      PROVE  runner'[<<p, assignments[p].attempt>>] = assignments[p].badge
  <2>1. assignments[p].badge # NoBadge /\ <<p, assignments[p].attempt>> \in Questions \X Attempts
      BY <1>0, <1>1, HandoffTypes
  <2> QED BY <1>0, <1>1, <2>1 DEF HeardRan
<1>2. ASSUME UNCHANGED latestReassignment
      PROVE  HandoffHappened'
  <2> DEFINE r == latestReassignment
  <2> SUFFICES ASSUME r # NoReassignment
               PROVE  /\ r.from # r.to
                      /\ runner'[<<r.question, r.attempt>>] = r.to
                      /\ \E c \in Attempts : c < r.attempt /\ runner'[<<r.question, c>>] = r.from
      BY <1>2 DEF HandoffHappened
  <2>1. /\ r.question \in Questions /\ r.from # NoBadge /\ r.to # NoBadge
        /\ r.attempt \in Attempts
      BY <1>0, HandoffTypes
  <2>2. /\ r.from # r.to
        /\ runner[<<r.question, r.attempt>>] = r.to
      BY <1>0 DEF HandoffHappened
  <2>3. PICK c \in Attempts : c < r.attempt /\ runner[<<r.question, c>>] = r.from
      BY <1>0 DEF HandoffHappened
  <2>4. runner'[<<r.question, r.attempt>>] = r.to /\ runner'[<<r.question, c>>] = r.from
      BY <2>1, <2>2, <2>3
  <2> QED BY <2>2, <2>3, <2>4
<1> QED BY <1>1, <1>2 DEF HeardRan

LEMMA HandoffStart ==
    ASSUME HandoffInv, NEW q \in Questions, NEW b \in Badges, NEW a \in Attempts,
           BadgeStarted(q, b, a)
    PROVE  HeardRan' /\ HandoffHappened'
<1>0. TypeOK /\ HeardRan /\ HandoffHappened
    BY DEF HandoffInv
<1>1. /\ runner'[<<q, a>>] = b
      /\ \A x \in Questions \X Attempts : runner[x] # NoBadge => runner'[x] = runner[x]
    BY <1>0, RunnerKept DEF BadgeStarted
<1>2. assignments' = [assignments EXCEPT ![q] = [badge |-> b, attempt |-> a]]
    BY DEF BadgeStarted
<1>3. ASSUME NEW p \in Questions, assignments'[p] # Unassigned
      PROVE  runner'[<<p, assignments'[p].attempt>>] = assignments'[p].badge
  <2>1. CASE p = q
    <3>1. assignments'[p] = [badge |-> b, attempt |-> a]
        BY <1>0, <1>2, <2>1 DEF TypeOK
    <3> QED BY <1>1, <2>1, <3>1
  <2>2. CASE p # q
    <3>1. assignments'[p] = assignments[p]
        BY <1>0, <1>2, <2>2 DEF TypeOK
    <3>2. assignments[p].badge # NoBadge
          /\ <<p, assignments[p].attempt>> \in Questions \X Attempts
        BY <1>0, <1>3, <3>1, HandoffTypes
    <3>3. runner[<<p, assignments[p].attempt>>] = assignments[p].badge
        BY <1>0, <1>3, <3>1 DEF HeardRan
    <3> QED BY <1>1, <3>1, <3>2, <3>3
  <2> QED BY <2>1, <2>2
<1>4. CASE IsReassignment(q, b, a)
  <2> DEFINE heard == assignments[q]
             r == latestReassignment'
  <2>1. r = [question |-> q, from |-> heard.badge, to |-> b, attempt |-> a]
      BY <1>4 DEF BadgeStarted
  <2>2. heard # Unassigned /\ heard.badge # b /\ heard.attempt < a
      BY <1>0, <1>4, HandoffTypes DEF IsReassignment, Attempts
  <2>3. heard.badge # NoBadge /\ heard.attempt \in Attempts
      BY <1>0, <2>2, HandoffTypes
  <2>4. runner[<<q, heard.attempt>>] = heard.badge
      BY <1>0, <2>2 DEF HeardRan
  <2>5. runner'[<<q, heard.attempt>>] = heard.badge
      BY <1>1, <2>3, <2>4
  <2> HIDE DEF heard, r
  <2>6. /\ r.question = q /\ r.from = heard.badge /\ r.to = b /\ r.attempt = a
      BY <2>1
  <2>7. /\ r.from # r.to
        /\ runner'[<<r.question, r.attempt>>] = r.to
        /\ \E c \in Attempts : c < r.attempt /\ runner'[<<r.question, c>>] = r.from
      BY <1>1, <2>2, <2>3, <2>5, <2>6
  <2>8. HandoffHappened'
      BY <2>7 DEF HandoffHappened, r
  <2> QED BY <1>3, <2>8 DEF HeardRan
<1>5. CASE ~IsReassignment(q, b, a)
  <2>1. UNCHANGED latestReassignment
      BY <1>5 DEF BadgeStarted
  <2>2. HandoffHappened'
      BY <1>1, <2>1, HandoffKept
  <2> QED BY <1>3, <2>2 DEF HeardRan
<1> QED BY <1>4, <1>5

LEMMA HandoffNext == HandoffInv /\ [Next]_vars => HandoffInv'
<1> SUFFICES ASSUME HandoffInv, [Next]_vars PROVE HeardRan' /\ HandoffHappened'
    BY TypeNext DEF HandoffInv
<1>0. TypeOK /\ HeardRan /\ HandoffHappened
    BY DEF HandoffInv
<1>1. ASSUME NEW q \in Questions, NEW b \in Badges, NEW a \in Attempts, BadgeStarted(q, b, a)
      PROVE  HeardRan' /\ HandoffHappened'
    BY <1>1, HandoffStart
<1>2. ASSUME NEW q \in Questions, NEW b \in Badges, NEW a \in Attempts, PanicEvent(q, b, a)
      PROVE  HeardRan' /\ HandoffHappened'
  <2>1. \A x \in Questions \X Attempts : runner[x] # NoBadge => runner'[x] = runner[x]
      BY <1>0, <1>2, RunnerKept DEF PanicEvent
  <2>2. UNCHANGED <<assignments, latestReassignment>>
      BY <1>2 DEF PanicEvent
  <2> QED BY <2>1, <2>2, HandoffKept
<1>3. CASE UNCHANGED handoffVars
    BY <1>0, <1>3 DEF handoffVars, HeardRan, HandoffHappened
<1>4. ASSUME NEW q \in Questions, NEW b \in Badges, NEW right \in BOOLEAN,
             AnswerCompleted(q, b, right)
      PROVE  UNCHANGED handoffVars
    BY <1>4 DEF AnswerCompleted
<1>5. ASSUME NEW command \in Commands, ApplyChaos(command)
      PROVE  UNCHANGED handoffVars
    BY <1>5 DEF ApplyChaos, ExtendedDeadline
<1>6. CASE Start \/ AdvanceTime \/ Tick \/ EndRound \/ UNCHANGED vars
    BY <1>3, <1>6 DEF Start, AdvanceTime, Tick, EndRound, vars
<1>7. CASE \E q \in Questions : ActivityClosed(q)
    BY <1>3, <1>7 DEF ActivityClosed
<1> QED BY <1>1, <1>2, <1>3, <1>4, <1>5, <1>6, <1>7 DEF Next

\* In whatever order, and however often, the Signals of a round arrive: the
\* handoff the board shows happened, from the badge it names to the badge it
\* names, of that question, at a later attempt.
THEOREM HandoffsHappened == Spec => []HandoffHappened
<1>1. Init => HandoffInv
  <2> SUFFICES ASSUME Init PROVE HeardRan /\ HandoffHappened
      BY TypeInit DEF HandoffInv
  <2> QED BY DEF Init, HeardRan, HandoffHappened
<1>2. HandoffInv => HandoffHappened
    BY DEF HandoffInv
<1> QED BY <1>1, <1>2, HandoffNext, PTL DEF Spec

\* Attempts are only heard of from Signals, so they are finitely many.
LEMMA AttemptsFinite ==
    ASSUME TypeOK
    PROVE  IsFiniteSet(attemptsSeen)
<1>1. IsFiniteSet(Questions) /\ IsFiniteSet(Attempts)
    BY ConstantsAssumption, FS_Interval DEF Questions, Attempts
<1>2. IsFiniteSet(Questions \X Attempts)
    BY <1>1, FS_Product
<1> QED BY <1>2, FS_Subset DEF TypeOK

LEMMA AttemptsNext == TypeOK /\ AttemptsCounted /\ [Next]_vars => AttemptsCounted'
<1> SUFFICES ASSUME TypeOK, AttemptsCounted, [Next]_vars PROVE AttemptsCounted'
    OBVIOUS
<1>1. ASSUME NEW q \in Questions, NEW b \in Badges, NEW a \in Attempts, BadgeStarted(q, b, a)
      PROVE  AttemptsCounted'
  <2>1. /\ attemptsSeen' = attemptsSeen \cup {<<q, a>>}
        /\ activityAttempts' = activityAttempts + IF NewAttempt(q, a) THEN 1 ELSE 0
      BY <1>1 DEF BadgeStarted
  <2>2. activityAttempts = Cardinality(attemptsSeen) /\ IsFiniteSet(attemptsSeen)
      BY AttemptsFinite DEF AttemptsCounted
  <2>3. activityAttempts' = Cardinality(attemptsSeen')
    <3>1. CASE NewAttempt(q, a)
      <4>1. Cardinality(attemptsSeen \cup {<<q, a>>}) = Cardinality(attemptsSeen) + 1
          BY <2>2, <3>1, FS_AddElement DEF NewAttempt
      <4> QED BY <2>1, <2>2, <3>1, <4>1
    <3>2. CASE ~NewAttempt(q, a)
      <4>1. attemptsSeen' = attemptsSeen
          BY <2>1, <3>2 DEF NewAttempt
      <4>2. activityAttempts' = activityAttempts
          BY <2>1, <3>2 DEF TypeOK
      <4> QED BY <2>2, <4>1, <4>2
    <3> QED BY <3>1, <3>2
  <2>4. ASSUME reassignments' > 0
        PROVE  \E x \in attemptsSeen' : x[2] > 1
    <3>1. CASE IsReassignment(q, b, a)
      <4>1. assignments[q].attempt \in Attempts /\ a > assignments[q].attempt
          BY <3>1, HandoffTypes DEF IsReassignment
      <4>2. a > 1
          BY <4>1, ConstantsAssumption DEF Attempts
      <4>3. <<q, a>> \in attemptsSeen'
          BY <2>1
      <4> QED BY <4>2, <4>3
    <3>2. CASE ~IsReassignment(q, b, a)
      <4>1. reassignments' = reassignments
          BY <1>1, <3>2 DEF BadgeStarted
      <4> QED BY <2>1, <2>4, <4>1 DEF AttemptsCounted
    <3> QED BY <3>1, <3>2
  <2> QED BY <2>3, <2>4 DEF AttemptsCounted
<1>2. CASE UNCHANGED <<attemptsSeen, activityAttempts, reassignments>>
    BY <1>2 DEF AttemptsCounted
<1>3. ASSUME NEW q \in Questions, NEW b \in Badges, NEW a \in Attempts, PanicEvent(q, b, a)
      PROVE  AttemptsCounted'
    BY <1>2, <1>3 DEF PanicEvent
<1>4. ASSUME NEW q \in Questions, NEW b \in Badges, NEW right \in BOOLEAN,
             AnswerCompleted(q, b, right)
      PROVE  AttemptsCounted'
    BY <1>2, <1>4 DEF AnswerCompleted, handoffVars
<1>5. ASSUME NEW q \in Questions, ActivityClosed(q)
      PROVE  AttemptsCounted'
    BY <1>2, <1>5 DEF ActivityClosed, handoffVars
<1>6. ASSUME NEW command \in Commands, ApplyChaos(command)
      PROVE  AttemptsCounted'
    BY <1>2, <1>6 DEF ApplyChaos, ExtendedDeadline, handoffVars
<1>7. CASE Start \/ AdvanceTime \/ Tick \/ EndRound \/ UNCHANGED vars
    BY <1>2, <1>7 DEF Start, AdvanceTime, Tick, EndRound, vars, handoffVars
<1> QED BY <1>1, <1>3, <1>4, <1>5, <1>6, <1>7 DEF Next

\* Every attempt is counted once, however often and in whatever order its
\* Signal arrives, and a handoff is only counted when an attempt was retried.
THEOREM AttemptsStayCounted == Spec => []AttemptsCounted
<1>1. Init => AttemptsCounted
  <2>1. Cardinality({}) = 0
      BY FS_EmptySet
  <2> QED BY <2>1 DEF Init, AttemptsCounted
<1> QED BY <1>1, AttemptsNext, TypeCorrect, PTL DEF Spec
=============================================================================

-------------------------- MODULE BadgeFleetProofs --------------------------
(***************************************************************************)
(* What the badges of a round keep up, for any number of badges and        *)
(* questions and for every order of heartbeats, crashes, batteries and     *)
(* dead polls: proofs about BadgeFleet.                                    *)
(*                                                                         *)
(* The server and a badge each have a view of who has which question.      *)
(* FleetInv says how far the two agree: what a badge is doing bounds the   *)
(* age of the last heartbeat of a question it holds.  Only a blackout, an  *)
(* empty battery or a button held over breaks the agreement.               *)
(***************************************************************************)
EXTENDS BadgeFleet, Counting

\* When the server last heard of the question of b.
Age(b) == question[badge[b].q].age

Quick(b) == badge[b].pc \in {"refusing", "thinking"}

\* A question has an owner exactly while an Activity of it runs.
Owned == \A q \in Questions : question[q].by # Nobody <=> question[q].at = "started"

\* The server has the poll of a badge that is on exactly while it has no question.
Polled == \A b \in Badges : On(b) => (b \in polls <=> badge[b].pc = "polling")

\* While a player decides or reads the feedback: a heartbeat held back is at most
\* the throttle old, and what a held button left of the timeout bounds the age of
\* a question without any.  `spare` is the length of the feedback, if it runs.
AskingOK(b, spare) ==
    /\ badge[b].q \notin abandoned[b]
    /\ badge[b].left <= spare + IF badge[b].sent THEN 0 ELSE 1
    /\ ~badge[b].sent => ~badge[b].held
    /\ ~Holds(b) => ~badge[b].held
    /\ Holds(b) =>
          /\ ~badge[b].sent => Age(b) + badge[b].left <= badge[b].stuck + 1 + spare
          /\ badge[b].sent /\ ~badge[b].held => Age(b) + badge[b].left <= spare
          /\ badge[b].held => Age(b) <= 1 \/ Age(b) <= Throttle

\* What a badge does bounds the age of its last heartbeat.
BadgeOK(b) ==
    /\ badge[b].pc \in {"polling", "off"} => badge[b].q = 0
    /\ badge[b].pc \notin {"polling", "off"} => badge[b].q # 0
    /\ badge[b].pc \notin {"deciding", "feedback", "blackout"} => ~badge[b].held
    /\ Quick(b) => Holds(b)
    /\ badge[b].pc = "refusing" => Age(b) = 0
    /\ badge[b].pc = "thinking" => Age(b) + badge[b].left < HeartbeatTimeout
    /\ badge[b].pc = "draining" => ~badge[b].sent /\ badge[b].q \notin abandoned[b]
    /\ badge[b].pc = "deciding" => AskingOK(b, 0)
    /\ badge[b].pc = "feedback" => AskingOK(b, Feedback)
    /\ badge[b].pc = "blackout" =>
          /\ badge[b].held => badge[b].late
          /\ Holds(b) /\ ~badge[b].late => badge[b].left + Age(b) >= Blackout

\* The Workflow keeps no more questions out than the capacity it was given.
Bounded == Out(question) <= Capacity(Cardinality(counted))

FleetInv ==
    /\ TypeOK /\ Owned /\ Polled
    /\ \A b \in Badges : BadgeOK(b)
    /\ Bounded
    /\ counted # {}

-----------------------------------------------------------------------------
(* Counting badges and questions. *)

LEMMA QuestionsFinite ==
    ASSUME NEW S \in SUBSET Questions
    PROVE  IsFiniteSet(S) /\ Cardinality(S) \in Nat /\ S \in SUBSET Nat
<1>1. DeckSize \in Nat
    BY FleetAssumption
<1>2. Questions \subseteq Nat
    BY <1>1 DEF Questions
<1>3. IsFiniteSet(Questions)
    BY <1>1, FS_Interval DEF Questions
<1> QED BY <1>2, <1>3, FS_Subset, FS_CardinalityType

LEMMA BadgesFinite ==
    ASSUME NEW S \in SUBSET Badges
    PROVE  IsFiniteSet(S) /\ Cardinality(S) \in Nat
<1>1. IsFiniteSet(Badges)
    BY FleetAssumption, FS_Union DEF Badges
<1> QED BY <1>1, FS_Subset, FS_CardinalityType

LEMMA MaxOfTwo ==
    ASSUME NEW x \in Int, NEW y \in Int
    PROVE  Max({x, y}) \in {x, y} /\ Max({x, y}) >= x /\ Max({x, y}) >= y
<1>1. \E m \in {x, y} : \A z \in {x, y} : m >= z
    OBVIOUS
<1>2. Max({x, y}) \in {x, y} /\ \A z \in {x, y} : Max({x, y}) >= z
    BY <1>1 DEF Max
<1> QED BY <1>2

\* recovery_capacity leaves one badge out, but never leaves no slot.
LEMMA CapacityValue ==
    ASSUME NEW n \in Nat
    PROVE  Capacity(n) \in Nat /\ (n > 1 => Capacity(n) = n - 1)
<1> DEFINE m == n - 1
           c == Max({m, 1})
<1>1. m \in Int
    OBVIOUS
<1> HIDE DEF m
<1>2. c \in {m, 1} /\ c >= m /\ c >= 1
    BY <1>1, MaxOfTwo
<1> HIDE DEF c
<1>3. c \in Nat /\ (m >= 1 => c = m)
    BY <1>1, <1>2
<1>4. Capacity(n) = c
    BY Zenon DEF Capacity, c, m
<1> QED BY <1>3, <1>4 DEF m

\* The questions that are out in qs.
OutSet(qs) == {q \in Questions : qs[q].at \in {"ready", "backoff", "started"}}

LEMMA OutShrinks ==
    ASSUME NEW qs, NEW rs, OutSet(rs) \subseteq OutSet(qs)
    PROVE  Out(rs) <= Out(qs) /\ Out(rs) \in Nat /\ Out(qs) \in Nat
<1>1. /\ OutSet(qs) \in SUBSET Questions /\ OutSet(rs) \in SUBSET Questions
      /\ Out(qs) = Cardinality(OutSet(qs)) /\ Out(rs) = Cardinality(OutSet(rs))
    BY DEF OutSet, Out
<1>2. IsFiniteSet(OutSet(qs)) /\ Cardinality(OutSet(qs)) \in Nat /\ Cardinality(OutSet(rs)) \in Nat
    BY <1>1, QuestionsFinite
<1> QED BY <1>1, <1>2, FS_Subset

\* Topping up moves questions from the deck to the queue and nothing else, ...
LEMMA TopUpMoves ==
    ASSUME NEW qs, NEW q \in Questions
    PROVE  \/ TopUp(qs)[q] = qs[q]
           \/ qs[q].at = "deck" /\ TopUp(qs)[q] = Ready
BY DEF TopUp

LEMMA TopUpType ==
    ASSUME NEW qs \in [Questions -> QuestionState]
    PROVE  TopUp(qs) \in [Questions -> QuestionState]
<1>1. Ready \in QuestionState
    BY FleetAssumption DEF Ready, QuestionState
<1> QED BY <1>1 DEF TopUp

\* ... and no further than the capacity.
LEMMA TopUpBounded ==
    ASSUME NEW qs, counted \in SUBSET Badges,
           Out(qs) <= Capacity(Cardinality(counted))
    PROVE  Out(TopUp(qs)) <= Capacity(Cardinality(counted))
<1> DEFINE cap == Capacity(Cardinality(counted))
           room == cap - Out(qs)
           inDeck == {q \in Questions : qs[q].at = "deck"}
           taken == {q \in inDeck : Cardinality({p \in 1 .. q : qs[p].at = "deck"}) <= room}
<1>1. /\ OutSet(qs) \in SUBSET Questions /\ Out(qs) = Cardinality(OutSet(qs))
      /\ OutSet(TopUp(qs)) = OutSet(qs) \cup taken
      /\ Out(TopUp(qs)) = Cardinality(OutSet(TopUp(qs)))
      /\ OutSet(qs) \cap taken = {}
    BY DEF OutSet, Out, TopUp, Ready
<1>2. /\ IsFiniteSet(OutSet(qs)) /\ Out(qs) \in Nat
      /\ IsFiniteSet(inDeck) /\ inDeck \in SUBSET Nat
    BY <1>1, QuestionsFinite
<1>3. cap \in Nat /\ room \in Nat
    BY <1>2, BadgesFinite, CapacityValue
<1>4. taken = Leading(inDeck, room)
  <2>1. ASSUME NEW q \in inDeck
        PROVE  Cardinality({p \in 1 .. q : qs[p].at = "deck"})
                   = Cardinality(Below(inDeck, q)) + 1
    <3>1. {p \in 1 .. q : qs[p].at = "deck"} = Below(inDeck, q) \cup {q}
        BY FleetAssumption DEF Below, Questions
    <3>2. Below(inDeck, q) \in SUBSET Questions /\ q \notin Below(inDeck, q)
        BY FleetAssumption DEF Below, Questions
    <3>3. IsFiniteSet(Below(inDeck, q))
        BY <3>2, QuestionsFinite
    <3> QED BY <3>1, <3>2, <3>3, FS_AddElement
  <2>2. ASSUME NEW q \in inDeck
        PROVE  Cardinality(Below(inDeck, q)) \in Nat
    <3>1. Below(inDeck, q) \in SUBSET Questions
        BY DEF Below
    <3> QED BY <3>1, QuestionsFinite
  <2> HIDE DEF inDeck, room
  <2>3. \A q \in inDeck : Cardinality({p \in 1 .. q : qs[p].at = "deck"}) <= room
                              <=> Cardinality(Below(inDeck, q)) < room
      BY <1>3, <2>1, <2>2
  <2> QED BY <2>3 DEF Leading
<1> HIDE DEF taken, inDeck, cap
<1>5. IsFiniteSet(taken) /\ Cardinality(taken) \in Nat /\ Cardinality(taken) <= room
    BY <1>2, <1>3, <1>4, LeadingBounded
<1>6. Cardinality(OutSet(qs) \cup taken) = Out(qs) + Cardinality(taken)
  <2>1. Cardinality(OutSet(qs) \cup taken)
            = Cardinality(OutSet(qs)) + Cardinality(taken) - Cardinality(OutSet(qs) \cap taken)
      BY <1>2, <1>5, FS_Union
  <2>2. Cardinality(OutSet(qs) \cap taken) = 0
      BY <1>1, FS_EmptySet
  <2> QED BY <1>1, <1>2, <1>5, <2>1, <2>2
<1>7. Out(TopUp(qs)) <= cap
    BY <1>1, <1>2, <1>3, <1>5, <1>6
<1> QED BY <1>7 DEF cap
-----------------------------------------------------------------------------
(* The invariant, step by step. *)

LEMMA FleetTypes ==
    ASSUME TypeOK, NEW b \in Badges
    PROVE  /\ badge[b] \in BadgeState
           /\ badge[b].q \in 0 .. DeckSize /\ badge[b].left \in Nat
           /\ badge[b].sent \in BOOLEAN /\ badge[b].held \in BOOLEAN /\ badge[b].late \in BOOLEAN
           /\ badge[b].stuck \in Nat
           /\ b # Nobody
           /\ badge[b].q # 0 => /\ badge[b].q \in Questions
                                /\ question[badge[b].q] \in QuestionState
                                /\ Age(b) \in Nat /\ Age(b) <= HeartbeatTimeout
<1>1. /\ badge[b] \in BadgeState /\ b # Nobody
      /\ DeckSize \in Nat /\ HeartbeatTimeout \in Nat
    BY FleetAssumption DEF TypeOK
<1>2. /\ badge[b].q \in 0 .. DeckSize /\ badge[b].left \in Nat
      /\ badge[b].sent \in BOOLEAN /\ badge[b].held \in BOOLEAN /\ badge[b].late \in BOOLEAN
      /\ badge[b].stuck \in Nat
    BY <1>1 DEF BadgeState
<1>3. ASSUME badge[b].q # 0
      PROVE  /\ badge[b].q \in Questions /\ question[badge[b].q] \in QuestionState
             /\ Age(b) \in Nat /\ Age(b) <= HeartbeatTimeout
  <2>1. badge[b].q \in Questions
      BY <1>1, <1>2, <1>3 DEF Questions
  <2>2. question[badge[b].q] \in QuestionState
      BY <2>1 DEF TypeOK
  <2>3. Age(b) \in 0 .. HeartbeatTimeout
      BY <2>2 DEF Age, QuestionState
  <2> QED BY <1>1, <2>1, <2>2, <2>3
<1> QED BY <1>1, <1>2, <1>3

\* A badge whose own state and whose questions a step leaves alone is still right.
LEMMA BadgeKept ==
    ASSUME TypeOK, NEW b \in Badges, BadgeOK(b),
           badge'[b] = badge[b], abandoned'[b] = abandoned[b],
           \A q \in Questions : question'[q].by = b => question'[q] = question[q],
           Holds(b) => question'[badge[b].q] = question[badge[b].q]
    PROVE  BadgeOK(b)'
<1>1. Holds(b)' <=> Holds(b)
  <2>1. badge[b].q # 0 => badge[b].q \in Questions
      BY FleetTypes
  <2> QED BY <2>1 DEF Holds
<1>2. Holds(b) => Age(b)' = Age(b)
    BY DEF Age
<1>3. CASE badge[b].pc \in {"deciding", "feedback"}
    BY <1>1, <1>2, <1>3 DEF BadgeOK, AskingOK, Quick
<1>4. CASE badge[b].pc \in {"refusing", "thinking"}
    BY <1>1, <1>2, <1>4 DEF BadgeOK, Quick
<1>5. CASE badge[b].pc \in {"polling", "off", "draining", "blackout"}
    BY <1>1, <1>2, <1>5 DEF BadgeOK, Quick
<1> QED BY <1>3, <1>4, <1>5, FleetTypes DEF BadgeState

\* A step of one badge: it changes no other badge, and only questions that are
\* its own or nobody's.
LEMMA OneBadge ==
    ASSUME FleetInv, TypeOK', NEW b \in Badges,
           counted' = counted,
           \A c \in Badges \ {b} : /\ badge'[c] = badge[c] /\ abandoned'[c] = abandoned[c]
                                   /\ c \in polls' <=> c \in polls,
           \A q \in Questions :
               \/ question'[q] = question[q]
               \/ question[q].by \in {Nobody, b} /\ question'[q].by \in {Nobody, b},
           Owned', Bounded', BadgeOK(b)',
           On(b)' => (b \in polls' <=> badge'[b].pc = "polling")
    PROVE  FleetInv'
<1>1. ASSUME NEW c \in Badges, c # b
      PROVE  BadgeOK(c)' /\ (On(c)' => (c \in polls' <=> badge'[c].pc = "polling"))
  <2>1. /\ TypeOK /\ BadgeOK(c) /\ c # Nobody
        /\ badge'[c] = badge[c] /\ abandoned'[c] = abandoned[c]
      BY <1>1, FleetTypes DEF FleetInv
  <2>2. \A q \in Questions : question'[q].by = c => question'[q] = question[q]
      BY <1>1, <2>1
  <2>3. Holds(c) => question'[badge[c].q] = question[badge[c].q]
    <3>1. Holds(c) => badge[c].q \in Questions /\ question[badge[c].q].by = c
        BY <2>1, FleetTypes DEF Holds
    <3> QED BY <1>1, <2>1, <3>1
  <2>4. BadgeOK(c)'
      BY <2>1, <2>2, <2>3, BadgeKept
  <2> QED BY <1>1, <2>1, <2>4 DEF FleetInv, Polled, On
<1>2. \A c \in Badges : BadgeOK(c)'
    BY <1>1
<1>3. Polled'
    BY <1>1 DEF Polled
<1> QED BY <1>2, <1>3 DEF FleetInv

\* The end of an Activity: the question is answered or fails, if it is still the
\* badge's, and the deck tops up.
LEMMA ReportStep ==
    ASSUME FleetInv, NEW b \in Badges, badge[b].pc \notin {"polling", "off"},
           NEW result \in {Answered, Failed}, Report(b, result),
           faults' \in 0 .. MaxFaults
    PROVE  FleetInv'
<1> DEFINE qs == [question EXCEPT ![badge[b].q] = result]
<1>0. /\ TypeOK /\ Owned /\ BadgeOK(b) /\ b # Nobody
      /\ question \in [Questions -> QuestionState]
    BY FleetTypes DEF FleetInv, TypeOK
<1>1. result \in QuestionState /\ result.by = Nobody /\ result.at \in {"answered", "backoff"}
    BY FleetAssumption DEF Answered, Failed, Backoff, QuestionState
<1>2. /\ badge' = [badge EXCEPT ![b] = Polling]
      /\ polls' = polls \cup {b}
      /\ UNCHANGED <<abandoned, counted, crashes>>
      /\ question' = IF Holds(b) THEN TopUp(qs) ELSE question
    BY DEF Report
<1>3. Polling \in BadgeState /\ Polling.pc = "polling" /\ Polling.q = 0 /\ ~Polling.held
    BY FleetAssumption DEF Polling, Doing, BadgeState
<1>4. qs \in [Questions -> QuestionState]
    BY <1>0, <1>1
<1>5. TypeOK'
  <2>1. question' \in [Questions -> QuestionState]
      BY <1>0, <1>2, <1>4, TopUpType
  <2>2. badge' \in [Badges -> BadgeState] /\ polls' \subseteq Badges
      BY <1>0, <1>2, <1>3 DEF TypeOK
  <2> QED BY <1>0, <1>2, <2>1, <2>2 DEF TypeOK
<1>6. ASSUME NEW q \in Questions
      PROVE  \/ question'[q] = question[q]
             \/ /\ question[q].by \in {Nobody, b}
                /\ question'[q].by = Nobody /\ question'[q].at # "started"
  <2>1. CASE Holds(b)
    <3>1. qs[q] = question[q] \/ (question[q].by = b /\ qs[q] = result)
      <4>1. CASE q = badge[b].q
        <5>1. qs[q] = result
            BY <1>0, <4>1
        <5> QED BY <2>1, <4>1, <5>1 DEF Holds
      <4>2. CASE q # badge[b].q
        <5>1. qs[q] = question[q]
            BY <1>0, <4>2
        <5> QED BY <5>1
      <4> QED BY <4>1, <4>2
    <3>2. question[q].at = "deck" => question[q].by = Nobody
        BY <1>0 DEF Owned
    <3>3. question' = TopUp(qs)
        BY <1>2, <2>1
    <3> HIDE DEF qs
    <3>4. question'[q] = qs[q] \/ (qs[q].at = "deck" /\ question'[q] = Ready)
        BY <3>3, TopUpMoves
    <3> QED BY <1>1, <3>1, <3>2, <3>4 DEF Ready
  <2>2. CASE ~Holds(b)
      BY <1>2, <2>2
  <2> QED BY <2>1, <2>2
<1>7. Owned'
    BY <1>0, <1>6 DEF Owned
<1>8. Bounded'
  <2>1. CASE Holds(b)
    <3>1. badge[b].q \in Questions /\ question[badge[b].q].at = "started"
        BY <1>0, <2>1, FleetTypes DEF Holds, Owned
    <3>2. OutSet(qs) \subseteq OutSet(question)
      <4>1. \A q \in Questions : q # badge[b].q => qs[q] = question[q]
          BY <1>0
      <4> HIDE DEF qs
      <4> QED BY <3>1, <4>1 DEF OutSet
    <3>3. counted \in SUBSET Badges
        BY <1>0 DEF TypeOK
    <3> HIDE DEF qs
    <3>4. Out(qs) <= Out(question) /\ Out(qs) \in Nat /\ Out(question) \in Nat
        BY <3>2, OutShrinks
    <3>5. Capacity(Cardinality(counted)) \in Nat
        BY <3>3, BadgesFinite, CapacityValue
    <3>6. Out(question) <= Capacity(Cardinality(counted))
        BY DEF FleetInv, Bounded
    <3>7. Out(TopUp(qs)) <= Capacity(Cardinality(counted))
        BY <3>3, <3>4, <3>5, <3>6, TopUpBounded
    <3> QED BY <1>2, <2>1, <3>7 DEF Bounded
  <2>2. CASE ~Holds(b)
      BY <1>2, <2>2 DEF FleetInv, Bounded
  <2> QED BY <2>1, <2>2
<1>9. badge'[b] = Polling /\ b \in polls'
    BY <1>0, <1>2 DEF TypeOK
<1>10. BadgeOK(b)'
    BY <1>3, <1>9 DEF BadgeOK, AskingOK, Quick
<1>11. \A c \in Badges \ {b} : /\ badge'[c] = badge[c] /\ abandoned'[c] = abandoned[c]
                               /\ c \in polls' <=> c \in polls
    BY <1>0, <1>2 DEF TypeOK
<1>12. On(b)' => (b \in polls' <=> badge'[b].pc = "polling")
    BY <1>3, <1>9
<1> HIDE DEF qs
<1> QED BY <1>2, <1>5, <1>6, <1>7, <1>8, <1>10, <1>11, <1>12, OneBadge
\* A dispatched question is held, with a heartbeat that counts from now.
LEMMA DispatchStep ==
    ASSUME FleetInv, NEW b \in Badges, NEW q \in Questions, Dispatch(b, q)
    PROVE  FleetInv'
<1>0. /\ TypeOK /\ Owned /\ Polled /\ BadgeOK(b) /\ b # Nobody
      /\ question \in [Questions -> QuestionState] /\ badge \in [Badges -> BadgeState]
    BY FleetTypes DEF FleetInv, TypeOK
<1>1. /\ question[q].at = "ready" /\ b \in polls
      /\ question' = [question EXCEPT ![q] = Started(b)]
      /\ polls' = polls \ {b}
      /\ UNCHANGED <<abandoned, counted, crashes>>
    BY DEF Dispatch
<1>2. /\ q \in 0 .. DeckSize /\ q # 0
      /\ 0 \in 0 .. HeartbeatTimeout
    BY FleetAssumption DEF Questions
<1>3. /\ Started(b) \in QuestionState /\ Started(b).by = b
      /\ Started(b).at = "started" /\ Started(b).age = 0
    BY <1>2 DEF Started, QuestionState
<1>4. question' \in [Questions -> QuestionState] /\ question'[q] = Started(b)
      /\ \A p \in Questions \ {q} : question'[p] = question[p]
    BY <1>0, <1>1, <1>3
<1>5. question[q].by = Nobody
    BY <1>0, <1>1 DEF Owned
<1>6. Owned'
    BY <1>0, <1>3, <1>4 DEF Owned
<1>7. Bounded'
  <2>1. OutSet(question') \subseteq OutSet(question)
    <3>1. ASSUME NEW p \in Questions, question'[p].at \in {"ready", "backoff", "started"}
          PROVE  question[p].at \in {"ready", "backoff", "started"}
        BY <1>1, <1>4, <3>1
    <3> QED BY <3>1 DEF OutSet
  <2>2. /\ Out(question') <= Out(question) /\ Out(question') \in Nat /\ Out(question) \in Nat
        /\ Capacity(Cardinality(counted)) \in Nat
      BY <1>0, <2>1, OutShrinks, BadgesFinite, CapacityValue DEF TypeOK
  <2> QED BY <1>1, <2>2 DEF FleetInv, Bounded
<1>8. \A c \in Badges \ {b} : /\ badge'[c] = badge[c] /\ abandoned'[c] = abandoned[c]
                              /\ c \in polls' <=> c \in polls
  <2>1. ASSUME NEW c \in Badges \ {b} PROVE badge'[c] = badge[c]
      BY <1>0 DEF Dispatch, Taken
  <2> QED BY <1>1, <2>1
<1>9. polls' \subseteq Badges
    BY <1>0, <1>1 DEF TypeOK
<1>f. faults \in 0 .. MaxFaults /\ MaxFaults \in Nat
    BY <1>0, FleetAssumption DEF TypeOK
<1>10. CASE ~On(b) /\ UNCHANGED <<badge, faults>>
  <2>1. TypeOK'
      BY <1>0, <1>1, <1>4, <1>9, <1>10 DEF TypeOK
  <2>2. badge'[b].pc = "off" /\ badge'[b] = badge[b]
      BY <1>10 DEF On
  <2>3. BadgeOK(b)'
      BY <1>0, <2>2 DEF BadgeOK, Quick
  <2>4. ~On(b)'
      BY <2>2 DEF On
  <2> QED BY <1>1, <1>3, <1>4, <1>5, <1>6, <1>7, <1>8, <2>1, <2>3, <2>4, OneBadge
<1>11. CASE On(b) /\ Taken(b, q)
  <2>0. PICK d \in {Doing("refusing", q, 0), Decides(q), Doing("draining", q, 0)} :
            /\ badge' = [badge EXCEPT ![b] = d]
            /\ d = Doing("refusing", q, 0) \/ q \notin abandoned[b]
      BY <1>11 DEF Taken
  <2>1. /\ badge'[b] = d /\ d \in BadgeState /\ d.stuck = 0
        /\ d.pc \in {"refusing", "deciding", "draining"}
        /\ d.pc # "refusing" => q \notin abandoned[b]
        /\ d.left = IF d.pc = "deciding" THEN 1 ELSE 0
        /\ d.q = q /\ ~d.held /\ ~d.sent
    <3>1. CASE d = Doing("refusing", q, 0)
        BY <1>0, <1>2, <2>0, <3>1 DEF Doing, BadgeState
    <3>2. CASE d = Decides(q) /\ q \notin abandoned[b]
        BY <1>0, <1>2, <2>0, <3>2 DEF Decides, Doing, BadgeState
    <3>3. CASE d = Doing("draining", q, 0) /\ q \notin abandoned[b]
        BY <1>0, <1>2, <2>0, <3>3 DEF Doing, BadgeState
    <3> QED BY <2>0, <3>1, <3>2, <3>3
  <2> HIDE DEF Doing, Decides
  <2>2. badge' \in [Badges -> BadgeState]
      BY <1>0, <2>0, <2>1
  <2>x. faults' \in 0 .. MaxFaults
      BY <1>f, <1>11 DEF Taken
  <2>3. TypeOK'
      BY <1>0, <1>1, <1>4, <1>9, <2>2, <2>x DEF TypeOK
  <2>4. Holds(b)' /\ Age(b)' = 0
      BY <1>2, <1>3, <1>4, <2>1 DEF Holds, Age
  <2>5. BadgeOK(b)'
      BY <1>1, <1>2, <2>1, <2>4 DEF BadgeOK, AskingOK, Quick
  <2>6. b \notin polls' /\ badge'[b].pc # "polling"
      BY <1>1, <2>1
  <2> QED BY <1>1, <1>3, <1>4, <1>5, <1>6, <1>7, <1>8, <2>3, <2>5, <2>6, OneBadge
<1>12. ASSUME On(b), NEW delay \in Delays, UNCHANGED faults,
              badge' = [badge EXCEPT ![b] = Doing("thinking", q, delay)]
       PROVE  FleetInv'
  <2> DEFINE d == Doing("thinking", q, delay)
  <2>0. delay \in Nat /\ delay < HeartbeatTimeout
      BY FleetAssumption, TimingAssumption
  <2>1. /\ badge'[b] = d /\ d \in BadgeState /\ d.pc = "thinking"
        /\ d.q = q /\ d.left = delay /\ ~d.held
      BY <1>0, <1>2, <1>12, <2>0 DEF Doing, BadgeState
  <2> HIDE DEF d
  <2>2. badge' \in [Badges -> BadgeState]
      BY <1>0, <1>12, <2>1 DEF d
  <2>3. TypeOK'
      BY <1>0, <1>1, <1>4, <1>9, <1>12, <2>2 DEF TypeOK
  <2>4. Holds(b)' /\ Age(b)' = 0
      BY <1>2, <1>3, <1>4, <2>1 DEF Holds, Age
  <2>5. BadgeOK(b)'
      BY <1>1, <1>2, <2>0, <2>1, <2>4 DEF BadgeOK, Quick
  <2>6. b \notin polls' /\ badge'[b].pc # "polling"
      BY <1>1, <2>1
  <2> QED BY <1>1, <1>3, <1>4, <1>5, <1>6, <1>7, <1>8, <2>3, <2>5, <2>6, OneBadge
<1> QED BY <1>10, <1>11, <1>12 DEF Dispatch

\* The player answers, or lets go of the button: only the badge moves on.
LEMMA PlayerStep ==
    ASSUME FleetInv, NEW b \in Badges, Answer(b) \/ Release(b)
    PROVE  FleetInv'
<1>0. /\ TypeOK /\ Owned /\ Polled /\ BadgeOK(b) /\ Bounded
      /\ badge \in [Badges -> BadgeState] /\ badge[b] \in BadgeState
    BY DEF FleetInv, TypeOK
<1>1. UNCHANGED <<question, polls, abandoned, counted, crashes, faults>>
    BY DEF Answer, Release
<1>2. /\ badge[b].left \in Nat /\ badge[b].stuck \in Nat /\ Feedback \in Nat
      /\ HeartbeatTimeout \in Nat /\ badge[b].q \in 0 .. DeckSize
      /\ badge[b].q # 0 => Age(b) \in Nat /\ Age(b) <= HeartbeatTimeout
    BY <1>0, FleetTypes, FleetAssumption
<1>3. /\ badge'[b] \in BadgeState /\ badge' = [badge EXCEPT ![b] = badge'[b]]
      /\ badge'[b].pc \in {"deciding", "feedback"} /\ badge[b].pc \in {"draining", "deciding"}
      /\ BadgeOK(b)'
  <2>1. CASE Answer(b)
    <3>1. PICK lasts \in 1 .. Feedback :
              badge' = [badge EXCEPT ![b] = [@ EXCEPT !.pc = "feedback", !.left = lasts]]
        BY <2>1 DEF Answer
    <3>2. badge'[b] = [badge[b] EXCEPT !.pc = "feedback", !.left = lasts]
        BY <1>0, <3>1
    <3>3. lasts \in Nat /\ lasts <= Feedback /\ badge[b].pc = "deciding"
      <4>1. Feedback \in Nat
          BY <1>2
      <4>2. badge[b].pc = "deciding"
          BY <2>1 DEF Answer
      <4> QED BY <4>1, <4>2
    <3>4. /\ badge'[b] \in BadgeState /\ badge'[b].pc = "feedback" /\ badge'[b].left = lasts
          /\ badge'[b].q = badge[b].q /\ badge'[b].sent = badge[b].sent
          /\ badge'[b].held = badge[b].held /\ badge'[b].stuck = badge[b].stuck
        BY <1>0, <3>2, <3>3 DEF BadgeState
    <3>5. (Holds(b)' <=> Holds(b)) /\ Age(b)' = Age(b)
        BY <1>1, <3>4 DEF Holds, Age
    <3>6. AskingOK(b, 0) /\ badge[b].q # 0
        BY <1>0, <3>3 DEF BadgeOK
    <3>7. AskingOK(b, Feedback)'
        BY <1>1, <1>2, <3>3, <3>4, <3>5, <3>6 DEF AskingOK
    <3>8. BadgeOK(b)'
        BY <3>4, <3>6, <3>7 DEF BadgeOK, Quick
    <3> QED BY <1>0, <3>1, <3>3, <3>4, <3>8
  <2>2. CASE Release(b)
    <3>1. PICK stuck \in 0 .. HeartbeatTimeout :
              /\ badge' = [badge EXCEPT ![b] = [Decides(badge[b].q) EXCEPT !.stuck = stuck]]
              /\ Holds(b) => stuck = Age(b)
      <4>1. badge[b].pc = "draining" /\ badge[b].q # 0
          BY <1>0, <2>2 DEF Release, BadgeOK
      <4>2. Age(b) \in 0 .. HeartbeatTimeout /\ 0 \in 0 .. HeartbeatTimeout
          BY <1>2, <4>1
      <4> QED BY <2>2, <4>2 DEF Release, Age
    <3>2. badge'[b] = [Decides(badge[b].q) EXCEPT !.stuck = stuck]
        BY <1>0, <3>1
    <3>3. badge[b].pc = "draining" /\ badge[b].q # 0 /\ badge[b].q \notin abandoned[b]
        BY <1>0, <2>2 DEF Release, BadgeOK
    <3>x. badge'[b] = [pc |-> "deciding", q |-> badge[b].q, left |-> 1, sent |-> FALSE,
                       held |-> FALSE, late |-> FALSE, stuck |-> stuck]
        BY <3>2 DEF Decides, Doing
    <3>4. /\ badge'[b] \in BadgeState /\ badge'[b].pc = "deciding" /\ badge'[b].left = 1
          /\ badge'[b].q = badge[b].q /\ ~badge'[b].sent
          /\ ~badge'[b].held /\ badge'[b].stuck = stuck
        BY <1>2, <3>x DEF BadgeState
    <3>5. (Holds(b)' <=> Holds(b)) /\ Age(b)' = Age(b)
        BY <1>1, <3>4 DEF Holds, Age
    <3>6. stuck \in Nat /\ (Holds(b) => Age(b) = stuck)
        BY <1>2, <3>1
    <3>7. AskingOK(b, 0)'
        BY <1>1, <3>3, <3>4, <3>5, <3>6 DEF AskingOK
    <3>8. BadgeOK(b)'
        BY <3>3, <3>4, <3>7 DEF BadgeOK, Quick
    <3> QED BY <1>0, <3>1, <3>3, <3>4, <3>8
  <2> QED BY <2>1, <2>2
<1>4. badge' \in [Badges -> BadgeState] /\ \A c \in Badges \ {b} : badge'[c] = badge[c]
    BY <1>0, <1>3
<1>5. TypeOK' /\ Owned' /\ Bounded'
    BY <1>0, <1>1, <1>4 DEF TypeOK, Owned, Bounded, Out
<1>6. On(b)' => (b \in polls' <=> badge'[b].pc = "polling")
    BY <1>0, <1>1, <1>3 DEF Polled, On
<1> QED BY <1>1, <1>3, <1>4, <1>5, <1>6, OneBadge

\* A crash keeps the question, and what is left of the blackout outlasts the
\* timeout unless a heartbeat is held back.
LEMMA PanicStep ==
    ASSUME FleetInv, NEW b \in Badges, Panic(b)
    PROVE  FleetInv'
<1>0. /\ TypeOK /\ Owned /\ Polled /\ BadgeOK(b) /\ b # Nobody /\ Bounded
      /\ badge \in [Badges -> BadgeState]
      /\ abandoned \in [Badges -> SUBSET Questions]
    BY FleetTypes DEF FleetInv, TypeOK
<1>1. /\ badge[b].pc = "deciding" /\ crashes < MaxCrashes /\ crashes' = crashes + 1
      /\ abandoned' = [abandoned EXCEPT ![b] = @ \cup {badge[b].q}]
      /\ UNCHANGED <<question, polls, counted, faults>>
    BY DEF Panic
<1>2. PICK lasts \in BlackoutLasts :
          badge' = [badge EXCEPT ![b] = [@ EXCEPT !.pc = "blackout", !.left = lasts,
                                                  !.late = badge[b].held]]
    BY DEF Panic
<1>3. lasts \in Nat /\ lasts >= Blackout /\ Blackout \in Nat
    BY FleetAssumption DEF BlackoutLasts
<1>4. /\ badge'[b] \in BadgeState /\ badge'[b].pc = "blackout" /\ badge'[b].left = lasts
      /\ badge'[b].late = badge[b].held /\ badge'[b].held = badge[b].held
      /\ badge'[b].q = badge[b].q
  <2>1. badge'[b] = [badge[b] EXCEPT !.pc = "blackout", !.left = lasts, !.late = badge[b].held]
      BY <1>0, <1>2
  <2>2. badge[b] \in BadgeState
      BY <1>0
  <2> QED BY <1>3, <2>1, <2>2 DEF BadgeState
<1>5. \A c \in Badges \ {b} : badge'[c] = badge[c] /\ abandoned'[c] = abandoned[c]
    BY <1>0, <1>1, <1>2
<1>6. badge' \in [Badges -> BadgeState]
  <2>1. badge' = [badge EXCEPT ![b] = badge'[b]]
      BY <1>0, <1>2
  <2> QED BY <1>0, <1>4, <2>1
<1>7. badge[b].q # 0 /\ badge[b].q \in Questions /\ Age(b) \in Nat
    BY <1>0, <1>1, FleetTypes DEF BadgeOK
<1>8. abandoned' \in [Badges -> SUBSET Questions]
    BY <1>0, <1>1, <1>7
<1>9. crashes' \in 0 .. MaxCrashes
    BY <1>0, <1>1, FleetAssumption DEF TypeOK
<1>10. TypeOK'
    BY <1>0, <1>1, <1>6, <1>8, <1>9 DEF TypeOK
<1>11. Age(b)' = Age(b)
    BY <1>1, <1>4 DEF Age
<1>12. BadgeOK(b)'
  <2>1. badge'[b].left + Age(b)' >= Blackout
      BY <1>3, <1>4, <1>7, <1>11
  <2> QED BY <1>4, <1>7, <2>1 DEF BadgeOK, AskingOK, Quick
<1>13. Owned' /\ Bounded'
    BY <1>0, <1>1 DEF Owned, Bounded
<1>14. On(b)' => (b \in polls' <=> badge'[b].pc = "polling")
    BY <1>0, <1>1, <1>4 DEF Polled, On
<1> QED BY <1>1, <1>5, <1>10, <1>12, <1>13, <1>14, OneBadge

\* A heartbeat that is sent makes the question as good as new.
LEMMA FlushStep ==
    ASSUME FleetInv, NEW b \in Badges, Flush(b)
    PROVE  FleetInv'
<1> DEFINE q == badge[b].q
<1>0. /\ TypeOK /\ Owned /\ Polled /\ BadgeOK(b) /\ b # Nobody /\ Bounded
      /\ badge \in [Badges -> BadgeState]
      /\ question \in [Questions -> QuestionState]
    BY FleetTypes DEF FleetInv, TypeOK
<1>1. /\ Holds(b) /\ badge[b].held
      /\ question' = [question EXCEPT ![badge[b].q] = Started(b)]
      /\ badge' = [badge EXCEPT ![b] = [@ EXCEPT !.held = FALSE]]
      /\ UNCHANGED <<polls, abandoned, counted, crashes, faults>>
    BY DEF Flush, FlushDue
<1>2. /\ q \in Questions /\ q # 0 /\ question[q].by = b /\ question[q].at = "started"
      /\ Age(b) \in Nat
    BY <1>0, <1>1, FleetTypes DEF Holds, Owned
<1>3. /\ Started(b) \in QuestionState /\ Started(b).by = b
      /\ Started(b).at = "started" /\ Started(b).age = 0
    BY FleetAssumption DEF Started, QuestionState
<1>4. /\ question' \in [Questions -> QuestionState] /\ question'[q] = Started(b)
      /\ \A p \in Questions \ {q} : question'[p] = question[p]
    BY <1>0, <1>1, <1>2, <1>3
<1>5. /\ badge'[b] \in BadgeState /\ badge'[b].pc = badge[b].pc /\ badge'[b].left = badge[b].left
      /\ badge'[b].late = badge[b].late /\ ~badge'[b].held /\ badge'[b].q = q
      /\ badge'[b].sent = badge[b].sent
  <2>1. badge'[b] = [badge[b] EXCEPT !.held = FALSE]
      BY <1>0, <1>1
  <2>2. badge[b] \in BadgeState
      BY <1>0
  <2> QED BY <2>1, <2>2 DEF BadgeState
<1>6. badge' \in [Badges -> BadgeState]
  <2>1. badge' = [badge EXCEPT ![b] = badge'[b]]
      BY <1>0, <1>1
  <2> QED BY <1>0, <1>5, <2>1
<1>7. TypeOK'
    BY <1>0, <1>1, <1>4, <1>6 DEF TypeOK
<1>8. Age(b)' = 0 /\ Holds(b)'
    BY <1>2, <1>3, <1>4, <1>5 DEF Age, Holds
<1>9. /\ badge[b].pc \in {"deciding", "feedback", "blackout"}
      /\ badge[b].pc = "blackout" => badge[b].late
    BY <1>0, <1>1 DEF BadgeOK
<1>10. BadgeOK(b)'
  <2>0. badge[b].left \in Nat /\ Feedback \in Nat /\ Throttle \in Nat
      BY <1>0, FleetTypes, FleetAssumption
  <2>1. ASSUME NEW spare \in Nat, AskingOK(b, spare)
        PROVE  AskingOK(b, spare)'
    <3> HIDE DEF q
    <3> QED BY <1>1, <1>5, <1>8, <2>0, <2>1 DEF AskingOK, q
  <2>2. badge[b].pc = "deciding" => AskingOK(b, 0)'
      BY <1>0, <2>1 DEF BadgeOK
  <2>3. badge[b].pc = "feedback" => AskingOK(b, Feedback)'
      BY <1>0, <2>0, <2>1 DEF BadgeOK
  <2> HIDE DEF q
  <2> QED BY <1>1, <1>2, <1>5, <1>8, <1>9, <2>2, <2>3 DEF BadgeOK, Quick, q
<1>11. Owned'
    BY <1>0, <1>3, <1>4 DEF Owned
<1>12. Bounded'
  <2>1. OutSet(question') \subseteq OutSet(question)
    <3>1. ASSUME NEW p \in Questions, question'[p].at \in {"ready", "backoff", "started"}
          PROVE  question[p].at \in {"ready", "backoff", "started"}
        BY <1>2, <1>4, <3>1
    <3> QED BY <3>1 DEF OutSet
  <2>2. /\ Out(question') <= Out(question) /\ Out(question') \in Nat /\ Out(question) \in Nat
        /\ Capacity(Cardinality(counted)) \in Nat
      BY <1>0, <2>1, OutShrinks, BadgesFinite, CapacityValue DEF TypeOK
  <2> QED BY <1>0, <1>1, <2>2 DEF Bounded
<1>13. On(b)' => (b \in polls' <=> badge'[b].pc = "polling")
    BY <1>0, <1>1, <1>5 DEF Polled, On
<1>14. \A c \in Badges \ {b} : badge'[c] = badge[c]
    BY <1>0, <1>1
<1> HIDE DEF q
<1> QED BY <1>1, <1>2, <1>3, <1>4, <1>7, <1>10, <1>11, <1>12, <1>13, <1>14, OneBadge
\* What a badge is doing says whether its question can time out: only that of a
\* badge that is off, was off when it got it, is in its blackout, or on which a
\* button was held over.
LEMMA TimeoutIsGone ==
    ASSUME FleetInv, NEW q \in Questions, TimedOut(q)
    PROVE  /\ question[q].by \in Badges
           /\ LET b == question[q].by
              IN  badge[b].q # q \/ badge[b].pc = "blackout" \/ HeldOver(b)
<1> DEFINE b == question[q].by
<1>1. question[q].at = "started" /\ question[q].age >= HeartbeatTimeout
    BY DEF TimedOut
<1>2. b \in Badges /\ question[q] \in QuestionState
    BY <1>1 DEF FleetInv, TypeOK, Owned, QuestionState
<1>3. TypeOK /\ BadgeOK(b)
    BY <1>2 DEF FleetInv
<1>4. ASSUME badge[b].q = q, badge[b].pc # "blackout"
      PROVE  HeldOver(b)
  <2>1. /\ Age(b) >= HeartbeatTimeout /\ q # 0 /\ Holds(b)
        /\ HeartbeatTimeout \in Nat /\ Throttle \in Nat /\ Feedback \in Nat
      BY <1>1, <1>4, FleetAssumption DEF Age, Questions, Holds
  <2> HIDE DEF b
  <2>2. Age(b) \in Nat /\ badge[b].left \in Nat /\ badge[b].sent \in BOOLEAN
        /\ badge[b].held \in BOOLEAN /\ badge[b].stuck \in Nat /\ badge[b] \in BadgeState
      BY <1>2, <1>3, <1>4, <2>1, FleetTypes
  <2>3. badge[b].pc \notin {"polling", "off", "refusing", "thinking"}
      BY <1>3, <1>4, <2>1, <2>2, TimingAssumption DEF BadgeOK
  <2>4. ASSUME NEW spare \in {0, Feedback}, AskingOK(b, spare)
        PROVE  ~badge[b].sent /\ badge[b].stuck + 1 + Feedback >= HeartbeatTimeout
    <3>1. ~badge[b].held
        BY <2>1, <2>2, <2>4, TimingAssumption DEF AskingOK
    <3>2. ~badge[b].sent
        BY <2>1, <2>2, <2>4, <3>1, TimingAssumption DEF AskingOK
    <3> QED BY <2>1, <2>2, <2>4, <3>2 DEF AskingOK
  <2>5. CASE badge[b].pc \in {"deciding", "feedback"}
      BY <1>3, <2>4, <2>5 DEF BadgeOK, HeldOver
  <2>6. CASE badge[b].pc = "draining"
      BY <2>6 DEF HeldOver
  <2> QED BY <1>4, <2>2, <2>3, <2>5, <2>6 DEF BadgeState
<1> QED BY <1>2, <1>4

LEMMA TimeoutStep ==
    ASSUME FleetInv, NEW q \in Questions, Timeout(q)
    PROVE  FleetInv'
<1>0. /\ TypeOK /\ Owned /\ Polled /\ Bounded
      /\ question \in [Questions -> QuestionState]
    BY DEF FleetInv, TypeOK
<1>1. /\ question[q].at = "started"
      /\ question' = [question EXCEPT ![q] = Failed]
      /\ UNCHANGED <<badge, polls, abandoned, counted, crashes, faults>>
    BY DEF Timeout, TimedOut
<1>2. PICK b \in Badges :
          /\ b = question[q].by
          /\ badge[b].q # q \/ badge[b].pc = "blackout" \/ HeldOver(b)
    BY TimeoutIsGone DEF Timeout
<1>3. /\ Failed \in QuestionState /\ Failed.by = Nobody /\ Failed.at = "backoff"
      /\ Nobody \notin Badges
    BY FleetAssumption DEF Failed, Backoff, QuestionState
<1>4. /\ question' \in [Questions -> QuestionState] /\ question'[q] = Failed
      /\ \A p \in Questions \ {q} : question'[p] = question[p]
    BY <1>0, <1>1, <1>3
<1>5. TypeOK' /\ Owned'
    BY <1>0, <1>1, <1>3, <1>4 DEF TypeOK, Owned
<1>6. Bounded'
  <2>1. OutSet(question') \subseteq OutSet(question)
    <3>1. ASSUME NEW p \in Questions, question'[p].at \in {"ready", "backoff", "started"}
          PROVE  question[p].at \in {"ready", "backoff", "started"}
        BY <1>1, <1>4, <3>1
    <3> QED BY <3>1 DEF OutSet
  <2>2. /\ Out(question') <= Out(question) /\ Out(question') \in Nat /\ Out(question) \in Nat
        /\ Capacity(Cardinality(counted)) \in Nat
      BY <1>0, <2>1, OutShrinks, BadgesFinite, CapacityValue DEF TypeOK
  <2> QED BY <1>0, <1>1, <2>2 DEF Bounded
<1>7. BadgeOK(b)'
  <2>0. BadgeOK(b)
      BY DEF FleetInv
  <2>1. CASE badge[b].q # q
    <3>1. \A p \in Questions : question'[p].by = b => question'[p] = question[p]
        BY <1>2, <1>3, <1>4
    <3>2. Holds(b) => question'[badge[b].q] = question[badge[b].q]
        BY <1>0, <1>4, <2>1, FleetTypes DEF Holds
    <3> QED BY <1>0, <1>1, <1>2, <2>0, <3>1, <3>2, BadgeKept
  <2>2. CASE badge[b].q = q
    <3>1. ~Holds(b)'
        BY <1>1, <1>2, <1>3, <1>4, <2>2 DEF Holds
    <3>2. CASE badge[b].pc = "blackout"
        BY <1>1, <2>0, <3>1, <3>2 DEF BadgeOK, Quick
    <3>3. CASE HeldOver(b)
      <4>1. /\ badge[b].pc \in {"draining", "deciding", "feedback"}
            /\ badge[b].pc = "draining" \/ ~badge[b].sent
          BY <3>3 DEF HeldOver
      <4> QED BY <1>1, <2>0, <3>1, <4>1 DEF BadgeOK, AskingOK, Quick
    <3> QED BY <1>2, <2>2, <3>2, <3>3
  <2> QED BY <2>1, <2>2
<1>8. On(b)' => (b \in polls' <=> badge'[b].pc = "polling")
    BY <1>0, <1>1, <1>2 DEF Polled, On
<1> QED BY <1>1, <1>2, <1>3, <1>4, <1>5, <1>6, <1>7, <1>8, OneBadge

\* A battery that is taken out or put back, and the poll that outlives it.
LEMMA BatteryStep ==
    ASSUME FleetInv, NEW b \in Badges, PowerOff(b) \/ PollExpires(b) \/ PowerOn(b)
    PROVE  FleetInv'
<1>0. /\ TypeOK /\ Owned /\ Polled /\ BadgeOK(b) /\ Bounded
      /\ badge \in [Badges -> BadgeState] /\ polls \subseteq Badges
    BY DEF FleetInv, TypeOK
<1>1. /\ UNCHANGED <<question, abandoned, counted, crashes>>
      /\ faults' \in 0 .. MaxFaults
    BY <1>0, FleetAssumption DEF PowerOff, PollExpires, PowerOn, TypeOK
<1>2. /\ \A d \in {Polling, Off} : d \in BadgeState /\ d.q = 0 /\ ~d.held
      /\ Polling.pc = "polling" /\ Off.pc = "off"
    BY FleetAssumption DEF Polling, Off, Doing, BadgeState
<1>3. CASE PowerOff(b) \/ PowerOn(b)
  <2>1. PICK d \in {Polling, Off} : badge' = [badge EXCEPT ![b] = d]
      BY <1>3 DEF PowerOff, PowerOn
  <2>2. badge' \in [Badges -> BadgeState] /\ badge'[b] = d
        /\ \A c \in Badges \ {b} : badge'[c] = badge[c]
      BY <1>0, <1>2, <2>1
  <2>3. polls' \subseteq Badges /\ \A c \in Badges \ {b} : c \in polls' <=> c \in polls
      BY <1>0, <1>3 DEF PowerOff, PowerOn
  <2>4. TypeOK'
      BY <1>0, <1>1, <2>2, <2>3 DEF TypeOK
  <2>5. BadgeOK(b)'
      BY <1>2, <2>2 DEF BadgeOK, AskingOK, Quick
  <2>6. On(b)' => (b \in polls' <=> badge'[b].pc = "polling")
    <3>1. CASE PowerOff(b)
      <4>1. badge'[b] = Off
          BY <1>0, <3>1 DEF PowerOff
      <4> QED BY <1>2, <4>1 DEF On
    <3>2. CASE PowerOn(b)
      <4>1. badge'[b] = Polling /\ b \in polls'
          BY <1>0, <3>2 DEF PowerOn
      <4> QED BY <1>2, <4>1
    <3> QED BY <1>3, <3>1, <3>2
  <2>7. Owned' /\ Bounded'
      BY <1>0, <1>1 DEF Owned, Bounded
  <2> QED BY <1>1, <2>2, <2>3, <2>4, <2>5, <2>6, <2>7, OneBadge
<1>4. CASE PollExpires(b)
  <2>1. /\ badge[b].pc = "off" /\ polls' = polls \ {b} /\ badge' = badge
      BY <1>4 DEF PollExpires, On
  <2>2. TypeOK' /\ Owned' /\ Bounded'
      BY <1>0, <1>1, <2>1 DEF TypeOK, Owned, Bounded
  <2>3. BadgeOK(b)'
      BY <1>0, <2>1 DEF BadgeOK, AskingOK, Quick
  <2>4. On(b)' => (b \in polls' <=> badge'[b].pc = "polling")
      BY <2>1 DEF On
  <2>5. \A c \in Badges \ {b} : c \in polls' <=> c \in polls
      BY <2>1
  <2> QED BY <1>1, <2>1, <2>2, <2>3, <2>4, <2>5, OneBadge
<1> QED BY <1>3, <1>4
\* A second that nothing is due in: every question that runs ages by it unless
\* its badge sends a heartbeat, and every timer comes a second closer.
LEMMA TickStep ==
    ASSUME FleetInv, Tick
    PROVE  FleetInv'
<1>0. /\ TypeOK /\ Owned /\ Polled /\ Bounded
      /\ question \in [Questions -> QuestionState] /\ badge \in [Badges -> BadgeState]
    BY DEF FleetInv, TypeOK
<1>1. PICK beats \in SUBSET Deciding :
          /\ \A b \in Deciding : MustBeat(b) => b \in beats
          /\ question' = [q \in Questions |->
                CASE question[q].at = "backoff" -> Ready
                  [] question[q].at = "started" ->
                        IF \E b \in beats : badge[b].q = q /\ Holds(b) /\ Sends(b, beats)
                        THEN [question[q] EXCEPT !.age = 0]
                        ELSE [question[q] EXCEPT !.age = @ + 1]
                  [] OTHER -> question[q]]
          /\ badge' = [b \in Badges |->
                [badge[b] EXCEPT !.left = Max({@ - 1, 0}),
                                 !.sent = @ \/ b \in beats,
                                 !.held = @ \/ (b \in beats /\ badge[b].sent)]]
    BY DEF Tick
<1>2. ~Due /\ UNCHANGED <<polls, abandoned, counted, crashes, faults>>
    BY DEF Tick
<1>3. HeartbeatTimeout \in Nat /\ 0 \in 0 .. HeartbeatTimeout /\ Nobody \notin Badges
    BY FleetAssumption
<1>4. ASSUME NEW q \in Questions
      PROVE  /\ question'[q] \in QuestionState
             /\ question'[q].by = question[q].by
             /\ question'[q].at = "started" <=> question[q].at = "started"
             /\ question'[q].at \in {"ready", "backoff", "started"}
                    <=> question[q].at \in {"ready", "backoff", "started"}
  <2>1. CASE question[q].at = "backoff"
    <3>1. question'[q] = Ready
        BY <1>1, <2>1
    <3>2. question[q].by = Nobody
        BY <1>0, <2>1 DEF Owned
    <3> QED BY <1>3, <2>1, <3>1, <3>2 DEF Ready, QuestionState
  <2>2. CASE question[q].at = "started"
    <3>1. /\ question[q] \in QuestionState /\ question[q].age \in 0 .. HeartbeatTimeout
          /\ ~(question[q].age >= HeartbeatTimeout)
        BY <1>0, <1>2, <2>2 DEF Due, TimedOut, QuestionState
    <3>2. \/ question'[q] = [question[q] EXCEPT !.age = 0]
          \/ question'[q] = [question[q] EXCEPT !.age = @ + 1]
        BY <1>1, <2>2
    <3>3. question[q].age + 1 \in 0 .. HeartbeatTimeout
        BY <1>3, <3>1
    <3> QED BY <1>3, <2>2, <3>1, <3>2, <3>3 DEF QuestionState
  <2>3. CASE question[q].at \notin {"backoff", "started"}
    <3>1. question'[q] = question[q]
        BY <1>1, <2>3
    <3> QED BY <1>0, <3>1
  <2> QED BY <2>1, <2>2, <2>3
<1>5. ASSUME NEW b \in Badges
      PROVE  /\ badge'[b] \in BadgeState
             /\ badge'[b].pc = badge[b].pc /\ badge'[b].q = badge[b].q
             /\ badge'[b].late = badge[b].late /\ badge'[b].stuck = badge[b].stuck
             /\ badge'[b].sent <=> badge[b].sent \/ b \in beats
             /\ badge'[b].held <=> badge[b].held \/ (b \in beats /\ badge[b].sent)
             /\ badge'[b].left = IF badge[b].left = 0 THEN 0 ELSE badge[b].left - 1
  <2> DEFINE now == Max({badge[b].left - 1, 0})
  <2>1. badge[b] \in BadgeState /\ badge[b].left \in Nat
      BY <1>0 DEF BadgeState
  <2>2. now \in Nat /\ now = IF badge[b].left = 0 THEN 0 ELSE badge[b].left - 1
    <3> DEFINE m == badge[b].left - 1
    <3>1. m \in Int
        BY <2>1
    <3> HIDE DEF m
    <3>2. Max({m, 0}) \in {m, 0} /\ Max({m, 0}) >= m /\ Max({m, 0}) >= 0
        BY <3>1, MaxOfTwo
    <3> DEFINE c == Max({m, 0})
    <3> HIDE DEF c
    <3>3. c \in {m, 0} /\ c >= m /\ c >= 0
        BY <3>2 DEF c
    <3>4. c \in Nat /\ c = IF badge[b].left = 0 THEN 0 ELSE badge[b].left - 1
        BY <2>1, <3>1, <3>3 DEF m
    <3>5. now = c
        BY Zenon DEF c, m
    <3> QED BY <3>4, <3>5
  <2>3. badge'[b] = [badge[b] EXCEPT !.left = now,
                                     !.sent = @ \/ b \in beats,
                                     !.held = @ \/ (b \in beats /\ badge[b].sent)]
      BY <1>1
  <2> HIDE DEF now
  <2> QED BY <2>1, <2>2, <2>3 DEF BadgeState
<1>6. TypeOK'
  <2>1. question' \in [Questions -> QuestionState]
      BY <1>1, <1>4
  <2>2. badge' \in [Badges -> BadgeState]
      BY <1>1, <1>5
  <2> QED BY <1>0, <1>2, <2>1, <2>2 DEF TypeOK
<1>7. Owned' /\ Polled'
    BY <1>0, <1>2, <1>4, <1>5 DEF Owned, Polled, On
<1>8. Bounded'
  <2>1. OutSet(question') = OutSet(question)
      BY <1>4 DEF OutSet
  <2>2. Out(question') = Out(question)
      BY <2>1 DEF OutSet, Out
  <2> QED BY <1>0, <1>2, <2>2 DEF Bounded
<1>9. ASSUME NEW b \in Badges
      PROVE  BadgeOK(b)'
  <2>0. /\ BadgeOK(b) /\ badge[b] \in BadgeState /\ badge[b].left \in Nat
        /\ badge[b].sent \in BOOLEAN /\ badge[b].held \in BOOLEAN
        /\ Throttle \in Nat /\ Blackout \in Nat
      BY <1>0, FleetTypes, FleetAssumption DEF FleetInv
  <2>1. b \in beats => badge[b].pc = "deciding"
      BY DEF Deciding
  <2>2. badge[b].q # 0 => badge[b].q \in Questions /\ Age(b) \in Nat
      BY <1>0, FleetTypes
  <2>3. Holds(b)' <=> Holds(b)
      BY <1>4, <1>5, <2>2 DEF Holds
  <2>4. ASSUME Holds(b)
        PROVE  /\ Age(b) \in Nat
               /\ Age(b)' = IF b \in beats /\ ~badge[b].sent THEN 0 ELSE Age(b) + 1
    <3> DEFINE q == badge[b].q
    <3>1. /\ q \in Questions /\ question[q].by = b /\ question[q].at = "started"
          /\ question[q] \in QuestionState /\ Age(b) \in Nat
        BY <1>0, <1>3, <2>2, <2>4 DEF Holds, Owned
    <3>2. (\E c \in beats : badge[c].q = q /\ Holds(c) /\ Sends(c, beats))
              <=> b \in beats /\ ~badge[b].sent
        BY <2>4, <3>1 DEF Holds, Sends
    <3>3. question'[q] = IF b \in beats /\ ~badge[b].sent
                         THEN [question[q] EXCEPT !.age = 0]
                         ELSE [question[q] EXCEPT !.age = @ + 1]
        BY <1>1, <3>1, <3>2
    <3>4. question'[q].age = IF b \in beats /\ ~badge[b].sent THEN 0 ELSE question[q].age + 1
        BY <3>1, <3>3 DEF QuestionState
    <3>5. Age(b)' = question'[q].age
        BY <1>5 DEF Age
    <3> QED BY <3>1, <3>4, <3>5 DEF Age
  <2>5. CASE badge[b].pc \in {"polling", "off"}
      BY <1>5, <2>0, <2>1, <2>5 DEF BadgeOK, AskingOK, Quick
  <2>6. CASE badge[b].pc = "refusing"
      BY <1>2, <2>6 DEF Due
  <2>7. CASE badge[b].pc = "thinking"
    <3>1. badge[b].left # 0 /\ b \notin beats /\ Holds(b) /\ ~badge[b].held
        BY <1>2, <2>0, <2>1, <2>7 DEF Due, BadgeOK, Quick
    <3>2. /\ Age(b)' = Age(b) + 1 /\ badge'[b].left = badge[b].left - 1
          /\ Age(b) \in Nat /\ Age(b) + badge[b].left < HeartbeatTimeout
        BY <1>5, <2>0, <2>4, <2>7, <3>1 DEF BadgeOK
    <3>3. Age(b)' + badge'[b].left < HeartbeatTimeout
        BY <1>3, <2>0, <3>2
    <3>4. Holds(b)' /\ badge'[b].pc = "thinking" /\ ~badge'[b].held /\ badge'[b].q # 0
        BY <1>5, <2>0, <2>3, <2>7, <3>1 DEF BadgeOK
    <3> QED BY <3>3, <3>4 DEF BadgeOK, Quick
  <2>8. CASE badge[b].pc = "blackout"
    <3>1. badge[b].left # 0 /\ b \notin beats
        BY <1>2, <2>1, <2>8 DEF Due
    <3>2. /\ badge[b].q # 0 /\ (badge[b].held => badge[b].late)
          /\ Holds(b) /\ ~badge[b].late => badge[b].left + Age(b) >= Blackout
        BY <2>0, <2>8 DEF BadgeOK
    <3>3. /\ badge'[b].pc = "blackout" /\ badge'[b].q # 0
          /\ badge'[b].held => badge'[b].late
          /\ badge'[b].left = badge[b].left - 1 /\ badge'[b].late = badge[b].late
        BY <1>5, <2>8, <3>1, <3>2
    <3>4. Holds(b)' /\ ~badge'[b].late => badge'[b].left + Age(b)' >= Blackout
      <4> SUFFICES ASSUME Holds(b)', ~badge'[b].late
                   PROVE  badge'[b].left + Age(b)' >= Blackout
          OBVIOUS
      <4>1. Holds(b) /\ ~badge[b].late
          BY <2>3, <3>3
      <4>2. Age(b) \in Nat /\ Age(b)' = Age(b) + 1
          BY <2>4, <3>1, <4>1
      <4> QED BY <2>0, <3>2, <3>3, <4>1, <4>2
    <3> QED BY <3>3, <3>4 DEF BadgeOK, AskingOK, Quick
  <2>9. CASE badge[b].pc = "deciding"
    <3>1. AskingOK(b, 0) /\ badge[b].q # 0
        BY <2>0, <2>9 DEF BadgeOK
    <3>2. /\ b \notin beats => ~badge[b].sent /\ badge[b].left # 0
          /\ badge[b].sent => Holds(b)
          /\ Holds(b) /\ badge[b].held => ~(Age(b) >= Throttle)
      <4>1. b \notin beats => ~MustBeat(b)
          BY <1>1, <2>9 DEF Deciding
      <4>2. ~FlushDue(b) /\ ~Unknown(b)
          BY <1>2 DEF Due
      <4> QED BY <2>9, <4>1, <4>2 DEF MustBeat, FlushDue, Unknown, ThrottleInterval, Age
    <3>3. ASSUME Holds(b)
          PROVE  /\ badge'[b].sent => badge'[b].left = 0
                 /\ ~badge'[b].sent => Age(b)' + badge'[b].left <= badge'[b].stuck + 1
                 /\ badge'[b].sent /\ ~badge'[b].held => Age(b)' = 0
                 /\ badge'[b].held => Age(b)' <= 1 \/ Age(b)' <= Throttle
      <4>1. /\ Age(b) \in Nat
            /\ Age(b)' = IF b \in beats /\ ~badge[b].sent THEN 0 ELSE Age(b) + 1
          BY <2>4, <3>3
      <4>2. badge[b].stuck \in Nat
          BY <1>0, FleetTypes
      <4>3. /\ badge[b].left <= IF badge[b].sent THEN 0 ELSE 1
            /\ ~badge[b].sent => ~badge[b].held /\ Age(b) + badge[b].left <= badge[b].stuck + 1
            /\ badge[b].sent /\ ~badge[b].held => Age(b) = 0
            /\ badge[b].held => Age(b) <= 1 \/ Age(b) <= Throttle
          BY <2>0, <3>1, <3>3, <4>1, <4>2 DEF AskingOK
      <4>4. CASE b \notin beats
          BY <1>5, <2>0, <3>2, <4>1, <4>2, <4>3, <4>4
      <4>5. CASE b \in beats /\ ~badge[b].sent
          BY <1>5, <2>0, <4>1, <4>3, <4>5
      <4>6. CASE b \in beats /\ badge[b].sent
        <5>1. badge[b].left = 0 /\ badge'[b].left = 0 /\ Age(b)' = Age(b) + 1
              /\ badge'[b].held /\ badge'[b].sent
            BY <1>5, <2>0, <4>1, <4>3, <4>6
        <5>2. Age(b)' <= 1 \/ Age(b)' <= Throttle
          <6>1. CASE badge[b].held
              BY <2>0, <3>2, <3>3, <4>1, <5>1, <6>1
          <6>2. CASE ~badge[b].held
              BY <4>1, <4>3, <4>6, <5>1, <6>2
          <6> QED BY <6>1, <6>2
        <5> QED BY <5>1, <5>2
      <4> QED BY <4>4, <4>5, <4>6
    <3>4. AskingOK(b, 0)'
      <4>1. CASE Holds(b)
        <5>1. /\ badge'[b].left \in Nat /\ badge'[b].stuck \in Nat /\ Age(b)' \in Nat
              /\ badge'[b].left <= 1
          <6>1. badge'[b].left <= 1
            <7>1. badge[b].left <= 1
                BY <2>0, <3>1 DEF AskingOK
            <7> QED BY <1>5, <2>0, <7>1
          <6> QED BY <1>0, <1>5, <2>0, <2>4, <4>1, <6>1, FleetTypes
        <5> QED BY <1>2, <1>5, <2>3, <3>1, <3>3, <4>1, <5>1 DEF AskingOK
      <4>2. CASE ~Holds(b)
        <5>1. ~badge[b].sent /\ ~badge[b].held /\ ~badge'[b].held /\ ~Holds(b)'
            BY <1>5, <2>3, <3>1, <3>2, <4>2 DEF AskingOK
        <5>2. badge[b].left <= 1
            BY <2>0, <3>1 DEF AskingOK
        <5>3. badge'[b].left <= IF badge'[b].sent THEN 0 ELSE 1
            BY <1>5, <2>0, <3>2, <5>1, <5>2
        <5> QED BY <1>2, <1>5, <3>1, <5>1, <5>3 DEF AskingOK
      <4> QED BY <4>1, <4>2
    <3> QED BY <1>5, <2>9, <3>1, <3>4 DEF BadgeOK, Quick
  <2>10. CASE badge[b].pc = "feedback"
    <3>1. AskingOK(b, Feedback) /\ badge[b].q # 0 /\ badge[b].left # 0 /\ b \notin beats
        BY <1>2, <2>0, <2>1, <2>10 DEF BadgeOK, Due
    <3>2. /\ badge'[b].left = badge[b].left - 1 /\ badge'[b].stuck = badge[b].stuck
          /\ badge'[b].sent = badge[b].sent /\ badge'[b].held = badge[b].held
          /\ badge'[b].q = badge[b].q /\ abandoned'[b] = abandoned[b]
          /\ badge'[b] \in BadgeState
        BY <1>2, <1>5, <2>0, <3>1 DEF BadgeState
    <3>3. Holds(b) => Age(b) \in Nat /\ Age(b)' = Age(b) + 1
        BY <2>4, <3>1
    <3>4. Holds(b) /\ badge[b].held => ~(Age(b) >= Throttle)
        BY <1>2 DEF Due, FlushDue, ThrottleInterval, Age
    <3>5. Feedback \in Nat /\ badge[b].stuck \in Nat
        BY <1>0, FleetTypes, FleetAssumption
    <3>6. AskingOK(b, Feedback)'
        BY <2>0, <2>3, <3>1, <3>2, <3>3, <3>4, <3>5 DEF AskingOK
    <3> QED BY <1>5, <2>10, <3>1, <3>6 DEF BadgeOK, Quick
  <2>11. CASE badge[b].pc = "draining"
      BY <1>2, <1>5, <2>0, <2>1, <2>11 DEF BadgeOK, Quick
  <2> QED BY <2>0, <2>5, <2>6, <2>7, <2>8, <2>9, <2>10, <2>11 DEF BadgeState
<1> QED BY <1>2, <1>6, <1>7, <1>8, <1>9 DEF FleetInv
LEMMA FleetInit == Init => FleetInv
<1> SUFFICES ASSUME Init PROVE FleetInv
    OBVIOUS
<1> DEFINE qs == [q \in Questions |-> InDeck]
<1>0. /\ Nobody \notin Badges /\ DeckSize \in Nat /\ HeartbeatTimeout \in Nat
      /\ MaxFaults \in Nat /\ MaxCrashes \in Nat
    BY FleetAssumption
<1>1. /\ badge \in [Badges -> {Polling, Off}] /\ polls \in SUBSET Badges
      /\ \A b \in Badges : On(b) => b \in polls
      /\ counted = polls /\ counted # {} /\ question = TopUp(qs)
      /\ abandoned = [b \in Badges |-> {}]
      /\ crashes = 0 /\ faults = Cardinality({b \in Badges : ~On(b)}) /\ faults <= MaxFaults
    BY DEF Init
<1>2. /\ \A d \in {Polling, Off} : d \in BadgeState /\ d.q = 0 /\ ~d.held
      /\ Polling.pc = "polling" /\ Off.pc = "off"
    BY <1>0 DEF Polling, Off, Doing, BadgeState
<1>3. /\ InDeck \in QuestionState /\ InDeck.by = Nobody /\ InDeck.at = "deck"
      /\ Ready.by = Nobody /\ Ready.at = "ready"
    BY <1>0 DEF InDeck, Ready, QuestionState
<1>4. qs \in [Questions -> QuestionState] /\ \A q \in Questions : qs[q] = InDeck
    BY <1>3
<1>5. TypeOK
  <2>1. question \in [Questions -> QuestionState]
      BY <1>1, <1>4, TopUpType
  <2>2. badge \in [Badges -> BadgeState]
      BY <1>1, <1>2
  <2>3. abandoned \in [Badges -> SUBSET Questions]
      BY <1>1
  <2>4. faults \in 0 .. MaxFaults
    <3>1. {b \in Badges : ~On(b)} \in SUBSET Badges
        OBVIOUS
    <3>2. Cardinality({b \in Badges : ~On(b)}) \in Nat
        BY <3>1, BadgesFinite
    <3> QED BY <1>0, <1>1, <3>2
  <2>5. crashes \in 0 .. MaxCrashes
      BY <1>0, <1>1
  <2> QED BY <1>1, <2>1, <2>2, <2>3, <2>4, <2>5 DEF TypeOK
<1>6. counted \in SUBSET Badges
    BY <1>1
<1>7. Bounded
  <2>1. OutSet(qs) = {} /\ Out(qs) = Cardinality(OutSet(qs))
      BY <1>3, <1>4 DEF OutSet, Out
  <2>2. Out(qs) = 0
      BY <2>1, FS_EmptySet
  <2>3. Capacity(Cardinality(counted)) \in Nat
      BY <1>6, BadgesFinite, CapacityValue
  <2> HIDE DEF qs
  <2>4. Out(TopUp(qs)) <= Capacity(Cardinality(counted))
      BY <1>6, <2>2, <2>3, TopUpBounded
  <2> QED BY <1>1, <2>4 DEF Bounded
<1>8. Owned
  <2> SUFFICES ASSUME NEW q \in Questions
               PROVE  question[q].by # Nobody <=> question[q].at = "started"
      BY DEF Owned
  <2>1. qs[q] = InDeck
      BY <1>4
  <2> HIDE DEF qs
  <2>2. question[q] = InDeck \/ question[q] = Ready
      BY <1>1, <2>1, TopUpMoves
  <2> QED BY <1>3, <2>2
<1>9. ASSUME NEW b \in Badges
      PROVE  BadgeOK(b) /\ (On(b) => (b \in polls <=> badge[b].pc = "polling"))
    BY <1>1, <1>2 DEF BadgeOK, AskingOK, Quick, On
<1> QED BY <1>1, <1>5, <1>7, <1>8, <1>9 DEF FleetInv, Polled

LEMMA FleetNext == FleetInv /\ [Next]_vars => FleetInv'
<1> SUFFICES ASSUME FleetInv, [Next]_vars PROVE FleetInv'
    OBVIOUS
<1>0. TypeOK /\ \A b \in Badges : BadgeOK(b)
    BY DEF FleetInv
<1>f. faults \in 0 .. MaxFaults /\ MaxFaults \in Nat
    BY <1>0, FleetAssumption DEF TypeOK
<1>1. ASSUME NEW b \in Badges, NEW q \in Questions, Dispatch(b, q) PROVE FleetInv'
    BY <1>1, DispatchStep
<1>2. ASSUME NEW b \in Badges,
             \/ FeedbackEnds(b) \/ Refuse(b) \/ Cancelled(b) \/ GivesUp(b)
             \/ SimulatorAnswers(b) \/ SimulatorFails(b) \/ BlackoutEnds(b)
      PROVE  FleetInv'
  <2>1. badge[b].pc \notin {"polling", "off"} /\ faults' \in 0 .. MaxFaults
      BY <1>f, <1>2 DEF FeedbackEnds, Refuse, Cancelled, Unknown, GivesUp, SimulatorAnswers,
                          SimulatorFails, BlackoutEnds
  <2>2. \E result \in {Answered, Failed} : Report(b, result)
      BY <1>2 DEF FeedbackEnds, Refuse, Cancelled, GivesUp, SimulatorAnswers,
                    SimulatorFails, BlackoutEnds
  <2> QED BY <2>1, <2>2, ReportStep
<1>3. ASSUME NEW b \in Badges, Flush(b) PROVE FleetInv'
    BY <1>3, FlushStep
<1>4. ASSUME NEW b \in Badges, Panic(b) PROVE FleetInv'
    BY <1>4, PanicStep
<1>9. ASSUME NEW b \in Badges, Answer(b) \/ Release(b) PROVE FleetInv'
    BY <1>9, PlayerStep
<1>5. ASSUME NEW q \in Questions, Timeout(q) PROVE FleetInv'
    BY <1>5, TimeoutStep
<1>6. CASE Tick
    BY <1>6, TickStep
<1>7. ASSUME NEW b \in Badges, PowerOff(b) \/ PollExpires(b) \/ PowerOn(b) PROVE FleetInv'
    BY <1>7, BatteryStep
<1>8. CASE UNCHANGED vars
    BY <1>8 DEF vars, FleetInv, TypeOK, Owned, Polled, BadgeOK, AskingOK, Bounded, On, Quick,
                Holds, Age, Out
<1> QED BY <1>1, <1>2, <1>3, <1>4, <1>5, <1>6, <1>7, <1>8, <1>9 DEF Next, Clockwork

-----------------------------------------------------------------------------
(* What the invariant means for the round. *)

Running == {q \in Questions : question[q].at = "started"}

\* The counted badges that are not gone are free or hold a question each.
LEMMA SpareBadges ==
    ASSUME FleetInv, NEW gone \in SUBSET counted, Cardinality(gone) <= 1,
           Unavailable \subseteq gone,
           NEW free \in SUBSET (counted \ gone),
           \A b \in counted \ gone : b \in free \/ badge[b].pc # "polling"
    PROVE  Cardinality(counted) - 1 <= Cardinality(free) + Cardinality(Running)
<1> DEFINE here == counted \ gone
           busy == here \ free
           held == [b \in busy |-> badge[b].q]
<1>0. TypeOK /\ counted \in SUBSET Badges /\ Running \in SUBSET Questions
    BY DEF FleetInv, TypeOK, Running
<1>1. /\ IsFiniteSet(counted) /\ Cardinality(counted) \in Nat
      /\ IsFiniteSet(gone) /\ Cardinality(gone) \in Nat
      /\ IsFiniteSet(here) /\ Cardinality(here) \in Nat
      /\ IsFiniteSet(free) /\ Cardinality(free) \in Nat
      /\ IsFiniteSet(busy) /\ Cardinality(busy) \in Nat
      /\ IsFiniteSet(Running) /\ Cardinality(Running) \in Nat
  <2>1. /\ gone \in SUBSET Badges /\ here \in SUBSET Badges
        /\ free \in SUBSET Badges /\ busy \in SUBSET Badges
      BY <1>0
  <2> HIDE DEF here, busy
  <2> QED BY <1>0, <2>1, BadgesFinite, QuestionsFinite
<1>2. Cardinality(here) = Cardinality(counted) - Cardinality(gone)
  <2>1. Cardinality(here) = Cardinality(counted) - Cardinality(counted \cap gone)
      BY <1>1, FS_Difference
  <2>2. counted \cap gone = gone
      OBVIOUS
  <2> QED BY <2>1, <2>2
<1>3. Cardinality(busy) = Cardinality(here) - Cardinality(free)
  <2>1. here \cap free = free
      OBVIOUS
  <2> HIDE DEF here
  <2>2. Cardinality(busy) = Cardinality(here) - Cardinality(here \cap free)
      BY <1>1, FS_Difference
  <2> QED BY <2>1, <2>2
<1>4. ASSUME NEW b \in busy
      PROVE  /\ badge[b].q \in Running /\ question[badge[b].q].by = b
  <2>1. b \in Badges /\ BadgeOK(b) /\ badge[b] \in BadgeState
      BY <1>0, FleetTypes DEF FleetInv
  <2>2. badge[b].pc \notin {"polling", "off", "blackout"} /\ ~Astray(b)
      BY DEF Unavailable
  <2>3. Holds(b)
      BY <2>1, <2>2 DEF BadgeOK, Astray
  <2>4. badge[b].q \in Questions /\ question[badge[b].q].by = b /\ b # Nobody
      BY <1>0, <2>1, <2>3, FleetTypes DEF Holds
  <2> QED BY <2>4 DEF FleetInv, Owned, Running
<1>5. held \in Injection(busy, Running)
  <2>1. held \in [busy -> Running]
      BY <1>4
  <2>2. \A b, c \in busy : held[b] = held[c] => b = c
      BY <1>4
  <2> QED BY <2>1, <2>2 DEF Injection, IsInjective
<1> HIDE DEF here, busy, held
<1>6. Cardinality(busy) <= Cardinality(Running)
    BY <1>1, <1>5, FS_Injection
<1> QED BY <1>1, <1>2, <1>3, <1>6

\* The questions that run and those that wait share the capacity.
LEMMA CapacityShared ==
    ASSUME FleetInv, Cardinality(counted) > 1
    PROVE  /\ IsFiniteSet(Waiting) /\ Cardinality(Waiting) \in Nat
           /\ Cardinality(Running) \in Nat /\ Cardinality(counted) \in Nat
           /\ Cardinality(Waiting) + Cardinality(Running) <= Cardinality(counted) - 1
<1>1. /\ Waiting \in SUBSET Questions /\ Running \in SUBSET Questions
      /\ Waiting \cap Running = {} /\ OutSet(question) = Waiting \cup Running
      /\ Out(question) = Cardinality(OutSet(question))
    BY DEF Waiting, Running, OutSet, Out
<1>2. /\ IsFiniteSet(Waiting) /\ Cardinality(Waiting) \in Nat
      /\ IsFiniteSet(Running) /\ Cardinality(Running) \in Nat
    BY <1>1, QuestionsFinite
<1>3. Cardinality(counted) \in Nat
    BY BadgesFinite DEF FleetInv, TypeOK
<1>4. Out(question) <= Cardinality(counted) - 1
    BY <1>3, CapacityValue DEF FleetInv, Bounded
<1>5. Cardinality(Waiting \cup Running) = Cardinality(Waiting) + Cardinality(Running)
  <2>1. Cardinality(Waiting \cup Running)
            = Cardinality(Waiting) + Cardinality(Running) - Cardinality(Waiting \cap Running)
      BY <1>2, FS_Union
  <2>2. Cardinality(Waiting \cap Running) = 0
      BY <1>1, FS_EmptySet
  <2> QED BY <1>2, <2>1, <2>2
<1> QED BY <1>1, <1>2, <1>3, <1>4, <1>5

LEMMA ReserveKept == FleetInv => ReserveIsFree
<1> SUFFICES ASSUME FleetInv, Cardinality(counted) > 1
             PROVE  /\ Cardinality(Unavailable) <= 1 =>
                           Cardinality(Waiting) <= Cardinality(Free)
                    /\ \A q \in Waiting :
                           Cardinality(Lost(q)) <= 1 => \E b \in Free : q \notin abandoned[b]
    BY DEF ReserveIsFree
<1>0. /\ TypeOK /\ Polled /\ counted \in SUBSET Badges /\ polls \in SUBSET Badges
    BY DEF FleetInv, TypeOK
<1>1. ASSUME Cardinality(Unavailable) <= 1
      PROVE  Cardinality(Waiting) <= Cardinality(Free)
  <2> DEFINE free == {b \in counted \ Unavailable : badge[b].pc = "polling"}
  <2>1. Unavailable \in SUBSET counted
      BY DEF Unavailable
  <2>2. free \in SUBSET (counted \ Unavailable)
      OBVIOUS
  <2>3. free \in SUBSET Free /\ Free \in SUBSET Badges /\ free \in SUBSET Badges
      BY <1>0 DEF Free, Polled, On
  <2>4. \A b \in counted \ Unavailable : b \in free \/ badge[b].pc # "polling"
      OBVIOUS
  <2> HIDE DEF free
  <2>5. Cardinality(counted) - 1 <= Cardinality(free) + Cardinality(Running)
      BY <1>1, <2>1, <2>2, <2>4, SpareBadges
  <2>6. IsFiniteSet(Free) /\ Cardinality(Free) \in Nat /\ Cardinality(free) \in Nat
      BY <2>3, BadgesFinite
  <2>7. Cardinality(free) <= Cardinality(Free)
      BY <2>3, <2>6, FS_Subset
  <2> QED BY <2>5, <2>6, <2>7, CapacityShared
<1>2. ASSUME NEW q \in Waiting, Cardinality(Lost(q)) <= 1,
             \A b \in Free : q \in abandoned[b]
      PROVE  FALSE
  <2>1. Lost(q) \in SUBSET counted /\ Unavailable \subseteq Lost(q)
      BY DEF Lost, Unavailable
  <2>2. \A b \in counted \ Lost(q) : badge[b].pc # "polling"
    <3>1. ASSUME NEW b \in counted \ Lost(q), badge[b].pc = "polling"
          PROVE  FALSE
      <4>1. b \in Free /\ q \notin abandoned[b]
          BY <1>0, <3>1 DEF Free, Polled, On, Lost
      <4> QED BY <1>2, <4>1
    <3> QED BY <3>1
  <2>3. Cardinality(counted) - 1 <= Cardinality({}) + Cardinality(Running)
      BY <1>2, <2>1, <2>2, SpareBadges
  <2>4. Cardinality({}) = 0
      BY FS_EmptySet
  <2>5. Cardinality(Waiting) # 0
      BY CapacityShared, FS_EmptySet
  <2>6. /\ Cardinality(Waiting) \in Nat
        /\ Cardinality(Running) \in Nat /\ Cardinality(counted) \in Nat
        /\ Cardinality(Waiting) + Cardinality(Running) <= Cardinality(counted) - 1
      BY CapacityShared
  <2> QED BY <2>3, <2>4, <2>5, <2>6
<1> QED BY <1>1, <1>2

\* For any number of badges, crashes, held buttons and empty batteries: while at
\* most one of the badges the controller counted is gone, a question that waits
\* for a retry finds a free badge that will take it, and no badge asks for an
\* answer to what it crashed on.
THEOREM FleetIsKept == Spec => []FleetKept
<1>1. FleetInv => FleetKept
    BY ReserveKept DEF FleetInv, FleetKept, NeverAnswersAbandoned, Asking, BadgeOK, AskingOK
<1> QED BY <1>1, FleetInit, FleetNext, PTL DEF Spec

\* The SDK's throttle never costs a badge its question: the heartbeat timeout
\* takes a question only from a badge that is off, that was off when it got the
\* question, that is in its blackout, or on which a button was held over from
\* before the question for all of the timeout but a second and the feedback.
THEOREM TimeoutsMeanGone == Spec => TimeoutMeansGone
<1>1. FleetInv /\ [Next]_vars =>
          (\A q \in Questions : Timeout(q) =>
              LET b == question[q].by
              IN  badge[b].q # q \/ badge[b].pc = "blackout" \/ HeldOver(b))
    BY TimeoutIsGone DEF Timeout
<1> QED BY <1>1, FleetInit, FleetNext, PTL DEF Spec, TimeoutMeansGone

\* A badge that comes back from its crash has lost its question to the timeout,
\* unless the SDK held a heartbeat back when the crash began.
THEOREM CrashesTimeOutFirst == Spec => CrashTimesOutFirst
<1>1. FleetInv /\ [Next]_vars =>
          (\A b \in Badges : BlackoutEnds(b) /\ Holds(b) => badge[b].late)
  <2> SUFFICES ASSUME FleetInv, NEW b \in Badges, BlackoutEnds(b), Holds(b), ~badge[b].late
               PROVE  FALSE
      OBVIOUS
  <2>1. badge[b].pc = "blackout" /\ badge[b].left = 0
      BY DEF BlackoutEnds
  <2>2. /\ badge[b].q # 0 /\ badge[b].left + Age(b) >= Blackout
      BY <2>1 DEF FleetInv, BadgeOK
  <2>3. Age(b) \in Nat /\ Age(b) <= HeartbeatTimeout
      BY <2>2, FleetTypes DEF FleetInv
  <2> QED BY <2>1, <2>2, <2>3, FleetAssumption, TimingAssumption
<1> QED BY <1>1, FleetInit, FleetNext, PTL DEF Spec, CrashTimesOutFirst
=============================================================================

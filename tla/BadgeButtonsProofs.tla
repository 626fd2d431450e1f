------------------------ MODULE BadgeButtonsProofs ------------------------
(***************************************************************************)
(* Proofs about BadgeButtons: whatever the holder does and whenever the    *)
(* overlay, the clock and the looks come, an answer was pressed for the    *)
(* question it answers, a crash was held, and heartbeats flow.             *)
(*                                                                         *)
(* The inductive invariant says what the looks have in common.  Looks come *)
(* at most MaxGap late, so no overlay fits between two of them (Pace); a   *)
(* button held or armed while input counts was pressed for this question   *)
(* (Trusted); an armed side is what the last look saw (Arms); and a       *)
(* combination began after both sides were first seen together (Hold).     *)
(***************************************************************************)
EXTENDS BadgeButtons, TLAPS

Pace ==
    /\ now <= due + MaxGap
    /\ Waiting => due <= now + 1
    /\ overlay => overlayEnd \in Nat
    /\ phase = "watch" /\ overlay /\ ~suppress => due <= overlayEnd - OverlayLength + 1

Trusted ==
    phase = "watch" /\ ~overlay /\ ~suppress => held \cup armed \subseteq fresh

Arms ==
    /\ phase = "drain" \/ (phase = "watch" /\ suppress) => armed = {} /\ combo = NoTime
    /\ phase = "watch" /\ armed # {} => armed \in {seen \cap Sides, Sides}

Hold ==
    /\ together <= now
    /\ phase = "watch" /\ combo # NoTime => together # NoTime /\ together <= combo

Rhythm == phase = "watch" => due <= beat + BeatInterval + 1

Undecided == Waiting => outcome = "none"

IInv ==
    /\ TypeOK /\ Pace /\ Trusted /\ Arms /\ Hold /\ Rhythm /\ Undecided
    /\ AnswerIsFresh /\ CrashWasHeld

-----------------------------------------------------------------------------
(* The inductive invariant. *)

\* The names of the outcomes that are no answer are the names of no button.
LEMMA OutcomesDiffer ==
    /\ Sides \subseteq Buttons
    /\ Buttons \cap {"none", "crash", "cancelled"} = {}
BY ButtonsAssumption DEF Sides

\* The invariant holds when a question arrives.
LEMMA InitIInv == Init => IInv
<1> SUFFICES ASSUME Init PROVE IInv
    OBVIOUS
<1> USE ButtonsAssumption, OutcomesDiffer DEF Init, NoTime
<1>1. TypeOK
  <2>1. /\ now \in Nat /\ due \in Nat /\ beat \in Nat
        /\ overlays \in 0..MaxOverlays
        /\ outcome \in {"none", "crash", "cancelled"} \cup Buttons
      OBVIOUS
  <2>2. /\ held \subseteq Buttons /\ fresh \subseteq Buttons /\ seen \subseteq Buttons
        /\ deadline \in Deadlines /\ armed \subseteq Sides
      OBVIOUS
  <2>3. overlayEnd \in Nat \cup {NoTime}
      OBVIOUS
  <2>4. /\ overlay \in BOOLEAN /\ cancelled \in BOOLEAN /\ suppress \in BOOLEAN
        /\ combo \in Nat \cup {NoTime} /\ together \in Nat \cup {NoTime}
        /\ phase \in {"drain", "watch", "done"}
      BY Zenon
  <2> QED BY <2>1, <2>2, <2>3, <2>4, Zenon DEF TypeOK
<1>2. Pace /\ Trusted /\ Arms /\ Hold /\ Rhythm /\ Undecided
    BY DEF Pace, Trusted, Arms, Hold, Rhythm, Undecided, Waiting
<1>3. AnswerIsFresh /\ CrashWasHeld
    BY DEF AnswerIsFresh, CrashWasHeld
<1> QED BY <1>1, <1>2, <1>3 DEF IInv

\* The holder, the overlay, the clock and a cancellation keep it.
LEMMA WorldKeepsIInv ==
    ASSUME IInv,
           \/ \E b \in Buttons : Press(b) \/ Release(b)
           \/ OverlayStarts \/ OverlayEnds \/ AdvanceTime \/ Cancel
    PROVE  IInv'
<1> USE ButtonsAssumption, OutcomesDiffer
    DEF NoTime, IInv, waitVars, inputVars, Waiting
<1>1. ASSUME NEW b \in Buttons, Press(b)
      PROVE  IInv'
  <2>1. TypeOK'
      BY <1>1 DEF Press, TypeOK
  <2>2. (Pace /\ Arms /\ Hold /\ Rhythm /\ Undecided)'
      BY <1>1 DEF Press, Pace, Arms, Hold, Rhythm, Undecided
  <2>3. Trusted'
      BY <1>1 DEF Press, Trusted
  <2>4. (AnswerIsFresh /\ CrashWasHeld)'
      BY <1>1 DEF Press, Undecided, AnswerIsFresh, CrashWasHeld
  <2> QED BY <2>1, <2>2, <2>3, <2>4
<1>2. ASSUME NEW b \in Buttons, Release(b)
      PROVE  IInv'
  <2>1. TypeOK'
      BY <1>2 DEF Release, TypeOK
  <2>2. (Pace /\ Arms /\ Hold /\ Rhythm /\ Undecided)'
      BY <1>2 DEF Release, Pace, Arms, Hold, Rhythm, Undecided
  <2>3. Trusted'
      BY <1>2 DEF Release, Trusted
  <2>4. (AnswerIsFresh /\ CrashWasHeld)'
      BY <1>2 DEF Release, Undecided, AnswerIsFresh, CrashWasHeld
  <2> QED BY <2>1, <2>2, <2>3, <2>4
<1>3. CASE OverlayStarts
  <2>1. TypeOK'
      BY <1>3 DEF OverlayStarts, TypeOK
  <2>2. Pace'
      BY <1>3 DEF OverlayStarts, Pace, TypeOK
  <2>3. (Trusted /\ Arms /\ Hold /\ Rhythm /\ Undecided)'
      BY <1>3 DEF OverlayStarts, Trusted, Arms, Hold, Rhythm, Undecided
  <2>4. (AnswerIsFresh /\ CrashWasHeld)'
      BY <1>3 DEF OverlayStarts, Undecided, AnswerIsFresh, CrashWasHeld
  <2> QED BY <2>1, <2>2, <2>3, <2>4
<1>4. CASE OverlayEnds
  <2>1. TypeOK'
      BY <1>4 DEF OverlayEnds, TypeOK
  <2>2. (Pace /\ Arms /\ Hold /\ Rhythm /\ Undecided)'
      BY <1>4 DEF OverlayEnds, Pace, Arms, Hold, Rhythm, Undecided
  \* No overlay fits between two looks: one has seen it.
  <2>3. phase = "watch" => suppress
      BY <1>4 DEF OverlayEnds, Pace, TypeOK
  <2>4. Trusted'
      BY <1>4, <2>3 DEF OverlayEnds, Trusted
  <2>5. (AnswerIsFresh /\ CrashWasHeld)'
      BY <1>4 DEF OverlayEnds, AnswerIsFresh, CrashWasHeld
  <2> QED BY <2>1, <2>2, <2>4, <2>5
<1>5. CASE AdvanceTime
  <2>1. TypeOK'
      BY <1>5 DEF AdvanceTime, TypeOK
  <2>2. Pace'
      BY <1>5 DEF AdvanceTime, Pace, TypeOK
  <2>3. (Trusted /\ Arms /\ Hold /\ Rhythm /\ Undecided)'
      BY <1>5 DEF AdvanceTime, Trusted, Arms, Hold, Rhythm, Undecided, TypeOK
  <2>4. (AnswerIsFresh /\ CrashWasHeld)'
      BY <1>5 DEF AdvanceTime, Undecided, AnswerIsFresh, CrashWasHeld
  <2> QED BY <2>1, <2>2, <2>3, <2>4
<1>6. CASE Cancel
  <2>1. TypeOK'
      BY <1>6 DEF Cancel, TypeOK
  <2>2. (Pace /\ Trusted /\ Arms /\ Hold /\ Rhythm /\ Undecided)'
      BY <1>6 DEF Cancel, Pace, Trusted, Arms, Hold, Rhythm, Undecided
  <2>3. (AnswerIsFresh /\ CrashWasHeld)'
      BY <1>6 DEF Cancel, AnswerIsFresh, CrashWasHeld
  <2> QED BY <2>1, <2>2, <2>3
<1> QED BY <1>1, <1>2, <1>3, <1>4, <1>5, <1>6

\* So do the end of the wait and the first loop.
LEMMA WaitKeepsIInv ==
    ASSUME IInv, GiveUp \/ Drain
    PROVE  IInv'
<1> USE ButtonsAssumption, OutcomesDiffer
    DEF NoTime, IInv, inputVars, Waiting, Finish
<1>1. CASE GiveUp
  <2>1. TypeOK'
      BY <1>1 DEF GiveUp, TypeOK
  <2>2. (Pace /\ Trusted /\ Arms /\ Hold /\ Rhythm /\ Undecided)'
      BY <1>1 DEF GiveUp, Pace, Trusted, Arms, Hold, Rhythm, Undecided
  <2>3. (AnswerIsFresh /\ CrashWasHeld)'
      BY <1>1 DEF GiveUp, AnswerIsFresh, CrashWasHeld
  <2> QED BY <2>1, <2>2, <2>3
<1>2. CASE Drain
  <2>1. TypeOK'
      BY <1>2 DEF Drain, TypeOK
  <2>2. (Pace /\ Rhythm)'
      BY <1>2 DEF Drain, Pace, Rhythm, TypeOK
  <2>3. (Trusted /\ Arms /\ Hold /\ Undecided)'
      BY <1>2 DEF Drain, MustDrain, Trusted, Arms, Hold, Undecided
  <2>4. (AnswerIsFresh /\ CrashWasHeld)'
      BY <1>2 DEF Drain, Undecided, AnswerIsFresh, CrashWasHeld
  <2> QED BY <2>1, <2>2, <2>3, <2>4
<1> QED BY <1>1, <1>2

-----------------------------------------------------------------------------
(* The looks of the second loop. *)

\* What every look does, whether input counts or not: it is on time, beats in
\* time, and remembers what it saw.
LEMMA LookPaces ==
    ASSUME IInv, Look
    PROVE  /\ now' = now /\ due' = now + 1
           /\ beat' \in Nat
           /\ now + 1 <= beat' + BeatInterval + 1
           /\ seen' = held
           /\ together' \in Nat \cup {NoTime} /\ together' <= now
           /\ ~overlay /\ Sides \subseteq held => together' # NoTime
           /\ phase = "watch" /\ UNCHANGED <<inputVars, cancelled>>
<1> USE ButtonsAssumption DEF IInv, TypeOK, Look, NoTime
<1>1. beat' \in Nat /\ now + 1 <= beat' + BeatInterval + 1
    BY DEF Heartbeat, BeatDue
<1>2. /\ together' \in Nat \cup {NoTime} /\ together' <= now
      /\ ~overlay /\ Sides \subseteq held => together' # NoTime
    BY DEF Hold
<1>3. /\ now' = now /\ due' = now + 1 /\ seen' = held
      /\ phase = "watch" /\ UNCHANGED <<inputVars, cancelled>>
    OBVIOUS
<1> QED BY <1>1, <1>2, <1>3

\* The types a look has to see to.
LEMMA LookTypes ==
    ASSUME IInv, Look, suppress' \in BOOLEAN, phase' \in {"watch", "done"},
           armed' \subseteq Sides, combo' \in Nat \cup {NoTime},
           outcome' \in {"none", "crash", "cancelled"} \cup Buttons
    PROVE  TypeOK'
<1>1. /\ (now \in Nat)' /\ (due \in Nat)' /\ (beat \in Nat)'
      /\ (together \in Nat \cup {NoTime})'
    BY LookPaces DEF IInv, TypeOK
<1>2. UNCHANGED <<deadline, held, fresh, overlay, overlayEnd, overlays, cancelled>>
    BY LookPaces DEF inputVars
<1>3. /\ (deadline \in Deadlines)'
      /\ (held \subseteq Buttons)' /\ (fresh \subseteq Buttons)' /\ (seen \subseteq Buttons)'
      /\ (overlay \in BOOLEAN)' /\ (cancelled \in BOOLEAN)'
      /\ (overlayEnd \in Nat \cup {NoTime})' /\ (overlays \in 0..MaxOverlays)'
    BY <1>2, LookPaces, Zenon DEF IInv, TypeOK
<1> QED BY <1>1, <1>3, Zenon DEF TypeOK

\* A look that ignores the buttons: afterwards nothing is armed, and while the
\* overlay is up or anything is held input stays suppressed.
LEMMA LookAwayKeepsIInv ==
    ASSUME IInv, Look, Suppressed, LookAway
    PROVE  IInv'
<1> USE ButtonsAssumption, OutcomesDiffer, LookPaces
    DEF NoTime, IInv, inputVars, Waiting, LookAway, GoOn
<1>1. armed' = {} /\ combo' = NoTime
    BY DEF Arms, Suppressed, Look
<1>2. TypeOK'
  <2>1. suppress' \in BOOLEAN /\ phase' = phase /\ outcome' = outcome
      BY Zenon
  <2>2. phase' \in {"watch", "done"} /\ outcome' \in {"none", "crash", "cancelled"} \cup Buttons
      BY <2>1, LookPaces DEF TypeOK
  <2> QED BY <1>1, <2>1, <2>2, LookTypes
<1>3. (Pace /\ Rhythm)'
    BY DEF Pace, Rhythm, TypeOK
<1>4. (Trusted /\ Arms /\ Hold /\ Undecided)'
    BY <1>1 DEF Trusted, Arms, Hold, Undecided
<1>5. (AnswerIsFresh /\ CrashWasHeld)'
    BY DEF Undecided, AnswerIsFresh, CrashWasHeld
<1> QED BY <1>2, <1>3, <1>4, <1>5

\* A look at both sides: the combination began no earlier than they were first
\* seen together.
LEMMA LookAtBothKeepsIInv ==
    ASSUME IInv, Look, ~Suppressed, Sides \subseteq held, LookAtBoth
    PROVE  IInv'
<1> USE ButtonsAssumption, OutcomesDiffer, LookPaces
    DEF NoTime, IInv, inputVars, Waiting, LookAtBoth, HoldDone, Suppressed, GoOn, Finish
<1>1. TypeOK'
  <2>1. /\ suppress' \in BOOLEAN
        /\ phase' \in {"watch", "done"}
        /\ outcome' \in {"none", "crash", "cancelled"} \cup Buttons
      BY DEF TypeOK
  <2>2. armed' \subseteq Sides /\ combo' \in Nat \cup {NoTime}
      BY DEF TypeOK
  <2> QED BY <2>1, <2>2, LookTypes
<1>2. (Pace /\ Rhythm)'
    BY DEF Pace, Rhythm, TypeOK
<1>3. Trusted'
    BY DEF Trusted, TypeOK
<1>4. (Arms /\ Undecided)'
    BY DEF Arms, Undecided, TypeOK
<1>5. together' # NoTime /\ together' <= combo'
    BY DEF Look, Hold, TypeOK
<1>6. Hold'
    BY <1>5 DEF Hold
<1>7. (AnswerIsFresh /\ CrashWasHeld)'
    BY <1>5 DEF AnswerIsFresh, CrashWasHeld, Trusted, Undecided, TypeOK
<1> QED BY <1>1, <1>2, <1>3, <1>4, <1>6, <1>7

\* The arms such a look starts from were put up by the last look.
LEMMA KeptWasSeen ==
    ASSUME IInv, phase = "watch"
    PROVE  /\ Kept \subseteq armed /\ Kept \subseteq Sides
           /\ Kept # {} /\ Kept # Sides => Kept = seen \cap Sides
BY DEF IInv, TypeOK, Arms, Kept, Sides

\* A look at less than both sides: what answers is held or was armed.
LEMMA LookAtSomeKeepsIInv ==
    ASSUME IInv, Look, ~Suppressed, ~(Sides \subseteq held), LookAtSome
    PROVE  IInv'
<1> USE ButtonsAssumption, OutcomesDiffer, LookPaces, KeptWasSeen
    DEF NoTime, IInv, inputVars, Waiting, LookAtSome, Suppressed, GoOn, Finish
<1>1. TypeOK'
  <2>1. /\ suppress' \in BOOLEAN
        /\ phase' \in {"watch", "done"}
        /\ outcome' \in {"none", "crash", "cancelled"} \cup Buttons
      BY DEF TypeOK
  <2>2. armed' \subseteq Sides /\ combo' \in Nat \cup {NoTime}
      BY DEF TypeOK
  <2> QED BY <2>1, <2>2, LookTypes
<1>2. (Pace /\ Rhythm)'
    BY DEF Pace, Rhythm, TypeOK
<1>3. Trusted'
    BY DEF Trusted, TypeOK
<1>4. ASSUME phase' = "watch"
      PROVE  armed' # {} => armed' \in {held \cap Sides, Sides}
    BY <1>4 DEF LeftAnswers, RightAnswers, Sides
<1>5. (Arms /\ Hold /\ Undecided)'
    BY <1>4 DEF Arms, Hold, Undecided
<1>6. AnswerIsFresh'
    BY DEF AnswerIsFresh, Trusted, Undecided, LeftAnswers, RightAnswers
<1>7. CrashWasHeld'
    BY DEF CrashWasHeld, Undecided
<1> QED BY <1>1, <1>2, <1>3, <1>5, <1>6, <1>7

\* One turn of the second loop keeps the invariant.
LEMMA LookKeepsIInv ==
    ASSUME IInv, Look
    PROVE  IInv'
BY LookAwayKeepsIInv, LookAtBothKeepsIInv, LookAtSomeKeepsIInv DEF Look

\* The invariant is inductive and holds for ever.
LEMMA Inductive == Spec => []IInv
<1>1. IInv /\ [Next]_vars => IInv'
  <2> SUFFICES ASSUME IInv, [Next]_vars PROVE IInv'
      OBVIOUS
  <2>1. CASE UNCHANGED vars
    <3>1. (TypeOK /\ Pace /\ Trusted /\ Arms)'
        BY <2>1 DEF vars, inputVars, waitVars, IInv, TypeOK, Pace, Trusted, Arms, Waiting
    <3>2. (Hold /\ Rhythm /\ Undecided /\ AnswerIsFresh /\ CrashWasHeld)'
        BY <2>1 DEF vars, inputVars, waitVars, IInv, Hold, Rhythm, Undecided,
                    AnswerIsFresh, CrashWasHeld, Waiting
    <3> QED BY <3>1, <3>2 DEF IInv
  <2>2. CASE Next
      BY <2>2, WorldKeepsIInv, WaitKeepsIInv, LookKeepsIInv DEF Next
  <2> QED BY <2>1, <2>2
<1> QED BY InitIInv, <1>1, PTL DEF Spec

-----------------------------------------------------------------------------
(* The theorems. *)

\* The variables of the wait keep their types (main.rs 330-433).
THEOREM ButtonsTyped == Spec => []TypeOK
<1>1. IInv => TypeOK
    BY DEF IInv
<1> QED BY <1>1, Inductive, PTL

\* No choice of gaps, overlays and presses makes the wait take an answer that
\* was not pressed for this question.
THEOREM AnswersAreFresh == Spec => []AnswerIsFresh
<1>1. IInv => AnswerIsFresh
    BY DEF IInv
<1> QED BY <1>1, Inductive, PTL

\* The simulated crash is always a full hold of both sides.
THEOREM CrashesWereHeld == Spec => []CrashWasHeld
<1>1. IInv => CrashWasHeld
    BY DEF IInv
<1> QED BY <1>1, Inductive, PTL

\* Once the badge watches its buttons, overlays and suppressed input never keep
\* it from its heartbeat.
THEOREM HeartbeatsKeepFlowing == Spec => []HeartbeatsFlow
<1>1. IInv => HeartbeatsFlow
    BY ButtonsAssumption DEF IInv, TypeOK, Pace, Rhythm, HeartbeatsFlow
<1> QED BY <1>1, Inductive, PTL

\* A combination let go one side after the other never answers: a side answers
\* only if the last look saw it alone.
THEOREM SidesAnswerAlone == Spec => SideAnsweredAlone
<1> DEFINE Alone == outcome' # outcome /\ outcome' \in Sides => seen \cap Sides = {outcome'}
<1>1. IInv /\ [Next]_vars => [Alone]_vars
  <2> SUFFICES ASSUME IInv, Next, outcome' # outcome, outcome' \in Sides
               PROVE  seen \cap Sides = {outcome'}
      BY DEF vars
  <2>1. Look /\ ~Suppressed /\ ~(Sides \subseteq held) /\ LookAtSome
      BY DEF Next, Press, Release, OverlayStarts, OverlayEnds, AdvanceTime, Cancel,
             waitVars, GiveUp, Drain, Look, LookAway, LookAtBoth, Finish, GoOn, Sides
  <2>2. Kept = {outcome'}
      BY <2>1 DEF LookAtSome, LeftAnswers, RightAnswers, Finish, GoOn, Sides
  <2> QED BY <2>1, <2>2, KeptWasSeen DEF Look, Sides
<1> QED BY <1>1, Inductive, PTL DEF Spec, SideAnsweredAlone

\* The wait is over soon after the deadline, and after the ceiling if the badge's
\* clock never reaches the deadline: only by as much as a look may come late,
\* whatever is pressed and however long an overlay is up.
WaitIsShort == now <= deadline + MaxGap /\ now <= Ceiling + MaxGap

\* The next look is due before the wait must end.
DueInTime == due <= deadline /\ due <= Ceiling

LEMMA LooksStayInTime == IInv /\ DueInTime /\ [Next]_vars => DueInTime'
<1> SUFFICES ASSUME IInv, DueInTime, [Next]_vars PROVE DueInTime'
    OBVIOUS
<1>1. /\ deadline' = deadline
      /\ due' = due \/ (due' = now + 1 /\ ~Over)
    BY DEF Next, vars, waitVars, inputVars, Press, Release, OverlayStarts, OverlayEnds,
           AdvanceTime, Cancel, GiveUp, Drain, Look
<1>2. now \in Nat /\ deadline \in Nat /\ Ceiling \in Nat
    BY ButtonsAssumption DEF IInv, TypeOK
<1> QED BY <1>1, <1>2 DEF DueInTime, Over

\* The deadline bounds the wait, and so does the monotonic ceiling for a clock
\* that never reaches it (wait_for_choice, both loops).
THEOREM WaitsAreShort == Spec => []WaitIsShort
<1>1. Init => DueInTime
    BY ButtonsAssumption DEF Init, DueInTime
<1>2. IInv /\ DueInTime => WaitIsShort
    BY ButtonsAssumption DEF IInv, TypeOK, Pace, DueInTime, WaitIsShort
<1> QED BY <1>1, <1>2, LooksStayInTime, Inductive, PTL DEF Spec
=============================================================================

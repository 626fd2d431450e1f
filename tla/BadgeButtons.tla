---------------------------- MODULE BadgeButtons ----------------------------
(***************************************************************************)
(* How a badge waits for its holder's choice: wait_for_choice of           *)
(* firmware/src/main.rs, with the flag the power-up overlay raises.        *)
(*                                                                         *)
(* The wait looks at the four buttons every 20 ms: first until none is     *)
(* held, then until one answers.  UP and DOWN answer when they are seen    *)
(* held, LEFT and RIGHT when they are seen released, because together they *)
(* are the simulated crash.  An action Look is one turn of either loop;    *)
(* the holder, the overlay, the clock and a cancellation act between two   *)
(* looks.  A tick of the clock is one such interval; a look may come       *)
(* MaxGap ticks late.                                                      *)
(***************************************************************************)
EXTENDS Integers

CONSTANTS
    Buttons,            \* the face buttons
    PanicHold,          \* PANIC_HOLD
    BeatInterval,       \* between two heartbeats
    OverlayLength,      \* POWERUP_OVERLAY, at least
    Deadlines,          \* latest_possible_deadline_unix_ms as the badge's clock reaches it
    Ceiling,            \* MAX_ACTIVITY_RUNTIME
    MaxGap,             \* bound: how late a look comes
    MaxOverlays         \* bound: power-ups shown during the wait

ASSUME ButtonsAssumption ==
    /\ {"left", "right"} \subseteq Buttons
    /\ Buttons \subseteq {"up", "right", "down", "left"}
    /\ PanicHold \in Nat /\ BeatInterval \in Nat
    /\ Deadlines \subseteq Nat /\ Ceiling \in Nat
    /\ MaxGap \in Nat /\ MaxOverlays \in Nat
    /\ OverlayLength \in Nat /\ OverlayLength > MaxGap + 1

NoTime == -1
Sides == {"left", "right"}

VARIABLES
    now,        \* ticks since the wait began
    deadline,   \* deadline_unix_ms
    due,        \* when the next look is due
    held,       \* the buttons held down
    overlay,    \* powerup_active
    overlayEnd, \* the earliest end of the overlay
    overlays,   \* overlays so far
    cancelled,  \* ctx.is_cancelled()
    phase,      \* "drain", "watch" or "done"
    armed,      \* left_armed and right_armed
    combo,      \* combo_started
    suppress,   \* suppress_until_release
    beat,       \* last_heartbeat
    outcome,    \* "none", a button, "crash" or "cancelled"
    fresh,      \* history: buttons last pressed since the question was shown,
                \* neither before nor during an overlay
    seen,       \* history: the buttons held at the last look
    together    \* history: the first of the last looks that all saw both sides

inputVars == <<deadline, held, overlay, overlayEnd, overlays, fresh>>
waitVars  == <<due, phase, armed, combo, suppress, beat, outcome, seen, together>>
vars == <<now, inputVars, cancelled, waitVars>>

Waiting == phase # "done"

\* A question arrives whatever the holder is pressing, overlay or not.
Init ==
    /\ now = 0 /\ due = 0
    /\ deadline \in Deadlines
    /\ held \in SUBSET Buttons
    /\ overlays = 0
    /\ \/ overlay = FALSE /\ overlayEnd = NoTime
       \/ overlay = TRUE /\ overlayEnd \in 0..OverlayLength
    /\ cancelled = FALSE
    /\ phase = "drain"
    /\ armed = {} /\ combo = NoTime /\ suppress = FALSE
    /\ beat = 0
    /\ outcome = "none"
    /\ fresh = {} /\ seen = {} /\ together = NoTime

-----------------------------------------------------------------------------
(* The holder, the overlay, the clock and Temporal. *)

Press(b) ==
    /\ Waiting /\ b \notin held
    /\ held' = held \cup {b}
    /\ fresh' = IF overlay THEN fresh \ {b} ELSE fresh \cup {b}
    /\ UNCHANGED <<now, deadline, overlay, overlayEnd, overlays, cancelled, waitVars>>

Release(b) ==
    /\ Waiting /\ b \in held
    /\ held' = held \ {b}
    /\ UNCHANGED <<now, deadline, overlay, overlayEnd, overlays, fresh, cancelled, waitVars>>

\* monitor_powerups raises the flag before it draws the overlay, ...
OverlayStarts ==
    /\ Waiting /\ ~overlay /\ overlays < MaxOverlays
    /\ overlay' = TRUE
    /\ overlayEnd' = now + OverlayLength
    /\ overlays' = overlays + 1
    /\ fresh' = {}
    /\ UNCHANGED <<now, deadline, held, cancelled, waitVars>>

\* ... and lowers it once the question is drawn again.
OverlayEnds ==
    /\ overlay /\ now >= overlayEnd
    /\ overlay' = FALSE
    /\ overlayEnd' = NoTime
    /\ UNCHANGED <<now, deadline, held, overlays, fresh, cancelled, waitVars>>

AdvanceTime ==
    /\ Waiting /\ now < due + MaxGap
    /\ now' = now + 1
    /\ UNCHANGED <<inputVars, cancelled, waitVars>>

\* Temporal cancels the Activity.
Cancel ==
    /\ Waiting /\ ~cancelled
    /\ cancelled' = TRUE
    /\ UNCHANGED <<now, inputVars, waitVars>>

-----------------------------------------------------------------------------
(* Plausible slips in the definitions below, for the mutation runs. *)

\* Suppression ends with the overlay.
SuppressedByOverlay == overlay

\* Any look at both sides completes the hold.
DoneAtOnce(since) == since <= now

\* No heartbeat while answers are suppressed.
BeatUnlessSuppressed == ~overlay /\ ~suppress /\ now - beat >= BeatInterval

\* Only the second loop gives up.
GiveUpWatching ==
    /\ phase = "watch" /\ now >= due /\ (cancelled \/ now >= deadline \/ now >= Ceiling)
    /\ phase' = "done" /\ outcome' = "cancelled"
    /\ UNCHANGED <<now, inputVars, cancelled, due, armed, combo, suppress, beat,
                   seen, together>>

-----------------------------------------------------------------------------
(* wait_for_choice. *)

\* Checked at the top of both loops.
Over == cancelled \/ now >= deadline \/ now >= Ceiling

Finish(result) == phase' = "done" /\ outcome' = result
GoOn == phase' = phase /\ outcome' = outcome

\* The end of the wait by cancellation, deadline or ceiling.
GiveUp ==
    /\ Waiting /\ now >= due /\ Over
    /\ Finish("cancelled")
    /\ UNCHANGED <<now, inputVars, cancelled, due, armed, combo, suppress, beat,
                   seen, together>>

\* The first loop lets every held button go.  Nothing is awaited between its
\* last look and the first look of the second loop, which therefore finds no
\* button held either: one step.
MustDrain == held # {}

Drain ==
    /\ phase = "drain" /\ now >= due /\ ~Over
    /\ due' = now + 1
    /\ \/ MustDrain /\ phase' = phase /\ beat' = beat /\ suppress' = suppress
       \/ ~MustDrain /\ phase' = "watch" /\ beat' = now /\ suppress' = overlay
    /\ UNCHANGED <<now, inputVars, cancelled, armed, combo, outcome, seen, together>>

BeatDue == now - beat >= BeatInterval

\* The heartbeat, recorded before the buttons are looked at.
Heartbeat == beat' = IF BeatDue THEN now ELSE beat

\* The overlay, and after it anything still held, ignores every button.
Suppressed == overlay \/ suppress

\* A look while input is suppressed.
LookAway ==
    /\ suppress' = (overlay \/ held # {})
    /\ armed' = IF overlay THEN {} ELSE armed
    /\ combo' = IF overlay THEN NoTime ELSE combo
    /\ GoOn

\* The arms a look at less than both sides starts from: none, if it breaks a
\* combination.
Kept == IF combo # NoTime THEN {} ELSE armed

LeftAnswers  == "left" \notin held /\ Kept = {"left"}
RightAnswers == Sides \cap held = {} /\ Kept = {"right"}
HoldDone(since) == now - since >= PanicHold

\* A look at both sides: the combination begins, goes on or is complete.
LookAtBoth ==
    LET since == IF combo = NoTime THEN now ELSE combo
    IN  /\ combo' = since
        /\ armed' = IF HoldDone(since) THEN armed ELSE Sides
        /\ suppress' = suppress
        /\ IF HoldDone(since) THEN Finish("crash") ELSE GoOn

\* Any other look: UP before DOWN before LEFT before RIGHT.
LookAtSome ==
    /\ combo' = NoTime
    /\ suppress' = suppress
    /\ armed' = Kept \cup (Sides \cap held)
    /\ \/ "up" \in held /\ Finish("up")
       \/ "up" \notin held /\ "down" \in held /\ Finish("down")
       \/ {"up", "down"} \cap held = {} /\ LeftAnswers /\ Finish("left")
       \/ {"up", "down"} \cap held = {} /\ ~LeftAnswers /\ RightAnswers /\ Finish("right")
       \/ {"up", "down"} \cap held = {} /\ ~LeftAnswers /\ ~RightAnswers /\ GoOn

\* One turn of the second loop.
Look ==
    /\ phase = "watch" /\ now >= due /\ ~Over
    /\ Heartbeat
    /\ due' = now + 1
    /\ seen' = held
    /\ together' = IF overlay \/ ~(Sides \subseteq held) THEN NoTime
                   ELSE IF together = NoTime THEN now ELSE together
    /\ \/ Suppressed /\ LookAway
       \/ ~Suppressed /\ Sides \subseteq held /\ LookAtBoth
       \/ ~Suppressed /\ ~(Sides \subseteq held) /\ LookAtSome
    /\ UNCHANGED <<now, inputVars, cancelled>>

Next ==
    \/ \E b \in Buttons : Press(b) \/ Release(b)
    \/ OverlayStarts \/ OverlayEnds
    \/ AdvanceTime \/ Cancel
    \/ GiveUp \/ Drain \/ Look

Spec == Init /\ [][Next]_vars

\* The clock moves and the wait is scheduled; the holder does as they please.
FairSpec == Spec /\ WF_vars(AdvanceTime) /\ WF_vars(GiveUp \/ Drain \/ Look)

-----------------------------------------------------------------------------
(* Properties. *)

\* Every variable is of its kind, under any bounds.
TypeOK ==
    /\ now \in Nat /\ due \in Nat /\ beat \in Nat
    /\ deadline \in Deadlines
    /\ held \subseteq Buttons /\ fresh \subseteq Buttons /\ seen \subseteq Buttons
    /\ overlay \in BOOLEAN /\ cancelled \in BOOLEAN /\ suppress \in BOOLEAN
    /\ overlayEnd \in Nat \cup {NoTime}
    /\ overlays \in 0..MaxOverlays
    /\ phase \in {"drain", "watch", "done"}
    /\ armed \subseteq Sides
    /\ combo \in Nat \cup {NoTime} /\ together \in Nat \cup {NoTime}
    /\ outcome \in {"none", "crash", "cancelled"} \cup Buttons

\* An answer was pressed for this question: its button did not come down
\* before the question was shown, nor before or during a power-up overlay, and
\* no overlay is up.
AnswerIsFresh ==
    outcome \in Buttons => outcome \in fresh /\ ~overlay

\* LEFT or RIGHT answers only if the look before saw it without the other: a
\* combination let go at once, or cut off by an overlay, answers nothing.
SideAnsweredAlone ==
    [][outcome' # outcome /\ outcome' \in Sides => seen \cap Sides = {outcome'}]_vars

\* The simulated crash takes both sides, pressed for this question and seen
\* held at every look for the whole hold.
CrashWasHeld ==
    outcome = "crash" => /\ Sides \subseteq fresh \cap held
                         /\ together # NoTime /\ now - together >= PanicHold

\* Once it watches the buttons the badge never misses a heartbeat by more than
\* a late look, overlays and suppressed input included.
HeartbeatsFlow == phase = "watch" => now <= beat + BeatInterval + 1 + MaxGap

\* The wait ends though nobody lets go of a button, a clock that never reaches
\* the deadline included: the monotonic ceiling.
WaitEnds == <>(phase = "done")

\* "Press the directional button matching the on-screen answer position": a side
\* the last look saw held alone, with input counted, answers when it is let go.
PressedSideAnswers ==
    [][\A s \in Sides :
           (/\ Look /\ ~Suppressed
            /\ s \in armed /\ seen \cap Sides = {s} /\ Sides \cap held = {})
           => outcome' \in Buttons]_vars
=============================================================================

----------------------------- MODULE EventWindow -----------------------------
(***************************************************************************)
(* The durable event feed of a round: GameSnapshot::push_kind of           *)
(* shared/src/lib.rs, through which every event of web/src/workflow.rs     *)
(* passes.                                                                 *)
(*                                                                         *)
(* push_kind appends an event and, while the window is too long, removes   *)
(* its first routine answer, or its first event if it holds no answer.     *)
(* Events are only appended and removed, so the vector stays in push order *)
(* and an event is the number of its push; of its kind only "is it an      *)
(* Answer" is ever read.                                                   *)
(***************************************************************************)
EXTENDS Integers, FiniteSets

CONSTANTS
    Window,     \* EVENT_WINDOW
    MaxPushes   \* bound: events pushed in a round

ASSUME WindowAssumption == Window \in Nat \ {0} /\ MaxPushes \in Nat

VARIABLES
    events,     \* snapshot.events
    pushed,     \* history: number of events pushed
    answers     \* history: the pushed events of kind Answer

vars == <<events, pushed, answers>>

First(S) == CHOOSE e \in S : \A f \in S : e <= f

\* Mutant: the oldest event goes, whatever its kind.
OldestVictim(full, routine) == First(full)

\* The event removed from an overfull window.
Victim(full, routine) == IF full \cap routine # {} THEN First(full \cap routine)
                                                   ELSE First(full)

Overflows(full) == Cardinality(full) > Window

Init == events = {} /\ pushed = 0 /\ answers = {}

\* push_kind.  The window was not overfull before, so its loop runs at most
\* once.
PushKind(isAnswer) ==
    LET full    == events \cup {pushed + 1}
        routine == IF isAnswer THEN answers \cup {pushed + 1} ELSE answers
    IN  /\ pushed < MaxPushes
        /\ pushed' = pushed + 1
        /\ answers' = routine
        /\ events' = IF Overflows(full) THEN full \ {Victim(full, routine)} ELSE full

Next == \E isAnswer \in BOOLEAN : PushKind(isAnswer)

Spec == Init /\ [][Next]_vars

-----------------------------------------------------------------------------
(* Properties. *)

Pushes == 1..pushed
Story  == Pushes \ answers

\* The last n members of S.
LastOf(S, n) == {e \in S : Cardinality({f \in S : f > e}) < n}

\* The variables are of their kinds and the window is never overfull.
TypeOK ==
    /\ pushed \in 0..MaxPushes
    /\ events \subseteq Pushes
    /\ answers \subseteq Pushes
    /\ Cardinality(events) <= Window

\* "The durable story survives until the window fills with it": however
\* answers and story events alternate, the feed holds the latest story events,
\* as many as fit, and the room they leave holds the latest answers.
FeedIsLatestStory ==
    LET story == LastOf(Story, Window)
    IN  events = story \cup LastOf(answers, Window - Cardinality(story))
=============================================================================

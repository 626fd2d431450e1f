----------------------------- MODULE TriviaGame -----------------------------
(***************************************************************************)
(* What a round of the trivia game promises, whatever schedules it.        *)
(*                                                                         *)
(* A round opens once; badges join it late or never; badges are scored on  *)
(* questions while it is open, each question at most once, for one point   *)
(* or, while double points is active, two; and closing the round names the *)
(* leaders of the final board.  Nothing happens to a closed round.  An     *)
(* answer may also be the one that closes the round (sudden death, or an   *)
(* answer the Workflow handles with its deadline already behind it).       *)
(*                                                                         *)
(* GameWorkflow is shown to implement this specification.                  *)
(***************************************************************************)
EXTENDS Integers

CONSTANTS Badges, Questions

VARIABLES
    phase,      \* "Waiting", "Running" or "Finished"
    members,    \* the badges on the board
    scored,     \* the questions whose answer has been recorded
    points,     \* the score of every badge
    podium      \* the winners, named when the round closes

game == <<phase, members, scored, points, podium>>

Worth == {-2, -1, 1, 2}

Best(S, p) == {b \in S : \A c \in S : p[c] <= p[b]}

Init ==
    /\ phase = "Waiting"
    /\ members = {}
    /\ scored = {}
    /\ points = [b \in Badges |-> 0]
    /\ podium = {}

\* The round goes on, or it closes and the leaders of the board as it then
\* stands are named.
GoOn == phase' = "Running" /\ podium' = podium
Shut == phase' = "Finished" /\ podium' = Best(members', points')

\* The round opens; a round with nothing to ask closes at once.
Open ==
    /\ phase = "Waiting"
    /\ UNCHANGED <<members, scored, points>>
    /\ GoOn \/ Shut

Join(b) ==
    /\ phase = "Running"
    /\ members' = members \cup {b}
    /\ UNCHANGED <<phase, scored, points, podium>>

\* Badge b is scored on q, and the round may close on that answer.
Answer(b, q, worth) ==
    /\ phase = "Running"
    /\ q \notin scored
    /\ scored' = scored \cup {q}
    /\ members' = members \cup {b}
    /\ points' = [points EXCEPT ![b] = @ + worth]
    /\ GoOn \/ Shut

\* The round closes without an answer.
Expire ==
    /\ phase = "Running"
    /\ UNCHANGED <<members, scored, points>>
    /\ Shut

Next ==
    \/ Open
    \/ \E b \in Badges : Join(b)
    \/ \E b \in Badges, q \in Questions, worth \in Worth : Answer(b, q, worth)
    \/ Expire

Spec == Init /\ [][Next]_game
=============================================================================

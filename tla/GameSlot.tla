------------------------------ MODULE GameSlot ------------------------------
(***************************************************************************)
(* What the controller promises about its one game slot, whatever requests *)
(* race and wherever it crashes.                                           *)
(*                                                                         *)
(* Games are played one at a time, each at most once and in the order they *)
(* were drawn, and only a game that took the slot begins.  A controller in *)
(* service lets go of the slot only when its game is not being played, or  *)
(* when it was never told that the game had begun; and it goes into        *)
(* service with the game being played in its slot, unless nobody answered  *)
(* when it asked for that game.                                            *)
(*                                                                         *)
(* Controller is shown to implement this specification.                    *)
(***************************************************************************)
EXTENDS Integers

CONSTANT MaxGames

VARIABLES
    drawn,      \* the games drawn so far
    holder,     \* the game that holds the slot
    latest,     \* the game begun last
    playing,    \* it is still being played
    serving,    \* the controller is in service
    lost        \* the game that was begun, or is played, without its knowledge

slot == <<drawn, holder, latest, playing, serving, lost>>

Nobody == 0

Init ==
    /\ drawn = 0
    /\ holder = Nobody
    /\ latest = Nobody
    /\ playing = FALSE
    /\ serving = FALSE
    /\ lost = Nobody

Take ==
    /\ serving
    /\ holder = Nobody
    /\ drawn < MaxGames
    /\ drawn' = drawn + 1
    /\ holder' = drawn + 1
    /\ UNCHANGED <<latest, playing, serving, lost>>

\* The holder's game begins: it is a new one, and no other is being played.
Begins ==
    /\ holder > latest
    /\ ~playing
    /\ latest' = holder
    /\ playing' = TRUE

Begin ==
    /\ Begins
    /\ lost' \in {lost, holder}
    /\ UNCHANGED <<drawn, holder, serving>>

Finish ==
    /\ playing
    /\ playing' = FALSE
    /\ UNCHANGED <<drawn, holder, latest, serving, lost>>

Release ==
    /\ serving
    /\ playing /\ latest = holder => lost = holder
    /\ holder' = Nobody
    /\ UNCHANGED <<drawn, latest, playing, serving, lost>>

\* The controller crashes, perhaps just as the holder's game begins.
Crash ==
    /\ serving' = FALSE
    /\ holder' = Nobody
    /\ Begins \/ UNCHANGED <<latest, playing>>
    /\ UNCHANGED <<drawn, lost>>

\* Before it serves again it asks for the latest game and takes it back.
Recover ==
    /\ ~serving
    /\ holder' = IF playing THEN latest ELSE holder
    /\ lost' = Nobody
    /\ UNCHANGED <<drawn, latest, playing, serving>>

Serve ==
    /\ ~serving
    /\ serving' = TRUE
    /\ lost' = IF playing /\ holder # latest THEN latest ELSE lost
    /\ UNCHANGED <<drawn, holder, latest, playing>>

Next == Take \/ Begin \/ Finish \/ Release \/ Crash \/ Recover \/ Serve

Spec == Init /\ [][Next]_slot
=============================================================================

--------------------------- MODULE MCGameWorkflow ---------------------------
(***************************************************************************)
(* Small instances of GameWorkflow for TLC.                                *)
(***************************************************************************)
EXTENDS GameWorkflow, TLC

CONSTANTS b1, b2, b3

TwoBadges   == {b1, b2}
ThreeBadges == {b1, b2, b3}

\* The middle question of the deck is the Rust one.
SecondIsRust == {2}
NoRust == {}

AllChaos == AllCommands
NoChaos  == {}

Symmetry == Permutations(Badges)
=============================================================================

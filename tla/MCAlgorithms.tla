---------------------------- MODULE MCAlgorithms ----------------------------
(***************************************************************************)
(* Small instances of the three sequential algorithms: Deck, ScreenText    *)
(* and EventWindow.  They share no state, and a behaviour runs one of them *)
(* while the other two stay in a fixed state.                              *)
(***************************************************************************)
EXTENDS Deck, ScreenText, EventWindow

\* Four banks and a pattern of six, for the 30, 15, 15 and 40 of the code.
MCQuota == <<2, 1, 1, 2>>
MCBanks == (0 .. 3) \X (0 .. 2) \X (0 .. 2) \X (0 .. 4)
MCNoBanks == {<<0, 0, 0, 0>>}
MCNoMaximum == {0}
MCMaxima == {0, 1, 5, 6, 8, 11}

UpTo(n, lengths) == UNION {[1 .. k -> lengths] : k \in 1 .. n}

\* What the Rust and the Temporal bank hold, by the lengths of the words.
RustAnswers ==
    {<<1>>, <<2>>, <<2, 3>>, <<2, 7>>, <<3>>, <<3, 4>>, <<3, 5>>, <<4>>, <<4, 1>>,
     <<4, 6>>, <<4, 9>>, <<5>>, <<5, 2>>, <<5, 3>>, <<5, 4>>, <<5, 5>>, <<5, 6>>,
     <<5, 8>>, <<6>>, <<6, 4>>, <<6, 6>>, <<6, 8>>, <<7>>, <<7, 8>>, <<8>>, <<8, 4>>,
     <<10>>, <<11>>, <<12>>, <<13>>}
TemporalAnswers ==
    {<<3, 7>>, <<4>>, <<4, 5>>, <<5>>, <<5, 2>>, <<5, 6>>, <<5, 7>>, <<6>>, <<6, 3>>,
     <<6, 4>>, <<6, 5>>, <<7>>, <<8>>, <<8, 2>>, <<8, 3>>, <<8, 6>>, <<9>>, <<9, 6>>,
     <<10>>, <<11>>, <<13>>, <<14>>, <<15>>, <<17>>}
MCShippedAnswers == RustAnswers \cup TemporalAnswers

\* Answers of up to twenty characters, on and about the eleven of a label.
MCAnswers ==
    MCShippedAnswers
        \cup {t \in UpTo(3, {1, 4, 6, 7, 11, 12, 20}) : Characters(t) <= 20}

\* Answers of the Open Trivia DB snapshot: "United States, 1817" (and 1917, of
\* the same question), "The Fiftieth State", "Java Virtual Machine" and "Led
\* Zeppelin III".
MCSourceAnswers == {<<6, 7, 4>>, <<3, 8, 5>>, <<4, 7, 7>>, <<3, 8, 3>>}
MCNone == {}

\* Prompts of up to 68 characters, on and about the 31 of a line.
MCPrompts ==
    {t \in UpTo(4, {1, 15, 16, 31, 32, 63, 68}) : Characters(t) <= 68}

\* A deck and a text that are finished.
NoDeck ==
    /\ size = <<0, 0, 0, 0>> /\ cursor = size
    /\ clash = TRUE /\ maximum = 0 /\ length = 0
    /\ bucket = 1 /\ batch = {} /\ deck = <<>>
    /\ phase = "failed"
NoText ==
    /\ text = <<1>> /\ field = PromptField
    /\ pieces = {[line |-> 1, at |-> 0, word |-> 1, from |-> 0, chars |-> 1]}
    /\ lines = 1 /\ column = 0 /\ word = 2 /\ taken = 0
    /\ drawing = FALSE

VARIABLE part   \* the algorithm that this behaviour runs

partVars == <<part, deckVars, screenVars, vars>>

PartsInit ==
    \/ part = "deck" /\ DeckInit /\ NoText /\ Init
    \/ part = "text" /\ NoDeck /\ ScreenInit /\ Init
    \/ part = "feed" /\ NoDeck /\ NoText /\ Init

DeckStep == part = "deck" /\ DeckNext /\ UNCHANGED <<part, screenVars, vars>>
TextStep == part = "text" /\ ScreenNext /\ UNCHANGED <<part, deckVars, vars>>
FeedStep == part = "feed" /\ Next /\ UNCHANGED <<part, deckVars, screenVars>>

PartsNext == DeckStep \/ TextStep \/ FeedStep

PartsSpec == PartsInit /\ [][PartsNext]_partVars

FairPartsSpec == PartsSpec /\ WF_partVars(DeckStep)
=============================================================================

-------------------------------- MODULE Deck --------------------------------
(***************************************************************************)
(* build_deck of web/src/questions.rs: how the Controller assembles the    *)
(* questions of a round from four shuffled banks.                          *)
(*                                                                         *)
(* A question is <<bucket, index>>, its place in the shuffled bank, so the *)
(* shuffles of the banks need no state; the shuffle of a batch is why a    *)
(* batch of the deck is a set.  The text of a question matters only to     *)
(* validate_questions, which refuses a deck with a repeated prompt: the    *)
(* prompts of the generated math bank are kept, and `clash` says whether   *)
(* a prompt of one of the other banks is repeated.                         *)
(***************************************************************************)
EXTENDS Integers, Sequences, FiniteSetsExt

CONSTANTS
    Quota,   \* questions of each bucket in a batch: 30, 15, 15 and 40
    Banks,   \* the sizes of the four banks that are considered
    Maxima   \* the deck sizes that are asked for (start_game asks for 500)

Buckets == 1 .. 4
General == 4

ASSUME QuotaAssumption == Quota \in [Buckets -> Nat \ {0}]
ASSUME BanksAssumption == Banks \subseteq [Buckets -> Nat]
ASSUME MaximaAssumption == Maxima \subseteq Nat

VARIABLES
    size,     \* bucket.len() of each bank
    clash,    \* a prompt of the authored or general banks is repeated
    maximum,  \* the size of the deck that was asked for
    cursor,   \* cursors: how many questions of each bank are used
    bucket,   \* the entry of the pattern being dealt, past the last one after it
    batch,    \* the batch being dealt
    deck,     \* the batches dealt so far
    length,   \* deck.len()
    phase     \* where build_deck is

deckVars == <<size, clash, maximum, cursor, bucket, batch, deck, length, phase>>

DeckInit ==
    /\ size \in Banks
    /\ clash \in BOOLEAN
    /\ maximum \in Maxima
    /\ cursor = [b \in Buckets |-> 0]
    /\ bucket = 1
    /\ batch = {}
    /\ deck = <<>>
    /\ length = 0
    /\ phase = "validate"
-----------------------------------------------------------------------------
Available(b) == size[b] - cursor[b]
Room == maximum - length - Cardinality(batch)

(* Plausible slips in the definitions below, for the mutation runs. *)

\* The two summands repeat together.
SamePeriod(n) == <<(n % 13) + 3, (n % 13) + 4>>

\* Every batch starts again at the head of the bank.
DealtFromStart(b, n) == {b} \X (1 .. n)

\* An empty batch does not end the dealing.
NeverStops ==
    /\ phase = "dealing"
    /\ bucket \notin Buckets
    /\ deck' = IF batch = {} THEN deck ELSE Append(deck, batch)
    /\ length' = length + Cardinality(batch)
    /\ batch' = {}
    /\ bucket' = 1
    /\ UNCHANGED <<size, clash, maximum, cursor, phase>>

-----------------------------------------------------------------------------
(* The prompt of the n-th question of the math bank is its two summands. *)
MathNumbers == 11 .. 110
MathPrompt(n) == <<(n % 17) + 3, (n % 13) + 4>>

MathRepeats == \E m, n \in MathNumbers : m # n /\ MathPrompt(m) = MathPrompt(n)

(* validate_questions over the four banks, before anything is dealt. *)
Validate ==
    /\ phase = "validate"
    /\ phase' = IF clash \/ MathRepeats THEN "failed" ELSE "dealing"
    /\ UNCHANGED <<size, clash, maximum, cursor, bucket, batch, deck, length>>

Dealt(b) == Min({Quota[b], Available(b), Room})
NextOf(b, n) == {b} \X (cursor[b] + 1 .. cursor[b] + n)

(* One entry of the pattern: up to its quota, until the deck or bank ends. *)
DealBucket ==
    /\ phase = "dealing"
    /\ bucket \in Buckets
    /\ bucket > 1 \/ length < maximum
    /\ batch' = batch \cup NextOf(bucket, Dealt(bucket))
    /\ cursor' = [cursor EXCEPT ![bucket] = @ + Dealt(bucket)]
    /\ bucket' = bucket + 1
    /\ UNCHANGED <<size, clash, maximum, deck, length, phase>>

(* A dealt batch joins the deck; an empty one ends the dealing. *)
EndBatch ==
    /\ phase = "dealing"
    /\ bucket \notin Buckets
    /\ IF batch = {}
         THEN /\ phase' = "rest"
              /\ UNCHANGED <<deck, length>>
         ELSE /\ deck' = Append(deck, batch)
              /\ length' = length + Cardinality(batch)
              /\ UNCHANGED phase
    /\ batch' = {}
    /\ bucket' = 1
    /\ UNCHANGED <<size, clash, maximum, cursor>>

(* The dealing also ends when the deck has the size asked for. *)
DeckIsFull ==
    /\ phase = "dealing"
    /\ bucket = 1
    /\ length = maximum
    /\ phase' = "rest"
    /\ UNCHANGED <<size, clash, maximum, cursor, bucket, batch, deck, length>>

(* The loop after the dealing fills up with general questions, and a deck  *)
(* that is still short is refused.                                         *)
Extra == Min({maximum - length, Available(General)})

FillUp ==
    /\ phase = "rest"
    /\ deck' = deck \o [k \in 1 .. Extra |-> NextOf(General, k) \ NextOf(General, k - 1)]
    /\ length' = length + Extra
    /\ cursor' = [cursor EXCEPT ![General] = @ + Extra]
    /\ phase' = IF length + Extra = maximum THEN "ready" ELSE "failed"
    /\ UNCHANGED <<size, clash, maximum, bucket, batch>>

DeckNext == Validate \/ DealBucket \/ EndBatch \/ DeckIsFull \/ FillUp

DeckSpec == DeckInit /\ [][DeckNext]_deckVars
FairDeckSpec == DeckSpec /\ WF_deckVars(DeckNext)
-----------------------------------------------------------------------------
Questions(b) == {b} \X (1 .. size[b])
Bank == UNION {Questions(b) : b \in Buckets}
DeckedUpTo(k) == UNION {deck[j] : j \in 1 .. k}

DeckTypeOK ==
    /\ size \in [Buckets -> Nat]
    /\ clash \in BOOLEAN
    /\ maximum \in Nat
    /\ cursor \in [Buckets -> Nat]
    /\ \A b \in Buckets : cursor[b] <= size[b]
    /\ bucket \in 1 .. 5
    /\ batch \subseteq Bank
    /\ deck \in Seq(SUBSET Bank)
    /\ length \in 0 .. maximum
    /\ phase \in {"validate", "dealing", "rest", "ready", "failed"}

(* No question is dealt twice: the batches of the deck, and the one being  *)
(* dealt, have no question in common (a question seen before is a free     *)
(* point, and the second one would be refused by validate_questions).      *)
NoQuestionTwice ==
    /\ \A j, k \in DOMAIN deck : j # k => deck[j] \cap deck[k] = {}
    /\ \A k \in DOMAIN deck : deck[k] \cap batch = {}

(* A deck that is handed out has exactly the size asked for: what the deck *)
(* holds, question by question, not what was counted.  It is refused only  *)
(* for want of questions or for a repeated prompt in the authored banks:   *)
(* neither the generated math bank nor an exhausted category ever costs    *)
(* the round its deck.                                                     *)
CompleteOrShort ==
    /\ phase = "ready" => Cardinality(DeckedUpTo(Len(deck))) = maximum
    /\ phase = "failed" => clash \/ size[1] + size[2] + size[3] + size[4] < maximum

(* Every batch but the last has the agreed mix: a category gets less than  *)
(* its quota only when it has run out, and then stays away for good.  The  *)
(* dealing alone exhausts the general bank or fills the deck: the loop     *)
(* after it, which would add unmixed general questions, adds none.         *)
Share(k, b) == Cardinality({q \in deck[k] : q[1] = b})

MixKept ==
    /\ \A k \in DOMAIN deck, b \in Buckets :
          \/ k = Len(deck)
          \/ Share(k, b) = Quota[b]
          \/ Questions(b) \subseteq DeckedUpTo(k)
    /\ phase = "rest" => Extra = 0

(* The deck holds each question once and in the agreed mix, whichever      *)
(* category runs out, and wherever in a batch.                             *)
WellDealt == DeckTypeOK /\ NoQuestionTwice /\ MixKept

(* build_deck ends, with a deck or with an error, however small the banks  *)
(* are: the batch that comes out empty stops the loop.                     *)
DeckEnds == phase = "validate" ~> phase \in {"ready", "failed"}
=============================================================================

-------------------------- MODULE AlgorithmProofs ---------------------------
(***************************************************************************)
(* Theorems about the sequential algorithms: Deck, EventWindow, ScreenText.*)
(*                                                                         *)
(* Deck: for every quota and every size of the banks, a question is dealt  *)
(* once, every batch but the last keeps the mix, and a deck that is handed *)
(* out has the size that was asked for.  The cursors say all there is to   *)
(* say: what was dealt from a bank is its questions up to the cursor, so   *)
(* what comes next is new, and how much was dealt is the sum of the        *)
(* cursors.                                                                *)
(*                                                                         *)
(* EventWindow: for every window and every number of events, the feed      *)
(* holds the latest story.  The contents of the window are first described *)
(* without counting: its story events and its answers are each the latest  *)
(* ones, it has room left only while nothing was evicted, and story events *)
(* were evicted only after the last answer.  That is inductive, and a      *)
(* suffix is determined by its size.                                       *)
(*                                                                         *)
(* ScreenText: whatever the lengths of its words, a text is drawn inside   *)
(* its box and from its beginning, and the authored answers to their end.  *)
(* What is on the panel is what the cursor of wrap has passed: the next    *)
(* piece is read after all of it, and shows the letters that come next.    *)
(***************************************************************************)
EXTENDS Deck, EventWindow, ScreenText, Counting, SequenceTheorems

-----------------------------------------------------------------------------
(* The deck. *)

Decked == DeckedUpTo(Len(deck))
DealtOut == cursor[1] + cursor[2] + cursor[3] + cursor[4]
UsedUp == \A b \in Buckets : cursor[b] = size[b]

\* What was dealt is what the cursors have passed.
Passed == \A b \in Buckets : \A i \in 1 .. size[b] :
             <<b, i>> \in Decked \cup batch <=> i <= cursor[b]

\* The counters count what was dealt.
Counted ==
    /\ IsFiniteSet(Decked) /\ IsFiniteSet(batch)
    /\ length = Cardinality(Decked)
    /\ length + Cardinality(batch) = DealtOut
    /\ length + Cardinality(batch) <= maximum

\* A batch takes the banks in their order, each up to its quota, to the end of
\* the bank or to the end of the deck.
BatchShare(b) == Cardinality({q \in batch : q[1] = b})

Dealing ==
    /\ \A q \in batch : q[1] < bucket
    /\ \A b \in Buckets : b < bucket => \/ BatchShare(b) = Quota[b]
                                        \/ cursor[b] = size[b]
                                        \/ length + Cardinality(batch) = maximum
    /\ bucket > 1 => phase = "dealing" /\ length < maximum
    /\ batch = {} => \A b \in Buckets : b < bucket => cursor[b] = size[b]

\* Where build_deck is, and what it knows there.
Phases ==
    /\ phase = "validate" => length = 0
    /\ phase \in {"rest", "ready"} => length = maximum \/ UsedUp
    /\ phase = "ready" => length = maximum
    /\ phase = "failed" => clash \/ (length < maximum /\ UsedUp)

\* A batch of the deck has the mix, unless it is the last of a full deck.
Mixed ==
    \A k \in DOMAIN deck, b \in Buckets :
        \/ k = Len(deck) /\ length = maximum
        \/ Share(k, b) = Quota[b]
        \/ Questions(b) \subseteq DeckedUpTo(k)

DInv == DeckTypeOK /\ NoQuestionTwice /\ Passed /\ Counted /\ Dealing /\ Phases /\ Mixed

-----------------------------------------------------------------------------
(* Numbers and sets. *)

LEMMA MinOfTwo ==
    ASSUME NEW x \in Int, NEW y \in Int
    PROVE  Min({x, y}) \in {x, y} /\ Min({x, y}) <= x /\ Min({x, y}) <= y
<1>1. \E m \in {x, y} : \A z \in {x, y} : m <= z
    OBVIOUS
<1>2. Min({x, y}) \in {x, y} /\ \A z \in {x, y} : Min({x, y}) <= z
    BY <1>1 DEF Min
<1> QED BY <1>2

LEMMA MinOfThree ==
    ASSUME NEW x \in Int, NEW y \in Int, NEW z \in Int
    PROVE  /\ Min({x, y, z}) \in {x, y, z}
           /\ Min({x, y, z}) <= x /\ Min({x, y, z}) <= y /\ Min({x, y, z}) <= z
<1>1. \E m \in {x, y, z} : \A w \in {x, y, z} : m <= w
    OBVIOUS
<1>2. Min({x, y, z}) \in {x, y, z} /\ \A w \in {x, y, z} : Min({x, y, z}) <= w
    BY <1>1 DEF Min
<1> QED BY <1>2

\* The prompts of the math bank are distinct: seventeen and thirteen do not meet
\* again within a hundred (math_questions).
LEMMA MathPromptsDiffer == ~MathRepeats
<1> SUFFICES ASSUME NEW m \in MathNumbers, NEW n \in MathNumbers, m # n
             PROVE  MathPrompt(m) # MathPrompt(n)
    BY DEF MathRepeats
<1>1. m % 17 = n % 17 /\ m % 13 = n % 13 => m = n
    BY DEF MathNumbers
<1> QED BY <1>1 DEF MathPrompt, MathNumbers

LEMMA NextOfSize ==
    ASSUME NEW b \in Buckets, cursor[b] \in Nat, NEW n \in Nat
    PROVE  IsFiniteSet(NextOf(b, n)) /\ Cardinality(NextOf(b, n)) = n
<1>1. IsFiniteSet({b}) /\ Cardinality({b}) = 1
    BY FS_Singleton
<1> DEFINE next == cursor[b] + 1 .. cursor[b] + n
<1>2. IsFiniteSet(next) /\ Cardinality(next) = n
    BY FS_Interval
<1> HIDE DEF next
<1>3. IsFiniteSet({b} \X next) /\ Cardinality({b} \X next) = 1 * n
    BY <1>1, <1>2, FS_Product
<1> QED BY <1>3 DEF NextOf, next

LEMMA DealtIsLeast ==
    ASSUME DInv, bucket \in Buckets
    PROVE  /\ Dealt(bucket) \in Nat
           /\ Dealt(bucket) <= Available(bucket) /\ Dealt(bucket) <= Room
           /\ Dealt(bucket) \in {Quota[bucket], Available(bucket), Room}
           /\ Available(bucket) = size[bucket] - cursor[bucket]
           /\ Room = maximum - length - Cardinality(batch)
           /\ cursor[bucket] \in Nat /\ size[bucket] \in Nat /\ Quota[bucket] \in Nat \ {0}
<1>1. /\ Quota[bucket] \in Nat \ {0} /\ cursor[bucket] \in Nat /\ size[bucket] \in Nat
      /\ cursor[bucket] <= size[bucket]
    BY QuotaAssumption DEF DInv, DeckTypeOK
<1>2. Cardinality(batch) \in Nat /\ length \in Nat /\ maximum \in Nat
    BY FS_CardinalityType DEF DInv, Counted, DeckTypeOK
<1>3. Available(bucket) \in Nat /\ Room \in Nat
  <2>1. length + Cardinality(batch) <= maximum
      BY DEF DInv, Counted
  <2> QED BY <1>1, <1>2, <2>1 DEF Available, Room
<1>4. /\ Dealt(bucket) \in {Quota[bucket], Available(bucket), Room}
      /\ Dealt(bucket) <= Available(bucket) /\ Dealt(bucket) <= Room
  <2> DEFINE x == Quota[bucket]
             y == Available(bucket)
             z == Room
             least == Min({x, y, z})
  <2>1. x \in Int /\ y \in Int /\ z \in Int
      BY <1>1, <1>3
  <2>2. Dealt(bucket) = least
      BY Zenon DEF Dealt
  <2> HIDE DEF x, y, z
  <2>3. least \in {x, y, z} /\ least <= x /\ least <= y /\ least <= z
      BY <2>1, MinOfThree, Zenon
  <2> HIDE DEF least
  <2> QED BY <2>2, <2>3, Zenon DEF x, y, z
<1>5. Dealt(bucket) \in Nat
    BY <1>1, <1>3, <1>4
<1> QED BY <1>1, <1>4, <1>5 DEF Available, Room

LEMMA InitDInv == DeckInit => DInv
<1> SUFFICES ASSUME DeckInit PROVE DInv
    OBVIOUS
<1>1. /\ size \in [Buckets -> Nat] /\ maximum \in Nat /\ clash \in BOOLEAN
      /\ cursor \in [Buckets -> Nat] /\ \A b \in Buckets : cursor[b] = 0
      /\ bucket = 1 /\ batch = {} /\ deck = <<>> /\ length = 0 /\ phase = "validate"
    BY BanksAssumption, MaximaAssumption DEF DeckInit
<1>2. Decked = {}
    BY <1>1 DEF Decked, DeckedUpTo
<1>3. DeckTypeOK
    BY <1>1 DEF DeckTypeOK
<1>4. IsFiniteSet({}) /\ Cardinality({}) = 0
    BY FS_EmptySet
<1>5. Counted
    BY <1>1, <1>2, <1>4 DEF Counted, DealtOut, Buckets
<1>6. NoQuestionTwice /\ Passed /\ Dealing /\ Phases /\ Mixed
    BY <1>1, <1>2 DEF NoQuestionTwice, Passed, Dealing, Phases, Mixed, Buckets
<1> QED BY <1>3, <1>5, <1>6 DEF DInv

\* What the invariant says of the deck and the cursors does not depend on where
\* build_deck is.
LEMMA SameDeckKeeps ==
    ASSUME DInv, UNCHANGED <<size, clash, maximum, cursor, batch, deck, length>>,
           bucket' \in 1 .. 5, phase' \in {"validate", "dealing", "rest", "ready", "failed"}
    PROVE  DeckTypeOK' /\ NoQuestionTwice' /\ Passed' /\ Counted' /\ Mixed'
<1>1. Bank' = Bank /\ Decked' = Decked
    BY DEF Bank, Questions, Decked, DeckedUpTo
<1>2. DeckTypeOK'
    BY <1>1 DEF DInv, DeckTypeOK
<1>3. NoQuestionTwice'
    BY DEF DInv, NoQuestionTwice
<1>4. Passed'
    BY <1>1 DEF DInv, Passed
<1>5. Counted'
    BY <1>1 DEF DInv, Counted, DealtOut
<1>6. Mixed'
    BY DEF DInv, Mixed, Share, Questions, DeckedUpTo
<1> QED BY <1>2, <1>3, <1>4, <1>5, <1>6

\* Validation only fails over the authored banks.
LEMMA ValidateKeepsDInv ==
    ASSUME DInv, Validate
    PROVE  DInv'
<1>1. /\ phase = "validate" /\ UNCHANGED <<size, clash, maximum, cursor, bucket, batch, deck, length>>
      /\ phase' \in {"failed", "dealing"} /\ (phase' = "failed" => clash)
    BY MathPromptsDiffer DEF Validate
<1>2. DeckTypeOK' /\ NoQuestionTwice' /\ Passed' /\ Counted' /\ Mixed'
    BY <1>1, SameDeckKeeps DEF DInv, DeckTypeOK
<1>3. Dealing' /\ Phases'
    BY <1>1 DEF DInv, Dealing, Phases, BatchShare
<1> QED BY <1>2, <1>3 DEF DInv

LEMMA DeckIsFullKeepsDInv ==
    ASSUME DInv, DeckIsFull
    PROVE  DInv'
<1>1. /\ bucket = 1 /\ length = maximum /\ phase' = "rest"
      /\ UNCHANGED <<size, clash, maximum, cursor, bucket, batch, deck, length>>
    BY DEF DeckIsFull
<1>2. DeckTypeOK' /\ NoQuestionTwice' /\ Passed' /\ Counted' /\ Mixed'
    BY <1>1, SameDeckKeeps DEF DInv, DeckTypeOK
<1>3. Dealing' /\ Phases'
    BY <1>1 DEF DInv, Dealing, Phases, BatchShare
<1> QED BY <1>2, <1>3 DEF DInv

\* Before the first bank of the pattern, the batch is empty.
LEMMA NoBatchYet ==
    ASSUME DInv, bucket = 1
    PROVE  batch = {}
<1> SUFFICES ASSUME NEW q \in batch PROVE FALSE
    OBVIOUS
<1>1. \E b \in Buckets : q[1] = b
    BY DEF DInv, DeckTypeOK, Bank, Questions
<1>2. q[1] < 1
    BY DEF DInv, Dealing
<1> QED BY <1>1, <1>2 DEF Buckets

\* What remains in the general bank never fits: there is nothing left to fill up.
LEMMA NothingToFillUp ==
    ASSUME DInv, phase = "rest"
    PROVE  /\ Extra = 0 /\ bucket = 1 /\ batch = {}
           /\ length = maximum \/ (length < maximum /\ UsedUp)
<1>1. bucket = 1
    BY DEF DInv, Dealing, DeckTypeOK
<1>2. batch = {}
    BY <1>1, NoBatchYet
<1>3. /\ maximum \in Nat /\ length \in Nat /\ length <= maximum
      /\ size[4] \in Nat /\ cursor[4] \in Nat /\ cursor[4] <= size[4]
    BY DEF DInv, DeckTypeOK, Buckets
<1>4. length = maximum \/ (length < maximum /\ UsedUp)
    BY <1>3 DEF DInv, Phases
<1>5. Available(4) \in Nat /\ (maximum - length) \in Nat
      /\ (maximum - length = 0 \/ Available(4) = 0)
    BY <1>3, <1>4 DEF Available, UsedUp, Buckets
<1>6. Extra = 0
  <2> DEFINE x == maximum - length
             y == Available(General)
             least == Min({x, y})
  <2>1. x \in Nat /\ y \in Nat /\ (x = 0 \/ y = 0)
      BY <1>5 DEF General
  <2>2. Extra = least
      BY Zenon DEF Extra
  <2> HIDE DEF x, y
  <2>3. least \in {x, y} /\ least <= x /\ least <= y
      BY <2>1, MinOfTwo
  <2> HIDE DEF least
  <2> QED BY <2>1, <2>2, <2>3
<1> QED BY <1>1, <1>2, <1>4, <1>6

LEMMA FillUpKeepsDInv ==
    ASSUME DInv, FillUp
    PROVE  DInv'
<1>1. phase = "rest" /\ UNCHANGED <<size, clash, maximum, bucket, batch>>
    BY DEF FillUp
<1>2. /\ Extra = 0 /\ bucket = 1 /\ batch = {}
      /\ length = maximum \/ (length < maximum /\ UsedUp)
    BY <1>1, NothingToFillUp
<1>3. length \in Nat /\ maximum \in Nat /\ deck \in Seq(SUBSET Bank)
      /\ cursor \in [Buckets -> Nat]
    BY DEF DInv, DeckTypeOK
<1>4. deck' = deck
  <2>1. [k \in 1 .. Extra |-> NextOf(General, k) \ NextOf(General, k - 1)] = <<>>
      BY <1>2
  <2> QED BY <1>3, <2>1, ConcatEmptySeq DEF FillUp
<1>5. length' = length /\ cursor' = cursor
    BY <1>2, <1>3 DEF FillUp, General, Buckets
<1>6. phase' = IF length = maximum THEN "ready" ELSE "failed"
    BY <1>2, <1>3 DEF FillUp
<1>7. DeckTypeOK' /\ NoQuestionTwice' /\ Passed' /\ Counted' /\ Mixed'
    BY <1>1, <1>2, <1>4, <1>5, <1>6, SameDeckKeeps
<1>8. Dealing' /\ Phases'
    BY <1>1, <1>2, <1>5, <1>6 DEF DInv, Dealing, Phases, UsedUp, BatchShare, Buckets
<1> QED BY <1>7, <1>8 DEF DInv


\* What is dealt next is new: it lies beyond the cursor of its bank.
LEMMA NextIsNew ==
    ASSUME DInv, bucket \in Buckets
    PROVE  /\ NextOf(bucket, Dealt(bucket)) \subseteq Questions(bucket)
           /\ NextOf(bucket, Dealt(bucket)) \cap (Decked \cup batch) = {}
<1> DEFINE n == Dealt(bucket)
<1>1. /\ n \in Nat /\ n <= size[bucket] - cursor[bucket]
      /\ cursor[bucket] \in Nat /\ size[bucket] \in Nat
    BY DealtIsLeast
<1> HIDE DEF n
<1>2. ASSUME NEW q \in NextOf(bucket, n)
      PROVE  q \in Questions(bucket) /\ q \notin Decked \cup batch
  <2>1. PICK i \in cursor[bucket] + 1 .. cursor[bucket] + n : q = <<bucket, i>>
      BY DEF NextOf
  <2>2. i \in 1 .. size[bucket] /\ ~(i <= cursor[bucket])
      BY <1>1, <2>1
  <2>3. q \in Questions(bucket)
      BY <2>1, <2>2 DEF Questions
  <2>4. <<bucket, i>> \notin Decked \cup batch
      BY <2>2 DEF DInv, Passed
  <2> QED BY <2>1, <2>3, <2>4
<1> QED BY <1>2 DEF n

LEMMA DealBucketKeepsDInv ==
    ASSUME DInv, DealBucket
    PROVE  DInv'
<1> DEFINE n == Dealt(bucket)
           next == NextOf(bucket, n)
<1>1. /\ phase = "dealing" /\ bucket \in Buckets /\ batch' = batch \cup next
      /\ cursor' = [cursor EXCEPT ![bucket] = @ + n] /\ bucket' = bucket + 1
      /\ UNCHANGED <<size, clash, maximum, deck, length, phase>>
    BY DEF DealBucket
<1>2. /\ n \in Nat /\ n <= size[bucket] - cursor[bucket]
      /\ n <= maximum - length - Cardinality(batch)
      /\ n \in {Quota[bucket], size[bucket] - cursor[bucket],
                maximum - length - Cardinality(batch)}
      /\ cursor[bucket] \in Nat /\ size[bucket] \in Nat /\ Quota[bucket] \in Nat \ {0}
    BY <1>1, DealtIsLeast
<1>3. next \subseteq Questions(bucket) /\ next \cap (Decked \cup batch) = {}
    BY <1>1, NextIsNew
<1>4. IsFiniteSet(next) /\ Cardinality(next) = n
    BY <1>1, <1>2, NextOfSize
<1>5. \A q : q \in next <=> \E i \in cursor[bucket] + 1 .. cursor[bucket] + n : q = <<bucket, i>>
    BY DEF NextOf
<1> HIDE DEF n, next
<1>6. /\ size \in [Buckets -> Nat] /\ cursor \in [Buckets -> Nat]
      /\ \A b \in Buckets : cursor[b] <= size[b]
      /\ bucket \in 1 .. 4 /\ maximum \in Nat /\ length \in Nat
      /\ batch \subseteq Bank /\ deck \in Seq(SUBSET Bank)
    BY <1>1 DEF DInv, DeckTypeOK, Buckets
<1>7. cursor' \in [Buckets -> Nat]
      /\ \A b \in Buckets : cursor'[b] = IF b = bucket THEN cursor[b] + n ELSE cursor[b]
    BY <1>1, <1>2, <1>6
<1>8. Bank' = Bank /\ Decked' = Decked
    BY <1>1 DEF Bank, Questions, Decked, DeckedUpTo
<1>9. Questions(bucket) \subseteq Bank
    BY <1>1 DEF Bank
<1>10. DeckTypeOK'
  <2>1. \A b \in Buckets : cursor'[b] <= size[b]
    <3> SUFFICES ASSUME NEW b \in Buckets PROVE cursor'[b] <= size[b]
        OBVIOUS
    <3>1. cursor[b] \in Nat /\ size[b] \in Nat /\ cursor[b] <= size[b]
        BY <1>6
    <3>2. cursor'[b] = IF b = bucket THEN cursor[b] + n ELSE cursor[b]
        BY <1>7
    <3>3. b = bucket => cursor[b] + n <= size[b]
        BY <1>2
    <3> QED BY <3>1, <3>2, <3>3
  <2>2. batch' \subseteq Bank' /\ deck' \in Seq(SUBSET Bank')
      BY <1>1, <1>3, <1>6, <1>8, <1>9
  <2>3. bucket' \in 1 .. 5
      BY <1>1, <1>6
  <2> QED BY <1>1, <1>7, <2>1, <2>2, <2>3 DEF DInv, DeckTypeOK
<1>11. NoQuestionTwice'
  <2>1. \A k \in DOMAIN deck : deck[k] \subseteq Decked
      BY <1>6 DEF Decked, DeckedUpTo
  <2> QED BY <1>1, <1>3, <2>1 DEF DInv, NoQuestionTwice
<1>12. Passed'
  <2> SUFFICES ASSUME NEW b \in Buckets, NEW i \in 1 .. size[b]
               PROVE  <<b, i>> \in Decked \cup batch' <=> i <= cursor'[b]
      BY <1>1, <1>8 DEF Passed
  <2>1. <<b, i>> \in Decked \cup batch <=> i <= cursor[b]
      BY DEF DInv, Passed
  <2>2. <<b, i>> \in next <=> b = bucket /\ i \in cursor[bucket] + 1 .. cursor[bucket] + n
      BY <1>5
  <2>3. i \in Nat /\ cursor[b] \in Nat
      BY <1>6
  <2>4. CASE b = bucket
      BY <1>1, <1>2, <1>7, <2>1, <2>2, <2>3, <2>4
  <2>5. CASE b # bucket
      BY <1>1, <1>7, <2>1, <2>2, <2>5
  <2> QED BY <2>4, <2>5
<1>13. IsFiniteSet(batch) /\ Cardinality(batch) \in Nat
    BY FS_CardinalityType DEF DInv, Counted
<1>14. IsFiniteSet(batch') /\ Cardinality(batch') = Cardinality(batch) + n
  <2>1. batch \cap next = {}
      BY <1>3
  <2>2. /\ IsFiniteSet(batch \cup next)
        /\ Cardinality(batch \cup next) =
             Cardinality(batch) + Cardinality(next) - Cardinality(batch \cap next)
      BY <1>4, <1>13, FS_Union
  <2> QED BY <1>1, <1>2, <1>4, <1>13, <2>1, <2>2, FS_EmptySet
<1>15. Counted'
  <2>1. DealtOut' = DealtOut + n
    <3>1. /\ cursor'[1] = IF bucket = 1 THEN cursor[1] + n ELSE cursor[1]
          /\ cursor'[2] = IF bucket = 2 THEN cursor[2] + n ELSE cursor[2]
          /\ cursor'[3] = IF bucket = 3 THEN cursor[3] + n ELSE cursor[3]
          /\ cursor'[4] = IF bucket = 4 THEN cursor[4] + n ELSE cursor[4]
        BY <1>7 DEF Buckets
    <3>2. cursor[1] \in Nat /\ cursor[2] \in Nat /\ cursor[3] \in Nat /\ cursor[4] \in Nat
        BY <1>6 DEF Buckets
    <3>3. bucket = 1 \/ bucket = 2 \/ bucket = 3 \/ bucket = 4
        BY <1>6
    <3> QED BY <1>2, <3>1, <3>2, <3>3 DEF DealtOut
  <2>2. length + Cardinality(batch) = DealtOut
      BY DEF DInv, Counted
  <2>3. length' + Cardinality(batch') = DealtOut'
      BY <1>1, <1>2, <1>6, <1>13, <1>14, <2>1, <2>2
  <2>4. length' + Cardinality(batch') <= maximum'
      BY <1>1, <1>2, <1>6, <1>13, <1>14
  <2>5. IsFiniteSet(Decked') /\ length' = Cardinality(Decked')
      BY <1>1, <1>8 DEF DInv, Counted
  <2> QED BY <1>14, <2>3, <2>4, <2>5 DEF Counted
<1>16. length < maximum
    BY <1>1, <1>6 DEF DealBucket, DInv, Dealing
<1>17. \A q \in next : q[1] = bucket
    BY <1>5
<1>18. \A q \in batch : q[1] < bucket /\ q[1] \in Int
  <2>1. \A q \in Bank : q[1] \in Buckets
      BY DEF Bank, Questions
  <2> QED BY <1>6, <2>1 DEF DInv, Dealing, Buckets
<1>19. Dealing'
  <2>1. \A q \in batch' : q[1] < bucket'
      BY <1>1, <1>6, <1>17, <1>18
  <2>2. ASSUME NEW b \in Buckets, b < bucket'
        PROVE  \/ BatchShare(b)' = Quota[b]
               \/ cursor'[b] = size'[b]
               \/ length' + Cardinality(batch') = maximum'
    <3>1. CASE b = bucket
      <4>1. {q \in batch' : q[1] = b} = next
          BY <1>1, <1>6, <1>17, <1>18, <3>1
      <4>2. BatchShare(b)' = n
          BY <1>4, <4>1 DEF BatchShare
      <4> QED BY <1>1, <1>2, <1>6, <1>7, <1>13, <1>14, <3>1, <4>2
    <3>2. CASE b # bucket
      <4>1. {q \in batch' : q[1] = b} = {q \in batch : q[1] = b}
          BY <1>1, <1>17, <3>2
      <4>2. BatchShare(b)' = BatchShare(b)
          BY <4>1 DEF BatchShare
      <4>3. b < bucket
          BY <1>1, <1>6, <2>2, <3>2 DEF Buckets
      <4>4. \/ BatchShare(b) = Quota[b]
            \/ cursor[b] = size[b]
            \/ length + Cardinality(batch) = maximum
          BY <4>3 DEF DInv, Dealing
      <4>5. cursor'[b] = cursor[b]
          BY <1>7, <3>2
      <4>6. length + Cardinality(batch) = maximum => n = 0
          BY <1>2, <1>6, <1>13
      <4>7. length + Cardinality(batch) = maximum => length' + Cardinality(batch') = maximum'
          BY <1>1, <1>6, <1>13, <1>14, <4>6
      <4> QED BY <1>1, <4>2, <4>4, <4>5, <4>7
    <3> QED BY <3>1, <3>2
  <2>3. phase' = "dealing" /\ length' < maximum'
      BY <1>1, <1>16
  <2>4. ASSUME batch' = {}, NEW b \in Buckets, b < bucket'
        PROVE  cursor'[b] = size'[b]
    <3>1. batch = {} /\ Cardinality(batch) = 0 /\ n = 0
        BY <1>1, <1>4, <2>4, FS_EmptySet
    <3>2. cursor[bucket] = size[bucket]
        BY <1>2, <1>6, <1>16, <3>1
    <3>3. b < bucket => cursor[b] = size[b]
        BY <3>1 DEF DInv, Dealing
    <3>4. b < bucket \/ b = bucket
        BY <1>1, <1>6, <2>4 DEF Buckets
    <3> QED BY <1>1, <1>2, <1>6, <1>7, <3>1, <3>2, <3>3, <3>4
  <2> QED BY <2>1, <2>2, <2>3, <2>4 DEF Dealing
<1>20. Phases'
    BY <1>1 DEF Phases
<1>21. Mixed'
  <2>1. UNCHANGED <<size, deck, maximum, length>>
      BY <1>1
  <2> QED BY <2>1 DEF DInv, Mixed, Share, Questions, DeckedUpTo
<1> QED BY <1>10, <1>11, <1>12, <1>15, <1>19, <1>20, <1>21 DEF DInv

\* An empty batch means that every bank is used up.
LEMMA EmptyBatchKeepsDInv ==
    ASSUME DInv, EndBatch, batch = {}
    PROVE  DInv'
<1>1. /\ phase = "dealing" /\ phase' = "rest" /\ bucket' = 1 /\ batch' = batch
      /\ UNCHANGED <<size, clash, maximum, cursor, deck, length>>
    BY DEF EndBatch
<1>2. bucket = 5
    BY DEF EndBatch, DInv, DeckTypeOK, Buckets
<1>3. UsedUp
    BY <1>2 DEF DInv, Dealing, UsedUp, Buckets
<1>4. bucket' \in 1 .. 5
    BY <1>1
<1>5. DeckTypeOK' /\ NoQuestionTwice' /\ Passed' /\ Counted' /\ Mixed'
    BY <1>1, <1>4, SameDeckKeeps
<1>6. UsedUp'
    BY <1>1, <1>3 DEF UsedUp
<1>7. Phases'
    BY <1>1, <1>6 DEF Phases
<1>8. Dealing'
    BY <1>1 DEF Dealing, Buckets
<1> QED BY <1>5, <1>7, <1>8 DEF DInv

\* A batch that joins the deck has the mix, unless it is the last.
LEMMA DealtBatchKeepsDInv ==
    ASSUME DInv, EndBatch, batch # {}
    PROVE  DInv'
<1>1. /\ phase = "dealing" /\ phase' = phase /\ bucket' = 1 /\ batch' = {}
      /\ deck' = Append(deck, batch) /\ length' = length + Cardinality(batch)
      /\ UNCHANGED <<size, clash, maximum, cursor>>
    BY DEF EndBatch
<1>2. bucket = 5
    BY DEF EndBatch, DInv, DeckTypeOK, Buckets
<1>3. length < maximum
    BY <1>2 DEF DInv, Dealing
<1>4. deck \in Seq(SUBSET Bank) /\ batch \in SUBSET Bank /\ maximum \in Nat /\ length \in Nat
    BY DEF DInv, DeckTypeOK
<1>5. /\ Len(deck) \in Nat /\ DOMAIN deck = 1 .. Len(deck)
      /\ Len(deck') = Len(deck) + 1 /\ DOMAIN deck' = 1 .. Len(deck) + 1
      /\ \A k \in 1 .. Len(deck) : deck'[k] = deck[k]
      /\ deck'[Len(deck) + 1] = batch
    BY <1>1, <1>4
<1>6. \A k \in 1 .. Len(deck) : DeckedUpTo(k)' = DeckedUpTo(k)
    BY <1>5 DEF DeckedUpTo
<1>7. Decked' = Decked \cup batch
  <2>1. \A q \in Decked' : q \in Decked \cup batch
      BY <1>5 DEF Decked, DeckedUpTo
  <2>2. \A q \in Decked : q \in Decked'
      BY <1>5 DEF Decked, DeckedUpTo
  <2>3. \A q \in batch : q \in Decked'
      BY <1>5 DEF Decked, DeckedUpTo
  <2> QED BY <2>1, <2>2, <2>3
<1>8. Decked \cap batch = {}
    BY <1>5 DEF DInv, NoQuestionTwice, Decked, DeckedUpTo
<1>9. /\ IsFiniteSet(Decked) /\ IsFiniteSet(batch) /\ Cardinality(batch) \in Nat
      /\ length = Cardinality(Decked) /\ length + Cardinality(batch) = DealtOut
      /\ length + Cardinality(batch) <= maximum
    BY FS_CardinalityType DEF DInv, Counted
<1>10. IsFiniteSet(Decked') /\ Cardinality(Decked') = length + Cardinality(batch)
  <2>1. /\ IsFiniteSet(Decked \cup batch)
        /\ Cardinality(Decked \cup batch) =
             Cardinality(Decked) + Cardinality(batch) - Cardinality(Decked \cap batch)
      BY <1>9, FS_Union
  <2>2. Cardinality(Decked \cap batch) = 0
      BY <1>8, FS_EmptySet
  <2> QED BY <1>4, <1>7, <1>9, <2>1, <2>2
<1>11. IsFiniteSet({}) /\ Cardinality({}) = 0
    BY FS_EmptySet
<1>12. DeckTypeOK'
  <2>1. Bank' = Bank
      BY <1>1 DEF Bank, Questions
  <2>2. deck' \in Seq(SUBSET Bank')
      BY <1>1, <1>4, <2>1
  <2>3. length' \in 0 .. maximum'
      BY <1>1, <1>4, <1>9
  <2>4. batch' \subseteq Bank' /\ bucket' \in 1 .. 5
      BY <1>1
  <2> QED BY <1>1, <2>2, <2>3, <2>4 DEF DInv, DeckTypeOK
<1>13. NoQuestionTwice'
  <2>1. \A k \in 1 .. Len(deck) : deck[k] \cap batch = {} /\ deck'[k] = deck[k]
      BY <1>5 DEF DInv, NoQuestionTwice
  <2>2. \A j, k \in 1 .. Len(deck) : j # k => deck[j] \cap deck[k] = {}
      BY <1>5 DEF DInv, NoQuestionTwice
  <2>3. \A k \in DOMAIN deck' : k \in 1 .. Len(deck) \/ k = Len(deck) + 1
      BY <1>5
  <2>4. ASSUME NEW j \in DOMAIN deck', NEW k \in DOMAIN deck', j # k
        PROVE  deck'[j] \cap deck'[k] = {}
    <3>1. CASE j \in 1 .. Len(deck) /\ k \in 1 .. Len(deck)
        BY <2>1, <2>2, <2>4, <3>1
    <3>2. CASE j = Len(deck) + 1 \/ k = Len(deck) + 1
        BY <1>5, <2>1, <2>3, <2>4, <3>2
    <3> QED BY <2>3, <3>1, <3>2
  <2> QED BY <1>1, <2>4 DEF NoQuestionTwice
<1>14. Passed'
    BY <1>1, <1>7 DEF DInv, Passed
<1>15. Counted'
  <2>1. DealtOut' = DealtOut
      BY <1>1 DEF DealtOut
  <2>2. Cardinality(batch') = 0 /\ IsFiniteSet(batch')
      BY <1>1, <1>11
  <2>3. length' + Cardinality(batch') = length + Cardinality(batch)
      BY <1>1, <1>4, <1>9, <2>2
  <2> QED BY <1>1, <1>9, <1>10, <2>1, <2>2, <2>3 DEF Counted
<1>16. Dealing'
    BY <1>1 DEF Dealing, Buckets
<1>17. Phases'
    BY <1>1 DEF Phases
<1>18. Mixed'
  <2> SUFFICES ASSUME NEW k \in 1 .. Len(deck) + 1, NEW b \in Buckets
               PROVE  \/ k = Len(deck') /\ length' = maximum
                      \/ Share(k, b)' = Quota[b]
                      \/ Questions(b) \subseteq DeckedUpTo(k)'
    <3>1. \A b \in Buckets : Questions(b)' = Questions(b)
        BY <1>1 DEF Questions
    <3> QED BY <1>1, <1>5, <3>1 DEF Mixed
  <2>1. CASE k = Len(deck) + 1
    <3>1. Share(k, b)' = BatchShare(b)
        BY <1>5, <2>1 DEF Share, BatchShare
    <3>2. DeckedUpTo(k)' = Decked \cup batch
        BY <1>5, <1>7, <2>1 DEF Decked
    <3>3. cursor[b] = size[b] => Questions(b) \subseteq Decked \cup batch
        BY DEF DInv, Passed, Questions
    <3>4. BatchShare(b) = Quota[b] \/ cursor[b] = size[b] \/ length + Cardinality(batch) = maximum
        BY <1>2 DEF DInv, Dealing, Buckets
    <3> QED BY <1>1, <1>5, <2>1, <3>1, <3>2, <3>3, <3>4
  <2>2. CASE k \in 1 .. Len(deck)
    <3>1. Share(k, b)' = Share(k, b) /\ DeckedUpTo(k)' = DeckedUpTo(k)
        BY <1>5, <1>6, <2>2 DEF Share
    <3>2. Share(k, b) = Quota[b] \/ Questions(b) \subseteq DeckedUpTo(k)
        BY <1>3, <1>4, <1>5, <2>2 DEF DInv, Mixed
    <3> QED BY <3>1, <3>2
  <2> QED BY <1>5, <2>1, <2>2
<1> QED BY <1>12, <1>13, <1>14, <1>15, <1>16, <1>17, <1>18 DEF DInv

-----------------------------------------------------------------------------
LEMMA NextKeepsDInv == DInv /\ [DeckNext]_deckVars => DInv'
<1> SUFFICES ASSUME DInv, [DeckNext]_deckVars PROVE DInv'
    OBVIOUS
<1>1. CASE Validate
    BY <1>1, ValidateKeepsDInv
<1>2. CASE DealBucket
    BY <1>2, DealBucketKeepsDInv
<1>3. CASE EndBatch
    BY <1>3, EmptyBatchKeepsDInv, DealtBatchKeepsDInv
<1>4. CASE DeckIsFull
    BY <1>4, DeckIsFullKeepsDInv
<1>5. CASE FillUp
    BY <1>5, FillUpKeepsDInv
<1>6. CASE UNCHANGED deckVars
  <2>1. UNCHANGED <<size, clash, maximum, cursor, bucket, batch, deck, length, phase>>
      BY <1>6 DEF deckVars
  <2>2. phase' \in {"validate", "dealing", "rest", "ready", "failed"} /\ bucket' \in 1 .. 5
      BY <2>1 DEF DInv, DeckTypeOK
  <2>3. DeckTypeOK' /\ NoQuestionTwice' /\ Passed' /\ Counted' /\ Mixed'
      BY <2>1, <2>2, SameDeckKeeps
  <2>4. Dealing' /\ Phases'
      BY <2>1 DEF DInv, Dealing, Phases, BatchShare, UsedUp
  <2> QED BY <2>3, <2>4 DEF DInv
<1> QED BY <1>1, <1>2, <1>3, <1>4, <1>5, <1>6 DEF DeckNext

LEMMA AlwaysDInv == DeckSpec => []DInv
<1> QED BY InitDInv, NextKeepsDInv, PTL DEF DeckSpec

LEMMA DInvImpliesWellDealt == DInv => WellDealt
<1> SUFFICES ASSUME DInv PROVE WellDealt
    OBVIOUS
<1>1. phase = "rest" => Extra = 0
    BY NothingToFillUp
<1>2. MixKept
    BY <1>1 DEF DInv, Mixed, MixKept
<1> QED BY <1>2 DEF DInv, WellDealt

LEMMA DInvImpliesCompleteOrShort == DInv => CompleteOrShort
<1> SUFFICES ASSUME DInv PROVE CompleteOrShort
    OBVIOUS
<1>1. phase = "ready" => Cardinality(DeckedUpTo(Len(deck))) = maximum
    BY DEF DInv, Phases, Counted, Decked
<1>2. ASSUME phase = "failed", ~clash
      PROVE  size[1] + size[2] + size[3] + size[4] < maximum
  <2>1. length < maximum /\ UsedUp
      BY <1>2 DEF DInv, Phases
  <2>2. bucket = 1
      BY <1>2 DEF DInv, Dealing, DeckTypeOK
  <2>3. Cardinality(batch) = 0
      BY <2>2, NoBatchYet, FS_EmptySet
  <2>4. length \in Nat /\ length + Cardinality(batch) = DealtOut
      BY DEF DInv, DeckTypeOK, Counted
  <2>5. DealtOut = size[1] + size[2] + size[3] + size[4]
      BY <2>1 DEF UsedUp, DealtOut, Buckets
  <2> QED BY <2>1, <2>3, <2>4, <2>5
<1> QED BY <1>1, <1>2 DEF CompleteOrShort

\* The deck holds each question once and in the agreed mix, for every quota,
\* every size of the banks and every size that is asked for (build_deck).
THEOREM DeckIsWellDealt == DeckSpec => []WellDealt
<1> QED BY AlwaysDInv, DInvImpliesWellDealt, PTL

\* A deck that is handed out has the size that was asked for, and is refused
\* only for want of questions or for a repeated prompt (build_deck).
THEOREM DeckIsCompleteOrShort == DeckSpec => []CompleteOrShort
<1> QED BY AlwaysDInv, DInvImpliesCompleteOrShort, PTL

\* A step of the dealing goes on to the next phase, or on in this one: more in the
\* deck, or the same and further in the pattern.
DeckAdvances ==
    \/ phase = "validate" /\ phase' \in {"dealing", "failed"}
    \/ phase = "dealing" /\ phase' = "rest"
    \/ phase = "rest" /\ phase' \in {"ready", "failed"}
    \/ /\ phase' = phase
       /\ length' <= maximum /\ bucket' <= 5
       /\ length < length' \/ (length = length' /\ bucket < bucket')

LEMMA DeckStepAdvances ==
    ASSUME DInv, DeckNext
    PROVE  DeckAdvances
<1>1. /\ length \in Nat /\ bucket \in 1 .. 5 /\ maximum \in Nat
      /\ length' <= maximum /\ bucket' <= 5
  <2>1. DInv'
      BY NextKeepsDInv
  <2>2. maximum' = maximum
      BY DEF DeckNext, Validate, DealBucket, EndBatch, DeckIsFull, FillUp
  <2> QED BY <2>1, <2>2 DEF DInv, DeckTypeOK
<1>2. ASSUME EndBatch, batch # {}
      PROVE  phase' = phase /\ length < length'
  <2>1. Cardinality(batch) \in Nat /\ Cardinality(batch) # 0
      BY <1>2, FS_CardinalityType, FS_EmptySet DEF DInv, Counted
  <2>2. phase' = phase /\ length' = length + Cardinality(batch)
      BY <1>2 DEF EndBatch
  <2> QED BY <1>1, <2>1, <2>2
<1>3. ASSUME EndBatch, batch = {}
      PROVE  phase = "dealing" /\ phase' = "rest"
    BY <1>3 DEF EndBatch
<1>4. CASE DealBucket
  <2>1. phase' = phase /\ length' = length /\ bucket' = bucket + 1
      BY <1>4 DEF DealBucket
  <2> QED BY <1>1, <2>1 DEF DeckAdvances
<1>5. CASE Validate
    BY <1>5 DEF Validate, DeckAdvances
<1>6. CASE DeckIsFull \/ FillUp
    BY <1>6 DEF DeckIsFull, FillUp, DeckAdvances
<1> QED BY <1>1, <1>2, <1>3, <1>4, <1>5, <1>6 DEF DeckNext, DeckAdvances

\* The loops of build_deck have no bound of their own.  Each of their steps
\* advances, through four phases, a deck of at most the size asked for and a
\* pattern of four: however small the banks are, they come to an end.
THEOREM DealingAdvances == DeckSpec => [][DeckAdvances]_deckVars
<1>1. DInv /\ [DeckNext]_deckVars => [DeckAdvances]_deckVars
    BY DeckStepAdvances
<1> QED BY <1>1, AlwaysDInv, PTL DEF DeckSpec

-----------------------------------------------------------------------------
(* The event feed. *)

\* With e, T holds everything of S above e.
Suffix(T, S) == T \subseteq S /\ \A e \in T, f \in S : f > e => f \in T

\* The inductive invariant.
FeedInv ==
    /\ TypeOK
    /\ Suffix(events \cap Story, Story)
    /\ Suffix(events \cap answers, answers)
    /\ events # Pushes => Cardinality(events) = Window
    /\ Story \subseteq events \/ events \cap answers = {}

-----------------------------------------------------------------------------
\* A nonempty set of naturals has a least member, so First is defined.
LEMMA FirstIsLeast ==
    ASSUME NEW S \in SUBSET Nat, S # {}
    PROVE  First(S) \in S /\ \A f \in S : First(S) <= f
<1>1. \E e \in S : \A f \in S : e <= f
    BY LeastMember
<1> QED BY <1>1 DEF First

-----------------------------------------------------------------------------
(* A suffix is determined by its size. *)

\* LastOf takes all of a set that has no more than n members.
LEMMA LastOfAll ==
    ASSUME NEW S \in SUBSET Nat, IsFiniteSet(S), NEW n \in Nat, Cardinality(S) <= n
    PROVE  LastOf(S, n) = S
<1>1. ASSUME NEW e \in S
      PROVE  Cardinality({f \in S : f > e}) < n
  <2> DEFINE above == {f \in S : f > e}
  <2>1. above \in SUBSET (S \ {e})
      OBVIOUS
  <2>2. IsFiniteSet(S \ {e}) /\ Cardinality(S \ {e}) = Cardinality(S) - 1
      BY FS_RemoveElement
  <2> HIDE DEF above
  <2>3. IsFiniteSet(above) /\ Cardinality(above) <= Cardinality(S \ {e})
      BY <2>1, <2>2, FS_Subset
  <2>4. Cardinality(above) \in Nat /\ Cardinality(S) \in Nat
      BY <2>3, FS_CardinalityType
  <2> QED BY <2>2, <2>3, <2>4 DEF above
<1> QED BY <1>1 DEF LastOf

\* A suffix is what LastOf takes of its size.
LEMMA SuffixIsLast ==
    ASSUME NEW S \in SUBSET Nat, IsFiniteSet(S), NEW T, Suffix(T, S)
    PROVE  LastOf(S, Cardinality(T)) = T
<1>0. IsFiniteSet(T) /\ Cardinality(T) \in Nat /\ T \in SUBSET S
    BY FS_Subset, FS_CardinalityType DEF Suffix
<1>1. ASSUME NEW e \in T
      PROVE  Cardinality({f \in S : f > e}) < Cardinality(T)
  <2> DEFINE above == {f \in S : f > e}
  <2>1. above \in SUBSET (T \ {e})
    <3>1. \A f \in S : f > e => f \in T
        BY DEF Suffix
    <3>2. \A f \in S : f > e => f # e
        BY <1>0
    <3> QED BY <3>1, <3>2
  <2>2. IsFiniteSet(T \ {e}) /\ Cardinality(T \ {e}) = Cardinality(T) - 1
      BY <1>0, FS_RemoveElement
  <2> HIDE DEF above
  <2>3. IsFiniteSet(above) /\ Cardinality(above) <= Cardinality(T \ {e})
      BY <2>1, <2>2, FS_Subset
  <2>4. Cardinality(above) \in Nat
      BY <2>3, FS_CardinalityType
  <2> QED BY <1>0, <2>2, <2>3, <2>4 DEF above
<1>2. ASSUME NEW e \in S, e \notin T
      PROVE  ~(Cardinality({f \in S : f > e}) < Cardinality(T))
  <2> DEFINE above == {f \in S : f > e}
  <2>1. T \in SUBSET above
      BY <1>0, <1>2 DEF Suffix
  <2>2. above \in SUBSET S
      OBVIOUS
  <2> HIDE DEF above
  <2>3. IsFiniteSet(above)
      BY <2>2, FS_Subset
  <2>4. Cardinality(T) <= Cardinality(above) /\ Cardinality(above) \in Nat
      BY <2>1, <2>3, FS_Subset, FS_CardinalityType
  <2> QED BY <1>0, <2>4 DEF above
<1> QED BY <1>0, <1>1, <1>2 DEF LastOf
-----------------------------------------------------------------------------
(* The invariant. *)

LEMMA FeedFinite ==
    ASSUME TypeOK
    PROVE  /\ IsFiniteSet(events) /\ IsFiniteSet(answers) /\ IsFiniteSet(Story)
           /\ events \in SUBSET Nat /\ answers \in SUBSET Nat /\ Story \in SUBSET Nat
           /\ Cardinality(events) \in Nat
           /\ pushed + 1 \notin Pushes
<1>1. IsFiniteSet(Pushes) /\ Pushes \subseteq Nat /\ pushed + 1 \notin Pushes
    BY FS_Interval, WindowAssumption DEF TypeOK, Pushes
<1>2. events \in SUBSET Pushes /\ answers \in SUBSET Pushes /\ Story \in SUBSET Pushes
    BY DEF TypeOK, Story
<1> QED BY <1>1, <1>2, FS_Subset, FS_CardinalityType

LEMMA FeedInit == Init => FeedInv
<1> SUFFICES ASSUME Init
             PROVE  FeedInv
    OBVIOUS
<1>1. events = {} /\ answers = {} /\ pushed = 0 /\ Pushes = {} /\ Story = {}
    BY DEF Init, Pushes, Story
<1>2. Cardinality(events) = 0
    BY <1>1, FS_EmptySet
<1> QED BY <1>1, <1>2, WindowAssumption DEF FeedInv, TypeOK, Suffix

\* What push_kind does to an event set: the window grows by the new event, and
\* loses its victim when it overflows.
LEMMA PushStep ==
    ASSUME FeedInv, NEW isAnswer \in BOOLEAN, PushKind(isAnswer)
    PROVE  FeedInv'
<1> DEFINE n == pushed + 1
           full == events \cup {n}
           routine == IF isAnswer THEN answers \cup {n} ELSE answers
           v == Victim(full, routine)
<1>0. TypeOK
    BY DEF FeedInv
<1>1. /\ pushed' = n /\ answers' = routine
      /\ events' = IF Overflows(full) THEN full \ {v} ELSE full
      /\ pushed' \in 0..MaxPushes
    BY <1>0, WindowAssumption DEF PushKind, TypeOK
<1>2. /\ IsFiniteSet(events) /\ Cardinality(events) \in Nat
      /\ events \in SUBSET Pushes /\ answers \in SUBSET Pushes
      /\ Story = Pushes \ answers
      /\ n \notin Pushes /\ n \in Nat /\ Pushes \in SUBSET Nat
      /\ \A e \in Pushes : e < n
    BY <1>0, FeedFinite, WindowAssumption DEF TypeOK, Story, Pushes
<1>3. /\ Pushes' = Pushes \cup {n}
      /\ Story' = IF isAnswer THEN Story ELSE Story \cup {n}
  <2>1. Pushes' = Pushes \cup {n}
      BY <1>0, <1>1, WindowAssumption DEF Pushes, TypeOK
  <2> QED BY <1>1, <1>2, <2>1 DEF Story
<1>4. /\ IsFiniteSet(full) /\ Cardinality(full) = Cardinality(events) + 1
      /\ n \notin events
    BY <1>2, FS_AddElement
<1>5. /\ v \in full
      /\ full \cap routine # {} => v \in routine /\ \A f \in full \cap routine : v <= f
      /\ full \cap routine = {} => \A f \in full : v <= f
  <2>1. full \in SUBSET Nat /\ full # {} /\ full \cap routine \in SUBSET Nat
      BY <1>2
  <2> HIDE DEF full, routine
  <2>2. CASE full \cap routine # {}
    <3>1. v = First(full \cap routine)
        BY <2>2 DEF Victim
    <3>2. v \in full \cap routine /\ \A f \in full \cap routine : v <= f
        BY <2>1, <2>2, <3>1, FirstIsLeast
    <3> QED BY <2>2, <3>2
  <2>3. CASE full \cap routine = {}
    <3>1. v = First(full)
        BY <2>3 DEF Victim
    <3>2. v \in full /\ \A f \in full : v <= f
        BY <2>1, <3>1, FirstIsLeast
    <3> QED BY <2>3, <3>2
  <2> QED BY <2>2, <2>3
<1>6. Suffix(events \cap Story, Story) /\ Suffix(events \cap answers, answers)
    BY DEF FeedInv
<1> HIDE DEF v
<1>7. CASE ~Overflows(full)
  <2>1. events' = full /\ Cardinality(full) <= Window
      BY <1>1, <1>2, <1>4, <1>7, WindowAssumption DEF Overflows
  <2>2. Cardinality(events) # Window
      BY <1>2, <1>4, <2>1, WindowAssumption
  <2>3. events = Pushes
      BY <2>2 DEF FeedInv
  <2>4. events' = Pushes'
      BY <1>3, <2>1, <2>3
  <2>5. answers' \subseteq Pushes' /\ Story' \subseteq Pushes'
      BY <1>1, <1>2, <1>3
  <2>6. TypeOK'
      BY <1>1, <2>1, <2>4, <2>5 DEF TypeOK
  <2> HIDE DEF full, routine
  <2> QED BY <2>4, <2>5, <2>6 DEF FeedInv, Suffix
<1>8. CASE Overflows(full)
  <2>1. events' = full \ {v}
      BY <1>1, <1>8
  <2>2. Cardinality(events') = Cardinality(events)
    <3> HIDE DEF full
    <3>1. Cardinality(full \ {v}) = Cardinality(full) - 1
        BY <1>4, <1>5, FS_RemoveElement
    <3> QED BY <1>2, <1>4, <2>1, <3>1
  <2>3. Cardinality(events) = Window
      BY <1>0, <1>2, <1>4, <1>8, WindowAssumption DEF Overflows, TypeOK
  <2>4. TypeOK'
    <3>1. events' \subseteq Pushes' /\ answers' \subseteq Pushes'
        BY <1>1, <1>2, <1>3, <2>1
    <3>2. Cardinality(events') <= Window
        BY <2>2, <2>3, WindowAssumption
    <3> QED BY <1>1, <3>1, <3>2 DEF TypeOK
  <2>5. Suffix((events \cap Story)', Story')
    <3>1. ASSUME NEW e \in (events \cap Story)', NEW f \in Story', f > e
          PROVE  f \in events'
      <4>1. f \in full
        <5>1. CASE f = n
            BY <5>1
        <5>2. CASE f # n
          <6>1. f \in Story /\ e \in full
              BY <1>3, <2>1, <5>2, <3>1
          <6>2. e # n /\ e \in events
              BY <1>2, <6>1, <3>1
          <6>3. e \in Story
              BY <1>3, <6>2, <3>1
          <6> QED BY <1>6, <6>1, <6>2, <6>3, <3>1 DEF Suffix
        <5> QED BY <5>1, <5>2
      <4>2. f # v
        <5>1. f \notin routine /\ e \notin routine
            BY <1>1, <1>2, <1>3
        <5>2. e \in full /\ e \in Nat /\ f \in Nat
            BY <1>2, <2>1, <4>1
        <5> QED BY <1>5, <3>1, <5>1, <5>2
      <4> QED BY <2>1, <4>1, <4>2
    <3> QED BY <3>1 DEF Suffix
  <2>6. Suffix((events \cap answers)', answers')
    <3>1. ASSUME NEW e \in (events \cap answers)', NEW f \in answers', f > e
          PROVE  f \in events'
      <4>1. e \in full /\ e \in routine /\ f \in routine
          BY <1>1, <2>1, <3>1
      <4>2. f \in full
        <5>1. CASE f = n
            BY <5>1
        <5>2. CASE f # n
          <6>1. f \in answers /\ f \in Pushes
              BY <1>2, <4>1, <5>2
          <6>2. e # n
              BY <1>2, <6>1, <3>1
          <6>3. e \in events /\ e \in answers
              BY <4>1, <6>2
          <6> QED BY <1>6, <6>1, <6>3, <3>1 DEF Suffix
        <5> QED BY <5>1, <5>2
      <4>3. f # v
        <5>1. v <= e /\ e \in Nat /\ f \in Nat
            BY <1>2, <1>5, <4>1, <4>2
        <5> QED BY <3>1, <5>1
      <4> QED BY <2>1, <4>2, <4>3
    <3> QED BY <3>1 DEF Suffix
  <2>7. Story' \subseteq events' \/ (events \cap answers)' = {}
    <3>1. CASE full \cap routine = {}
        BY <1>1, <2>1, <3>1
    <3>2. CASE events \cap answers # {}
      <4>1. Story \subseteq events
          BY <3>2 DEF FeedInv
      <4>2. Story' \subseteq full /\ v \in routine /\ Story' \cap routine = {}
          BY <1>1, <1>2, <1>3, <1>5, <3>2, <4>1
      <4> QED BY <2>1, <4>2
    <3>3. CASE full \cap routine # {} /\ events \cap answers = {}
      <4>1. full \cap routine = {n}
          BY <1>2, <3>3
      <4>2. v = n
          BY <1>5, <3>3, <4>1
      <4> QED BY <1>1, <1>2, <2>1, <3>3, <4>2
    <3> QED BY <3>1, <3>2, <3>3
  <2> QED BY <2>2, <2>3, <2>4, <2>5, <2>6, <2>7 DEF FeedInv
<1> QED BY <1>7, <1>8

LEMMA FeedNext == FeedInv /\ [Next]_vars => FeedInv'
<1> SUFFICES ASSUME FeedInv, [Next]_vars
             PROVE  FeedInv'
    OBVIOUS
<1>1. CASE Next
    BY <1>1, PushStep DEF Next
<1>2. CASE UNCHANGED vars
    BY <1>2 DEF vars, FeedInv, TypeOK, Suffix, Story, Pushes
<1> QED BY <1>1, <1>2

\* The event feed never outgrows EVENT_WINDOW, so the eviction loop of
\* push_kind runs at most once.
THEOREM FeedBounded == Spec => []TypeOK
<1>1. FeedInv => TypeOK
    BY DEF FeedInv
<1> QED BY <1>1, FeedInit, FeedNext, PTL DEF Spec

LEMMA FeedContents == FeedInv => FeedIsLatestStory
<1> SUFFICES ASSUME FeedInv
             PROVE  FeedIsLatestStory
    OBVIOUS
<1>0. TypeOK
    BY DEF FeedInv
<1> DEFINE kept == events \cap Story
           room == events \cap answers
           story == LastOf(Story, Window)
<1>1. /\ IsFiniteSet(events) /\ IsFiniteSet(answers) /\ IsFiniteSet(Story)
      /\ answers \in SUBSET Nat /\ Story \in SUBSET Nat
      /\ Cardinality(events) \in Nat /\ Cardinality(events) <= Window
      /\ events \subseteq Pushes /\ answers \subseteq Pushes /\ Story = Pushes \ answers
    BY <1>0, FeedFinite DEF TypeOK, Story
<1>2. /\ IsFiniteSet(kept) /\ IsFiniteSet(room)
      /\ Cardinality(kept) \in Nat /\ Cardinality(room) \in Nat
      /\ Cardinality(kept) <= Cardinality(events)
  <2>1. kept \in SUBSET events /\ room \in SUBSET events
      OBVIOUS
  <2> HIDE DEF kept, room
  <2> QED BY <1>1, <2>1, FS_Subset, FS_CardinalityType
<1>3. Cardinality(events) = Cardinality(kept) + Cardinality(room)
  <2>1. events = kept \cup room /\ kept \cap room = {}
      BY <1>1
  <2>2. Cardinality({}) = 0
      BY FS_EmptySet
  <2> HIDE DEF kept, room
  <2>3. Cardinality(kept \cup room)
            = Cardinality(kept) + Cardinality(room) - Cardinality(kept \cap room)
      BY <1>2, FS_Union
  <2>4. Cardinality(events) = Cardinality(kept) + Cardinality(room) - 0
      BY <2>1, <2>2, <2>3, Zenon
  <2> QED BY <1>2, <2>4
<1>4. /\ LastOf(Story, Cardinality(kept)) = kept
      /\ LastOf(answers, Cardinality(room)) = room
    BY <1>1, SuffixIsLast DEF FeedInv
<1>5. CASE Story \subseteq events
  <2>1. kept = Story
      BY <1>5
  <2>2. story = Story
      BY <1>1, <1>2, <2>1, LastOfAll, WindowAssumption
  <2>3. CASE events = Pushes
    <3>1. room = answers /\ Cardinality(answers) <= Window - Cardinality(Story)
      <4>1. room = answers
          BY <1>1, <2>3
      <4> HIDE DEF kept, room
      <4> QED BY <1>1, <1>2, <1>3, <2>1, <4>1, WindowAssumption
    <3>2. LastOf(answers, Window - Cardinality(Story)) = answers
        BY <1>1, <1>2, <2>1, <3>1, LastOfAll, WindowAssumption
    <3> QED BY <1>1, <2>2, <2>3, <3>2 DEF FeedIsLatestStory
  <2>4. CASE events # Pushes
    <3>1. Cardinality(room) = Window - Cardinality(Story)
      <4>1. Cardinality(events) = Window
          BY <2>4 DEF FeedInv
      <4> HIDE DEF kept, room
      <4> QED BY <1>2, <1>3, <2>1, <4>1, WindowAssumption
    <3>2. LastOf(answers, Window - Cardinality(Story)) = room
        BY <1>4, <3>1
    <3>3. events = Story \cup room
        BY <1>1, <1>5
    <3> QED BY <2>2, <3>2, <3>3 DEF FeedIsLatestStory
  <2> QED BY <2>3, <2>4
<1>6. CASE ~(Story \subseteq events)
  <2>1. room = {} /\ events # Pushes /\ kept = events
      BY <1>1, <1>6 DEF FeedInv
  <2>2. Cardinality(kept) = Window
      BY <2>1 DEF FeedInv
  <2>3. story = events
      BY <1>4, <2>1, <2>2
  <2>4. Cardinality(room) = 0
      BY <2>1, FS_EmptySet
  <2>5. LastOf(answers, Window - Cardinality(story)) = {}
      BY <1>4, <2>1, <2>2, <2>3, <2>4, WindowAssumption
  <2> QED BY <2>3, <2>5 DEF FeedIsLatestStory
<1> QED BY <1>5, <1>6

\* The feed holds exactly the latest story events that fit and, in the room
\* they leave, the latest answers: no routine answer ever costs a story event
\* its place.
THEOREM FeedKeepsTheStory == Spec => []FeedIsLatestStory
<1> QED BY FeedInit, FeedNext, FeedContents, PTL DEF Spec

-----------------------------------------------------------------------------
(* The text of a question. *)

\* Where wrap is: on a line that is left, between words unless the word is
\* longer than a line.
Cursor ==
    /\ drawing => lines < field.lines
    /\ ~drawing => column = 0
    /\ taken > 0 => /\ word \in DOMAIN text /\ taken < text[word]
                    /\ field.chars < text[word] /\ column = 0

\* A piece is on a finished line or on what is filled of the next one, of a
\* word that was passed or of what is taken of the next one, and it is all of a
\* word that fits a line.
PiecePlaced(p) ==
    /\ \/ p.line <= lines /\ p.at + p.chars <= field.chars
       \/ p.line = lines + 1 /\ p.at + p.chars <= column
    /\ \/ p.word < word /\ p.from + p.chars <= text[p.word]
       \/ p.word = word /\ p.from + p.chars <= taken
    /\ text[p.word] <= field.chars => p.chars = text[p.word]

\* No line is empty.
LinesUsed ==
    /\ lines > 0 => \E p \in pieces : p.line = lines
    /\ column > 0 => \E p \in pieces : p.line = lines + 1

InOrder == \A p, q \in pieces : p # q => Precedes(p, q) \/ Precedes(q, p)

PassedLetter(w, i) == w < word \/ (w = word /\ i <= taken)

\* What is on the panel is what the cursor has passed, letter by letter.
PassedIsShown == \A w \in DOMAIN text : \A i \in Letters(w) : Shown(w, i) <=> PassedLetter(w, i)

StopsWhenFull == Drawn => word \notin DOMAIN text \/ lines = field.lines

TextInv ==
    /\ ScreenTypeOK /\ Cursor /\ LinesUsed /\ InOrder /\ PassedIsShown /\ StopsWhenFull
    /\ \A p \in pieces : PiecePlaced(p)

\* An authored answer has all its lines before it: one word fills a line at a
\* time, two words have a line each.
AnswerInv ==
    text \in ShippedAnswers /\ field \in AnswerFields /\ word \in DOMAIN text =>
        /\ drawing
        /\ Len(text) = 1 => column = 0 /\ taken = ANSWER_LABEL_CHARS * lines
        /\ Len(text) = 2 => /\ taken = 0
                            /\ word = 1 => lines = 0 /\ column = 0
                            /\ word = 2 => lines = 0 \/ (lines = 1 /\ column = 0)

-----------------------------------------------------------------------------
\* A text that is considered has words, and each has letters.
LEMMA TextShape ==
    ASSUME ScreenTypeOK
    PROVE  /\ Len(text) \in Nat /\ DOMAIN text = 1 .. Len(text)
           /\ \A w \in DOMAIN text : text[w] \in Nat /\ text[w] > 0
<1>1. text \in Seq(Nat \ {0})
    BY PromptsAssumption, AnswersAssumption DEF ScreenTypeOK, Shapes
<1> QED BY <1>1

\* A line of the most characters, and the last line, are inside the box.
FieldFits(f) ==
    /\ f.x \in Int /\ f.y \in Int /\ f.chars \in Nat /\ f.lines \in Nat
    /\ f.box.left \in Int /\ f.box.right \in Int /\ f.box.top \in Int /\ f.box.bottom \in Int
    /\ 0 < f.chars /\ 0 < f.lines
    /\ f.box.left <= f.x /\ f.x + 4 * f.chars - 2 <= f.box.right
    /\ f.box.top <= f.y /\ f.y + 6 * (f.lines - 1) + 4 <= f.box.bottom

LEMMA FieldsFit ==
    ASSUME NEW f \in {PromptField} \cup AnswerFields
    PROVE  FieldFits(f)
<1>1. FieldFits(PromptField)
    BY DEF PromptField, PROMPT_CHARS, PROMPT_LINES, Box, FieldFits
<1>2. ASSUME NEW x \in {0, 65}, NEW y \in {30, 48}
      PROVE  FieldFits(AnswerField(x, y))
    BY DEF AnswerField, ANSWER_LABEL_CHARS, ANSWER_LABEL_LINES, ANSWER_PANEL_WIDTH,
           ANSWER_PANEL_HEIGHT, Box, FieldFits
<1> QED BY <1>1, <1>2 DEF AnswerFields

LEMMA TextFacts ==
    ASSUME ScreenTypeOK
    PROVE  /\ field.chars \in Nat /\ field.lines \in Nat /\ 0 < field.chars /\ 0 < field.lines
           /\ lines \in Nat /\ column \in Nat /\ word \in Nat /\ taken \in Nat
           /\ lines <= field.lines /\ column <= field.chars
           /\ word \in DOMAIN text \/ word = Len(text) + 1
           /\ Begin \in Nat /\ column <= Begin /\ (column > 0 => column < Begin)
           /\ drawing \in BOOLEAN
           /\ \A p \in pieces :
                 /\ p.line \in Nat /\ p.at \in Nat /\ p.from \in Nat /\ p.chars \in Nat
                 /\ 0 < p.line /\ p.line <= field.lines /\ 0 < p.chars
                 /\ p.word \in DOMAIN text /\ p.word \in Nat
<1>1. field.chars \in Nat /\ field.lines \in Nat /\ 0 < field.chars /\ 0 < field.lines
    BY FieldsFit DEF FieldFits, ScreenTypeOK
<1>2. /\ lines \in 0 .. field.lines /\ column \in 0 .. field.chars
      /\ word \in 1 .. Len(text) + 1 /\ taken \in Nat /\ drawing \in BOOLEAN
    BY DEF ScreenTypeOK
<1>3. Begin \in Nat /\ column <= Begin /\ (column > 0 => column < Begin)
    BY <1>1, <1>2 DEF Begin
<1>4. word \in DOMAIN text \/ word = Len(text) + 1
    BY <1>2, TextShape
<1>5. ASSUME NEW p \in pieces
      PROVE  /\ p.line \in Nat /\ p.at \in Nat /\ p.from \in Nat /\ p.chars \in Nat
             /\ 0 < p.line /\ p.line <= field.lines /\ 0 < p.chars
             /\ p.word \in DOMAIN text /\ p.word \in Nat
  <2>1. p \in [line : 1 .. field.lines, at : Nat, word : DOMAIN text,
               from : Nat, chars : Nat \ {0}]
      BY DEF ScreenTypeOK
  <2> QED BY <1>1, <2>1, TextShape
<1> QED BY <1>1, <1>2, <1>3, <1>4, <1>5, TextShape

-----------------------------------------------------------------------------
LEMMA TextInit == ScreenInit => TextInv /\ AnswerInv
<1> SUFFICES ASSUME ScreenInit PROVE TextInv /\ AnswerInv
    OBVIOUS
<1>1. PICK f \in {PromptField} \cup AnswerFields, t \in Prompts \cup Answers : Blank(t, f)
    BY DEF ScreenInit
<1>2. t \in Seq(Nat \ {0})
    BY PromptsAssumption, AnswersAssumption DEF Shapes
<1>3. f.chars \in Nat /\ f.lines \in Nat /\ 0 < f.lines
    BY FieldsFit DEF FieldFits
<1>4. ScreenTypeOK
    BY <1>1, <1>2, <1>3 DEF Blank, ScreenTypeOK
<1>5. PassedIsShown
    BY <1>1, <1>2 DEF Blank, PassedIsShown, PassedLetter, Shown, Letters
<1>6. Cursor /\ LinesUsed /\ InOrder /\ StopsWhenFull /\ \A p \in pieces : PiecePlaced(p)
    BY <1>1, <1>3 DEF Blank, Cursor, LinesUsed, InOrder, StopsWhenFull, Drawn
<1>7. AnswerInv
    BY <1>1 DEF Blank, AnswerInv, ANSWER_LABEL_CHARS
<1> QED BY <1>4, <1>5, <1>6, <1>7 DEF TextInv

-----------------------------------------------------------------------------
\* What is left of a word is never empty.
LEMMA RemainingLetters ==
    ASSUME TextInv, word \in DOMAIN text
    PROVE  /\ text[word] \in Nat /\ Remaining \in Nat /\ 0 < Remaining
           /\ taken + Remaining = text[word]
           /\ Needed \in Nat /\ Needed = Begin + Remaining
           /\ text[word] <= field.chars => taken = 0
<1>1. ScreenTypeOK /\ Cursor
    BY DEF TextInv
<1>2. text[word] \in Nat /\ text[word] > 0 /\ taken \in Nat /\ Begin \in Nat
    BY <1>1, TextShape, TextFacts
<1>3. taken > 0 => taken < text[word] /\ field.chars < text[word]
    BY <1>1 DEF Cursor
<1>4. field.chars \in Nat
    BY <1>1, TextFacts
<1> QED BY <1>2, <1>3, <1>4 DEF Remaining, Needed

\* The next piece is read after all that is on the panel, and shows the letters
\* that come next.
LEMMA NextPieceFollows ==
    ASSUME TextInv, drawing, word \in DOMAIN text,
           NEW n \in Nat, 0 < n, Begin + n <= field.chars, taken + n <= text[word],
           text[word] <= field.chars => n = text[word],
           NEW piece, piece = Piece(Begin, n)
    PROVE  /\ piece \in [line : 1 .. field.lines, at : Nat, word : DOMAIN text,
                         from : Nat, chars : Nat \ {0}]
           /\ piece.line = lines + 1 /\ piece.at + piece.chars = Begin + n
           /\ piece.word = word /\ piece.from + piece.chars = taken + n
           /\ text[piece.word] <= field.chars => piece.chars = text[piece.word]
           /\ \A p \in pieces : Precedes(p, piece)
           /\ \A w \in DOMAIN text : \A i \in Letters(w) :
                 Shows(piece, w, i) <=> w = word /\ taken < i /\ i <= taken + n
<1>1. ScreenTypeOK /\ Cursor /\ \A p \in pieces : PiecePlaced(p)
    BY DEF TextInv
<1>2. /\ lines \in Nat /\ lines < field.lines /\ field.lines \in Nat
      /\ Begin \in Nat /\ taken \in Nat /\ column \in Nat
    BY <1>1, TextFacts DEF Cursor
<1>3. /\ piece.line = lines + 1 /\ piece.at = Begin /\ piece.word = word
      /\ piece.from = taken /\ piece.chars = n
    BY DEF Piece
<1>4. piece \in [line : 1 .. field.lines, at : Nat, word : DOMAIN text,
                 from : Nat, chars : Nat \ {0}]
    BY <1>2 DEF Piece
<1>5. ASSUME NEW p \in pieces PROVE Precedes(p, piece)
  <2>1. PiecePlaced(p)
      BY <1>1
  <2>2. /\ p.line \in Nat /\ p.at \in Nat /\ p.from \in Nat /\ p.chars \in Nat
        /\ 0 < p.line /\ 0 < p.chars /\ p.word \in Nat /\ word \in Nat
      BY <1>1, TextFacts
  <2>3. column <= Begin /\ (column > 0 => column < Begin)
      BY <1>1, TextFacts
  <2>4. p.line < lines + 1 \/ (p.line = lines + 1 /\ p.at + p.chars < Begin)
      BY <1>2, <2>1, <2>2, <2>3 DEF PiecePlaced
  <2>5. p.word < word \/ (p.word = word /\ p.from + p.chars <= taken)
      BY <2>1 DEF PiecePlaced
  <2> QED BY <1>3, <2>4, <2>5 DEF Precedes
<1>6. ASSUME NEW w \in DOMAIN text, NEW i \in Letters(w)
      PROVE  Shows(piece, w, i) <=> w = word /\ taken < i /\ i <= taken + n
    BY <1>3 DEF Shows
<1> QED BY <1>2, <1>3, <1>4, <1>5, <1>6

\* The panel once the next piece is on it.
LEMMA PieceIsRead ==
    ASSUME TextInv, drawing, word \in DOMAIN text,
           NEW n \in Nat, 0 < n, Begin + n <= field.chars, taken + n <= text[word],
           text[word] <= field.chars => n = text[word],
           pieces' = pieces \cup {Piece(Begin, n)}, text' = text, field' = field
    PROVE  /\ pieces' \subseteq [line : 1 .. field.lines, at : Nat, word : DOMAIN text,
                                 from : Nat, chars : Nat \ {0}]
           /\ InOrder'
           /\ \A w \in DOMAIN text : \A i \in Letters(w) :
                 Shown(w, i)' <=> w < word \/ (w = word /\ i <= taken + n)
<1> DEFINE piece == Piece(Begin, n)
<1>1. /\ piece \in [line : 1 .. field.lines, at : Nat, word : DOMAIN text,
                    from : Nat, chars : Nat \ {0}]
      /\ \A p \in pieces : Precedes(p, piece)
      /\ \A w \in DOMAIN text : \A i \in Letters(w) :
            Shows(piece, w, i) <=> w = word /\ taken < i /\ i <= taken + n
    BY NextPieceFollows
<1>2. PICK q : q = piece
    OBVIOUS
<1>3. pieces' = pieces \cup {q}
    BY <1>2
<1> HIDE DEF piece
<1>4. InOrder'
  <2>1. \A p, r \in pieces : p # r => Precedes(p, r) \/ Precedes(r, p)
      BY DEF TextInv, InOrder
  <2>2. \A p \in pieces : Precedes(p, q)
      BY <1>1, <1>2
  <2>3. ASSUME NEW p \in pieces', NEW r \in pieces', p # r
        PROVE  Precedes(p, r) \/ Precedes(r, p)
      BY <1>3, <2>1, <2>2, <2>3
  <2> QED BY <2>3 DEF InOrder, Precedes
<1>5. ASSUME NEW w \in DOMAIN text, NEW i \in Letters(w)
      PROVE  Shown(w, i)' <=> w < word \/ (w = word /\ i <= taken + n)
  <2>1. Shown(w, i)' <=> Shown(w, i) \/ Shows(q, w, i)
      BY <1>3 DEF Shown, Shows
  <2>2. Shown(w, i) <=> w < word \/ (w = word /\ i <= taken)
      BY DEF TextInv, PassedIsShown, PassedLetter
  <2>3. Shows(q, w, i) <=> w = word /\ taken < i /\ i <= taken + n
      BY <1>1, <1>2
  <2>4. i \in Int /\ taken \in Nat /\ n \in Nat
      BY TextFacts DEF Letters, TextInv
  <2> QED BY <2>1, <2>2, <2>3, <2>4
<1>6. pieces' \subseteq [line : 1 .. field.lines, at : Nat, word : DOMAIN text,
                         from : Nat, chars : Nat \ {0}]
    BY <1>1, <1>2, <1>3 DEF TextInv, ScreenTypeOK
<1> QED BY <1>4, <1>5, <1>6

-----------------------------------------------------------------------------
LEMMA LineEnded ==
    ASSUME EndLine
    PROVE  /\ lines' = lines + 1 /\ column' = 0
           /\ drawing' <=> lines + 1 < field.lines
           /\ drawing' \in BOOLEAN
<1>1. drawing' = (lines + 1 < field.lines)
    BY DEF EndLine
<1> DEFINE room == lines + 1 < field.lines
<1>2. room \in BOOLEAN
    OBVIOUS
<1>3. drawing' = room
    BY <1>1
<1> HIDE DEF room
<1>4. (drawing' <=> room) /\ drawing' \in BOOLEAN
    BY <1>2, <1>3
<1>5. lines' = lines + 1 /\ column' = 0
    BY DEF EndLine
<1> QED BY <1>4, <1>5 DEF room

\* Pushing the line being filled.
LEMMA FinishStep ==
    ASSUME TextInv, drawing, word \in DOMAIN text, TooLong, column > 0, FinishLine
    PROVE  TextInv'
<1>1. ScreenTypeOK /\ Cursor /\ LinesUsed /\ \A p \in pieces : PiecePlaced(p)
    BY DEF TextInv
<1>2. /\ text' = text /\ field' = field /\ pieces' = pieces /\ word' = word /\ taken' = taken
      /\ lines' = lines + 1 /\ column' = 0 /\ (drawing' <=> lines + 1 < field.lines)
      /\ drawing' \in BOOLEAN
    BY LineEnded DEF FinishLine
<1>3. /\ lines \in Nat /\ lines < field.lines /\ field.lines \in Nat /\ field.chars \in Nat
      /\ column \in Nat /\ column <= field.chars
    BY <1>1, TextFacts DEF Cursor
<1>4. ScreenTypeOK'
    BY <1>1, <1>2, <1>3 DEF ScreenTypeOK
<1>5. Cursor' /\ StopsWhenFull'
  <2>1. taken > 0 => taken < text[word] /\ field.chars < text[word]
      BY <1>1 DEF Cursor
  <2>2. Cursor'
      BY <1>2, <1>3, <2>1 DEF Cursor
  <2>3. ASSUME ~drawing' PROVE lines' = field.lines'
      BY <1>2, <1>3, <2>3
  <2> QED BY <2>2, <2>3 DEF StopsWhenFull, Drawn
<1>6. LinesUsed'
    BY <1>1, <1>2, <1>3 DEF LinesUsed
<1>7. InOrder' /\ PassedIsShown'
    BY <1>2 DEF TextInv, InOrder, Precedes, PassedIsShown, PassedLetter, Shown, Shows, Letters
<1>8. ASSUME NEW p \in pieces PROVE PiecePlaced(p)'
  <2>1. PiecePlaced(p) /\ p.line \in Nat /\ p.at \in Nat /\ p.chars \in Nat
      BY <1>1, TextFacts
  <2> QED BY <1>2, <1>3, <2>1 DEF PiecePlaced
<1> QED BY <1>2, <1>4, <1>5, <1>6, <1>7, <1>8 DEF TextInv

\* Breaking a word that is longer than a line.
LEMMA SplitStep ==
    ASSUME TextInv, drawing, word \in DOMAIN text, TooLong, column = 0, SplitWord
    PROVE  TextInv'
<1>1. ScreenTypeOK /\ Cursor /\ \A p \in pieces : PiecePlaced(p)
    BY DEF TextInv
<1>2. /\ text' = text /\ field' = field /\ word' = word /\ taken' = taken + field.chars
      /\ pieces' = pieces \cup {Piece(Begin, field.chars)}
      /\ lines' = lines + 1 /\ column' = 0 /\ (drawing' <=> lines + 1 < field.lines)
      /\ drawing' \in BOOLEAN
    BY LineEnded DEF SplitWord, Begin
<1>3. /\ lines \in Nat /\ lines < field.lines /\ field.lines \in Nat
      /\ field.chars \in Nat /\ 0 < field.chars /\ taken \in Nat
      /\ Begin = 0 /\ text[word] \in Nat
    BY <1>1, TextFacts, TextShape DEF Cursor, Begin
<1>4. field.chars < text[word] /\ taken + field.chars < text[word]
    BY <1>3, RemainingLetters DEF TooLong
<1>5. Begin + field.chars <= field.chars /\ taken + field.chars <= text[word]
    BY <1>3, <1>4
<1>6. /\ pieces' \subseteq [line : 1 .. field.lines, at : Nat, word : DOMAIN text,
                            from : Nat, chars : Nat \ {0}]
      /\ InOrder'
      /\ \A w \in DOMAIN text : \A i \in Letters(w) :
            Shown(w, i)' <=> w < word \/ (w = word /\ i <= taken + field.chars)
    BY <1>2, <1>3, <1>4, <1>5, PieceIsRead
<1>7. PICK q : q = Piece(Begin, field.chars)
    OBVIOUS
<1>8. /\ q.line = lines + 1 /\ q.at + q.chars = field.chars
      /\ q.word = word /\ q.from + q.chars = taken + field.chars
      /\ text[q.word] <= field.chars => q.chars = text[q.word]
    BY <1>3, <1>4, <1>7 DEF Piece
<1>9. pieces' = pieces \cup {q}
    BY <1>2, <1>7
<1>10. ScreenTypeOK'
    BY <1>1, <1>2, <1>3, <1>6 DEF ScreenTypeOK
<1>11. Cursor' /\ StopsWhenFull'
  <2>1. Cursor'
      BY <1>2, <1>3, <1>4 DEF Cursor
  <2>2. ASSUME ~drawing' PROVE lines' = field.lines'
      BY <1>2, <1>3, <2>2
  <2> QED BY <2>1, <2>2 DEF StopsWhenFull, Drawn
<1>12. LinesUsed'
    BY <1>2, <1>3, <1>8, <1>9 DEF LinesUsed
<1>13. PassedIsShown'
    BY <1>2, <1>6 DEF PassedIsShown, PassedLetter, Letters
<1>14. ASSUME NEW p \in pieces' PROVE PiecePlaced(p)'
  <2>1. CASE p = q
      BY <1>2, <1>3, <1>8, <2>1 DEF PiecePlaced
  <2>2. CASE p \in pieces
    <3>1. /\ PiecePlaced(p) /\ p.line \in Nat /\ p.at \in Nat /\ p.chars \in Nat
          /\ 0 < p.chars /\ p.from \in Nat
        BY <1>1, <2>2, TextFacts
    <3> QED BY <1>2, <1>3, <3>1 DEF PiecePlaced
  <2> QED BY <1>9, <2>1, <2>2
<1> QED BY <1>6, <1>10, <1>11, <1>12, <1>13, <1>14 DEF TextInv

\* Placing what is left of a word.
LEMMA PlaceStep ==
    ASSUME TextInv, drawing, word \in DOMAIN text, ~TooLong, PlaceWord
    PROVE  TextInv'
<1>1. ScreenTypeOK /\ Cursor /\ \A p \in pieces : PiecePlaced(p)
    BY DEF TextInv
<1>2. /\ text' = text /\ field' = field /\ word' = word + 1 /\ taken' = 0
      /\ pieces' = pieces \cup {Piece(Begin, Remaining)}
      /\ lines' = lines /\ column' = Needed /\ drawing' = drawing
    BY DEF PlaceWord
<1>3. /\ lines \in Nat /\ lines < field.lines /\ field.lines \in Nat
      /\ field.chars \in Nat /\ taken \in Nat /\ word \in Nat /\ Len(text) \in Nat
      /\ word \in 1 .. Len(text) /\ Begin \in Nat /\ column \in Nat
    BY <1>1, TextFacts, TextShape DEF Cursor
<1>4. /\ Remaining \in Nat /\ 0 < Remaining /\ taken + Remaining = text[word]
      /\ Begin + Remaining <= field.chars /\ Needed = Begin + Remaining
      /\ text[word] \in Nat
      /\ text[word] <= field.chars => Remaining = text[word]
  <2>1. /\ text[word] \in Nat /\ Remaining \in Nat /\ 0 < Remaining
        /\ taken + Remaining = text[word] /\ Needed = Begin + Remaining
        /\ text[word] <= field.chars => taken = 0
      BY RemainingLetters
  <2> QED BY <1>3, <2>1 DEF TooLong
<1>5. /\ pieces' \subseteq [line : 1 .. field.lines, at : Nat, word : DOMAIN text,
                            from : Nat, chars : Nat \ {0}]
      /\ InOrder'
      /\ \A w \in DOMAIN text : \A i \in Letters(w) :
            Shown(w, i)' <=> w < word \/ (w = word /\ i <= taken + Remaining)
    BY <1>2, <1>4, PieceIsRead
<1>6. PICK q : q = Piece(Begin, Remaining)
    OBVIOUS
<1>7. /\ q.line = lines + 1 /\ q.at + q.chars = Begin + Remaining
      /\ q.word = word /\ q.from + q.chars = text[word]
      /\ text[q.word] <= field.chars => q.chars = text[q.word]
    BY <1>4, <1>6 DEF Piece
<1>8. pieces' = pieces \cup {q}
    BY <1>2, <1>6
<1>9. ScreenTypeOK'
    BY <1>1, <1>2, <1>3, <1>4, <1>5 DEF ScreenTypeOK
<1>10. Cursor' /\ StopsWhenFull'
    BY <1>1, <1>2, <1>3, TextFacts DEF Cursor, StopsWhenFull, Drawn
<1>11. LinesUsed'
    BY <1>2, <1>7, <1>8 DEF LinesUsed, TextInv
<1>12. PassedIsShown'
  <2>1. ASSUME NEW w \in DOMAIN text, NEW i \in Letters(w)
        PROVE  Shown(w, i)' <=> w < word + 1 \/ (w = word + 1 /\ i <= 0)
    <3>1. Shown(w, i)' <=> w < word \/ (w = word /\ i <= text[word])
        BY <1>4, <1>5
    <3>2. i \in Int /\ 1 <= i /\ i <= text[w] /\ text[w] \in Nat /\ w \in Nat
        BY <1>1, TextShape DEF Letters
    <3> QED BY <1>3, <3>1, <3>2
  <2> QED BY <1>2, <2>1 DEF PassedIsShown, PassedLetter, Letters
<1>13. ASSUME NEW p \in pieces' PROVE PiecePlaced(p)'
  <2>1. CASE p = q
      BY <1>2, <1>3, <1>4, <1>7, <2>1 DEF PiecePlaced
  <2>2. CASE p \in pieces
    <3>1. /\ PiecePlaced(p) /\ p.line \in Nat /\ p.at \in Nat /\ p.chars \in Nat
          /\ 0 < p.chars /\ p.from \in Nat /\ p.word \in Nat
        BY <1>1, <2>2, TextFacts
    <3>2. column <= Begin
        BY <1>1, TextFacts
    <3>3. \/ p.line <= lines /\ p.at + p.chars <= field.chars
          \/ p.line = lines + 1 /\ p.at + p.chars <= Needed
        BY <1>3, <1>4, <3>1, <3>2 DEF PiecePlaced
    <3>4. p.word < word + 1 /\ p.from + p.chars <= text[p.word]
        BY <1>3, <1>4, <3>1 DEF PiecePlaced
    <3> QED BY <1>2, <3>1, <3>3, <3>4 DEF PiecePlaced
  <2> QED BY <1>8, <2>1, <2>2
<1> QED BY <1>5, <1>9, <1>10, <1>11, <1>12, <1>13 DEF TextInv

\* Pushing the last line, if there is anything on it.
LEMMA LastLineStep ==
    ASSUME TextInv, LastLine
    PROVE  TextInv'
<1>1. ScreenTypeOK /\ Cursor /\ LinesUsed /\ \A p \in pieces : PiecePlaced(p)
    BY DEF TextInv
<1>2. /\ text' = text /\ field' = field /\ pieces' = pieces /\ word' = word /\ taken' = taken
      /\ lines' = (IF column = 0 THEN lines ELSE lines + 1)
      /\ column' = 0 /\ drawing' = FALSE
    BY DEF LastLine
<1>3. /\ lines \in Nat /\ lines < field.lines /\ field.lines \in Nat /\ field.chars \in Nat
      /\ column \in Nat /\ column <= field.chars /\ word \notin DOMAIN text
      /\ taken \in Nat
    BY <1>1, TextFacts, TextShape DEF Cursor, LastLine
<1>4. ScreenTypeOK'
  <2>1. lines' \in 0 .. field.lines
      BY <1>2, <1>3
  <2>2. column' \in 0 .. field.chars
      BY <1>2, <1>3
  <2>3. drawing' \in BOOLEAN
      BY <1>2
  <2> QED BY <1>1, <1>2, <2>1, <2>2, <2>3 DEF ScreenTypeOK
<1>5. Cursor' /\ StopsWhenFull'
    BY <1>1, <1>2, <1>3 DEF Cursor, StopsWhenFull, Drawn
<1>6. LinesUsed'
    BY <1>1, <1>2, <1>3 DEF LinesUsed
<1>7. InOrder' /\ PassedIsShown'
    BY <1>2 DEF TextInv, InOrder, Precedes, PassedIsShown, PassedLetter, Shown, Shows, Letters
<1>8. ASSUME NEW p \in pieces PROVE PiecePlaced(p)'
  <2>1. /\ PiecePlaced(p) /\ p.line \in Nat /\ p.at \in Nat /\ p.chars \in Nat /\ 0 < p.chars
      BY <1>1, TextFacts
  <2> QED BY <1>2, <1>3, <2>1 DEF PiecePlaced
<1> QED BY <1>2, <1>4, <1>5, <1>6, <1>7, <1>8 DEF TextInv

LEMMA TextNext == TextInv /\ [ScreenNext]_screenVars => TextInv'
<1> SUFFICES ASSUME TextInv, [ScreenNext]_screenVars PROVE TextInv'
    OBVIOUS
<1>1. ASSUME drawing, word <= Len(text) PROVE word \in DOMAIN text
    BY <1>1, TextShape, TextFacts DEF TextInv
<1>2. ASSUME NextPiece PROVE TextInv'
    BY <1>1, <1>2, FinishStep, SplitStep, PlaceStep DEF NextPiece
<1>3. CASE UNCHANGED screenVars
    BY <1>3 DEF screenVars, TextInv, ScreenTypeOK, Cursor, LinesUsed, InOrder, Precedes,
                PassedIsShown, PassedLetter, Shown, Shows, Letters, StopsWhenFull, Drawn,
                PiecePlaced
<1> QED BY <1>2, <1>3, LastLineStep DEF ScreenNext

\* The invariant is what the property says, the cursor left out.
LEMMA TextInvDraws == TextInv => TextIsDrawn
<1> SUFFICES ASSUME TextInv PROVE TextIsDrawn
    OBVIOUS
<1>1. ScreenTypeOK /\ LinesUsed /\ InOrder /\ PassedIsShown /\ StopsWhenFull /\ Cursor
    BY DEF TextInv
<1>2. ASSUME NEW p \in pieces
      PROVE  InsideBox(p) /\ (text[p.word] <= field.chars => p.chars = text[p.word])
  <2>1. PiecePlaced(p) /\ FieldFits(field)
      BY FieldsFit DEF TextInv, ScreenTypeOK
  <2>2. /\ p.line \in Nat /\ p.at \in Nat /\ p.chars \in Nat
        /\ 0 < p.line /\ p.line <= field.lines /\ column \in Nat /\ column <= field.chars
      BY <1>1, TextFacts
  <2>3. p.at + p.chars <= field.chars
      BY <2>1, <2>2 DEF PiecePlaced, FieldFits
  <2>4. InsideBox(p)
      BY <2>1, <2>2, <2>3 DEF InsideBox, FieldFits
  <2> QED BY <2>1, <2>4 DEF PiecePlaced
<1>3. ASSUME NEW v \in DOMAIN text, NEW w \in DOMAIN text,
             NEW i \in Letters(v), NEW j \in Letters(w),
             v < w \/ (v = w /\ i < j), Shown(w, j)
      PROVE  Shown(v, i)
  <2>1. PassedLetter(w, j)
      BY <1>1, <1>3 DEF PassedIsShown
  <2>2. /\ v \in Nat /\ w \in Nat /\ i \in Int /\ j \in Int /\ word \in Nat /\ taken \in Nat
      BY <1>1, TextShape, TextFacts DEF Letters
  <2>3. PassedLetter(v, i)
      BY <1>3, <2>1, <2>2 DEF PassedLetter
  <2> QED BY <1>1, <2>3 DEF PassedIsShown
<1>4. ASSUME Drawn PROVE Whole \/ \E p \in pieces : p.line = field.lines
  <2>1. CASE word \notin DOMAIN text
    <3>1. word = Len(text) + 1 /\ \A w \in DOMAIN text : w < word
        BY <1>1, <2>1, TextFacts, TextShape
    <3> QED BY <1>1, <3>1 DEF Whole, PassedIsShown, PassedLetter
  <2>2. CASE lines = field.lines
    <3>1. lines > 0
        BY <1>1, <2>2, TextFacts
    <3> QED BY <1>1, <2>2, <3>1 DEF LinesUsed
  <2> QED BY <1>1, <1>4, <2>1, <2>2 DEF StopsWhenFull
<1> QED BY <1>1, <1>2, <1>3, <1>4 DEF TextIsDrawn, InOrder

\* However long its words are, a text is drawn inside its box, in its order,
\* from its beginning, and to its end if a line is left.
THEOREM TextsAreDrawn == ScreenSpec => []TextIsDrawn
<1>1. ScreenInit => TextInv
    BY TextInit
<1> QED BY <1>1, TextNext, TextInvDraws, PTL DEF ScreenSpec

-----------------------------------------------------------------------------
\* A label has two lines, and an authored answer a line for each of its words.
LEMMA LabelLines ==
    ASSUME ScreenTypeOK, text \in ShippedAnswers, field \in AnswerFields
    PROVE  /\ field.chars = ANSWER_LABEL_CHARS /\ field.lines = 2
           /\ \/ Len(text) = 1 /\ text[1] <= 2 * ANSWER_LABEL_CHARS
              \/ Len(text) = 2 /\ text[1] <= ANSWER_LABEL_CHARS /\ text[2] <= ANSWER_LABEL_CHARS
<1>1. field.chars = ANSWER_LABEL_CHARS /\ field.lines = ANSWER_LABEL_LINES
    BY DEF AnswerFields, AnswerField
<1> QED BY <1>1, ShippedLengths DEF ANSWER_LABEL_LINES

\* An answer of one word: a line is full before the next one is begun.
LEMMA OneWordStep ==
    ASSUME TextInv, AnswerInv, NextPiece, word' \in DOMAIN text, Len(text) = 1,
           text \in ShippedAnswers, field \in AnswerFields
    PROVE  drawing' /\ column' = 0 /\ taken' = ANSWER_LABEL_CHARS * lines'
<1>1. ScreenTypeOK /\ Cursor
    BY DEF TextInv
<1>2. word = 1 /\ drawing /\ word \in DOMAIN text
    BY <1>1, TextFacts, TextShape DEF NextPiece
<1>3. /\ column = 0 /\ taken = ANSWER_LABEL_CHARS * lines
      /\ lines \in Nat /\ lines < 2 /\ field.lines = 2 /\ field.chars = ANSWER_LABEL_CHARS
    BY <1>1, <1>2, LabelLines, TextFacts DEF AnswerInv, Cursor
<1>4. word' # word + 1
    BY <1>1, <1>2, TextShape
<1>5. TooLong /\ SplitWord
    BY <1>2, <1>3, <1>4 DEF NextPiece, PlaceWord
<1>6. /\ lines' = lines + 1 /\ column' = 0 /\ (drawing' <=> lines + 1 < field.lines)
      /\ taken' = taken + field.chars
    BY <1>5, LineEnded DEF SplitWord
<1>7. field.chars < text[1] - taken
    BY <1>1, <1>2, <1>3, <1>5, TextFacts, TextShape DEF TooLong, Needed, Remaining, Begin
<1>8. text[1] \in Nat /\ text[1] <= 2 * ANSWER_LABEL_CHARS
    BY <1>1, <1>2, LabelLines, TextShape
<1>9. lines = 0
    BY <1>3, <1>7, <1>8 DEF ANSWER_LABEL_CHARS
<1> QED BY <1>3, <1>6, <1>9 DEF ANSWER_LABEL_CHARS

\* An answer of two words: the second is on the first line or has the other one.
LEMMA TwoWordsStep ==
    ASSUME TextInv, AnswerInv, NextPiece, word' \in DOMAIN text, Len(text) = 2,
           text \in ShippedAnswers, field \in AnswerFields
    PROVE  /\ drawing' /\ taken' = 0
           /\ word' = 1 => lines' = 0 /\ column' = 0
           /\ word' = 2 => lines' = 0 \/ (lines' = 1 /\ column' = 0)
<1>1. ScreenTypeOK /\ Cursor
    BY DEF TextInv
<1>2. word \in {1, 2} /\ drawing /\ word \in DOMAIN text
    BY <1>1, TextFacts, TextShape DEF NextPiece
<1>3. /\ taken = 0 /\ lines \in Nat
      /\ word = 1 => lines = 0 /\ column = 0
      /\ word = 2 => lines = 0 \/ (lines = 1 /\ column = 0)
      /\ field.lines = 2 /\ field.chars = ANSWER_LABEL_CHARS
    BY <1>1, <1>2, LabelLines, TextFacts DEF AnswerInv
<1>4. text[word] \in Nat /\ text[word] <= ANSWER_LABEL_CHARS
    BY <1>1, <1>2, LabelLines, TextShape
<1>5. column = 0 => ~TooLong
    BY <1>3, <1>4 DEF TooLong, Needed, Remaining, Begin, ANSWER_LABEL_CHARS
<1>6. CASE FinishLine /\ column > 0
  <2>1. /\ lines' = lines + 1 /\ column' = 0 /\ (drawing' <=> lines + 1 < field.lines)
        /\ word' = word /\ taken' = taken
      BY <1>6, LineEnded DEF FinishLine
  <2> QED BY <1>2, <1>3, <1>6, <2>1
<1>7. CASE PlaceWord
  <2>1. word' = word + 1 /\ taken' = 0 /\ lines' = lines /\ drawing' = drawing
      BY <1>7 DEF PlaceWord
  <2>2. word = 1
      BY <1>1, <1>2, <2>1, TextShape
  <2> QED BY <1>2, <1>3, <2>1, <2>2
<1> QED BY <1>5, <1>6, <1>7 DEF NextPiece

LEMMA AnswerNext == TextInv /\ AnswerInv /\ [ScreenNext]_screenVars => AnswerInv'
<1> SUFFICES ASSUME TextInv, AnswerInv, [ScreenNext]_screenVars PROVE AnswerInv'
    OBVIOUS
<1>1. CASE NextPiece
  <2>1. text' = text /\ field' = field
      BY <1>1 DEF NextPiece, FinishLine, SplitWord, PlaceWord
  <2> SUFFICES ASSUME text \in ShippedAnswers, field \in AnswerFields, word' \in DOMAIN text
               PROVE  /\ drawing'
                      /\ Len(text) = 1 => column' = 0 /\ taken' = ANSWER_LABEL_CHARS * lines'
                      /\ Len(text) = 2 => /\ taken' = 0
                                          /\ word' = 1 => lines' = 0 /\ column' = 0
                                          /\ word' = 2 => \/ lines' = 0
                                                          \/ lines' = 1 /\ column' = 0
      BY <2>1 DEF AnswerInv, ANSWER_LABEL_CHARS
  <2>2. Len(text) = 1 \/ Len(text) = 2
      BY LabelLines DEF TextInv
  <2> QED BY <1>1, <2>2, OneWordStep, TwoWordsStep
<1>2. CASE LastLine
  <2>1. word \notin DOMAIN text /\ word' = word /\ text' = text
      BY <1>2, TextFacts, TextShape DEF LastLine, TextInv
  <2> QED BY <2>1 DEF AnswerInv
<1>3. CASE UNCHANGED screenVars
    BY <1>3 DEF screenVars, AnswerInv
<1> QED BY <1>1, <1>2, <1>3 DEF ScreenNext

LEMMA AnswersAreWhole == TextInv /\ AnswerInv => ShippedAnswersDrawnWhole
<1> SUFFICES ASSUME TextInv, AnswerInv, Drawn, text \in ShippedAnswers, field \in AnswerFields
             PROVE  Whole
    BY DEF ShippedAnswersDrawnWhole
<1>1. word \notin DOMAIN text
    BY DEF AnswerInv, Drawn
<1>2. \A w \in DOMAIN text : w < word
    BY <1>1, TextFacts, TextShape DEF TextInv
<1> QED BY <1>2 DEF Whole, TextInv, PassedIsShown, PassedLetter

\* No answer of the authored banks is cut: one word of up to two lines, or two
\* words of up to a line each, are drawn to the last letter.
THEOREM ShippedAnswersFit == ScreenSpec => []ShippedAnswersDrawnWhole
<1>1. ScreenInit => TextInv /\ AnswerInv
    BY TextInit
<1> QED BY <1>1, TextNext, AnswerNext, AnswersAreWhole, PTL DEF ScreenSpec

-----------------------------------------------------------------------------
\* A pass of the loop ends the wrap, or finishes a line or a word.
WrapAdvances ==
    /\ drawing
    /\ \/ ~drawing'
       \/ /\ lines' <= field.lines /\ word' <= Len(text) + 1
          /\ lines <= lines' /\ word <= word' /\ lines + word < lines' + word'

LEMMA WrapStepAdvances ==
    ASSUME TextInv, ScreenNext
    PROVE  WrapAdvances
<1>1. ScreenTypeOK /\ Cursor
    BY DEF TextInv
<1>2. /\ lines \in Nat /\ word \in Nat /\ field.lines \in Nat
      /\ Len(text) \in Nat /\ word <= Len(text) + 1
    BY <1>1, TextFacts, TextShape DEF ScreenTypeOK
<1>3. drawing /\ lines < field.lines
    BY <1>1 DEF ScreenNext, NextPiece, LastLine, Cursor
<1>4. CASE LastLine
    BY <1>3, <1>4 DEF LastLine, WrapAdvances
<1>5. CASE NextPiece
  <2>1. word <= Len(text)
      BY <1>5 DEF NextPiece
  <2>2. CASE FinishLine \/ SplitWord
    <3>1. lines' = lines + 1 /\ word' = word
        BY <2>2, LineEnded DEF FinishLine, SplitWord
    <3> QED BY <1>2, <1>3, <3>1 DEF WrapAdvances
  <2>3. CASE PlaceWord
    <3>1. lines' = lines /\ word' = word + 1
        BY <2>3 DEF PlaceWord
    <3> QED BY <1>2, <1>3, <2>1, <3>1 DEF WrapAdvances
  <2> QED BY <1>5, <2>2, <2>3 DEF NextPiece
<1> QED BY <1>4, <1>5 DEF ScreenNext

\* The inner loop of wrap has no bound of its own.  Each pass advances through
\* the lines of the field and the words of the text: a word longer than a line,
\* or than all of them, does not keep it going.
THEOREM WrappingAdvances == ScreenSpec => [][WrapAdvances]_screenVars
<1>1. ScreenInit => TextInv
    BY TextInit
<1>2. TextInv /\ [ScreenNext]_screenVars => [WrapAdvances]_screenVars
    BY WrapStepAdvances
<1> QED BY <1>1, <1>2, TextNext, PTL DEF ScreenSpec
=============================================================================

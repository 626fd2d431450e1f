----------------------------- MODULE ScreenText -----------------------------
(***************************************************************************)
(* The text of a question on the badge's 128x64 panel: wrap,               *)
(* compact_wrapped, question and answer_panel of badge-screen/src/lib.rs,  *)
(* and the lengths that questions.rs accepts (fits).                       *)
(*                                                                         *)
(* A text is the sequence of the lengths of its words: what the letters    *)
(* are is the font's business.  The lines of wrap are the pieces of words  *)
(* on them: a piece is `chars` letters of a word, those after the first    *)
(* `from`, and it begins after the first `at` characters of its line.  One *)
(* action is one pass of the loop of wrap.                                 *)
(***************************************************************************)
EXTENDS Integers, Sequences, Functions

CONSTANTS
    Prompts,        \* the shapes of prompts that are considered
    Answers,        \* the shapes of answers that are considered
    ShippedAnswers  \* the shapes of the answers of the authored banks

(* Everything questions.rs accepts has words; a word has characters. *)
Shapes == Seq(Nat \ {0})

ASSUME PromptsAssumption == Prompts \subseteq Shapes
ASSUME AnswersAssumption == Answers \subseteq Shapes
ASSUME ShippedAssumption == ShippedAnswers \subseteq Answers

VARIABLES
    text,     \* the lengths of the words of the text
    field,    \* where on the panel it goes
    pieces,   \* what is on the lines, the one being filled (current) included
    lines,    \* lines.len(): how many lines are finished
    column,   \* current.chars().count(): the length of the line being filled
    word,     \* the word that `remaining` is a tail of
    taken,    \* how much of that word is on finished lines
    drawing   \* TRUE while wrap runs

screenVars == <<text, field, pieces, lines, column, word, taken, drawing>>
-----------------------------------------------------------------------------
(* Where the next piece of the line being filled begins: a space separates *)
(* it from what is there.                                                  *)
Begin == IF column = 0 THEN 0 ELSE column + 1

(* The next piece of the text, n letters of it, on the line being filled. *)
Piece(at, n) ==
    [line |-> lines + 1, at |-> at, word |-> word, from |-> taken, chars |-> n]

Remaining == text[word] - taken
Needed == Begin + Remaining

(* The line is pushed; wrap returns when that was the last one. *)
EndLine ==
    /\ lines' = lines + 1
    /\ column' = 0
    /\ drawing' = (lines + 1 < field.lines)

(* Plausible slips in the definitions below, for the mutation runs. *)

\* What is left of a word that was split is dropped.
DropsTheTail ==
    /\ pieces' = pieces \cup {Piece(0, field.chars)}
    /\ word' = word + 1
    /\ taken' = 0
    /\ EndLine
    /\ UNCHANGED <<text, field>>

\* A word that does not fit what is left of a line begins there anyway.
FillsTheLine ==
    LET room == field.chars - Begin
    IN  /\ pieces' = IF room > 0 THEN pieces \cup {Piece(Begin, room)} ELSE pieces
        /\ taken' = IF room > 0 THEN taken + room ELSE taken
        /\ EndLine
        /\ UNCHANGED <<text, field, word>>
-----------------------------------------------------------------------------
(* The fields of the question screen: the corner of the text, how many     *)
(* characters and lines it may have, and the box it must stay inside.      *)
ANSWER_LABEL_CHARS == 11
ANSWER_LABEL_LINES == 2
PROMPT_CHARS == 31
PROMPT_LINES == 3
ANSWER_PANEL_WIDTH == 63
ANSWER_PANEL_HEIGHT == 16

Box(left, right, top, bottom) ==
    [left |-> left, right |-> right, top |-> top, bottom |-> bottom]

(* Below the header's rule at row 8, above the answer panels. *)
PromptField ==
    [x |-> 1, y |-> 11, chars |-> PROMPT_CHARS, lines |-> PROMPT_LINES,
     box |-> Box(0, 127, 9, 29)]

(* Right of the button's glyph, inside the frame of the panel. *)
AnswerField(x, y) ==
    [x |-> x + 14, y |-> y + 3, chars |-> ANSWER_LABEL_CHARS, lines |-> ANSWER_LABEL_LINES,
     box |-> Box(x + 12, x + ANSWER_PANEL_WIDTH - 2, y + 1, y + ANSWER_PANEL_HEIGHT - 2)]

AnswerFields == {AnswerField(x, y) : x \in {0, 65}, y \in {30, 48}}

(* The authored banks keep to what a label holds: one word that may be     *)
(* broken, or two words with a line each.                                  *)
ASSUME ShippedLengths ==
    \A t \in ShippedAnswers :
        \/ Len(t) = 1 /\ t[1] <= ANSWER_LABEL_LINES * ANSWER_LABEL_CHARS
        \/ Len(t) = 2 /\ t[1] <= ANSWER_LABEL_CHARS /\ t[2] <= ANSWER_LABEL_CHARS

Blank(t, f) ==
    /\ text = t
    /\ field = f
    /\ pieces = {}
    /\ lines = 0
    /\ column = 0
    /\ word = 1
    /\ taken = 0
    /\ drawing = TRUE

ScreenInit ==
    \/ \E t \in Prompts : Blank(t, PromptField)
    \/ \E t \in Answers, f \in AnswerFields : Blank(t, f)

TooLong == Needed > field.chars

(* A word that does not fit any more goes to the next line, if there is one. *)
FinishLine ==
    /\ EndLine
    /\ UNCHANGED <<text, field, pieces, word, taken>>

(* A word longer than a line is broken across lines. *)
SplitWord ==
    /\ pieces' = pieces \cup {Piece(0, field.chars)}
    /\ taken' = taken + field.chars
    /\ EndLine
    /\ UNCHANGED <<text, field, word>>

PlaceWord ==
    /\ pieces' = pieces \cup {Piece(Begin, Remaining)}
    /\ column' = Needed
    /\ word' = word + 1
    /\ taken' = 0
    /\ UNCHANGED <<text, field, lines, drawing>>

NextPiece ==
    /\ drawing
    /\ word <= Len(text)
    /\ \/ TooLong /\ column > 0 /\ FinishLine
       \/ TooLong /\ column = 0 /\ SplitWord
       \/ ~TooLong /\ PlaceWord

(* wrap returned at the last line of the field: there is room for this one. *)
LastLine ==
    /\ drawing
    /\ word > Len(text)
    /\ lines' = IF column = 0 THEN lines ELSE lines + 1
    /\ column' = 0
    /\ drawing' = FALSE
    /\ UNCHANGED <<text, field, pieces, word, taken>>

ScreenNext == NextPiece \/ LastLine

ScreenSpec == ScreenInit /\ [][ScreenNext]_screenVars
-----------------------------------------------------------------------------
Drawn == ~drawing

Letters(w) == 1 .. text[w]

Shows(p, w, i) == p.word = w /\ p.from < i /\ i <= p.from + p.chars
Shown(w, i) == \E p \in pieces : Shows(p, w, i)

Whole == \A w \in DOMAIN text : \A i \in Letters(w) : Shown(w, i)

ScreenTypeOK ==
    /\ text \in Prompts \cup Answers
    /\ field \in {PromptField} \cup AnswerFields
    /\ pieces \subseteq [line : 1 .. field.lines, at : Nat, word : DOMAIN text,
                         from : Nat, chars : Nat \ {0}]
    /\ lines \in 0 .. field.lines
    /\ column \in 0 .. field.chars
    /\ word \in 1 .. Len(text) + 1
    /\ taken \in Nat
    /\ drawing \in BOOLEAN

(* The pixels that compact_text may light up: a letter is three wide and   *)
(* five high, and the next begins four to the right or six below.          *)
InsideBox(p) ==
    /\ field.x + 4 * p.at >= field.box.left
    /\ field.x + 4 * (p.at + p.chars) - 2 <= field.box.right
    /\ field.y + 6 * (p.line - 1) >= field.box.top
    /\ field.y + 6 * (p.line - 1) + 4 <= field.box.bottom

(* p is read before q: on a line above or, with a space between them, left *)
(* of it; and that is where the text has it.                               *)
Precedes(p, q) ==
    /\ p.line < q.line \/ (p.line = q.line /\ p.at + p.chars < q.at)
    /\ p.word < q.word \/ (p.word = q.word /\ p.from + p.chars <= q.from)

(* However long its words are, a text is drawn inside its box (the prompt  *)
(* off the header and the answer panels, a label off its button's glyph,   *)
(* off its frame and off the panel beside it), and nothing of it is lost,  *)
(* repeated or swapped in the middle: the pieces on the panel are read in  *)
(* the order of the text, they show a beginning of it, all of it if a line *)
(* is left, and no word in two that fits a line.                           *)
TextIsDrawn ==
    /\ ScreenTypeOK
    /\ \A p \in pieces :
          /\ InsideBox(p)
          /\ text[p.word] <= field.chars => p.chars = text[p.word]
    /\ \A p, q \in pieces : p # q => Precedes(p, q) \/ Precedes(q, p)
    /\ \A v, w \in DOMAIN text : \A i \in Letters(v), j \in Letters(w) :
          (v < w \/ (v = w /\ i < j)) /\ Shown(w, j) => Shown(v, i)
    /\ Drawn => Whole \/ \E p \in pieces : p.line = field.lines

(* No answer of the authored Rust and Temporal banks is cut. *)
ShippedAnswersDrawnWhole ==
    Drawn /\ text \in ShippedAnswers /\ field \in AnswerFields => Whole

(* questions.rs bails with "question does not fit badge" on what is longer *)
(* than the badge can show: what it lets through should be drawn whole.    *)
MAX_ANSWER_CHARS == 20
Characters(t) == SumFunction(t) + Len(t) - 1
Fits(t) == Characters(t) <= MAX_ANSWER_CHARS

AcceptedAnswersDrawnWhole ==
    Drawn /\ field \in AnswerFields /\ Fits(text) => Whole
=============================================================================

----------------------------- MODULE WordKeyboard -----------------------------
(***************************************************************************)
(* The keyboard for the words of a mnemonic (KeyBoard.c, style ASSN, and    *)
(* words_util.c).  Letters are typed until few enough words begin with      *)
(* them; these are laid out in a grid of two columns whose last item is     *)
(* Back.  A keyboard is a record; the keys are operators on it.             *)
(***************************************************************************)
EXTENDS Integers, Sequences, FiniteSets, SequencesExt, FiniteSetsExt

CONSTANTS WordList,   \* the sorted list, a word is a sequence of letters 1, 2, ...
          Rows,       \* rows of the grid: 5 in the layouts of the product
          MaxText     \* result_limit

Columns == 2
Back == Rows * Columns - 1      \* the last item, counted from 0
NoRange == [from |-> -1, to |-> -1]
Words == DOMAIN WordList

\* Alphabetical order, of different words
Alphabetical(s, t) ==
  \/ IsStrictPrefix(s, t)
  \/ \E i \in DOMAIN s \cap DOMAIN t : s[i] < t[i] /\ \A j \in 1..i - 1 : s[j] = t[j]

\* gWordList is in that order, and gWordListIndexes has no two neighbours without words
\* between the first and the last letter: x is the only one.
ASSUME WordListAssumption ==
  /\ Rows \in Nat \ {0}
  /\ WordList \in Seq(Seq(Nat \ {0})) /\ WordList # << >>
  /\ \A w \in Words : WordList[w] # << >>
  /\ \A v, w \in Words : v < w => Alphabetical(WordList[v], WordList[w])
  /\ \A l \in 1..Last(WordList)[1] :
       \E w \in Words : WordList[w][1] = l \/ (l > 1 /\ WordList[w][1] = l - 1)

Letters == 1..Max({Last(WordList)[1], 2})

-----------------------------------------------------------------------------
(* words_util.c                                                             *)

\* gWordListIndexes: where the words of a letter end, RANGE_INVALID_VALUE if it has none
EndOf(l) == IF \E w \in Words : WordList[w][1] = l
            THEN Cardinality({w \in Words : WordList[w][1] <= l}) ELSE -1

StartOf(l) == IF l = 1 THEN 1
              ELSE IF EndOf(l - 1) = -1 THEN EndOf(l - 2) + 1 ELSE EndOf(l - 1) + 1

\* getWordRange: the first and the last word that begin with the text
WordRange(text) ==
  LET l == Head(text)
      found == {w \in StartOf(l)..EndOf(l) : IsPrefix(Tail(text), Tail(WordList[w]))}
  IN  IF text = << >> \/ EndOf(l) = -1 THEN NoRange
      ELSE IF found = {} THEN NoRange ELSE [from |-> Min(found), to |-> Max(found)]

CountOf(r) == IF r.from = -1 \/ r.to < r.from THEN 0 ELSE r.to - r.from + 1

\* checkWord: the word that is spelled, or 0
Spelled(text) ==
  LET r == WordRange(text)
      same == {w \in r.from..r.to : w \in Words /\ WordList[w] = text}
  IN  IF CountOf(r) = 0 \/ same = {} THEN 0 ELSE Min(same)

-----------------------------------------------------------------------------
(* The grid: rows at the top are hidden when there are few words            *)

Opened(text) == [text |-> text, list |-> FALSE, range |-> NoRange, start |-> 0, at |-> 0]

Hidden(r) == Rows - (CountOf(r) + 1 + Columns - 1) \div Columns

\* showAssKeyboard
Listed(text, r) ==
  [text |-> text, list |-> TRUE, range |-> r, start |-> Hidden(r) * Columns,
   at |-> Hidden(r) * Columns + CountOf(r) \div 2]

\* What an item of the grid has on it: a word, "back" or nothing
OnItem(kb, i) ==
  LET w == kb.range.from + i - kb.start
  IN  IF i = Back THEN "back" ELSE IF i < kb.start \/ w > kb.range.to THEN "blank" ELSE "word"

\* getRowRange, getColumnRange: with an even number of words one item is empty, the
\* left one of the last row.
LastRowOf(kb, column) ==
  IF CountOf(kb.range) % 2 = 0 /\ column = 0 THEN Rows - 2 ELSE Rows - 1

FirstRowOf(kb) == kb.start \div Columns
FirstColumnOf(kb, row) == IF CountOf(kb.range) % 2 = 0 /\ row = Rows - 1 THEN 1 ELSE 0

\* onKeyMove: one step, and around at the ends
Moved(kb, dir) ==
  LET row == kb.at \div Columns
      col == kb.at % Columns
      left == IF col - 1 < FirstColumnOf(kb, row) THEN Columns - 1 ELSE col - 1
      right == IF col + 1 > Columns - 1 THEN FirstColumnOf(kb, row) ELSE col + 1
      up == IF row - 1 < FirstRowOf(kb) THEN LastRowOf(kb, col) ELSE row - 1
      down == IF row + 1 > LastRowOf(kb, col) THEN FirstRowOf(kb) ELSE row + 1
  IN  [kb EXCEPT !.at = CASE dir = "left" -> row * Columns + left
                          [] dir = "right" -> row * Columns + right
                          [] dir = "up" -> up * Columns + col
                          [] dir = "down" -> down * Columns + col]

-----------------------------------------------------------------------------
(* onClickKey                                                               *)

\* A letter: the list opens when its words fit; a letter no word goes on with is
\* taken back after a dialog.
Lettered(kb, l) ==
  LET text == Append(kb.text, l)
      r == WordRange(text)
  IN  IF Len(kb.text) >= MaxText THEN kb
      ELSE IF CountOf(r) > Back THEN Opened(text)
      ELSE IF CountOf(r) = 0 THEN Opened(kb.text) ELSE Listed(text, r)

Deleted(kb) == Opened(IF kb.text = << >> THEN kb.text ELSE Front(kb.text))

\* The word of the highlighted item
Taken(kb) == kb.at - kb.start + kb.range.from

Presses(kb) ==
  IF kb.list THEN {Moved(kb, d) : d \in {"left", "right", "up", "down"}}
                  \cup IF kb.at = Back THEN {Deleted(kb)} ELSE {}
  ELSE {Lettered(kb, l) : l \in Letters} \cup {Deleted(kb)}

\* What OK ends the dialog with: a word, or 0 if it does not
Chosen(kb) ==
  IF kb.list THEN IF kb.at = Back THEN 0 ELSE Taken(kb)
  ELSE IF kb.text = << >> THEN 0 ELSE Spelled(kb.text)

-----------------------------------------------------------------------------
\* What is highlighted can be read and is what OK takes: the list holds the words
\* that begin with the letters, all of them and no others, and the highlight is on
\* one of them or on Back, however it was moved.
ListTells(kb) ==
  kb.list => /\ OnItem(kb, kb.at) \in {"word", "back"}
             /\ {w \in Words : IsPrefix(kb.text, WordList[w])} = kb.range.from..kb.range.to
             /\ OnItem(kb, kb.at) = "word" => IsPrefix(kb.text, WordList[Taken(kb)])
=============================================================================

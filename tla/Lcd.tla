--------------------------------- MODULE Lcd ---------------------------------
(***************************************************************************)
(* What lcd_dev promises whoever writes a text with it, in any of its      *)
(* fonts and on top of anything: the windows of the letters are wider than *)
(* the letters of their font are apart, so each one is written over a part *)
(* of the place of the next.                                               *)
(***************************************************************************)
EXTENDS Letters, Sequences

CONSTANTS
  FontSizes,    \* the fonts in use
  TextCodes,    \* bound: codes of the letters written
  MaxLetters,   \* bound: letters of a text
  MaxTexts      \* bound: texts written over each other

VARIABLES
  pixels,       \* the pixels that may differ from the background
  font,         \* of the text
  text,         \* the codes written since the text was begun
  texts         \* texts begun since the screen was filled

vars == <<pixels, font, text, texts>>

\* Where letter i begins
Column(i) == 1 + (i - 1) * Pitch(font)

Init == pixels = {} /\ font \in FontSizes /\ text = <<>> /\ texts = 1

\* A text is begun on top of whatever is there.
BeginText ==
  /\ texts < MaxTexts
  /\ font' \in FontSizes /\ text' = <<>> /\ texts' = texts + 1
  /\ UNCHANGED pixels

WriteLetter ==
  /\ Len(text) < MaxLetters
  /\ Column(Len(text) + 1) + LetterSize(font).width - 1 <= Width
  /\ \E letter \in TextCodes :
       /\ pixels' = lcd_write_letter(pixels, letter, Column(Len(text) + 1), 1, font)
       /\ text' = Append(text, letter)
  /\ UNCHANGED <<font, texts>>

FillScreen ==
  /\ pixels' = pixels \ lcd_set_color
  /\ text' = <<>> /\ texts' = 1
  /\ UNCHANGED font

Next == BeginText \/ WriteLetter \/ FillScreen

Spec == Init /\ [][Next]_vars

-------------------------------------------------------------------------------
(* Properties *)

\* The place of letter i, as wide as the letters are apart
Place(i) ==
  (Coordinate(Column(i)) .. Coordinate(Column(i)) + Pitch(font) - 1)
    \X (0 .. LetterSize(font).height - 1)

\* Every letter of a text stands in its place whole and alone, whatever was there
\* before and whatever has been written after it: its window takes away all that
\* was beneath it, and the window of the next letter nothing of it.
TextStaysWhole ==
  \A i \in 1 .. Len(text) :
    pixels \intersect Place(i) = Glyph(text[i], Column(i), 1, font)
===============================================================================

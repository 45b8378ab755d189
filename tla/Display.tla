------------------------------- MODULE Display -------------------------------
(***************************************************************************)
(* The screens of the semester project (utils.cpp): what one measurement   *)
(* after another leaves of them.  All texts are of font 12.                *)
(***************************************************************************)
EXTENDS Letters, Sequences, SequencesExt

CONSTANTS
  Percents,        \* what the progress bar is called with
  MacDigits,       \* bound: codes of the digits in the MAC address
  Measurements     \* bound: measurements

VARIABLES
  inked,     \* the pixels that may differ from the background, <<column, row>>
  letters,   \* history: the codes of the letters written
  scene,     \* what is on the screen besides the MAC address
  measured   \* measurements begun

vars == <<inked, letters, scene, measured>>

\* Letter after letter, seven columns apart
Text(ink, x, y, codes) ==
  LET shown[i \in 0 .. Len(codes)] ==
        IF i = 0 THEN ink
        ELSE lcd_write_letter(shown[i - 1], codes[i], x + (i - 1) * 7, y, 12)
  IN  shown[Len(codes)]

-------------------------------------------------------------------------------
Init == inked = {} /\ letters = {} /\ scene = "off" /\ measured = 0

\* "MAC:", a gap and the address, whose digits are alike here
MacLabel == <<77, 65, 67, 58>>
Mac(digit) == [i \in 1 .. 17 |-> IF i % 3 = 0 THEN 58 ELSE digit]

mac_on_display ==
  /\ scene = "off"
  /\ \E digit \in MacDigits :
       /\ inked' = Text(Text(inked \ lcd_set_color, 1, 1, MacLabel),
                       1 + 5 * 7, 1, Mac(digit))
       /\ letters' = ToSet(MacLabel) \union ToSet(Mac(digit))
  /\ scene' = "mac"
  /\ UNCHANGED measured

\* "0%" and "100%"
Labels(ink) == Text(Text(ink, 1, 24, <<48, 37>>), 152 - 21, 24, <<49, 48, 48, 37>>)

\* percent * 0.15, no more than 15 letters
Progress(percent) == IF percent = 100 THEN 15 ELSE (percent * 15) \div 100

Bar(percent) == [i \in 1 .. Progress(percent) |-> 61]

progress_bar_on_display ==
  /\ scene = "bar" \/ (scene = "mac" /\ measured < Measurements)
  /\ \E percent \in Percents :
       /\ inked' = Text(Labels(inked), 20, 24, Bar(percent))
       /\ letters' = letters \union {48, 49, 37} \union ToSet(Bar(percent))
  /\ measured' = IF scene = "mac" THEN measured + 1 ELSE measured
  /\ scene' = "bar"

remove_progress_bar_from_display ==
  /\ scene = "bar"
  /\ inked' = inked \ lcd_draw_square(0, 24, Width, 24 + 12)
  /\ scene' = "removed"
  /\ UNCHANGED <<letters, measured>>

\* "Saving data"
Saving == <<83, 97, 118, 105, 110, 103, 32, 100, 97, 116, 97>>

saving_data_on_display ==
  /\ scene = "removed"
  /\ inked' = Text(inked, 1, 40, Saving)
  /\ letters' = letters \union ToSet(Saving)
  /\ scene' = "saving"
  /\ UNCHANGED measured

\* Faulty variant: the square of the progress bar is removed once more.
RemoveBarAgain ==
  /\ scene = "saving"
  /\ inked' = inked \ lcd_draw_square(0, 24, Width, 24 + 12)
  /\ scene' = "mac"
  /\ UNCHANGED <<letters, measured>>

remove_saving_data_from_display ==
  /\ scene = "saving"
  /\ inked' = inked \ lcd_draw_square(0, 40, Width, 40 + 12)
  /\ scene' = "mac"
  /\ UNCHANGED <<letters, measured>>

Next ==
  \/ mac_on_display \/ progress_bar_on_display
  \/ remove_progress_bar_from_display
  \/ saving_data_on_display \/ remove_saving_data_from_display

Spec == Init /\ [][Next]_vars

-------------------------------------------------------------------------------
(* Properties *)

\* Every letter of the address stays whole, though the window of each covers a
\* column of the one before it, and whatever else is removed leaves nothing
\* behind: windows count from 1 with both ends, squares from 0 without.
MacLine(digit) ==
  UNION ({Glyph(MacLabel[i], 1 + (i - 1) * 7, 1, 12) : i \in 1 .. 4}
           \union {Glyph(Mac(digit)[i], 36 + (i - 1) * 7, 1, 12) : i \in 1 .. 17})

OnlyMacStays ==
  scene \in {"mac", "removed"} =>
    \E digit \in MacDigits \intersect letters : inked = MacLine(digit)
===============================================================================

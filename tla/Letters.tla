------------------------------- MODULE Letters -------------------------------
(***************************************************************************)
(* The fonts (letters.h) and the driver (LCD096.cpp) of the display of the *)
(* semester project.  A picture is the set of the pixels <<column, row>>   *)
(* that may differ from the background.  A letter inks the rows and        *)
(* columns that the letters of its group ink and clears the rest of its    *)
(* window; what it inks within them is its bitmap's business.              *)
(***************************************************************************)
EXTENDS Integers

CONSTANTS Width, Height   \* LCD_WIDTH, LCD_HEIGHT

Font == {8, 12, 16, 20, 24}

-------------------------------------------------------------------------------
(* The tables: letters that follow each other, with what their bitmaps ink *)
Punctuation8 == [codes |-> 32 .. 47, rows |-> 0 .. 6, columns |-> 0 .. 4]
Digits8 == [codes |-> 48 .. 57, rows |-> 0 .. 5, columns |-> 0 .. 4]
Signs8 == [codes |-> 58 .. 64, rows |-> 0 .. 6, columns |-> 0 .. 4]
Capitals8 == [codes |-> 65 .. 90, rows |-> 0 .. 6, columns |-> 0 .. 4]
Brackets8 == [codes |-> 91 .. 96, rows |-> 0 .. 7, columns |-> 0 .. 4]
SmallLetters8 == [codes |-> 97 .. 122, rows |-> 0 .. 7, columns |-> 0 .. 4]
Braces8 == [codes |-> 123 .. 126, rows |-> 0 .. 6, columns |-> 1 .. 4]

letters8 ==
  {Punctuation8, Digits8, Signs8, Capitals8,
   Brackets8, SmallLetters8, Braces8}

Punctuation12 == [codes |-> 32 .. 47, rows |-> 1 .. 10, columns |-> 0 .. 6]
Digits12 == [codes |-> 48 .. 57, rows |-> 1 .. 8, columns |-> 1 .. 6]
Signs12 == [codes |-> 58 .. 64, rows |-> 0 .. 9, columns |-> 0 .. 5]
Capitals12 == [codes |-> 65 .. 90, rows |-> 1 .. 9, columns |-> 0 .. 6]
Brackets12 == [codes |-> 91 .. 96, rows |-> 1 .. 11, columns |-> 0 .. 6]
SmallLetters12 == [codes |-> 97 .. 122, rows |-> 1 .. 10, columns |-> 0 .. 6]
Braces12 == [codes |-> 123 .. 126, rows |-> 1 .. 10, columns |-> 1 .. 5]

letters12 ==
  {Punctuation12, Digits12, Signs12, Capitals12,
   Brackets12, SmallLetters12, Braces12}

Punctuation16 == [codes |-> 32 .. 47, rows |-> 0 .. 13, columns |-> 2 .. 9]
Digits16 == [codes |-> 48 .. 57, rows |-> 1 .. 10, columns |-> 1 .. 9]
Signs16 == [codes |-> 58 .. 64, rows |-> 1 .. 12, columns |-> 1 .. 9]
Capitals16 == [codes |-> 65 .. 90, rows |-> 2 .. 12, columns |-> 0 .. 10]
Brackets16 == [codes |-> 91 .. 96, rows |-> 0 .. 15, columns |-> 0 .. 10]
SmallLetters16 == [codes |-> 97 .. 122, rows |-> 1 .. 13, columns |-> 0 .. 10]
Braces16 == [codes |-> 123 .. 126, rows |-> 1 .. 12, columns |-> 2 .. 8]

letters16 ==
  {Punctuation16, Digits16, Signs16, Capitals16,
   Brackets16, SmallLetters16, Braces16}

Punctuation20 == [codes |-> 32 .. 47, rows |-> 0 .. 16, columns |-> 2 .. 11]
Digits20 == [codes |-> 48 .. 57, rows |-> 1 .. 13, columns |-> 1 .. 10]
Signs20 == [codes |-> 58 .. 64, rows |-> 1 .. 15, columns |-> 1 .. 12]
Capitals20 == [codes |-> 65 .. 90, rows |-> 2 .. 16, columns |-> 1 .. 13]
Brackets20 == [codes |-> 91 .. 96, rows |-> 0 .. 19, columns |-> 0 .. 13]
SmallLetters20 == [codes |-> 97 .. 122, rows |-> 1 .. 17, columns |-> 1 .. 12]
Braces20 == [codes |-> 123 .. 126, rows |-> 1 .. 16, columns |-> 2 .. 11]

letters20 ==
  {Punctuation20, Digits20, Signs20, Capitals20,
   Brackets20, SmallLetters20, Braces20}

Punctuation24 == [codes |-> 32 .. 47, rows |-> 0 .. 20, columns |-> 2 .. 13]
Digits24 == [codes |-> 48 .. 57, rows |-> 2 .. 16, columns |-> 2 .. 12]
Signs24 == [codes |-> 58 .. 64, rows |-> 2 .. 18, columns |-> 0 .. 14]
Capitals24 == [codes |-> 65 .. 90, rows |-> 3 .. 19, columns |-> 0 .. 16]
Brackets24 == [codes |-> 91 .. 96, rows |-> 0 .. 23, columns |-> 0 .. 15]
SmallLetters24 == [codes |-> 97 .. 122, rows |-> 2 .. 21, columns |-> 0 .. 15]
Braces24 == [codes |-> 123 .. 126, rows |-> 2 .. 19, columns |-> 2 .. 12]

letters24 ==
  {Punctuation24, Digits24, Signs24, Capitals24,
   Brackets24, SmallLetters24, Braces24}

Letters(font_size) ==
  CASE font_size = 8 -> letters8 [] font_size = 12 -> letters12
    [] font_size = 16 -> letters16 [] font_size = 20 -> letters20
    [] font_size = 24 -> letters24

Codes == 32 .. 126

\* "pixels wide": how far apart the letters of a text are written
Pitch(font_size) ==
  CASE font_size = 8 -> 5 [] font_size = 12 -> 7 [] font_size = 16 -> 11
    [] font_size = 20 -> 14 [] font_size = 24 -> 17

-------------------------------------------------------------------------------
(* The driver *)

\* lcd_set_window counts from 1, but takes 0 for 1.
Coordinate(c) == IF c > 0 THEN c - 1 ELSE c

lcd_set_window(x_start, y_start, x_end, y_end) ==
  (Coordinate(x_start) .. Coordinate(x_end)) \X
    (Coordinate(y_start) .. Coordinate(y_end))

\* The first `count' pixels of a window, row after row.
Written(x_start, y_start, x_end, y_end, count) ==
  {p \in lcd_set_window(x_start, y_start, x_end, y_end) :
     (p[2] - Coordinate(y_start))
        * (Coordinate(x_end) - Coordinate(x_start) + 1)
       + (p[1] - Coordinate(x_start)) < count}

\* Faulty variant: font 16 sends as many bytes a row as font 12.
HalfALetter(font_size) ==
  CASE font_size = 8 -> [width |-> 8, height |-> 8, bytes |-> 8]
    [] font_size = 12 -> [width |-> 8, height |-> 12, bytes |-> 12]
    [] font_size = 16 -> [width |-> 16, height |-> 16, bytes |-> 1 * 16]
    [] font_size = 20 -> [width |-> 16, height |-> 20, bytes |-> 2 * 20]
    [] font_size = 24 -> [width |-> 24, height |-> 24, bytes |-> 3 * 24]

\* The window of a letter and the bytes that are sent to it
LetterSize(font_size) ==
  CASE font_size = 8 -> [width |-> 8, height |-> 8, bytes |-> 8]
    [] font_size = 12 -> [width |-> 8, height |-> 12, bytes |-> 12]
    [] font_size = 16 -> [width |-> 16, height |-> 16, bytes |-> 2 * 16]
    [] font_size = 20 -> [width |-> 16, height |-> 20, bytes |-> 2 * 20]
    [] font_size = 24 -> [width |-> 24, height |-> 24, bytes |-> 3 * 24]

\* What a letter inks
Glyph(letter, x, y, font_size) ==
  LET group == CHOOSE g \in Letters(font_size) : letter \in g.codes IN
  {<<Coordinate(x) + column, Coordinate(y) + row>> :
     column \in group.columns, row \in group.rows}

lcd_write_letter(ink, letter, x, y, font_size) ==
  LET size == LetterSize(font_size) IN
  (ink \ Written(x, y, x + size.width - 1, y + size.height - 1, 8 * size.bytes))
    \union Glyph(letter, x, y, font_size)

lcd_draw_square(x_start, y_start, x_end, y_end) ==
  Written(x_start, y_start, x_end, y_end, (x_end - x_start) * (y_end - y_start))

lcd_set_color == lcd_set_window(0, 0, Width, Height)
===============================================================================

------------------------------ MODULE Terminal ------------------------------
(***************************************************************************)
(* The framebuffer terminal of kernel/arch/x86_64/tty.c, the end of the    *)
(* output path printf -> putchar -> terminal_write.                        *)
(*                                                                         *)
(* A pixel of the framebuffer is its index, in 32-bit words from the       *)
(* framebuffer's address; screen.lit has those in the foreground           *)
(* colour.  A line of the framebuffer is pitch words, of which width are   *)
(* on the screen.  The font is its glyphs, sets of bits [y, x].            *)
(***************************************************************************)
EXTENDS Integers

CONSTANTS width, height,      \* of the framebuffer, in pixels
          pitch,              \* words from one line to the next (fb->pitch / 4)
          fwidth, fheight,    \* of a glyph, in font pixels (font_header)
          font_size,          \* screen pixels per font pixel
          glyphs,             \* the glyphs 0..numglyph - 1
          numglyph,
          Chars               \* the characters written

ASSUME TerminalAssumption ==
  /\ width \in Nat /\ height \in Nat /\ pitch \in Nat /\ width <= pitch
  /\ fwidth \in Nat \ {0} /\ fheight \in Nat \ {0} /\ font_size \in Nat \ {0}
  /\ width \div (fwidth * font_size) \in Nat \ {0}
  /\ height \div (fheight * font_size) \in Nat \ {0}
  /\ numglyph \in Nat \ {0} /\ Chars \subseteq 0..255
  /\ glyphs \in [0..(numglyph - 1) -> SUBSET ((0..(fheight - 1)) \X (0..(fwidth - 1)))]

VARIABLES state,              \* "boot" before terminal_initialize, then "up" or "halted"
          terminal_row, terminal_column,
          screen              \* the lit pixels, and (history) the cells drawn, with their
                              \* characters, since the screen was cleared

tty_vars == <<state, terminal_row, terminal_column, screen>>

NewLine == 10
Columns == width \div (fwidth * font_size)
Rows == height \div (fheight * font_size)

putpixel(x, y) == y * pitch + x
Screen == {putpixel(x, y) : x \in 0..(width - 1), y \in 0..(height - 1)}

\* The glyph draw_char takes: glyph 0 for a character the font does not have.
Glyph(c) == glyphs[IF c > 0 /\ c < numglyph THEN c ELSE 0]

\* Mutant of draw_char: a font pixel's lines are not scaled.
draw_char_flat(c, x, y) ==
  {putpixel(x + b[2] * font_size + px, y + b[1] + py)
     : b \in Glyph(c), px \in 0..(font_size - 1), py \in 0..(font_size - 1)}

\* The pixels draw_char lights, each font pixel a square of font_size.
draw_char(c, x, y) ==
  {putpixel(x + b[2] * font_size + px, y + b[1] * font_size + py)
     : b \in Glyph(c), px \in 0..(font_size - 1), py \in 0..(font_size - 1)}

\* Mutant of clear_screen: nothing is painted.
clear_nothing(s) == s

\* clear_screen paints the screen, not what a line has beyond its width.
clear_screen(s) == [lit |-> s.lit \ Screen, drawn |-> {}]

\* What the firmware left in the framebuffer is arbitrary.
TtyInit ==
  /\ state = "boot" /\ terminal_row = 0 /\ terminal_column = 0
  /\ screen \in [lit : {{}, 0..(pitch * height - 1)}, drawn : {{}}]

\* terminal_initialize halts without a framebuffer and clears the first one.
terminal_initialize(framebuffer_count) ==
  /\ state = "boot"
  /\ \/ framebuffer_count < 1 /\ state' = "halted" /\ UNCHANGED screen
     \/ framebuffer_count >= 1 /\ state' = "up" /\ screen' = clear_screen(screen)
  /\ UNCHANGED <<terminal_row, terminal_column>>

\* The test after ++terminal_row.
AtBottom(row) == row = Rows

\* ++terminal_row, and back to the top of a cleared screen at the bottom. s is
\* what is on the screen before.
NextRow(s) ==
  LET row == terminal_row + 1 IN
  /\ terminal_column' = 0
  /\ terminal_row' = IF AtBottom(row) THEN 0 ELSE row
  /\ screen' = IF AtBottom(row) THEN clear_screen(s) ELSE s

\* The test after ++terminal_column.
AtMargin(column) == column = Columns

\* terminal_putchar of a character that is not a newline.
PutGlyph(c) ==
  LET x == terminal_column * fwidth * font_size
      y == terminal_row * fheight * font_size
      s == [lit |-> screen.lit \cup draw_char(c, x, y),
            drawn |-> screen.drawn \cup {<<terminal_row, terminal_column, c>>}]
  IN  IF AtMargin(terminal_column + 1)
      THEN NextRow(s)
      ELSE /\ terminal_column' = terminal_column + 1
           /\ screen' = s
           /\ UNCHANGED terminal_row

terminal_putchar(c) ==
  /\ state = "up"
  /\ IF c = NewLine THEN NextRow(screen) ELSE PutGlyph(c)
  /\ UNCHANGED state

Halted == state = "halted" /\ UNCHANGED tty_vars

TtyNext ==
  \/ \E n \in 0..1 : terminal_initialize(n)
  \/ \E c \in Chars : terminal_putchar(c)
  \/ Halted

TtySpec == TtyInit /\ [][TtyNext]_tty_vars

-----------------------------------------------------------------------------
\* A cell before the cursor, in reading order.
Before(cell) ==
  cell[1] < terminal_row \/ (cell[1] = terminal_row /\ cell[2] < terminal_column)

\* No character is drawn over another: what was written since the screen was last
\* cleared is all before the cursor, whatever newlines and full lines came between.
CursorAhead ==
  /\ \A cell \in screen.drawn : Before(cell)
  /\ \A a, b \in screen.drawn : a[1] = b[1] /\ a[2] = b[2] => a = b

\* The pixel (x, y) shows its bit of the character of the cell it is in.
ShowsBit(x, y) ==
  LET row == y \div (fheight * font_size)
      column == x \div (fwidth * font_size)
      bit == <<(y \div font_size) % fheight, (x \div font_size) % fwidth>>
  IN  \E cell \in screen.drawn : cell[1] = row /\ cell[2] = column /\ bit \in Glyph(cell[3])

\* What the screen shows is the text written since it was last cleared: a pixel is
\* lit exactly if it is in a cell that was written and its bit of the glyph is set.
ScreenShowsText ==
  state = "up" =>
    \A x \in 0..(width - 1), y \in 0..(height - 1) :
      putpixel(x, y) \in screen.lit <=> ShowsBit(x, y)
=============================================================================

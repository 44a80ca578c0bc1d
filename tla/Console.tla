------------------------------ MODULE Console ------------------------------
(***************************************************************************)
(* The console of io.c and the system calls on it: write, gotoxy and       *)
(* set_color (sys.c, devices.c).  Interrupts are off while the kernel      *)
(* prints, so a string is printed in one step.                             *)
(***************************************************************************)
EXTENDS Integers, SequencesExt

CONSTANTS
  NUM_COLUMNS, NUM_ROWS,      \* of the screen
  NUM_COLOURS,                \* colours of the display: a power of 2
  WRITE_AUX_BUFF_MAX_SIZE     \* characters that write copies at a time

ASSUME ConsoleAssumption ==
  /\ NUM_COLUMNS \in Nat \ {0} /\ NUM_ROWS \in Nat \ {0}
  /\ NUM_COLOURS \in Nat \ {0} /\ NUM_COLOURS % 2 = 0
  /\ WRITE_AUX_BUFF_MAX_SIZE \in Nat \ {0}

VARIABLES
  x, y,
  foreground, background,
  put            \* what the last step put on the screen

convars == <<x, y, foreground, background, put>>

Cell    == 0 .. NUM_COLUMNS * NUM_ROWS - 1
Blank   == <<>>
Nothing == [c \in Cell |-> Blank]

\* The bits that foreground << 8 | background << 12 leaves in a Word, as two
\* colours: a foreground that is one too many is the lowest bit of the background.
Attribute ==
  LET back == background % NUM_COLOURS
  IN <<foreground % NUM_COLOURS,
       IF foreground \div NUM_COLOURS = 1 /\ back % 2 = 0 THEN back + 1 ELSE back>>

\* The cursor and the cells while a string is printed.
Screen == [x |-> x, y |-> y, put |-> Nothing]

NewLine(s) == [s EXCEPT !.x = 0, !.y = (s.y + 1) % NUM_ROWS]

\* Mutation: the cursor stays on the line at its end.
printc_nowrap(s, c) ==
  IF c = "\n" THEN NewLine(s)
  ELSE [s EXCEPT !.put[s.y * NUM_COLUMNS + s.x] = <<c, Attribute>>,
                 !.x = (s.x + 1) % NUM_COLUMNS]

printc(s, c) ==
  IF c = "\n" THEN NewLine(s)
  ELSE LET shown == [s EXCEPT !.put[s.y * NUM_COLUMNS + s.x] = <<c, Attribute>>]
       IN IF s.x + 1 >= NUM_COLUMNS THEN NewLine(shown) ELSE [shown EXCEPT !.x = s.x + 1]

\* sys_write_console, and printk.
Puts(string) ==
  LET after == FoldLeft(printc, Screen, string)
  IN /\ x' = after.x /\ y' = after.y /\ put' = after.put
     /\ UNCHANGED <<foreground, background>>

\* The loop of sys_write: pieces of the size of the kernel's buffer, as long as
\* more than one is left, and the rest.
Copied(string) ==
  LET from[s \in Seq({string[i] : i \in DOMAIN string})] ==
        IF Len(s) > WRITE_AUX_BUFF_MAX_SIZE
        THEN SubSeq(s, 1, WRITE_AUX_BUFF_MAX_SIZE)
               \o from[SubSeq(s, WRITE_AUX_BUFF_MAX_SIZE + 1, Len(s))]
        ELSE s
  IN from[string]

OnScreen(novaX, novaY) ==
  novaY >= 0 /\ novaY < NUM_ROWS /\ novaX >= 0 /\ novaX < NUM_COLUMNS

GotoXY(novaX, novaY) ==
  /\ OnScreen(novaX, novaY)
  /\ x' = novaX /\ y' = novaY /\ put' = Nothing
  /\ UNCHANGED <<foreground, background>>

\* One colour past the last is let through.
IsColour(c) == c >= 0 /\ c <= NUM_COLOURS

SetColour(fg, bg) ==
  /\ IsColour(fg) /\ IsColour(bg)
  /\ foreground' = fg /\ background' = bg /\ put' = Nothing
  /\ UNCHANGED <<x, y>>

Quiet == put' = Nothing /\ UNCHANGED <<x, y, foreground, background>>

\* Where the messages of the boot leave the cursor, in the colour they are in.
ConsoleInit ==
  /\ x \in 0 .. NUM_COLUMNS - 1 /\ y \in 0 .. NUM_ROWS - 1
  /\ foreground \in 1 .. NUM_COLOURS - 1 /\ background = 0
  /\ put = Nothing

=============================================================================

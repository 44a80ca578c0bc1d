------------------------------ MODULE Terminal ------------------------------
(***************************************************************************)
(* What the console of io.c promises: a cursor that runs over the cells of *)
(* the screen, from left to right, line by line and from the last line     *)
(* back to the first, and text that appears where the cursor is, in the    *)
(* colours that were set.                                                  *)
(***************************************************************************)
EXTENDS Integers, Sequences

CONSTANTS Columns, Rows, Strings, Colours, Blank

VARIABLES
  pos,       \* the cell that the cursor is on
  colours,   \* foreground and background
  garish,    \* a colour that is none was set: text appears in any
  put        \* what the last step put in the cells, Blank where nothing

tvars == <<pos, colours, garish, put>>

Cell == 0 .. Columns * Rows - 1
Nothing == [c \in Cell |-> Blank]

LineAfter(p) == ((p \div Columns + 1) % Rows) * Columns

\* Where the cursor is after i characters of s.
After(s) ==
  LET at[i \in 0 .. Len(s)] ==
        IF i = 0 THEN pos
        ELSE IF s[i] = "\n" THEN LineAfter(at[i - 1]) ELSE (at[i - 1] + 1) % (Columns * Rows)
  IN at

\* The text in cell c is the last character that was put there.
Text(s, attr) ==
  LET at       == After(s)
      shown(c) == {i \in 1 .. Len(s) : s[i] # "\n" /\ at[i - 1] = c}
  IN [c \in Cell |->
        IF shown(c) = {} THEN Blank
        ELSE <<s[CHOOSE i \in shown(c) : \A j \in shown(c) : j <= i], attr>>]

Init == pos \in Cell /\ colours \in Colours \X Colours /\ garish = FALSE /\ put = Nothing

Puts(s) ==
  /\ pos' = After(s)[Len(s)]
  /\ \E attr \in Colours \X Colours : (garish \/ attr = colours) /\ put' = Text(s, attr)
  /\ UNCHANGED <<colours, garish>>

Move == pos' \in Cell /\ put' = Nothing /\ UNCHANGED <<colours, garish>>

Colour ==
  /\ garish' \in BOOLEAN /\ (~garish' => colours' \in Colours \X Colours)
  /\ put' = Nothing
  /\ UNCHANGED pos

Still == put' = Nothing /\ UNCHANGED <<pos, colours, garish>>

Next == Still \/ Move \/ Colour \/ \E s \in Strings : Puts(s)

Spec == Init /\ [][Next]_tvars

=============================================================================

----------------------------- MODULE KeyStream -----------------------------
(***************************************************************************)
(* What read and the keyboard promise: every character typed is given to   *)
(* one read, in the order of typing, and the reads are served in the order *)
(* of the calls, each with as many characters as it asked for.             *)
(***************************************************************************)
EXTENDS Naturals, Sequences

CONSTANTS Reader, Char, Capacity

VARIABLES
  stream,     \* typed and not yet read
  asking,     \* the reads that wait: who, and for how many
  delivered   \* the last answer, and whose it is

ksvars == <<stream, asking, delivered>>

Init ==
  /\ stream = <<>>
  /\ asking = <<>>
  /\ \E t \in Reader : delivered = [task |-> t, chars |-> <<>>]

\* The first n characters of a stream go to the reader t.
Serve(t, n, s) ==
  /\ n <= Len(s)
  /\ delivered' = [task |-> t, chars |-> SubSeq(s, 1, n)]
  /\ stream' = SubSeq(s, n + 1, Len(s))

Ask(t, n) ==
  /\ \A i \in DOMAIN asking : asking[i].task # t
  /\ IF asking = <<>> /\ n <= Len(stream)
     THEN Serve(t, n, stream) /\ UNCHANGED asking
     ELSE /\ asking' = Append(asking, [task |-> t, n |-> n])
          /\ UNCHANGED <<stream, delivered>>

\* A key serves the first reader, if it is the last one that it needs.
Type(c) ==
  /\ Len(stream) < Capacity
  /\ LET typed == Append(stream, c)
     IN IF asking # <<>> /\ Head(asking).n <= Len(typed)
        THEN /\ Serve(Head(asking).task, Head(asking).n, typed)
             /\ asking' = Tail(asking)
        ELSE /\ stream' = typed
             /\ UNCHANGED <<asking, delivered>>

Next ==
  \/ \E t \in Reader : \E n \in 0 .. Capacity : Ask(t, n)
  \/ \E c \in Char : Type(c)

Spec == Init /\ [][Next]_ksvars

=============================================================================

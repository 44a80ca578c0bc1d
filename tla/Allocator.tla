----------------------------- MODULE Allocator -----------------------------
(***************************************************************************)
(* What malloc and free of libc.c promise: the regions that the program    *)
(* holds lie in the heap and do not overlap, the allocator leaves what is  *)
(* in them alone, and the heap is given back when nothing is held any      *)
(* more.  A spoiled allocator promises nothing.                            *)
(***************************************************************************)
EXTENDS Integers

CONSTANTS Place, Value     \* the places of the heap, and what they may contain

VARIABLES held, contents, top, spoiled

avars == <<held, contents, top, spoiled>>

\* held is a set of regions, each the set of its places.
Disjoint(R) == \A r, s \in R : r # s => r \cap s = {}

Init == held = {} /\ contents \in [Place -> Value] /\ top \in Int /\ spoiled = FALSE

\* The allocator may write wherever nobody holds anything, before and after.
Untouched(R) == \A r \in R : \A a \in r : contents'[a] = contents[a]

Reserve(r) ==
  /\ r # {}
  /\ held' = held \cup {r} /\ Disjoint(held') /\ r \notin held
  /\ \A s \in held' : \A a \in s : a < top'
  /\ Untouched(held)

Release(r) ==
  /\ r \in held /\ held' = held \ {r}
  /\ \A s \in held' : \A a \in s : a < top'
  /\ held' = {} => top' = 0
  /\ Untouched(held')

\* The program writes in a region that it holds.
Use(r) ==
  /\ r \in held /\ Untouched(held \ {r}) /\ UNCHANGED <<held, top>>

Next ==
  \/ spoiled'
  \/ ~spoiled' /\ \E r \in held \cup held' : Reserve(r) \/ Release(r) \/ Use(r)

Spec == Init /\ [][Next]_avars

=============================================================================

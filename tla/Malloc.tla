------------------------------- MODULE Malloc -------------------------------
(***************************************************************************)
(* malloc and free of libc.c, over the heap that dyn_mem gives.            *)
(*                                                                         *)
(* The heap is modelled byte by byte, for a block is known only by the     *)
(* sizes in its header and its footer, which lie among the data of the     *)
(* program at any byte.  A byte is one of an int that the allocator wrote, *)
(* or Junk, one it cannot know (new pages are not cleared, and the program *)
(* writes what it likes).  Four bytes that are not those of one int are an *)
(* int it cannot know, either.  Addresses count from heap_start.  One task *)
(* uses the heap, so a call is one step.                                   *)
(***************************************************************************)
EXTENDS Integers, FiniteSets, Functions

CONSTANTS
  PAGE_SIZE,     \* bytes of a page
  Sizes,         \* what the program asks for, in bytes
  MaxPages       \* frames there are for the heap

INT_SIZE == 4                         \* sizeof(int)
MALLOC_HEADER_SIZE == 2 * INT_SIZE    \* size, and is_free

ASSUME MallocAssumption ==
  /\ PAGE_SIZE \in Nat /\ PAGE_SIZE > 2 * MALLOC_HEADER_SIZE /\ PAGE_SIZE % INT_SIZE = 0
  /\ MaxPages \in Nat \ {0}
  /\ Sizes \subseteq Nat \ {0}

Address == 0 .. MaxPages * PAGE_SIZE - 1
NULL == -1
Junk == -1

\* Byte i of the int v, and one that is of none.
Byte(v, i) == <<v, i>>
JunkByte   == Byte(Junk, 0)

VARIABLES
  mem,         \* the bytes; JunkByte where no page is
  heap_end,    \* NULL until the first malloc, like heap_start
  stopped,     \* "fault": an unmapped page was written; "lost": the code used
               \* an int that it cannot know, and anything may follow
  given,       \* pointers that the program holds, with what it asked for
  freed,       \* pointers it gave back, until their place is given again
  cut,         \* history: a heap was shrunk to a block without a footer
  unaligned,   \* history: a request was not for a whole number of ints
  twice        \* history: free took a pointer that was freed before

hvars == <<mem, heap_end, stopped, given, freed, cut, unaligned, twice>>

----------------------------------------------------------------------------
\* The int at address a.
IntAt(m, a) ==
  LET v == m[a][1]
  IN IF \A i \in 0 .. INT_SIZE - 1 : m[a + i] = Byte(v, i) THEN v ELSE Junk

\* A header at address b.
Header(m, b, size, is_free) ==
  [a \in Address |->
     CASE a - b \in 0 .. INT_SIZE - 1                  -> Byte(size, a - b)
       [] a - b \in INT_SIZE .. MALLOC_HEADER_SIZE - 1 -> Byte(is_free, a - b - INT_SIZE)
       [] OTHER                                        -> m[a]]

(* A heap that a call is working on: its bytes, its end, whether the call  *)
(* has gone astray, and whether it left a block without a footer.          *)

Heap == [mem |-> mem, end |-> heap_end, lost |-> FALSE, cut |-> FALSE]

SizeAt(h, b)   == IntAt(h.mem, b)
IsFreeAt(h, b) == IntAt(h.mem, b + INT_SIZE)
FreeAt(h, b)   == IsFreeAt(h, b) # 0

Known(h, b) ==
  0 <= b /\ b + MALLOC_HEADER_SIZE <= h.end /\ SizeAt(h, b) # Junk /\ IsFreeAt(h, b) # Junk

Lost(h) == [h EXCEPT !.lost = TRUE]

next_block(h, b) == b + SizeAt(h, b)

\* A size that the footer before b does not tell leads nowhere.
prev_block(h, b) ==
  LET footer == b - MALLOC_HEADER_SIZE
  IN IF footer >= 0 /\ SizeAt(h, footer) # Junk THEN b - SizeAt(h, footer) ELSE NULL

\* Mutation: the footer is not written.
write_header_only(h, b, size, is_free) == [h EXCEPT !.mem = Header(@, b, size, is_free)]

\* The footer is written last: in a block of less than two headers it is what
\* remains.
write_header_footer(h, b, size, is_free) ==
  IF b < 0 \/ size < MALLOC_HEADER_SIZE \/ b + size > h.end THEN Lost(h)
  ELSE [h EXCEPT !.mem = Header(Header(@, b, size, is_free),
                                b + size - MALLOC_HEADER_SIZE, size, is_free)]

----------------------------------------------------------------------------
(* malloc *)

TotalSize(n) == n + 2 * MALLOC_HEADER_SIZE
PagesFor(n)  == (TotalSize(n) + PAGE_SIZE - 1) \div PAGE_SIZE

\* The first call gets one page, and makes one free block of it.
Started ==
  IF heap_end # NULL THEN Heap
  ELSE write_header_footer([Heap EXCEPT !.end = PAGE_SIZE], 0, PAGE_SIZE, 1)

NoFit  == -1
Astray == -2

\* The walk over the headers, from heap_start; a size of 0 is not left again.
FirstFit(h, total) ==
  LET from[b \in Nat] ==
        CASE b >= h.end                               -> NoFit
          [] b < h.end /\ ~Known(h, b)                -> Astray
          [] OTHER ->
               IF FreeAt(h, b) /\ SizeAt(h, b) >= total THEN b
               ELSE IF SizeAt(h, b) = 0 THEN Astray ELSE from[next_block(h, b)]
  IN from[0]

\* A remainder with room for data becomes a free block.
Split(h, b, total) ==
  LET rem == SizeAt(h, b) - total
  IN IF rem > 2 * MALLOC_HEADER_SIZE
     THEN write_header_footer(write_header_footer(h, b, total, 0), b + total, rem, 1)
     ELSE write_header_footer(h, b, SizeAt(h, b), 0)

\* malloc returns block b of heap h for n bytes.  A pointer is forgotten when the
\* int that says whether its block is free is given away.
Return(h, b, n) ==
  LET p == b + MALLOC_HEADER_SIZE
  IN /\ mem' = h.mem /\ heap_end' = h.end
     /\ stopped' = IF h.lost THEN "lost" ELSE stopped
     /\ given' = [q \in DOMAIN given \cup {p} |-> IF q = p THEN n ELSE given[q]]
     /\ freed' = {q \in freed : q - INT_SIZE \notin b .. b + SizeAt(h, b) - 1}
     /\ unaligned' = (unaligned \/ n % INT_SIZE # 0)
     /\ UNCHANGED <<cut, twice>>

Running == stopped = "no"

MallocFit(n) ==
  LET b == FirstFit(Started, TotalSize(n))
  IN Running /\ b >= 0 /\ Return(Split(Started, b, TotalSize(n)), b, n)

\* No block fits: new pages, the whole of them for the caller.
MallocGrow(n) ==
  LET old_heap_end == Started.end
      new_end      == old_heap_end + PagesFor(n) * PAGE_SIZE
  IN /\ Running /\ FirstFit(Started, TotalSize(n)) = NoFit
     /\ new_end <= MaxPages * PAGE_SIZE
     /\ Return(write_header_footer([Started EXCEPT !.end = new_end],
                                   old_heap_end, PagesFor(n) * PAGE_SIZE, 0),
               old_heap_end, n)

\* dyn_mem's error is not looked at: the header of the block is written where
\* no page is.
MallocFault(n) ==
  /\ Running /\ FirstFit(Started, TotalSize(n)) = NoFit
  /\ Started.end + PagesFor(n) * PAGE_SIZE > MaxPages * PAGE_SIZE
  /\ stopped' = "fault"
  /\ UNCHANGED <<mem, heap_end, given, freed, cut, unaligned, twice>>

MallocAstray(n) ==
  /\ Running /\ FirstFit(Started, TotalSize(n)) = Astray
  /\ stopped' = "lost"
  /\ UNCHANGED <<mem, heap_end, given, freed, cut, unaligned, twice>>

----------------------------------------------------------------------------
(* free *)

\* Mutation: the next block is not looked at.
JoinNextNever(h, b) == h

JoinNext(h, b) ==
  LET next == next_block(h, b)
  IN IF next >= h.end THEN h
     ELSE IF ~Known(h, next) THEN Lost(h)
     ELSE IF FreeAt(h, next)
          THEN write_header_footer(h, b, SizeAt(h, b) + SizeAt(h, next), 1)
          ELSE h

\* Mutation: the joined block keeps the size of the freed one.
JoinPrevShort(h, b) ==
  LET prev == prev_block(h, b)
  IN IF b = 0 THEN h
     ELSE IF ~Known(h, prev) THEN Lost(h)
     ELSE IF FreeAt(h, prev)
          THEN write_header_footer(h, prev, SizeAt(h, b), 1)
          ELSE h

JoinPrev(h, b) ==
  LET prev == prev_block(h, b)
  IN IF b = 0 THEN h
     ELSE IF ~Known(h, prev) THEN Lost(h)
     ELSE IF FreeAt(h, prev)
          THEN write_header_footer(h, prev, SizeAt(h, b) + SizeAt(h, prev), 1)
          ELSE h

\* The heap without its last pages, and the new size in the header of its last
\* block; no footer is written.
Shrunk(h, last, pages) ==
  LET end  == h.end - pages * PAGE_SIZE
      size == end - last
      w    == Header(h.mem, last, SizeAt(h, last) - pages * PAGE_SIZE, IsFreeAt(h, last))
      m    == [a \in Address |-> IF a >= end THEN JunkByte ELSE w[a]]
  IN [h EXCEPT !.end = end, !.mem = m,
               !.cut = size > 0 /\ ~(/\ size = MALLOC_HEADER_SIZE \/ size >= 2 * MALLOC_HEADER_SIZE
                                     /\ IntAt(m, end - MALLOC_HEADER_SIZE) = size)]

\* Mutation: the end of the last block is not compared with that of the heap.
GiveBackRound(h) ==
  LET last  == prev_block(h, h.end)
      pages == (h.end - last + PAGE_SIZE - 1) \div PAGE_SIZE
  IN IF ~Known(h, last) THEN Lost(h)
     ELSE IF FreeAt(h, last) THEN Shrunk(h, last, pages) ELSE h

\* The last block is found by its footer; when it is free its whole pages go
\* back to the system.
GiveBack(h) ==
  LET last  == prev_block(h, h.end)
      pages == (h.end - last) \div PAGE_SIZE
  IN IF ~Known(h, last) THEN Lost(h)
     ELSE IF FreeAt(h, last) /\ pages > 0 /\ next_block(h, last) = h.end
          THEN Shrunk(h, last, pages)
          ELSE h

\* Each part of free works on what the one before left, as long as it is not
\* astray.
FreeHeap(p) ==
  LET b      == p - MALLOC_HEADER_SIZE
      marked == write_header_footer(Heap, b, SizeAt(Heap, b), 1)
      next   == IF marked.lost THEN marked ELSE JoinNext(marked, b)
      prev   == IF next.lost THEN next ELSE JoinPrev(next, b)
  IN IF prev.lost THEN prev ELSE GiveBack(prev)

\* Mutation: a pointer that was freed before is taken again.
TakesInside(p) == p \in MALLOC_HEADER_SIZE .. heap_end - 1

\* What free takes, and what it returns -1 for: an is_free that cannot be known
\* may be zero or not.
IsFreeOf(p) == IsFreeAt(Heap, p - MALLOC_HEADER_SIZE)
Takes(p)    == p \in MALLOC_HEADER_SIZE .. heap_end - 1 /\ IsFreeOf(p) \in {0, Junk}
Refuses(p)  == p \notin MALLOC_HEADER_SIZE .. heap_end - 1 \/ IsFreeOf(p) # 0

Free(p) ==
  /\ Running /\ p \in DOMAIN given \cup freed /\ Takes(p)
  /\ mem' = FreeHeap(p).mem /\ heap_end' = FreeHeap(p).end
  /\ stopped' = IF FreeHeap(p).lost THEN "lost" ELSE "no"
  /\ given' = Restrict(given, DOMAIN given \ {p})
  /\ freed' = freed \cup {p}
  /\ cut' = (cut \/ FreeHeap(p).cut)
  /\ twice' = (twice \/ p \in freed)
  /\ UNCHANGED unaligned

FreeRefused(p) ==
  Running /\ p \in DOMAIN given \cup freed /\ Refuses(p) /\ UNCHANGED hvars

----------------------------------------------------------------------------
\* The program uses what it holds (as test_malloc_free does).
Payload(p) == p .. p + given[p] - 1

Fill(p) ==
  /\ Running /\ p \in DOMAIN given
  /\ mem' = [a \in Address |-> IF a \in Payload(p) THEN JunkByte ELSE mem[a]]
  /\ UNCHANGED <<heap_end, stopped, given, freed, cut, unaligned, twice>>

----------------------------------------------------------------------------
HeapInit ==
  /\ mem = [a \in Address |-> JunkByte] /\ heap_end = NULL /\ stopped = "no"
  /\ given = <<>> /\ freed = {} /\ cut = FALSE /\ unaligned = FALSE /\ twice = FALSE

Stopped == ~Running /\ UNCHANGED hvars

HeapNext ==
  \/ \E n \in Sizes : MallocFit(n) \/ MallocGrow(n) \/ MallocFault(n) \/ MallocAstray(n)
  \/ \E p \in Address : Free(p) \/ FreeRefused(p) \/ Fill(p)
  \/ Stopped

HeapSpec == HeapInit /\ [][HeapNext]_hvars

(***************************************************************************)
(*                              PROPERTIES                                 *)
(***************************************************************************)

\* The blocks, as a walk over the headers meets them.
Blocks ==
  LET from[b \in Nat] ==
        IF b >= heap_end \/ SizeAt(Heap, b) <= 0 THEN {b}
        ELSE {b} \cup from[next_block(Heap, b)]
  IN IF heap_end = NULL THEN {} ELSE from[0]

BlockStarts == Blocks \ {heap_end}

Sane == stopped # "lost" /\ ~cut /\ ~twice

\* The blocks fill the heap from end to end, the ones in use are those that
\* the program holds, each with room for what was asked, and each footer says
\* what its header does: whatever is malloc'ed and freed in whatever order,
\* split, joined and given back (libc.c:85-172).
BlocksTile ==
  Sane /\ heap_end # NULL =>
    /\ heap_end \in Blocks
    /\ {b \in BlockStarts : ~FreeAt(Heap, b)} = {p - MALLOC_HEADER_SIZE : p \in DOMAIN given}
    /\ \A b \in BlockStarts : prev_block(Heap, next_block(Heap, b)) = b
    /\ \A p \in DOMAIN given :
         SizeAt(Heap, p - MALLOC_HEADER_SIZE) >= TotalSize(given[p])

\* Two free blocks are never neighbours: free joins on both sides, and nothing
\* else makes neighbours of free blocks (libc.c:109-113, 144-157).
FreesJoined ==
  Sane => \A b \in BlockStarts :
    FreeAt(Heap, b) /\ next_block(Heap, b) # heap_end => ~FreeAt(Heap, next_block(Heap, b))

\* As long as all requests are for whole ints, a pointer that was freed, and
\* whose place has not been given again, is refused when it is freed once more:
\* the header that free looks at is still there, under blocks joined, split and
\* given back (libc.c:135-140).
DoubleFreeRefused == Sane /\ ~unaligned => \A p \in freed : ~Takes(p)

\* malloc and free never act on an int that they did not write, unless a shrink
\* left the last block without a footer, or a request for a part of an int made
\* headers overlap a header of before, and free took that for one of a block
\* in use (libc.c:78-83, 98, 159-169).
LostForCause == stopped = "lost" => cut \/ (unaligned /\ twice)

\* malloc and free implement an allocator that keeps what it has given apart,
\* touches none of it, and gives every page back when nothing is held.
A == INSTANCE Allocator WITH
       Place    <- Address,
       Value    <- (-1 .. MaxPages * PAGE_SIZE) \X (0 .. INT_SIZE - 1),
       held     <- {Payload(p) : p \in DOMAIN given},
       contents <- mem,
       top      <- IF heap_end = NULL THEN 0 ELSE heap_end,
       spoiled  <- ~Sane

ImplementsAllocator == A!Spec

=============================================================================

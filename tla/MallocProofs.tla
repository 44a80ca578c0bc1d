---------------------------- MODULE MallocProofs ---------------------------
(***************************************************************************)
(* Theorems about module Malloc, for every size of page, of heap and of    *)
(* request.  A heap is seen as an interval that blocks tile (Tiled): each  *)
(* handler replaces the tiles of an interval, and the walks over headers   *)
(* and the steps over footers find tiles and nothing else.  When all       *)
(* requests are for whole ints, so are all addresses, and an int is        *)
(* overwritten whole or not at all (Aligned).                              *)
(***************************************************************************)
EXTENDS Malloc, WellFoundedInduction, TLAPS

----------------------------------------------------------------------------
(* The least element of a set stands in for induction.                     *)

LEMMA Least ==
  ASSUME NEW I \in SUBSET Nat, I # {}
  PROVE  \E x \in I : \A y \in I : x <= y
<1> DEFINE R == {p \in Nat \X Nat : p[1] < p[2]}
<1>1. OpToRel(<, Nat) = R
  BY DEF OpToRel
<1>2. IsWellFoundedOn(R, Nat)
  BY <1>1, NatLessThanWellFounded
<1>3. PICK x \in I : \A y \in I : <<y, x>> \notin R
  <2> HIDE DEF R
  <2> QED BY <1>2, WFMin
<1>4. ASSUME NEW y \in I PROVE x <= y
  <2>1. x \in Nat /\ y \in Nat
    OBVIOUS
  <2>2. <<y, x>> \notin R
    BY <1>3
  <2>3. QED
    BY <2>1, <2>2
<1>5. QED BY <1>4

LEMMA Greatest ==
  ASSUME NEW top \in Nat, NEW I \in SUBSET (0 .. top), I # {}
  PROVE  \E x \in I : \A y \in I : y <= x
<1> DEFINE J == {top - x : x \in I}
<1>1. J \in SUBSET Nat /\ J # {}
  <2>1. \A x \in I : x \in 0 .. top
    OBVIOUS
  <2>2. \A x \in I : top - x \in Nat
    BY <2>1
  <2>3. QED BY <2>2
<1>2. PICK j \in J : \A y \in J : j <= y
  BY <1>1, Least
<1>3. PICK x \in I : j = top - x
  BY <1>2
<1>4. ASSUME NEW y \in I PROVE y <= x
  <2>1. top - x <= top - y
    BY <1>2, <1>3
  <2>2. x \in Int /\ y \in Int
    OBVIOUS
  <2>3. QED BY <2>1, <2>2
<1>5. QED BY <1>4

----------------------------------------------------------------------------
(* The ints in the bytes.                                                  *)

\* What a byte of the heap may be.
Word == -1 .. MaxPages * PAGE_SIZE
Cell == Word \X (0 .. INT_SIZE - 1)

\* An int is a matter of its four bytes.
LEMMA SameInt ==
  ASSUME NEW m, NEW w, NEW a \in Int, \A x \in a .. a + 3 : w[x] = m[x]
  PROVE  IntAt(w, a) = IntAt(m, a)
<1>1. \A i \in 0 .. 3 : a + i \in a .. a + 3
  OBVIOUS
<1>2. \A i \in 0 .. 3 : w[a + i] = m[a + i]
  BY <1>1
<1>3. w[a] = m[a]
  OBVIOUS
<1>4. INT_SIZE - 1 = 3
  BY DEF INT_SIZE
<1>5. QED BY <1>2, <1>3, <1>4 DEF IntAt

\* Four bytes of one int are that int.
LEMMA IsInt ==
  ASSUME NEW m, NEW a \in Int, NEW v, \A i \in 0 .. 3 : m[a + i] = <<v, i>>
  PROVE  IntAt(m, a) = v
<1>1. m[a] = <<v, 0>>
  <2>1. a + 0 = a
    OBVIOUS
  <2>2. QED BY <2>1
<1>2. m[a][1] = v
  BY <1>1
<1>3. INT_SIZE - 1 = 3
  BY DEF INT_SIZE
<1>4. QED BY <1>2, <1>3 DEF IntAt, Byte

\* Bytes that are of no int.
LEMMA NoInt ==
  ASSUME NEW m, NEW a \in Int, NEW i \in 0 .. 3, m[a + i] = JunkByte
  PROVE  IntAt(m, a) = Junk
<1>1. INT_SIZE - 1 = 3
  BY DEF INT_SIZE
<1>2. QED BY <1>1 DEF IntAt, Byte, JunkByte, Junk

LEMMA IntType ==
  ASSUME NEW m \in [Address -> Cell], NEW a \in Address
  PROVE  IntAt(m, a) \in Word
<1>1. m[a] \in Cell
  OBVIOUS
<1>2. m[a][1] \in Word
  BY <1>1 DEF Cell
<1>3. Junk \in Word
  BY MallocAssumption DEF Junk, Word
<1>4. QED BY <1>2, <1>3 DEF IntAt

----------------------------------------------------------------------------
(* Tilings.                                                                *)

\* The bytes of m from b to e are a block: its header and its footer say so,
\* and when it is in use both say that, too.
Block(m, b, e) ==
  /\ e - b = 8 \/ e - b >= 16
  /\ IntAt(m, b) = e - b /\ IntAt(m, e - 8) = e - b /\ IntAt(m, b + 4) \in {0, 1}
  /\ IntAt(m, b + 4) = 0 => e - b >= 17 /\ IntAt(m, e - 4) = 0

\* The blocks that start in S, each up to the next, fill the bytes from lo to hi.
Tiled(m, lo, hi, S) ==
  /\ lo <= hi /\ S \in SUBSET (lo .. hi - 1) /\ lo \in S \cup {hi}
  /\ \A b \in S : /\ b + IntAt(m, b) \in S \cup {hi} /\ Block(m, b, b + IntAt(m, b))
                  /\ \A c \in S : b < c => b + IntAt(m, b) <= c

LEMMA BlockAlone ==
  ASSUME NEW m, NEW b \in Nat, NEW e \in Nat, Block(m, b, e)
  PROVE  Tiled(m, b, e, {b})
BY DEF Block, Tiled

\* The block that starts at b ends at e.
Tile(m, S, lo, hi, b, e) ==
  /\ e = b + IntAt(m, b) /\ IntAt(m, b) = e - b /\ Block(m, b, e)
  /\ b \in Nat /\ e \in Nat /\ lo <= b /\ b < e /\ e <= hi /\ e - b >= 8
  /\ \A c \in S : b < c => e <= c

LEMMA NextOf ==
  ASSUME NEW m, NEW lo \in Nat, NEW hi \in Nat, NEW S, Tiled(m, lo, hi, S), NEW b \in S
  PROVE  \E e \in S \cup {hi} : Tile(m, S, lo, hi, b, e)
<1>1. PICK e \in S \cup {hi} : e = b + IntAt(m, b)
  BY DEF Tiled
<1>2. S \in SUBSET (lo .. hi - 1) /\ Block(m, b, e) /\ \A c \in S : b < c => e <= c
  BY <1>1 DEF Tiled
<1>3. b \in Nat /\ e \in Nat /\ lo <= b /\ e <= hi
  <2>1. b \in lo .. hi - 1 /\ (e \in lo .. hi - 1 \/ e = hi)
    BY <1>1, <1>2
  <2>2. QED BY <2>1
<1>4. IntAt(m, b) = e - b /\ e - b >= 8
  BY <1>2 DEF Block
<1>5. b < e
  BY <1>3, <1>4
<1>6. QED BY <1>1, <1>2, <1>3, <1>4, <1>5 DEF Tile

LEMMA Concatenated ==
  ASSUME NEW m, NEW lo \in Nat, NEW mid \in Nat, NEW hi \in Nat,
         NEW S, NEW T, Tiled(m, lo, mid, S), Tiled(m, mid, hi, T)
  PROVE  Tiled(m, lo, hi, S \cup T)
<1>1. /\ lo <= mid /\ mid <= hi /\ S \in SUBSET (lo .. mid - 1) /\ T \in SUBSET (mid .. hi - 1)
      /\ mid \in T \cup {hi} /\ lo \in S \cup {mid}
  BY DEF Tiled
<1>2. ASSUME NEW b \in S
      PROVE  /\ b + IntAt(m, b) \in S \cup T \cup {hi} /\ Block(m, b, b + IntAt(m, b))
             /\ \A c \in S \cup T : b < c => b + IntAt(m, b) <= c
  <2>1. PICK e \in S \cup {mid} :
          /\ e = b + IntAt(m, b) /\ Block(m, b, e) /\ e \in Nat /\ e <= mid
          /\ \A c \in S : b < c => e <= c
    <3>1. PICK t \in S \cup {mid} : Tile(m, S, lo, mid, b, t)
      BY NextOf
    <3>2. QED BY <3>1 DEF Tile
  <2>2. \A c \in T : e <= c
    BY <1>1, <2>1
  <2>3. e \in S \cup T \cup {hi}
    BY <1>1, <2>1
  <2>4. QED BY <2>1, <2>2, <2>3
<1>3. ASSUME NEW b \in T
      PROVE  /\ b + IntAt(m, b) \in S \cup T \cup {hi} /\ Block(m, b, b + IntAt(m, b))
             /\ \A c \in S \cup T : b < c => b + IntAt(m, b) <= c
  <2>1. /\ b + IntAt(m, b) \in T \cup {hi} /\ Block(m, b, b + IntAt(m, b))
        /\ \A c \in T : b < c => b + IntAt(m, b) <= c
    BY DEF Tiled
  <2>2. \A c \in S : ~(b < c)
    BY <1>1
  <2>3. QED BY <2>1, <2>2
<1>4. S \cup T \in SUBSET (lo .. hi - 1) /\ lo <= hi /\ lo \in S \cup T \cup {hi}
  BY <1>1
<1>5. QED BY <1>2, <1>3, <1>4 DEF Tiled

LEMMA CutAt ==
  ASSUME NEW m, NEW lo \in Nat, NEW hi \in Nat, NEW S, Tiled(m, lo, hi, S),
         NEW x \in S \cup {hi}
  PROVE  /\ Tiled(m, lo, x, S \cap (lo .. x - 1))
         /\ Tiled(m, x, hi, S \cap (x .. hi - 1))
<1>1. /\ lo <= hi /\ S \in SUBSET (lo .. hi - 1) /\ lo \in S \cup {hi}
      /\ x \in Int /\ lo <= x /\ x <= hi
  BY DEF Tiled
<1>2. ASSUME NEW b \in S
      PROVE  /\ b + IntAt(m, b) \in S \cup {hi} /\ Block(m, b, b + IntAt(m, b))
             /\ \A c \in S : b < c => b + IntAt(m, b) <= c
             /\ b + IntAt(m, b) \in Int /\ b + IntAt(m, b) > b /\ b \in Int
  <2>1. PICK t \in S \cup {hi} : Tile(m, S, lo, hi, b, t)
    BY NextOf
  <2>2. QED BY <2>1 DEF Tile
<1>3. ASSUME NEW b \in S, b < x PROVE b + IntAt(m, b) <= x
  <2>1. PICK e : e = b + IntAt(m, b) /\ e \in Int /\ e \in S \cup {hi}
                     /\ \A c \in S : b < c => e <= c
    BY <1>2
  <2>2. e <= hi
    BY <1>1, <2>1
  <2>3. QED BY <1>3, <2>1, <2>2
<1>4. Tiled(m, lo, x, S \cap (lo .. x - 1))
  <2> DEFINE U == S \cap (lo .. x - 1)
  <2>1. U \in SUBSET (lo .. x - 1) /\ lo \in U \cup {x}
    BY <1>1
  <2>2. ASSUME NEW b \in U PROVE b + IntAt(m, b) \in U \cup {x}
    BY <1>1, <1>2, <1>3
  <2>3. QED BY <1>1, <1>2, <2>1, <2>2 DEF Tiled
<1>5. Tiled(m, x, hi, S \cap (x .. hi - 1))
  <2> DEFINE U == S \cap (x .. hi - 1)
  <2>1. U \in SUBSET (x .. hi - 1) /\ x \in U \cup {hi}
    BY <1>1
  <2>2. ASSUME NEW b \in U PROVE b + IntAt(m, b) \in U \cup {hi}
    BY <1>1, <1>2
  <2>3. QED BY <1>1, <1>2, <2>1, <2>2 DEF Tiled
<1>6. QED BY <1>4, <1>5

\* A tiling is a matter of the bytes it covers.
LEMMA SameBytes ==
  ASSUME NEW m, NEW w, NEW lo \in Nat, NEW hi \in Nat, NEW S, Tiled(m, lo, hi, S),
         \A a \in lo .. hi - 1 : w[a] = m[a]
  PROVE  Tiled(w, lo, hi, S)
<1>1. lo <= hi /\ S \in SUBSET (lo .. hi - 1) /\ lo \in S \cup {hi}
  BY DEF Tiled
<1>2. ASSUME NEW b \in S
      PROVE  /\ b + IntAt(w, b) \in S \cup {hi} /\ Block(w, b, b + IntAt(w, b))
             /\ \A c \in S : b < c => b + IntAt(w, b) <= c
  <2>1. PICK e \in S \cup {hi} :
          /\ e = b + IntAt(m, b) /\ Block(m, b, e) /\ \A c \in S : b < c => e <= c
          /\ b \in Nat /\ e \in Nat /\ lo <= b /\ e - b >= 8 /\ e <= hi
    <3>1. PICK t \in S \cup {hi} : Tile(m, S, lo, hi, b, t)
      BY NextOf
    <3>2. QED BY <3>1 DEF Tile
  <2>2. e \in Int /\ b \in Int /\ lo <= b /\ e - b >= 8 /\ e <= hi
    BY <2>1
  <2>3. /\ IntAt(w, b) = IntAt(m, b) /\ IntAt(w, b + 4) = IntAt(m, b + 4)
        /\ IntAt(w, e - 8) = IntAt(m, e - 8) /\ IntAt(w, e - 4) = IntAt(m, e - 4)
    <3>1. ASSUME NEW a \in {b, b + 4, e - 8, e - 4} PROVE IntAt(w, a) = IntAt(m, a)
      <4>1. a \in Int /\ \A x \in a .. a + 3 : x \in lo .. hi - 1
        BY <2>2
      <4>2. QED BY <4>1, SameInt
    <3>2. QED BY <3>1
  <2>4. Block(w, b, e)
    BY <2>1, <2>3 DEF Block
  <2>5. QED BY <2>1, <2>3, <2>4
<1>3. QED BY <1>1, <1>2 DEF Tiled

\* The block before a boundary: what its footer is for.
LEMMA Predecessor ==
  ASSUME NEW m, NEW lo \in Nat, NEW hi \in Nat, NEW S, Tiled(m, lo, hi, S),
         NEW e \in S \cup {hi}, lo < e
  PROVE  \E b \in S : b + IntAt(m, b) = e /\ b < e /\ Block(m, b, e)
<1>1. /\ lo <= hi /\ S \in SUBSET (lo .. hi - 1) /\ lo \in S \cup {hi} /\ e \in Nat /\ e <= hi
  BY DEF Tiled
<1> DEFINE before == {b \in S : b < e}
<1>2. before \in SUBSET (0 .. hi) /\ before # {}
  <2>1. lo \in before
    BY <1>1
  <2>2. \A b \in S : b \in 0 .. hi
    BY <1>1
  <2>3. QED BY <2>1, <2>2
<1>3. PICK b \in before : \A c \in before : c <= b
  <2> HIDE DEF before
  <2> QED BY <1>2, Greatest
<1>4. PICK n \in S \cup {hi} :
        /\ n = b + IntAt(m, b) /\ Block(m, b, n) /\ b \in Nat /\ n \in Nat /\ b < n /\ n <= hi
        /\ \A c \in S : b < c => n <= c
  <2>1. PICK t \in S \cup {hi} : Tile(m, S, lo, hi, b, t)
    BY <1>3, NextOf
  <2>2. QED BY <2>1 DEF Tile
<1>5. b \in S /\ b < e /\ n <= e
  BY <1>1, <1>3, <1>4
<1>6. ~(n < e)
  <2>1. SUFFICES ASSUME n < e PROVE FALSE
    OBVIOUS
  <2>2. n \in before
    BY <1>1, <1>4, <2>1
  <2>3. QED BY <1>3, <1>4, <2>2
<1>7. n = e
  BY <1>1, <1>4, <1>5, <1>6
<1>8. QED BY <1>4, <1>5, <1>7

\* The bytes from lo to hi are the same in m and w, but for those from b to e.
SameOutside(m, w, lo, hi, b, e) == \A a \in lo .. hi - 1 : a \notin b .. e - 1 => w[a] = m[a]

\* A handler writes other blocks where some were.
LEMMA Replaced ==
  ASSUME NEW m, NEW w, NEW lo \in Nat, NEW hi \in Nat, NEW S, Tiled(m, lo, hi, S),
         NEW b \in S, NEW e \in S \cup {hi}, b < e, NEW T, Tiled(w, b, e, T),
         SameOutside(m, w, lo, hi, b, e)
  PROVE  Tiled(w, lo, hi, (S \ (b .. e - 1)) \cup T)
<1>1. /\ S \in SUBSET (lo .. hi - 1) /\ b \in Nat /\ e \in Nat /\ lo <= b /\ b < hi /\ e <= hi
  BY DEF Tiled
<1> DEFINE L == S \cap (lo .. b - 1)
           M == S \cap (b .. hi - 1)
           R == M \cap (e .. hi - 1)
<1>2. Tiled(m, lo, b, L) /\ Tiled(m, b, hi, M)
  BY <1>1, CutAt
<1>3. Tiled(m, e, hi, R)
  <2>1. e \in M \cup {hi}
    BY <1>1
  <2>2. QED BY <1>1, <1>2, <2>1, CutAt
<1>4. Tiled(w, lo, b, L) /\ Tiled(w, e, hi, R)
  <2> HIDE DEF L, R
  <2>1. \A a \in lo .. b - 1 : w[a] = m[a]
    BY <1>1 DEF SameOutside
  <2>2. \A a \in e .. hi - 1 : w[a] = m[a]
    BY <1>1 DEF SameOutside
  <2>3. QED BY <1>1, <1>2, <1>3, <2>1, <2>2, SameBytes
<1>5. Tiled(w, lo, hi, L \cup (T \cup R))
  <2> HIDE DEF L, R
  <2>1. Tiled(w, b, hi, T \cup R)
    BY <1>1, <1>4, Concatenated
  <2>2. QED BY <1>1, <1>4, <2>1, Concatenated
<1>6. L \cup (T \cup R) = (S \ (b .. e - 1)) \cup T
  <2>1. \A x \in S : x \in Nat /\ lo <= x /\ x <= hi - 1
    BY <1>1
  <2>2. \A x \in S : x \notin b .. e - 1 <=> (x \in lo .. b - 1 \/ x \in e .. hi - 1)
    BY <1>1, <2>1
  <2>3. \A x \in S : x \in e .. hi - 1 => x \in b .. hi - 1
    BY <1>1, <2>1
  <2>4. S \ (b .. e - 1) = L \cup R
    BY <2>2, <2>3
  <2>5. QED BY <2>4
<1>7. QED BY <1>5, <1>6

----------------------------------------------------------------------------
(* The walks.                                                              *)

LEMMA FirstFitUnfolds ==
  ASSUME NEW h, NEW total, h.end \in Nat,
         \A b \in Nat : Known(h, b) => IntAt(h.mem, b) \in Nat
  PROVE  \E from :
           /\ FirstFit(h, total) = from[0]
           /\ \A b \in Nat : from[b] =
                CASE b >= h.end                -> NoFit
                  [] b < h.end /\ ~Known(h, b) -> Astray
                  [] OTHER -> IF FreeAt(h, b) /\ SizeAt(h, b) >= total THEN b
                              ELSE IF SizeAt(h, b) = 0 THEN Astray
                                   ELSE from[next_block(h, b)]
<1> DEFINE Step(g, b) ==
             CASE b >= h.end                -> NoFit
               [] b < h.end /\ ~Known(h, b) -> Astray
               [] OTHER -> IF FreeAt(h, b) /\ SizeAt(h, b) >= total THEN b
                           ELSE IF SizeAt(h, b) = 0 THEN Astray
                                ELSE g[next_block(h, b)]
           Whole(g) == g = [b \in Nat |-> Step(g, b)]
           From(g, k) == \A b \in Nat : k <= b => g[b] = Step(g, b)
           good == {k \in Nat : \E g : From(g, k)}
<1>1. ASSUME NEW b \in Nat, NEW g, NEW f, \A c \in Nat : b < c => g[c] = f[c]
      PROVE  Step(g, b) = Step(f, b)
  <2>1. CASE b < h.end /\ Known(h, b) /\ SizeAt(h, b) # 0
    <3>1. next_block(h, b) \in Nat /\ b < next_block(h, b)
      BY <2>1 DEF next_block, SizeAt
    <3>2. g[next_block(h, b)] = f[next_block(h, b)]
      BY <1>1, <3>1
    <3>3. QED BY <3>2
  <2>2. CASE ~(b < h.end /\ Known(h, b) /\ SizeAt(h, b) # 0)
    BY <2>2
  <2>3. QED BY <2>1, <2>2
<1>2. \E g : From(g, 0)
  <2>1. h.end \in good
    <3>1. From([b \in Nat |-> NoFit], h.end)
      OBVIOUS
    <3>2. QED BY <3>1
  <2>2. PICK k \in good : \A j \in good : k <= j
    <3> HIDE DEF good
    <3>1. good \in SUBSET Nat
      BY DEF good
    <3>2. QED BY <2>1, <3>1, Least
  <2>3. k \in Nat /\ \E g : From(g, k)
    OBVIOUS
  <2>4. PICK g : From(g, k)
    BY <2>3
  <2>5. ASSUME k # 0 PROVE FALSE
    <3> DEFINE f == [b \in Nat |-> IF b = k - 1 THEN Step(g, b) ELSE g[b]]
    <3>1. ASSUME NEW b \in Nat, k - 1 <= b PROVE f[b] = Step(f, b)
      <4>1. \A c \in Nat : b < c => g[c] = f[c]
        BY <2>3, <3>1
      <4>2. Step(g, b) = Step(f, b)
        <5> HIDE DEF Step, f
        <5> QED BY <1>1, <4>1
      <4>3. f[b] = Step(g, b)
        <5> HIDE DEF Step
        <5> QED BY <2>3, <2>4, <3>1
      <4>4. QED BY <4>2, <4>3
    <3>2. From(f, k - 1)
      <4> HIDE DEF Step, f
      <4> QED BY <3>1
    <3>3. k - 1 \in Nat /\ k - 1 < k
      BY <2>3, <2>5
    <3>4. \E g2 : From(g2, k - 1)
      <4> HIDE DEF From, f
      <4> QED BY <3>2
    <3>5. k - 1 \in good
      <4> HIDE DEF From
      <4> QED BY <3>3, <3>4
    <3>6. k <= k - 1
      <4> HIDE DEF good
      <4> QED BY <2>2, <3>5
    <3> HIDE DEF good, From, f
    <3>7. QED BY <2>3, <3>3, <3>6
  <2>6. k = 0
    BY <2>5
  <2>7. QED BY <2>4, <2>6
<1>3. \E g : Whole(g)
  <2>1. PICK g : From(g, 0)
    BY <1>2
  <2> DEFINE f == [b \in Nat |-> g[b]]
  <2>2. ASSUME NEW b \in Nat PROVE f[b] = Step(f, b)
    <3>1. Step(f, b) = Step(g, b)
      <4>1. \A c \in Nat : b < c => f[c] = g[c]
        OBVIOUS
      <4> HIDE DEF Step, f
      <4> QED BY <1>1, <4>1
    <3>2. g[b] = Step(g, b)
      <4> HIDE DEF Step
      <4> QED BY <2>1
    <3>3. QED BY <3>1, <3>2
  <2>3. Whole(f)
    <3> HIDE DEF Step
    <3> QED BY <2>2
  <2>4. QED BY <2>3
<1> DEFINE from == CHOOSE g : Whole(g)
<1>4. Whole(from)
  <2> HIDE DEF Whole
  <2> QED BY <1>3
<1>5. FirstFit(h, total) = from[0]
  BY DEF FirstFit
<1>6. \A b \in Nat : from[b] = Step(from, b)
  <2> HIDE DEF from, Step
  <2> QED BY <1>4
<1> HIDE DEF from
<1>7. QED BY <1>5, <1>6

\* The walk of malloc meets the blocks of the tiling, so that it neither goes
\* astray nor takes a block that is in use or too small.
LEMMA FirstFitFinds ==
  ASSUME NEW h, NEW total, h.end \in Nat, NEW S, Tiled(h.mem, 0, h.end, S),
         \A b \in Nat : Known(h, b) => IntAt(h.mem, b) \in Nat
  PROVE  LET b == FirstFit(h, total)
         IN b = NoFit \/ (b \in S /\ IntAt(h.mem, b + 4) # 0 /\ IntAt(h.mem, b) >= total)
<1> DEFINE Fits(b) == b = NoFit \/ (b \in S /\ IntAt(h.mem, b + 4) # 0 /\ IntAt(h.mem, b) >= total)
<1>1. PICK from :
        /\ FirstFit(h, total) = from[0]
        /\ \A b \in Nat : from[b] =
             CASE b >= h.end                -> NoFit
               [] b < h.end /\ ~Known(h, b) -> Astray
               [] OTHER -> IF FreeAt(h, b) /\ SizeAt(h, b) >= total THEN b
                           ELSE IF SizeAt(h, b) = 0 THEN Astray
                                ELSE from[next_block(h, b)]
  BY FirstFitUnfolds
<1>2. S \in SUBSET (0 .. h.end - 1) /\ 0 \in S \cup {h.end}
  BY DEF Tiled
<1>3. Fits(from[h.end])
  <2>1. from[h.end] = NoFit
    BY <1>1
  <2>2. QED BY <2>1
<1>4. ASSUME NEW b \in S
      PROVE  \E e \in S \cup {h.end} : b < e /\ (from[b] = from[e] \/ Fits(from[b]))
  <2>1. PICK e \in S \cup {h.end} :
          /\ e = b + IntAt(h.mem, b) /\ IntAt(h.mem, b) = e - b /\ Block(h.mem, b, e)
          /\ b \in Nat /\ e \in Nat /\ b < e /\ e <= h.end /\ e - b >= 8
    <3>1. PICK t \in S \cup {h.end} : Tile(h.mem, S, 0, h.end, b, t)
      BY NextOf
    <3>2. QED BY <3>1 DEF Tile
  <2>2. b < h.end /\ IntAt(h.mem, b) # 0 /\ next_block(h, b) = e
    BY <2>1 DEF next_block, SizeAt
  <2>3. Known(h, b)
    <3>1. IntAt(h.mem, b) # Junk /\ IntAt(h.mem, b + 4) # Junk
      <4>1. IntAt(h.mem, b + 4) \in {0, 1}
        BY <2>1 DEF Block
      <4>2. IntAt(h.mem, b + 4) # Junk
        BY <4>1 DEF Junk
      <4>3. IntAt(h.mem, b) # Junk
        BY <2>1 DEF Junk
      <4>4. QED BY <4>2, <4>3
    <3>2. 0 <= b /\ b + 8 <= h.end /\ MALLOC_HEADER_SIZE = 8 /\ b + INT_SIZE = b + 4
      BY <2>1 DEF MALLOC_HEADER_SIZE, INT_SIZE
    <3>3. QED BY <3>1, <3>2 DEF Known, SizeAt, IsFreeAt
  <2>4. from[b] = IF FreeAt(h, b) /\ SizeAt(h, b) >= total THEN b ELSE from[e]
    <3>1. from[b] = IF FreeAt(h, b) /\ SizeAt(h, b) >= total THEN b
                    ELSE IF SizeAt(h, b) = 0 THEN Astray ELSE from[next_block(h, b)]
      BY <1>1, <2>1, <2>2, <2>3
    <3>2. QED BY <2>2, <3>1 DEF SizeAt
  <2>5. CASE FreeAt(h, b) /\ SizeAt(h, b) >= total
    BY <2>1, <2>4, <2>5 DEF FreeAt, SizeAt, IsFreeAt, INT_SIZE
  <2>6. CASE ~(FreeAt(h, b) /\ SizeAt(h, b) >= total)
    BY <2>1, <2>4, <2>6
  <2>7. QED BY <2>5, <2>6
<1>5. \A b \in S \cup {h.end} : Fits(from[b])
  <2> HIDE DEF Fits
  <2> DEFINE bad == {b \in S \cup {h.end} : ~Fits(from[b])}
  <2>1. SUFFICES ASSUME bad # {} PROVE FALSE
    OBVIOUS
  <2>2. bad \in SUBSET (0 .. h.end)
    <3>1. \A c \in S \cup {h.end} : c \in 0 .. h.end
      BY <1>2
    <3>2. QED BY <3>1
  <2>3. PICK b \in bad : \A c \in bad : c <= b
    <3> HIDE DEF bad
    <3> QED BY <2>1, <2>2, Greatest
  <2>4. b # h.end
    <3>1. Fits(from[h.end])
      BY <1>3
    <3>2. QED BY <3>1
  <2>5. PICK e \in S \cup {h.end} : b < e /\ (from[b] = from[e] \/ Fits(from[b]))
    BY <1>4, <2>4
  <2>6. e \in bad /\ b \in Int /\ e \in Int
    BY <1>2, <2>2, <2>5
  <2>7. QED BY <2>3, <2>5, <2>6
<1>6. Fits(from[0])
  <2> HIDE DEF Fits
  <2> QED BY <1>2, <1>5
<1>7. QED BY <1>1, <1>6

LEMMA BlocksUnfold ==
  ASSUME heap_end \in Nat, \A b \in 0 .. heap_end - 1 : IntAt(mem, b) \in Int
  PROVE  \E from :
           /\ Blocks = from[0]
           /\ \A b \in Nat : from[b] =
                IF b >= heap_end \/ SizeAt(Heap, b) <= 0 THEN {b}
                ELSE {b} \cup from[next_block(Heap, b)]
<1> DEFINE Step(g, b) == IF b >= heap_end \/ SizeAt(Heap, b) <= 0 THEN {b}
                         ELSE {b} \cup g[next_block(Heap, b)]
           Whole(g) == g = [b \in Nat |-> Step(g, b)]
           From(g, k) == \A b \in Nat : k <= b => g[b] = Step(g, b)
           good == {k \in Nat : \E g : From(g, k)}
<1>1. ASSUME NEW b \in Nat, NEW g, NEW f, \A c \in Nat : b < c => g[c] = f[c]
      PROVE  Step(g, b) = Step(f, b)
  <2>1. CASE b < heap_end /\ SizeAt(Heap, b) > 0
    <3>1. next_block(Heap, b) \in Nat /\ b < next_block(Heap, b)
      BY <2>1 DEF next_block, SizeAt, Heap
    <3>2. g[next_block(Heap, b)] = f[next_block(Heap, b)]
      BY <1>1, <3>1
    <3>3. QED BY <3>2
  <2>2. CASE ~(b < heap_end /\ SizeAt(Heap, b) > 0)
    <3>1. b >= heap_end \/ SizeAt(Heap, b) <= 0
      BY <2>2 DEF SizeAt, Heap
    <3>2. QED BY <3>1
  <2>3. QED BY <2>1, <2>2
<1>2. \E g : From(g, 0)
  <2>1. heap_end \in good
    <3>1. From([b \in Nat |-> {b}], heap_end)
      OBVIOUS
    <3>2. QED BY <3>1
  <2>2. PICK k \in good : \A j \in good : k <= j
    <3> HIDE DEF good
    <3>1. good \in SUBSET Nat
      BY DEF good
    <3>2. QED BY <2>1, <3>1, Least
  <2>3. k \in Nat /\ \E g : From(g, k)
    OBVIOUS
  <2>4. PICK g : From(g, k)
    BY <2>3
  <2>5. ASSUME k # 0 PROVE FALSE
    <3> DEFINE f == [b \in Nat |-> IF b = k - 1 THEN Step(g, b) ELSE g[b]]
    <3>1. ASSUME NEW b \in Nat, k - 1 <= b PROVE f[b] = Step(f, b)
      <4>1. \A c \in Nat : b < c => g[c] = f[c]
        BY <2>3, <3>1
      <4>2. Step(g, b) = Step(f, b)
        <5> HIDE DEF Step, f
        <5> QED BY <1>1, <4>1
      <4>3. f[b] = Step(g, b)
        <5> HIDE DEF Step
        <5> QED BY <2>3, <2>4, <3>1
      <4>4. QED BY <4>2, <4>3
    <3>2. From(f, k - 1)
      <4> HIDE DEF Step, f
      <4> QED BY <3>1
    <3>3. k - 1 \in Nat /\ k - 1 < k
      BY <2>3, <2>5
    <3>4. \E g2 : From(g2, k - 1)
      <4> HIDE DEF From, f
      <4> QED BY <3>2
    <3>5. k - 1 \in good
      <4> HIDE DEF From
      <4> QED BY <3>3, <3>4
    <3>6. k <= k - 1
      <4> HIDE DEF good
      <4> QED BY <2>2, <3>5
    <3> HIDE DEF good, From, f
    <3>7. QED BY <2>3, <3>3, <3>6
  <2>6. k = 0
    BY <2>5
  <2>7. QED BY <2>4, <2>6
<1>3. \E g : Whole(g)
  <2>1. PICK g : From(g, 0)
    BY <1>2
  <2> DEFINE f == [b \in Nat |-> g[b]]
  <2>2. ASSUME NEW b \in Nat PROVE f[b] = Step(f, b)
    <3>1. Step(f, b) = Step(g, b)
      <4>1. \A c \in Nat : b < c => f[c] = g[c]
        OBVIOUS
      <4> HIDE DEF Step, f
      <4> QED BY <1>1, <4>1
    <3>2. g[b] = Step(g, b)
      <4> HIDE DEF Step
      <4> QED BY <2>1
    <3>3. QED BY <3>1, <3>2
  <2>3. Whole(f)
    <3> HIDE DEF Step
    <3> QED BY <2>2
  <2>4. QED BY <2>3
<1> DEFINE from == CHOOSE g : Whole(g)
<1>4. Whole(from)
  <2> HIDE DEF Whole
  <2> QED BY <1>3
<1>5. Blocks = from[0]
  <2>1. heap_end # NULL
    BY DEF NULL
  <2>2. QED BY <2>1 DEF Blocks
<1>6. \A b \in Nat : from[b] = Step(from, b)
  <2> HIDE DEF from, Step
  <2> QED BY <1>4
<1> HIDE DEF from
<1>7. QED BY <1>5, <1>6

\* The walk of BlocksTile meets all of them.
LEMMA BlocksAre ==
  ASSUME heap_end \in Nat, \A b \in 0 .. heap_end - 1 : IntAt(mem, b) \in Int,
         NEW S, Tiled(mem, 0, heap_end, S)
  PROVE  Blocks = S \cup {heap_end} /\ BlockStarts = S
<1>1. PICK from :
        /\ Blocks = from[0]
        /\ \A b \in Nat : from[b] =
             IF b >= heap_end \/ SizeAt(Heap, b) <= 0 THEN {b}
             ELSE {b} \cup from[next_block(Heap, b)]
  BY BlocksUnfold
<1>2. S \in SUBSET (0 .. heap_end - 1) /\ 0 \in S \cup {heap_end}
  BY DEF Tiled
<1> DEFINE All == S \cup {heap_end}
           OnOrAfter(b) == {c \in All : b <= c}
<1>3. \A c \in All : c \in 0 .. heap_end
  BY <1>2
<1>4. from[heap_end] = OnOrAfter(heap_end)
  <2>1. OnOrAfter(heap_end) = {heap_end}
    BY <1>3
  <2>2. QED BY <1>1, <2>1
<1>5. ASSUME NEW b \in S
      PROVE  \E e \in All : b < e /\ from[b] = {b} \cup from[e]
                                  /\ OnOrAfter(b) = {b} \cup OnOrAfter(e)
  <2>1. PICK e \in S \cup {heap_end} :
          /\ e = b + IntAt(mem, b) /\ IntAt(mem, b) = e - b
          /\ b \in Nat /\ e \in Nat /\ b < e /\ e <= heap_end /\ e - b >= 8
          /\ \A c \in S : b < c => e <= c
    <3>1. PICK t \in S \cup {heap_end} : Tile(mem, S, 0, heap_end, b, t)
      BY NextOf
    <3>2. QED BY <3>1 DEF Tile
  <2>2. from[b] = {b} \cup from[e]
    <3>1. ~(b >= heap_end) /\ ~(SizeAt(Heap, b) <= 0) /\ next_block(Heap, b) = e
      BY <2>1 DEF next_block, SizeAt, Heap
    <3>2. QED BY <1>1, <2>1, <3>1
  <2>3. \A c \in All : b <= c <=> (c = b \/ e <= c)
    BY <1>3, <2>1
  <2>4. OnOrAfter(b) = {b} \cup OnOrAfter(e)
    BY <2>3
  <2>5. QED BY <2>1, <2>2, <2>4
<1>6. \A b \in All : from[b] = OnOrAfter(b)
  <2> HIDE DEF OnOrAfter
  <2> DEFINE bad == {b \in All : from[b] # OnOrAfter(b)}
  <2>1. SUFFICES ASSUME bad # {} PROVE FALSE
    OBVIOUS
  <2>2. bad \in SUBSET (0 .. heap_end)
    BY <1>3
  <2>3. PICK b \in bad : \A c \in bad : c <= b
    <3> HIDE DEF bad
    <3> QED BY <2>1, <2>2, Greatest
  <2>4. b \in S
    BY <1>4
  <2>5. PICK e \in All : b < e /\ from[b] = {b} \cup from[e]
                              /\ OnOrAfter(b) = {b} \cup OnOrAfter(e)
    BY <1>5, <2>4
  <2>6. e \in bad /\ b \in Int /\ e \in Int
    BY <1>3, <2>5
  <2>7. QED BY <2>3, <2>5, <2>6
<1>7. Blocks = OnOrAfter(0)
  <2> HIDE DEF OnOrAfter
  <2> QED BY <1>1, <1>2, <1>6
<1>8. OnOrAfter(0) = All
  BY <1>3
<1>9. heap_end \notin S
  BY <1>2
<1>10. QED BY <1>7, <1>8, <1>9 DEF BlockStarts

----------------------------------------------------------------------------
(* What the handlers do to a heap with tiling S.                           *)

HeapType == [mem : [Address -> Cell], end : 0 .. MaxPages * PAGE_SIZE,
             lost : BOOLEAN, cut : BOOLEAN]

Good(h, S) ==
  /\ h \in HeapType /\ ~h.lost
  /\ Tiled(h.mem, 0, h.end, S)
  /\ \E n \in Nat : h.end = n * PAGE_SIZE

LEMMA Top ==
  /\ MaxPages * PAGE_SIZE \in Nat /\ PAGE_SIZE <= MaxPages * PAGE_SIZE
  /\ PAGE_SIZE \in Nat /\ PAGE_SIZE > 16
<1>1. PAGE_SIZE \in Nat /\ PAGE_SIZE > 16 /\ MaxPages \in Nat /\ MaxPages >= 1
  BY MallocAssumption DEF MALLOC_HEADER_SIZE, INT_SIZE
<1>2. QED BY <1>1

\* A whole number of ints.
Whole(x) == \E i \in Int : x = 4 * i

LEMMA WholeSum ==
  ASSUME NEW x, NEW y, Whole(x), Whole(y)
  PROVE  Whole(x + y) /\ Whole(x - y) /\ Whole(x + 4) /\ Whole(x - 4) /\ Whole(x + 8)
         /\ Whole(x - 8) /\ Whole(x + 16) /\ x \in Int /\ y \in Int
<1>1. PICK i \in Int, j \in Int : x = 4 * i /\ y = 4 * j
  BY DEF Whole
<1>2. /\ x + y = 4 * (i + j) /\ x - y = 4 * (i - j) /\ x + 4 = 4 * (i + 1) /\ x - 4 = 4 * (i - 1)
      /\ x + 8 = 4 * (i + 2) /\ x - 8 = 4 * (i - 2) /\ x + 16 = 4 * (i + 4)
      /\ i + j \in Int /\ i - j \in Int /\ i + 1 \in Int /\ i - 1 \in Int
      /\ i + 2 \in Int /\ i - 2 \in Int /\ i + 4 \in Int
  BY <1>1
<1> HIDE <1>1
<1>3. x \in Int /\ y \in Int
  BY <1>1
<1>4. QED BY <1>2, <1>3 DEF Whole

\* Whole numbers are the same or four apart.
LEMMA WholeApart ==
  ASSUME NEW x, NEW y, Whole(x), Whole(y), x < y
  PROVE  x + 4 <= y
BY DEF Whole

LEMMA WholeNumber ==
  ASSUME NEW n \in Nat, n % INT_SIZE = 0
  PROVE  Whole(n)
<1>1. n % 4 = n - 4 * (n \div 4)
  OBVIOUS
<1>2. n \div 4 \in Int
  OBVIOUS
<1>3. n = 4 * (n \div 4)
  <2>1. n % 4 = 0
    BY DEF INT_SIZE
  <2>2. QED BY <1>1, <1>2, <2>1
<1>4. QED BY <1>2, <1>3 DEF Whole

LEMMA WholePages ==
  ASSUME NEW n \in Nat
  PROVE  Whole(n * PAGE_SIZE)
<1>1. Whole(PAGE_SIZE)
  BY WholeNumber, MallocAssumption
<1>2. PICK i \in Int : PAGE_SIZE = 4 * i
  BY <1>1 DEF Whole
<1>3. n * (4 * i) = 4 * (n * i) /\ n * i \in Int
  OBVIOUS
<1>4. QED BY <1>2, <1>3 DEF Whole

\* The ints of the heap, where all are whole.
Ints == {a \in Address : Whole(a) /\ a + 3 \in Address}

\* The int at a says no more than before that what it is of is in use.
NotCleared(h, k, a) ==
  IntAt(k.mem, a) = IntAt(h.mem, a) \/ IntAt(k.mem, a) \notin {0, Junk}

\* The bytes are the same in m and w, but for those from b to e.
KeptOutside(m, w, b, e) == \A a \in Address : a \notin b .. e - 1 => w[a] = m[a]

LEMMA KeptAt ==
  ASSUME NEW m, NEW w, NEW b, NEW e, KeptOutside(m, w, b, e), NEW a \in Address, a \notin b .. e - 1
  PROVE  w[a] = m[a]
BY DEF KeptOutside

\* k is h with one block written from b to e, of that size and state.
Wrote(h, k, b, e, size, x) ==
  /\ k.end = h.end /\ k.lost = h.lost /\ k.cut = h.cut
  /\ IntAt(k.mem, b) = size /\ IntAt(k.mem, b + 4) = x
  /\ KeptOutside(h.mem, k.mem, b, e)
  /\ Whole(b) /\ Whole(e) =>
       \A a \in Ints : IntAt(k.mem, a) \in {IntAt(h.mem, a), size, x}

LEMMA Headed ==
  ASSUME NEW m \in [Address -> Cell], NEW b \in Nat, b + 8 <= MaxPages * PAGE_SIZE,
         NEW size \in Word, NEW x \in Word, NEW w, w = Header(m, b, size, x)
  PROVE  /\ w \in [Address -> Cell]
         /\ IntAt(w, b) = size /\ IntAt(w, b + 4) = x
         /\ \A a \in Address : a \notin b .. b + 7 => w[a] = m[a]
<1>1. /\ INT_SIZE = 4 /\ MALLOC_HEADER_SIZE = 8
      /\ \A a \in b .. b + 7 : a \in Address
  BY Top DEF INT_SIZE, MALLOC_HEADER_SIZE, Address
<1>2. w = [a \in Address |-> CASE a - b \in 0 .. 3 -> <<size, a - b>>
                               [] a - b \in 4 .. 7 -> <<x, a - b - 4>>
                               [] OTHER -> m[a]]
  BY <1>1 DEF Header, Byte
<1>3. ASSUME NEW a \in Address PROVE w[a] \in Cell
  <2>1. a \in Int
    BY DEF Address
  <2>2. CASE a - b \in 0 .. 3
    <3>1. w[a] = <<size, a - b>> /\ a - b \in 0 .. 3
      BY <1>2, <2>1, <2>2
    <3>2. QED BY <1>1, <3>1 DEF Cell
  <2>3. CASE a - b \in 4 .. 7
    <3>1. w[a] = <<x, a - b - 4>> /\ a - b - 4 \in 0 .. 3
      BY <1>2, <2>1, <2>3
    <3>2. QED BY <1>1, <3>1 DEF Cell
  <2>4. CASE a - b \notin 0 .. 3 /\ a - b \notin 4 .. 7
    BY <1>2, <2>4
  <2>5. QED BY <2>2, <2>3, <2>4
<1>4. w \in [Address -> Cell]
  BY <1>2, <1>3
<1>5. ASSUME NEW i \in 0 .. 3 PROVE w[b + i] = <<size, i>> /\ w[(b + 4) + i] = <<x, i>>
  <2>1. b + i \in Address /\ (b + 4) + i \in Address
    BY <1>1
  <2>2. (b + i) - b \in 0 .. 3 /\ (b + i) - b = i
    OBVIOUS
  <2>3. ((b + 4) + i) - b \in 4 .. 7 /\ ((b + 4) + i) - b \notin 0 .. 3
        /\ (b + 4) + i - b - 4 = i
    OBVIOUS
  <2>4. w[b + i] = <<size, i>>
    BY <1>2, <2>1, <2>2
  <2>5. w[(b + 4) + i] = <<x, i>>
    BY <1>2, <2>1, <2>3
  <2>6. QED BY <2>4, <2>5
<1>6. IntAt(w, b) = size /\ IntAt(w, b + 4) = x
  <2>1. b \in Int /\ b + 4 \in Int
    OBVIOUS
  <2>2. IntAt(w, b) = size
    BY <1>5, <2>1, IsInt
  <2>3. IntAt(w, b + 4) = x
    BY <1>5, <2>1, IsInt
  <2>4. QED BY <2>2, <2>3
<1>7. ASSUME NEW a \in Address, a \notin b .. b + 7 PROVE w[a] = m[a]
  <2>1. a - b \notin 0 .. 3 /\ a - b \notin 4 .. 7
    BY <1>7 DEF Address
  <2>2. QED BY <1>2, <2>1
<1>8. QED BY <1>4, <1>6, <1>7

\* An int that none of the bytes written is of.
LEMMA IntKept ==
  ASSUME NEW m, NEW w, NEW a \in Address, a + 3 \in Address, NEW b \in Int, NEW e \in Int,
         KeptOutside(m, w, b, e),
         a + 4 <= b \/ e <= a
  PROVE  IntAt(w, a) = IntAt(m, a)
<1>1. a \in Int
  BY DEF Address
<1>2. ASSUME NEW x \in a .. a + 3 PROVE w[x] = m[x]
  <2>1. x \in Address /\ x \notin b .. e - 1
    BY <1>1, Top DEF Address
  <2>2. QED BY <2>1 DEF KeptOutside
<1>3. QED BY <1>1, <1>2, SameInt

\* The bytes between the ends of a block are no concern of write_header_footer.
LEMMA Written ==
  ASSUME NEW h \in HeapType, NEW b \in Nat, NEW size \in Nat, size >= 17,
         NEW e, e = b + size, e <= h.end, NEW x \in {0, 1},
         NEW k, k = write_header_footer(h, b, size, x)
  PROVE  k \in HeapType /\ Block(k.mem, b, e) /\ Wrote(h, k, b, e, size, x)
<1> DEFINE u == Header(h.mem, b, size, x)
           w == Header(u, e - 8, size, x)
<1>1. /\ MaxPages * PAGE_SIZE \in Nat /\ h.end \in Nat /\ h.end <= MaxPages * PAGE_SIZE
      /\ h.mem \in [Address -> Cell]
  BY Top DEF HeapType
<1>2. k = [h EXCEPT !.mem = w]
  <2>1. ~(b < 0 \/ size < MALLOC_HEADER_SIZE \/ b + size > h.end)
    BY <1>1 DEF MALLOC_HEADER_SIZE, INT_SIZE
  <2>2. b + size - MALLOC_HEADER_SIZE = e - 8
    BY DEF MALLOC_HEADER_SIZE, INT_SIZE
  <2>3. "mem" \in DOMAIN h
    BY DEF HeapType
  <2>4. QED BY <2>1, <2>2, <2>3 DEF write_header_footer
<1>3. size \in Word /\ x \in Word
  BY <1>1, Top DEF Word
<1>4. /\ u \in [Address -> Cell] /\ IntAt(u, b) = size /\ IntAt(u, b + 4) = x
      /\ \A a \in Address : a \notin b .. b + 7 => u[a] = h.mem[a]
  <2> HIDE DEF u
  <2>1. b + 8 <= MaxPages * PAGE_SIZE
    BY <1>1
  <2>2. u = Header(h.mem, b, size, x)
    BY DEF u
  <2>3. QED BY <1>1, <1>3, <2>1, <2>2, Headed
<1> HIDE DEF u
<1>5. /\ w \in [Address -> Cell] /\ IntAt(w, e - 8) = size /\ IntAt(w, e - 4) = x
      /\ \A a \in Address : a \notin e - 8 .. e - 1 => w[a] = u[a]
  <2> DEFINE f == e - 8
  <2>1. f \in Nat /\ f + 8 <= MaxPages * PAGE_SIZE /\ f + 4 = e - 4 /\ f + 7 = e - 1
    BY <1>1
  <2>2. w = Header(u, f, size, x)
    OBVIOUS
  <2> HIDE DEF f, w
  <2>3. /\ w \in [Address -> Cell] /\ IntAt(w, f) = size /\ IntAt(w, f + 4) = x
        /\ \A a \in Address : a \notin f .. f + 7 => w[a] = u[a]
    BY <1>3, <1>4, <2>1, <2>2, Headed
  <2>4. QED BY <2>1, <2>3 DEF f
<1> HIDE DEF w
<1>6. \A a \in b .. e - 1 : a \in Address
  BY <1>1 DEF Address
<1>7. IntAt(w, b) = size /\ IntAt(w, b + 4) = x
  <2>1. /\ b \in Address /\ b + 3 \in Address /\ b + 4 \in Address /\ (b + 4) + 3 \in Address
        /\ b + 4 <= e - 8 /\ (b + 4) + 4 <= e - 8 /\ e - 8 \in Int /\ e \in Int
    BY <1>6
  <2>2. KeptOutside(u, w, e - 8, e)
    BY <1>5 DEF KeptOutside
  <2>3. IntAt(w, b) = IntAt(u, b)
    BY <2>1, <2>2, IntKept
  <2>4. IntAt(w, b + 4) = IntAt(u, b + 4)
    BY <2>1, <2>2, IntKept
  <2>5. QED BY <1>4, <2>3, <2>4
<1>8. KeptOutside(h.mem, w, b, e)
  <2> SUFFICES ASSUME NEW a \in Address, a \notin b .. e - 1 PROVE w[a] = h.mem[a]
    BY DEF KeptOutside
  <2>1. a \notin b .. b + 7 /\ a \notin e - 8 .. e - 1
    BY <1>1
  <2>2. QED BY <1>4, <1>5, <2>1
<1>9. ASSUME Whole(b), Whole(e), NEW a \in Ints
      PROVE  IntAt(w, a) \in {IntAt(h.mem, a), size, x}
  <2>1. a \in Address /\ a + 3 \in Address /\ Whole(a) /\ a \in Int
    BY DEF Ints, Address
  <2>2. Whole(b + 4) /\ Whole(e - 8) /\ Whole(e - 4) /\ b + 4 \in Int /\ e - 8 \in Int
            /\ e - 4 \in Int
    BY <1>9, WholeSum
  <2>3. CASE a \in {b, b + 4, e - 8, e - 4}
    BY <1>5, <1>7, <2>3
  <2>4. CASE a \notin {b, b + 4, e - 8, e - 4}
    <3>1. (a + 4 <= b \/ b + 8 <= a) /\ (a + 4 <= e - 8 \/ e <= a)
      <4>1. a < b => a + 4 <= b
        BY <1>9, <2>1, WholeApart
      <4>2. b < a => b + 4 <= a
        BY <1>9, <2>1, WholeApart
      <4>3. b + 4 < a => (b + 4) + 4 <= a
        BY <2>1, <2>2, WholeApart
      <4>4. a < e - 8 => a + 4 <= e - 8
        BY <2>1, <2>2, WholeApart
      <4>5. e - 8 < a => (e - 8) + 4 <= a
        BY <2>1, <2>2, WholeApart
      <4>6. e - 4 < a => (e - 4) + 4 <= a
        BY <2>1, <2>2, WholeApart
      <4>7. QED BY <2>1, <2>4, <4>1, <4>2, <4>3, <4>4, <4>5, <4>6
    <3>2. IntAt(u, a) = IntAt(h.mem, a)
      <4> DEFINE f == b + 8
      <4>1. b \in Int /\ f \in Int /\ f - 1 = b + 7 /\ (a + 4 <= b \/ f <= a)
        BY <3>1
      <4>2. KeptOutside(h.mem, u, b, f)
        BY <1>4, <4>1 DEF KeptOutside
      <4> HIDE DEF f
      <4>3. QED BY <2>1, <4>1, <4>2, IntKept
    <3>3. IntAt(w, a) = IntAt(u, a)
      <4> DEFINE f == e - 8
                 g == e
      <4>1. g \in Int /\ f \in Int /\ (a + 4 <= f \/ g <= a)
        BY <2>2, <3>1
      <4>2. KeptOutside(u, w, f, g)
        BY <1>5 DEF KeptOutside
      <4> HIDE DEF f, g
      <4>3. QED BY <2>1, <4>1, <4>2, IntKept
    <3>4. QED BY <3>2, <3>3
  <2>5. QED BY <2>3, <2>4
<1>10. k \in HeapType /\ k.end = h.end /\ k.lost = h.lost /\ k.cut = h.cut /\ k.mem = w
  BY <1>2, <1>5 DEF HeapType
<1>11. Block(w, b, e)
  BY <1>5, <1>7 DEF Block
<1>12. QED BY <1>7, <1>8, <1>9, <1>10, <1>11 DEF Wrote

\* The headers of R are the same in h and k.
SameHeaders(h, k, R) == \A c \in R : /\ IntAt(k.mem, c) = IntAt(h.mem, c)
                                     /\ IntAt(k.mem, c + 4) = IntAt(h.mem, c + 4)

LEMMA HeaderKept ==
  ASSUME NEW m, NEW w, NEW c \in Address, c + 7 \in Address, NEW b \in Int, NEW e \in Int,
         KeptOutside(m, w, b, e),
         c + 8 <= b \/ e <= c
  PROVE  IntAt(w, c) = IntAt(m, c) /\ IntAt(w, c + 4) = IntAt(m, c + 4)
<1>1. c \in Int /\ c + 3 \in Address /\ c + 4 \in Address /\ (c + 4) + 3 \in Address
  BY Top DEF Address
<1>2. /\ c + 4 <= b \/ e <= c
      /\ (c + 4) + 4 <= b \/ e <= c + 4
  BY <1>1
<1>3. IntAt(w, c) = IntAt(m, c)
  BY <1>1, <1>2, IntKept
<1>4. IntAt(w, c + 4) = IntAt(m, c + 4)
  BY <1>1, <1>2, IntKept
<1>5. QED BY <1>3, <1>4

LEMMA Boundaries ==
  ASSUME NEW h, NEW S, Good(h, S)
  PROVE  /\ h \in HeapType /\ h.end \in Nat /\ Tiled(h.mem, 0, h.end, S)
         /\ h.end <= MaxPages * PAGE_SIZE
         /\ S \in SUBSET (0 .. h.end - 1) /\ 0 \in S \cup {h.end}
         /\ \A c \in S : c \in Nat /\ c \in Address /\ c + 7 \in Address /\ c + 8 <= h.end
<1>1. /\ h.end \in Nat /\ Tiled(h.mem, 0, h.end, S) /\ h.end <= MaxPages * PAGE_SIZE
      /\ h \in HeapType
  BY Top DEF Good, HeapType
<1>2. S \in SUBSET (0 .. h.end - 1) /\ 0 \in S \cup {h.end}
  BY <1>1 DEF Tiled
<1>3. ASSUME NEW c \in S
      PROVE  c \in Nat /\ c \in Address /\ c + 7 \in Address /\ c + 8 <= h.end
  <2>1. h.end \in Nat /\ Tiled(h.mem, 0, h.end, S)
    BY <1>1
  <2>2. PICK e \in S \cup {h.end} : /\ e = c + IntAt(h.mem, c) /\ c \in Nat /\ e \in Nat
                                    /\ e <= h.end /\ e - c >= 8
    <3>1. PICK t \in S \cup {h.end} : Tile(h.mem, S, 0, h.end, c, t)
      BY <2>1, NextOf
    <3>2. QED BY <3>1 DEF Tile
  <2>3. QED BY <1>1, <2>2, Top DEF Address
<1>4. QED BY <1>1, <1>2, <1>3

\* One block where there were some, each with its own header elsewhere.
LEMMA Rewritten ==
  ASSUME NEW h, NEW S, Good(h, S), NEW b \in S, NEW e \in S \cup {h.end},
         NEW size \in Nat, size >= 17, e = b + size, NEW x \in {0, 1},
         NEW k, k = write_header_footer(h, b, size, x)
  PROVE  /\ Good(k, (S \ (b .. e - 1)) \cup {b}) /\ Wrote(h, k, b, e, size, x)
         /\ SameHeaders(h, k, S \ (b .. e - 1))
<1>1. /\ h \in HeapType /\ h.end \in Nat /\ Tiled(h.mem, 0, h.end, S)
      /\ h.end <= MaxPages * PAGE_SIZE /\ S \in SUBSET (0 .. h.end - 1)
      /\ \A c \in S : c \in Nat /\ c \in Address /\ c + 7 \in Address /\ c + 8 <= h.end
  BY Boundaries
<1>2. b \in Nat /\ e \in Nat /\ e <= h.end /\ b < e
  BY <1>1
<1>3. k \in HeapType /\ Block(k.mem, b, e) /\ Wrote(h, k, b, e, size, x)
  <2>1. h \in HeapType /\ b \in Nat /\ e <= h.end
    BY <1>1, <1>2
  <2>2. QED BY <2>1, Written
<1>4. Tiled(k.mem, 0, k.end, (S \ (b .. e - 1)) \cup {b})
  <2>1. Tiled(k.mem, b, e, {b})
    BY <1>2, <1>3, BlockAlone
  <2>2. SameOutside(h.mem, k.mem, 0, h.end, b, e)
    BY <1>1, <1>3, Top DEF Address, Wrote, SameOutside, KeptOutside
  <2>3. h.end \in Nat /\ Tiled(h.mem, 0, h.end, S) /\ 0 \in Nat
    BY <1>1
  <2>4. b < e
    BY <1>2
  <2>5. Tiled(k.mem, 0, h.end, (S \ (b .. e - 1)) \cup {b})
    BY <2>1, <2>2, <2>3, <2>4, Replaced
  <2>6. k.end = h.end
    BY <1>3 DEF Wrote
  <2>7. QED BY <2>5, <2>6
<1>5. Good(k, (S \ (b .. e - 1)) \cup {b})
  BY <1>3, <1>4 DEF Good, Wrote
<1>6. ASSUME NEW c \in S \ (b .. e - 1)
      PROVE  /\ IntAt(k.mem, c) = IntAt(h.mem, c)
             /\ IntAt(k.mem, c + 4) = IntAt(h.mem, c + 4)
  <2>1. h.end \in Nat /\ Tiled(h.mem, 0, h.end, S) /\ c \in S /\ 0 \in Nat
    BY <1>1
  <2>2. PICK d \in S \cup {h.end} :
          /\ d = c + IntAt(h.mem, c) /\ IntAt(h.mem, c) = d - c /\ Block(h.mem, c, d)
          /\ c \in Nat /\ d \in Nat /\ 0 <= c /\ c < d /\ d <= h.end /\ d - c >= 8
          /\ \A g \in S : c < g => d <= g
    <3>1. PICK t \in S \cup {h.end} : Tile(h.mem, S, 0, h.end, c, t)
      BY <2>1, NextOf
    <3>2. QED BY <3>1 DEF Tile
  <2>3. b \in Int /\ e \in Int /\ (c + 8 <= b \/ e <= c)
    BY <1>2, <2>2
  <2>4. c \in Address /\ c + 7 \in Address
    BY <1>1
  <2>5. KeptOutside(h.mem, k.mem, b, e)
    BY <1>3 DEF Wrote
  <2>6. QED BY <2>3, <2>4, <2>5, HeaderKept
<1>7. QED BY <1>3, <1>5, <1>6 DEF SameHeaders

\* b is rewritten at its own size.
LEMMA SameTiles ==
  ASSUME NEW h, NEW S, Good(h, S), NEW b \in S
  PROVE  \E e \in S \cup {h.end} :
           Tile(h.mem, S, 0, h.end, b, e) /\ (S \ (b .. e - 1)) \cup {b} = S
<1>1. h.end \in Nat /\ Tiled(h.mem, 0, h.end, S) /\ \A c \in S : c \in Nat
  BY Boundaries
<1>2. h.end \in Nat /\ Tiled(h.mem, 0, h.end, S)
  BY <1>1
<1>3. PICK e \in S \cup {h.end} :
           /\ e = b + IntAt(h.mem, b) /\ IntAt(h.mem, b) = e - b /\ Block(h.mem, b, e)
           /\ b \in Nat /\ e \in Nat /\ 0 <= b /\ b < e /\ e <= h.end /\ e - b >= 8
           /\ \A c \in S : b < c => e <= c
  <2>1. PICK t \in S \cup {h.end} : Tile(h.mem, S, 0, h.end, b, t)
    BY <1>2, NextOf
  <2>2. QED BY <2>1 DEF Tile
<1>4. \A c \in S : c \in b .. e - 1 => c = b
  BY <1>1, <1>3
<1>5. (S \ (b .. e - 1)) \cup {b} = S
  BY <1>4
<1>6. QED BY <1>3, <1>5 DEF Tile

\* malloc cuts the block that it found, or takes the whole of it.
SplitInto(h, k, S, T, b, total) ==
  /\ k.end = h.end /\ k.cut = h.cut
  /\ IntAt(k.mem, b) >= total /\ IntAt(k.mem, b + 4) = 0 /\ S \subseteq T
  /\ \A c \in T \ S : /\ c = b + IntAt(k.mem, b) /\ IntAt(k.mem, c + 4) = 1
                      /\ c + IntAt(k.mem, c) = b + IntAt(h.mem, b)
  /\ T = S => IntAt(k.mem, b) = IntAt(h.mem, b)
  /\ SameHeaders(h, k, S \ {b})
  /\ KeptOutside(h.mem, k.mem, b, b + IntAt(h.mem, b))
  /\ Whole(b) /\ Whole(IntAt(h.mem, b)) /\ Whole(total) =>
       /\ Whole(b + IntAt(k.mem, b))
       /\ \A a \in Ints : a \notin b .. b + IntAt(k.mem, b) - 1 => NotCleared(h, k, a)

LEMMA SplitBlock ==
  ASSUME NEW h, NEW S, Good(h, S), NEW b \in S, NEW total \in Nat, total >= 17,
         IntAt(h.mem, b) >= total, NEW k, k = Split(h, b, total)
  PROVE  \E T : Good(k, T) /\ SplitInto(h, k, S, T, b, total)
<1> DEFINE rem == IntAt(h.mem, b) - total
<1>1. PICK e \in S \cup {h.end} :
           /\ e = b + IntAt(h.mem, b) /\ IntAt(h.mem, b) = e - b /\ Block(h.mem, b, e)
           /\ b \in Nat /\ e \in Nat /\ b < e /\ e <= h.end /\ e - b >= 8
           /\ \A c \in S : b < c => e <= c
           /\ (S \ (b .. e - 1)) \cup {b} = S
  <2>1. PICK t \in S \cup {h.end} :
          Tile(h.mem, S, 0, h.end, b, t) /\ (S \ (b .. t - 1)) \cup {b} = S
    BY SameTiles
  <2>2. QED BY <2>1 DEF Tile
<1>2. /\ h \in HeapType /\ h.end \in Nat /\ Tiled(h.mem, 0, h.end, S) /\ ~h.lost
      /\ \E n \in Nat : h.end = n * PAGE_SIZE
      /\ \A c \in S : c \in Nat /\ c \in Address /\ c + 7 \in Address /\ c + 8 <= h.end
  BY Boundaries DEF Good
<1>3. CASE ~(rem > 16)
  <2>1. k = write_header_footer(h, b, IntAt(h.mem, b), 0)
    BY <1>3 DEF Split, SizeAt, MALLOC_HEADER_SIZE, INT_SIZE
  <2>2. /\ Good(k, (S \ (b .. e - 1)) \cup {b}) /\ k.end = h.end /\ k.cut = h.cut
        /\ IntAt(k.mem, b) = e - b /\ IntAt(k.mem, b + 4) = 0
        /\ SameHeaders(h, k, S \ (b .. e - 1))
        /\ KeptOutside(h.mem, k.mem, b, e)
    <3> DEFINE size == IntAt(h.mem, b)
    <3>1. size \in Nat /\ size >= 17 /\ e = b + size /\ size = e - b /\ 0 \in {0, 1}
      BY <1>1
    <3>2. k = write_header_footer(h, b, size, 0)
      BY <2>1
    <3> HIDE DEF size
    <3>3. /\ Good(k, (S \ (b .. e - 1)) \cup {b}) /\ Wrote(h, k, b, e, size, 0)
          /\ SameHeaders(h, k, S \ (b .. e - 1))
      BY <3>1, <3>2, Rewritten
    <3>4. QED BY <3>1, <3>3 DEF Wrote, SameHeaders
  <2>3. Good(k, S) /\ \A c \in S \ {b} : c \in S \ (b .. e - 1)
    BY <1>1, <2>2
  <2>4. QED
    <3> WITNESS S
    <3>1. KeptOutside(h.mem, k.mem, b, b + IntAt(h.mem, b))
      BY <1>1, <2>2
    <3>2. ASSUME Whole(b), Whole(IntAt(h.mem, b))
          PROVE  /\ Whole(b + IntAt(k.mem, b))
                 /\ \A a \in Ints : a \notin b .. b + IntAt(k.mem, b) - 1 => NotCleared(h, k, a)
      <4>1. Whole(b + IntAt(h.mem, b)) /\ IntAt(k.mem, b) = IntAt(h.mem, b)
        BY <1>1, <2>2, <3>2, WholeSum
      <4>2. ASSUME NEW a \in Ints, a \notin b .. b + IntAt(k.mem, b) - 1
            PROVE  IntAt(k.mem, a) = IntAt(h.mem, a)
        <5>1. a \in Address /\ a + 3 \in Address /\ Whole(a) /\ a \in Int /\ b \in Int /\ e \in Int
          BY <1>1 DEF Ints, Address
        <5>2. a < b => a + 4 <= b
          BY <3>2, <5>1, WholeApart
        <5>3. a + 4 <= b \/ e <= a
          BY <1>1, <2>2, <4>2, <5>1, <5>2
        <5>4. QED BY <2>2, <5>1, <5>3, IntKept
      <4>3. QED BY <4>1, <4>2 DEF NotCleared
    <3>3. QED BY <1>1, <2>2, <2>3, <3>1, <3>2 DEF SplitInto, SameHeaders
<1>4. CASE rem > 16
  <2> DEFINE m == b + total
             j == write_header_footer(h, b, total, 0)
  <2>1. k = write_header_footer(j, m, rem, 1)
    BY <1>4 DEF Split, SizeAt, MALLOC_HEADER_SIZE, INT_SIZE
  <2>2. /\ m \in Nat /\ m - b >= 17 /\ e - m >= 17 /\ m <= h.end /\ m < e /\ b < m
        /\ total = m - b /\ rem = e - m /\ m = b + total /\ e = m + rem /\ rem \in Nat
    <3>1. b \in Nat /\ e \in Nat /\ e <= h.end /\ IntAt(h.mem, b) = e - b /\ h.end \in Nat
      BY <1>1, <1>2
    <3>2. QED BY <1>4, <3>1
  <2>3. j \in HeapType /\ Block(j.mem, b, m) /\ Wrote(h, j, b, m, total, 0)
    <3> HIDE DEF m
    <3>1. /\ 0 \in {0, 1} /\ m <= h.end /\ h \in HeapType /\ b \in Nat /\ m = b + total
      BY <1>1, <1>2, <2>2
    <3>2. QED BY <3>1, Written
  <2> HIDE DEF j
  <2>4. k \in HeapType /\ Block(k.mem, m, e) /\ Wrote(j, k, m, e, rem, 1)
    <3> HIDE DEF m, rem
    <3>1. /\ 1 \in {0, 1} /\ e <= j.end /\ j \in HeapType /\ m \in Nat /\ rem \in Nat
          /\ rem >= 17 /\ e = m + rem
      BY <1>1, <2>2, <2>3 DEF Wrote
    <3>2. QED BY <2>1, <3>1, Written
  <2> HIDE DEF m, rem
  <2>5. \A a \in 0 .. h.end - 1 : a \in Address
    BY <1>2, Top DEF Address, HeapType
  <2>6. Tiled(k.mem, b, e, {b} \cup {m})
    <3>1. \A a \in b .. m - 1 : k.mem[a] = j.mem[a]
      <4> TAKE a \in b .. m - 1
      <4>1. a \in Address /\ a \notin m .. e - 1
        BY <1>1, <1>2, <2>2, <2>5
      <4>2. QED BY <2>4, <4>1 DEF Wrote, KeptOutside
    <3>2. Tiled(j.mem, b, m, {b}) /\ Tiled(k.mem, m, e, {m})
      BY <1>1, <2>2, <2>3, <2>4, BlockAlone
    <3>3. Tiled(k.mem, b, m, {b})
      BY <1>1, <2>2, <3>1, <3>2, SameBytes
    <3>4. QED BY <1>1, <2>2, <3>2, <3>3, Concatenated
  <2>7. KeptOutside(h.mem, k.mem, b, e)
    <3>1. KeptOutside(h.mem, j.mem, b, m) /\ KeptOutside(j.mem, k.mem, m, e)
      BY <2>3, <2>4 DEF Wrote
    <3>2. ASSUME NEW a \in Address, a \notin b .. e - 1 PROVE k.mem[a] = h.mem[a]
      <4>1. a \notin b .. m - 1 /\ a \notin m .. e - 1
        BY <1>1, <2>2, <3>2 DEF Address
      <4>2. QED BY <3>1, <4>1 DEF KeptOutside
    <3>3. QED BY <3>2 DEF KeptOutside
  <2>8. Good(k, S \cup {m})
    <3>1. SameOutside(h.mem, k.mem, 0, h.end, b, e)
      BY <2>5, <2>7 DEF SameOutside, KeptOutside
    <3>2. h.end \in Nat /\ Tiled(h.mem, 0, h.end, S) /\ 0 \in Nat
      BY <1>2
    <3>3. Tiled(k.mem, 0, h.end, (S \ (b .. e - 1)) \cup ({b} \cup {m}))
      <4>1. b < e
        BY <1>1
      <4>2. QED BY <2>6, <3>1, <3>2, <4>1, Replaced
    <3>4. (S \ (b .. e - 1)) \cup ({b} \cup {m}) = S \cup {m}
      BY <1>1
    <3>5. QED BY <1>2, <2>3, <2>4, <3>3, <3>4 DEF Good, Wrote
  <2>9. ASSUME NEW c \in S \ {b}
        PROVE  /\ IntAt(k.mem, c) = IntAt(h.mem, c)
             /\ IntAt(k.mem, c + 4) = IntAt(h.mem, c + 4)
    <3>1. PICK d \in S \cup {h.end} :
             /\ d = c + IntAt(h.mem, c) /\ c \in Nat /\ d \in Nat /\ d - c >= 8
             /\ \A x \in S : c < x => d <= x
      <4>1. PICK t \in S \cup {h.end} : Tile(h.mem, S, 0, h.end, c, t)
        BY SameTiles
      <4>2. QED BY <4>1 DEF Tile
    <3>2. c + 8 <= b \/ e <= c
      BY <1>1, <3>1
    <3>3. c \in Address /\ c + 7 \in Address /\ b \in Int /\ e \in Int
      BY <1>1, <1>2
    <3>4. QED BY <2>7, <3>2, <3>3, HeaderKept
  <2>10. IntAt(k.mem, b) = total /\ IntAt(k.mem, b + 4) = 0
    <3>1. b + 8 <= m /\ m \in Int /\ e \in Int /\ b \in Address /\ b + 7 \in Address
      BY <1>1, <1>2, <2>2
    <3>2. KeptOutside(j.mem, k.mem, m, e)
      BY <2>4 DEF Wrote
    <3>3. IntAt(k.mem, b) = IntAt(j.mem, b) /\ IntAt(k.mem, b + 4) = IntAt(j.mem, b + 4)
      BY <3>1, <3>2, HeaderKept
    <3>4. QED BY <2>3, <3>3 DEF Wrote
  <2>11. ASSUME Whole(b), Whole(IntAt(h.mem, b)), Whole(total)
         PROVE  /\ Whole(b + IntAt(k.mem, b))
                /\ \A a \in Ints : a \notin b .. b + IntAt(k.mem, b) - 1 => NotCleared(h, k, a)
    <3>1. Whole(m) /\ Whole(e)
      BY <1>1, <2>2, <2>11, WholeSum
    <3>2. ASSUME NEW a \in Ints, a \notin b .. b + IntAt(k.mem, b) - 1 PROVE NotCleared(h, k, a)
      <4>1. a \in Address /\ a + 3 \in Address /\ Whole(a) /\ a \in Int /\ b \in Int /\ m \in Int
        BY <1>1, <2>2 DEF Ints, Address
      <4>2. a < b => a + 4 <= b
        BY <2>11, <4>1, WholeApart
      <4>3. a + 4 <= b \/ m <= a
        BY <2>2, <2>10, <3>2, <4>1, <4>2
      <4>4. KeptOutside(h.mem, j.mem, b, m)
        BY <2>3 DEF Wrote
      <4>5. IntAt(j.mem, a) = IntAt(h.mem, a)
        BY <4>1, <4>3, <4>4, IntKept
      <4>6. IntAt(k.mem, a) \in {IntAt(j.mem, a), rem, 1}
        BY <2>4, <3>1 DEF Wrote
      <4>7. rem \notin {0, Junk} /\ 1 \notin {0, Junk}
        BY <2>2 DEF Junk
      <4>8. QED BY <4>5, <4>6, <4>7 DEF NotCleared
    <3>3. Whole(b + IntAt(k.mem, b))
      BY <2>2, <2>10, <3>1
    <3>4. QED BY <3>2, <3>3
  <2>12. m \notin S
    BY <1>1, <1>2, <2>2
  <2>13. QED
    <3> DEFINE T == S \cup {m}
    <3> WITNESS T
    <3>1. ASSUME NEW c \in T \ S
          PROVE  c = b + IntAt(k.mem, b) /\ IntAt(k.mem, c + 4) = 1
                     /\ c + IntAt(k.mem, c) = b + IntAt(h.mem, b)
      <4>1. c = m /\ m = b + total
        BY DEF m
      <4>2. QED BY <1>1, <2>2, <2>4, <2>10, <4>1 DEF Wrote
    <3>2. k.end = h.end /\ k.cut = h.cut /\ IntAt(k.mem, b) >= total /\ T # S
      BY <2>3, <2>4, <2>10, <2>12 DEF Wrote
    <3>3. QED BY <1>1, <2>7, <2>8, <2>9, <2>10, <2>11, <3>1, <3>2 DEF SplitInto, SameHeaders
<1>5. QED BY <1>3, <1>4

----------------------------------------------------------------------------
(* What the program holds, has given back and may rely on.  g maps the     *)
(* pointers it holds to what it asked for, F are those it gave back.       *)

Held(h, S, g) ==
  /\ \A p \in DOMAIN g : /\ p \in Nat /\ g[p] \in Nat \ {0} /\ p - 8 \in S
                         /\ IntAt(h.mem, p - 4) = 0 /\ IntAt(h.mem, p - 8) >= TotalSize(g[p])
  /\ \A b \in S : IntAt(h.mem, b + 4) = 0 => b + 8 \in DOMAIN g

Joined(h, S) ==
  \A c, d \in S : d = c + IntAt(h.mem, c) => ~(IntAt(h.mem, c + 4) # 0 /\ IntAt(h.mem, d + 4) # 0)

Place(g, p) == p .. p + g[p] - 1

\* All is in whole ints, and the int that says whether what was freed is free lies in
\* nothing that the program holds, and says so still.
Aligned(h, S, g, F) ==
  /\ \A b \in S : Whole(b)
  /\ \A p \in DOMAIN g : Whole(g[p])
  /\ \A q \in F : /\ Whole(q) /\ q \in Nat /\ q >= 8
                  /\ \A p \in DOMAIN g : q - 4 \notin Place(g, p)
                  /\ q <= h.end => IntAt(h.mem, q - 4) \notin {0, Junk}

\* whole: all requests have been for whole ints.
Laid(h, S, g, F, whole) ==
  Good(h, S) /\ Held(h, S, g) /\ Joined(h, S) /\ (whole => Aligned(h, S, g, F))

PlacesKept(h, k, g) == \A p \in DOMAIN g : \A a \in Place(g, p) : k.mem[a] = h.mem[a]

\* What the program holds lies inside a block in use, clear of header and footer.
LEMMA PlaceInside ==
  ASSUME NEW h, NEW S, Good(h, S), NEW g, Held(h, S, g), NEW p \in DOMAIN g,
         NEW a \in Place(g, p)
  PROVE  /\ a \in Address /\ a < h.end /\ p <= a /\ a <= p - 8 + IntAt(h.mem, p - 8) - 9
         /\ \A b \in S : \A e \in S \cup {h.end} :
              b <= e /\ p - 8 \notin b .. e - 1 => a \notin b .. e - 1
<1> DEFINE c == p - 8
<1>1. /\ c \in S /\ c \in Nat /\ c + 4 = p - 4 /\ p = c + 8 /\ p \in Nat /\ g[p] \in Nat
      /\ IntAt(h.mem, c) >= g[p] + 16
  BY Boundaries DEF Held, TotalSize, MALLOC_HEADER_SIZE, INT_SIZE
<1> HIDE DEF c
<1>2. PICK d \in S \cup {h.end} : Tile(h.mem, S, 0, h.end, c, d)
  BY <1>1, SameTiles
<1>3. /\ d = c + IntAt(h.mem, c) /\ d \in Nat /\ d <= h.end /\ IntAt(h.mem, c) = d - c
      /\ \A x \in S : c < x => d <= x
  BY <1>2 DEF Tile
<1>4. a \in Int /\ p <= a /\ a <= p + g[p] - 1
  BY <1>1 DEF Place
<1>5. a <= c + IntAt(h.mem, c) - 9 /\ a < d /\ c + 8 <= a
  BY <1>1, <1>3, <1>4
<1>6. h.end \in Nat /\ h.end <= MaxPages * PAGE_SIZE /\ \A x \in S : x \in Nat
  BY Boundaries
<1>7. a \in Address /\ a < h.end
  <2>1. a < h.end /\ 0 <= a /\ a <= MaxPages * PAGE_SIZE - 1
    BY <1>1, <1>3, <1>4, <1>5, <1>6, Top
  <2>2. QED BY <1>4, <2>1, Top DEF Address
<1>8. ASSUME NEW b \in S, NEW e \in S \cup {h.end}, b <= e, c \notin b .. e - 1
      PROVE  a \notin b .. e - 1
  <2>1. b \in Nat /\ e \in Nat
    BY <1>6
  <2>2. CASE c < b
    <3>1. d <= b
      BY <1>3, <2>2
    <3>2. QED BY <1>3, <1>4, <1>5, <2>1, <3>1
  <2>3. CASE e <= c
    BY <1>1, <1>4, <1>5, <2>1, <2>3
  <2>4. QED BY <1>1, <1>8, <2>1, <2>2, <2>3
<1>9. QED BY <1>4, <1>5, <1>7, <1>8 DEF c

\* The regions that the program holds do not overlap.
LEMMA PlacesDisjoint ==
  ASSUME NEW h, NEW S, Good(h, S), NEW g, Held(h, S, g),
         NEW p \in DOMAIN g, NEW q \in DOMAIN g, p # q
  PROVE  Place(g, p) \cap Place(g, q) = {}
<1>1. SUFFICES ASSUME NEW a \in Place(g, p), a \in Place(g, q) PROVE FALSE
  OBVIOUS
<1>2. p - 8 \in S /\ q - 8 \in S /\ p \in Nat /\ q \in Nat
  BY DEF Held
<1>3. PICK e \in S \cup {h.end} : Tile(h.mem, S, 0, h.end, p - 8, e)
  BY <1>2, SameTiles
<1>4. /\ e = p - 8 + IntAt(h.mem, p - 8) /\ e \in Nat /\ p - 8 < e
      /\ IntAt(h.mem, p - 8) = e - (p - 8)
      /\ \A x \in S : p - 8 < x => e <= x
  BY <1>3 DEF Tile
<1>5. q - 8 \notin p - 8 .. e - 1
  BY <1>2, <1>4
<1>6. a \notin p - 8 .. e - 1
  BY <1>1, <1>2, <1>4, <1>5, PlaceInside
<1>7. p <= a /\ a <= e - 9 /\ a \in Int
  <2>1. a \in Address /\ p <= a /\ a <= p - 8 + IntAt(h.mem, p - 8) - 9
    BY <1>1, PlaceInside
  <2>2. QED BY <1>2, <1>4, <2>1 DEF Address
<1>8. QED BY <1>2, <1>4, <1>6, <1>7

\* p is given for n bytes, over the size bytes from b on.
Gives(g, g2, p, n) ==
  /\ DOMAIN g2 = DOMAIN g \cup {p} /\ g2[p] = n
  /\ \A q \in DOMAIN g : q # p => g2[q] = g[q]

Forgets(F, F2, b, size) == F2 \subseteq F /\ \A q \in F2 : q - 4 \notin b .. b + size - 1

\* malloc takes block b for n bytes.
LEMMA AllotHeld ==
  ASSUME NEW h, NEW S, Good(h, S), NEW g, Held(h, S, g), NEW n \in Nat \ {0},
         NEW b \in S, IntAt(h.mem, b + 4) # 0,
         NEW k, NEW T, Good(k, T), SplitInto(h, k, S, T, b, TotalSize(n)),
         NEW given2, Gives(g, given2, b + 8, n)
  PROVE  Held(k, T, given2)
<1>1. /\ DOMAIN given2 = {b + 8} \cup DOMAIN g /\ given2[b + 8] = n
      /\ \A p \in DOMAIN g : p # b + 8 => given2[p] = g[p]
  BY DEF Gives
<1>2. /\ b \in T /\ S \subseteq T /\ IntAt(k.mem, b) >= TotalSize(n) /\ IntAt(k.mem, b + 4) = 0
      /\ \A c \in S \ {b} : IntAt(k.mem, c) = IntAt(h.mem, c)
                              /\ IntAt(k.mem, c + 4) = IntAt(h.mem, c + 4)
      /\ \A c \in T \ S : IntAt(k.mem, c + 4) = 1
  BY DEF SplitInto, SameHeaders
<1>3. \A c \in S : c \in Nat
  BY Boundaries
<1>4. ASSUME NEW p \in DOMAIN g
      PROVE  /\ p # b + 8 /\ p \in Nat /\ p - 8 \in T /\ IntAt(k.mem, p - 4) = 0
             /\ IntAt(k.mem, p - 8) >= TotalSize(g[p]) /\ g[p] \in Nat \ {0}
  <2>1. /\ p \in Nat /\ p - 8 \in S /\ IntAt(h.mem, p - 4) = 0
        /\ IntAt(h.mem, p - 8) >= TotalSize(g[p])
        /\ g[p] \in Nat \ {0}
    BY DEF Held
  <2>2. p - 8 + 4 = p - 4 /\ (p = b + 8 => p - 4 = b + 4)
    BY <1>3, <2>1
  <2>3. p # b + 8
    BY <2>1, <2>2
  <2>4. p - 8 \in S \ {b}
    BY <1>3, <2>1, <2>3
  <2>5. IntAt(k.mem, p - 8) = IntAt(h.mem, p - 8) /\ IntAt(k.mem, p - 4) = IntAt(h.mem, p - 4)
    BY <1>2, <2>2, <2>4
  <2>6. QED BY <1>2, <2>1, <2>3, <2>5
<1>5. ASSUME NEW p \in DOMAIN given2
      PROVE  /\ p \in Nat /\ given2[p] \in Nat \ {0} /\ p - 8 \in T
             /\ IntAt(k.mem, p - 4) = 0 /\ IntAt(k.mem, p - 8) >= TotalSize(given2[p])
  <2>1. CASE p = b + 8
    <3>1. p - 8 = b /\ p - 4 = b + 4 /\ p \in Nat
      BY <1>3, <2>1
    <3>2. QED BY <1>1, <1>2, <2>1, <3>1
  <2>2. CASE p # b + 8
    BY <1>1, <1>4, <2>2
  <2>3. QED BY <2>1, <2>2
<1>6. ASSUME NEW c \in T, IntAt(k.mem, c + 4) = 0 PROVE c + 8 \in DOMAIN given2
  <2>1. CASE c = b
    BY <1>1, <2>1
  <2>2. CASE c \in S \ {b}
    BY <1>1, <1>2, <1>6, <2>2 DEF Held
  <2>3. CASE c \in T \ S
    BY <1>2, <1>6, <2>3
  <2>4. QED BY <2>1, <2>2, <2>3
<1>7. QED BY <1>5, <1>6 DEF Held

LEMMA OnePredecessor ==
  ASSUME NEW h, NEW S, Good(h, S), NEW b \in S, NEW c \in S,
         b + IntAt(h.mem, b) = c + IntAt(h.mem, c)
  PROVE  b = c
<1>1. PICK e \in S \cup {h.end} : Tile(h.mem, S, 0, h.end, b, e)
  BY SameTiles
<1>2. PICK d \in S \cup {h.end} : Tile(h.mem, S, 0, h.end, c, d)
  BY SameTiles
<1>3. /\ e = d /\ b \in Nat /\ c \in Nat /\ e \in Nat /\ b < e /\ c < e
      /\ (b < c => e <= c) /\ (c < b => e <= b)
  BY <1>1, <1>2 DEF Tile
<1>4. QED BY <1>3

LEMMA EndWhole ==
  ASSUME NEW h, NEW S, Good(h, S)
  PROVE  Whole(h.end)
BY WholePages DEF Good

LEMMA SizeWhole ==
  ASSUME NEW h, NEW S, Good(h, S), \A c \in S : Whole(c), NEW b \in S
  PROVE  Whole(IntAt(h.mem, b)) /\ Whole(b + IntAt(h.mem, b))
<1>1. PICK e \in S \cup {h.end} : Tile(h.mem, S, 0, h.end, b, e)
  BY SameTiles
<1>2. Whole(e) /\ Whole(b)
  BY EndWhole
<1>3. IntAt(h.mem, b) = e - b /\ b + IntAt(h.mem, b) = e
  BY <1>1 DEF Tile
<1>4. QED BY <1>2, <1>3, WholeSum

\* An int of the heap is one of its ints.
LEMMA IntOf ==
  ASSUME NEW h, NEW S, Good(h, S), NEW q \in Nat, Whole(q), q >= 8, q <= h.end
  PROVE  q - 4 \in Ints
<1>1. h.end \in Nat /\ h.end <= MaxPages * PAGE_SIZE
  BY Boundaries
<1>2. q - 4 \in Address /\ (q - 4) + 3 \in Address
  BY <1>1, Top DEF Address
<1>3. Whole(q - 4)
  BY WholeSum
<1>4. QED BY <1>2, <1>3 DEF Ints

LEMMA AllotAligned ==
  ASSUME NEW h, NEW S, Good(h, S), NEW g, NEW F, Aligned(h, S, g, F),
         NEW n \in Nat \ {0}, Whole(n),
         NEW b \in S, NEW k, NEW T, SplitInto(h, k, S, T, b, TotalSize(n)), Good(k, T),
         NEW g2, Gives(g, g2, b + 8, n), NEW F2, Forgets(F, F2, b, IntAt(k.mem, b))
  PROVE  Aligned(k, T, g2, F2)
<1>1. /\ F2 \subseteq F /\ \A q \in F2 : q - 4 \notin b .. b + IntAt(k.mem, b) - 1
  BY Zenon DEF Forgets
<1>2. /\ DOMAIN g2 = DOMAIN g \cup {b + 8} /\ g2[b + 8] = n
      /\ \A p \in DOMAIN g : p # b + 8 => g2[p] = g[p]
  BY DEF Gives
<1>3. /\ Whole(b) /\ Whole(IntAt(h.mem, b)) /\ b \in Nat
  BY SizeWhole, Boundaries DEF Aligned
<1>4. TotalSize(n) = n + 16 /\ Whole(TotalSize(n))
  BY WholeSum DEF TotalSize, MALLOC_HEADER_SIZE, INT_SIZE
<1>5. /\ Whole(b + IntAt(k.mem, b))
      /\ \A a \in Ints : a \notin b .. b + IntAt(k.mem, b) - 1 => NotCleared(h, k, a)
      /\ k.end = h.end /\ IntAt(k.mem, b) >= TotalSize(n)
      /\ \A c \in T \ S : c = b + IntAt(k.mem, b)
  BY <1>3, <1>4 DEF SplitInto
<1>6. \A c \in T : Whole(c)
  BY <1>5 DEF Aligned
<1>7. \A p \in DOMAIN g2 : Whole(g2[p])
  BY <1>2 DEF Aligned
<1>8. ASSUME NEW q \in F2
      PROVE  /\ Whole(q) /\ q \in Nat /\ q >= 8
             /\ \A p \in DOMAIN g2 : q - 4 \notin Place(g2, p)
             /\ q <= k.end => IntAt(k.mem, q - 4) \notin {0, Junk}
  <2>1. /\ Whole(q) /\ q \in Nat /\ q >= 8 /\ q - 4 \notin b .. b + IntAt(k.mem, b) - 1
        /\ \A p \in DOMAIN g : q - 4 \notin Place(g, p)
        /\ q <= h.end => IntAt(h.mem, q - 4) \notin {0, Junk}
    BY <1>1 DEF Aligned
  <2>2. ASSUME NEW p \in DOMAIN g2 PROVE q - 4 \notin Place(g2, p)
    <3>1. CASE p = b + 8
      <4>1. PICK t \in S \cup T \cup {k.end} : Tile(k.mem, T, 0, k.end, b, t)
        <5>1. b \in T
          BY DEF SplitInto
        <5>2. QED BY <5>1, SameTiles
      <4>2. IntAt(k.mem, b) \in Int
        BY <1>3, <4>1 DEF Tile
      <4>3. QED BY <1>2, <1>3, <1>4, <1>5, <2>1, <3>1, <4>2 DEF Place
    <3>2. CASE p # b + 8
      BY <1>2, <2>1, <3>2 DEF Place
    <3>3. QED BY <3>1, <3>2
  <2>3. ASSUME q <= k.end PROVE IntAt(k.mem, q - 4) \notin {0, Junk}
    <3>1. q - 4 \in Ints /\ IntAt(h.mem, q - 4) \notin {0, Junk}
      BY <1>5, <2>1, <2>3, IntOf
    <3>2. NotCleared(h, k, q - 4)
      BY <1>5, <2>1, <3>1
    <3>3. QED BY <3>1, <3>2 DEF NotCleared
  <2>4. QED BY <2>1, <2>2, <2>3
<1>9. QED BY <1>6, <1>7, <1>8 DEF Aligned

LEMMA AllotJoined ==
  ASSUME NEW h, NEW S, Good(h, S), Joined(h, S), NEW b \in S, IntAt(h.mem, b + 4) # 0,
         NEW total, NEW k, NEW T, Good(k, T), SplitInto(h, k, S, T, b, total)
  PROVE  Joined(k, T)
<1>1. SUFFICES ASSUME NEW c \in T, NEW d \in T, d = c + IntAt(k.mem, c),
                      IntAt(k.mem, c + 4) # 0, IntAt(k.mem, d + 4) # 0
               PROVE  FALSE
  BY DEF Joined
<1>2. /\ b \in T /\ S \subseteq T /\ IntAt(k.mem, b + 4) = 0
      /\ \A x \in S \ {b} : IntAt(k.mem, x) = IntAt(h.mem, x)
                              /\ IntAt(k.mem, x + 4) = IntAt(h.mem, x + 4)
      /\ \A x \in T \ S : x = b + IntAt(k.mem, b) /\ x + IntAt(k.mem, x) = b + IntAt(h.mem, b)
  BY DEF SplitInto, SameHeaders
<1>3. c # b /\ d # b
  BY <1>1, <1>2
<1>4. CASE c \in S
  <2>1. CASE d \in S
    <3>1. d = c + IntAt(h.mem, c) /\ IntAt(h.mem, c + 4) # 0 /\ IntAt(h.mem, d + 4) # 0
      BY <1>1, <1>2, <1>3, <1>4, <2>1
    <3>2. QED BY <1>4, <2>1, <3>1 DEF Joined
  <2>2. CASE d \notin S
    <3>1. c + IntAt(k.mem, c) = b + IntAt(k.mem, b)
      BY <1>1, <1>2, <2>2
    <3>2. QED BY <1>2, <1>3, <3>1, OnePredecessor
  <2>3. QED BY <2>1, <2>2
<1>5. CASE c \notin S
  <2>1. c = b + IntAt(k.mem, b) /\ d = b + IntAt(h.mem, b)
    BY <1>1, <1>2, <1>5
  <2>2. d # c
    <3>1. PICK e \in T \cup {k.end} : Tile(k.mem, T, 0, k.end, c, e)
      BY SameTiles
    <3>2. QED BY <1>1, <3>1 DEF Tile
  <2>3. d \in S
    BY <1>2, <2>1, <2>2
  <2>4. IntAt(h.mem, d + 4) # 0
    BY <1>1, <1>2, <1>3, <2>3
  <2>5. QED BY <2>1, <2>3, <2>4 DEF Joined
<1>6. QED BY <1>4, <1>5

LEMMA AllotPlaces ==
  ASSUME NEW h, NEW S, Good(h, S), NEW g, Held(h, S, g), NEW b \in S, IntAt(h.mem, b + 4) # 0,
         NEW total, NEW k, NEW T, SplitInto(h, k, S, T, b, total)
  PROVE  PlacesKept(h, k, g)
<1>1. SUFFICES ASSUME NEW p \in DOMAIN g, NEW a \in Place(g, p)
               PROVE  k.mem[a] = h.mem[a]
  BY DEF PlacesKept
<1>2. PICK e \in S \cup {h.end} : Tile(h.mem, S, 0, h.end, b, e)
  BY SameTiles
<1>3. /\ IntAt(h.mem, b) = e - b /\ b \in Nat /\ e \in Nat /\ b < e
      /\ \A x \in S : b < x => e <= x
  BY <1>2 DEF Tile
<1>4. p - 8 \in S /\ p \in Nat /\ IntAt(h.mem, p - 4) = 0
  BY DEF Held
<1>5. p - 8 # b
  <2>1. p - 8 + 4 = p - 4
    BY <1>4
  <2>2. QED BY <1>4, <2>1
<1>6. p - 8 \notin b .. e - 1 /\ b <= e
  BY <1>3, <1>4, <1>5
<1>7. a \in Address /\ a \notin b .. e - 1
  <2>1. /\ a \in Address
        /\ \A x \in S : \A y \in S \cup {h.end} :
             x <= y /\ p - 8 \notin x .. y - 1 => a \notin x .. y - 1
    BY PlaceInside
  <2>2. QED BY <1>3, <1>6, <2>1
<1>8. KeptOutside(h.mem, k.mem, b, e)
  <2>1. KeptOutside(h.mem, k.mem, b, b + IntAt(h.mem, b)) /\ b + IntAt(h.mem, b) = e
    BY <1>2 DEF SplitInto, Tile
  <2>2. QED BY <2>1
<1>9. QED BY <1>7, <1>8, KeptAt

\* malloc takes a block that was there.
LEMMA Allotted ==
  ASSUME NEW h, NEW S, NEW g, NEW F, NEW whole, Laid(h, S, g, F, whole),
         NEW n \in Nat \ {0}, whole => Whole(n),
         NEW b \in S, IntAt(h.mem, b + 4) # 0, IntAt(h.mem, b) >= TotalSize(n),
         NEW k, k = Split(h, b, TotalSize(n)),
         NEW g2, Gives(g, g2, b + 8, n), NEW F2, Forgets(F, F2, b, IntAt(k.mem, b))
  PROVE  \E T : Laid(k, T, g2, F2, whole) /\ PlacesKept(h, k, g) /\ k.end = h.end /\ k.cut = h.cut
<1>1. Good(h, S) /\ Held(h, S, g) /\ Joined(h, S) /\ (whole => Aligned(h, S, g, F))
  BY DEF Laid
<1>2. TotalSize(n) \in Nat /\ TotalSize(n) >= 17
  BY DEF TotalSize, MALLOC_HEADER_SIZE, INT_SIZE
<1>3. PICK T : Good(k, T) /\ SplitInto(h, k, S, T, b, TotalSize(n))
  BY <1>1, <1>2, SplitBlock
<1>4. Held(k, T, g2)
  BY <1>1, <1>3, AllotHeld
<1>5. whole => Aligned(k, T, g2, F2)
  BY <1>1, <1>3, AllotAligned
<1>6. Joined(k, T)
  BY <1>1, <1>3, AllotJoined
<1>7. PlacesKept(h, k, g)
  BY <1>1, <1>3, AllotPlaces
<1>8. k.end = h.end /\ k.cut = h.cut
  BY <1>3 DEF SplitInto
<1>9. QED BY <1>3, <1>4, <1>5, <1>6, <1>7, <1>8 DEF Laid

LEMMA Distributes ==
  ASSUME NEW i \in Nat, NEW j \in Nat, NEW x \in Nat
  PROVE  (i + j) * x = i * x + j * x
OBVIOUS

\* The heap grows by one block of size bytes, for n bytes.
GrowsBy(h, k, n, size) ==
  /\ size \in Nat /\ size >= TotalSize(n) /\ \E pages \in Nat : size = pages * PAGE_SIZE
  /\ h.end + size <= MaxPages * PAGE_SIZE
  /\ k = write_header_footer([h EXCEPT !.end = h.end + size], h.end, size, 0)

LEMMA Grown ==
  ASSUME NEW h, NEW S, NEW g, NEW F, NEW whole, Laid(h, S, g, F, whole),
         NEW n \in Nat \ {0}, whole => Whole(n), NEW size, NEW k, GrowsBy(h, k, n, size),
         NEW g2, Gives(g, g2, h.end + 8, n), NEW F2, Forgets(F, F2, h.end, IntAt(k.mem, h.end))
  PROVE  Laid(k, S \cup {h.end}, g2, F2, whole) /\ PlacesKept(h, k, g) /\ k.cut = h.cut
<1> DEFINE old == h.end
           T == S \cup {old}
           e == old + size
           h1 == [h EXCEPT !.end = e]
<1>0. /\ size \in Nat /\ size >= TotalSize(n) /\ \E pages \in Nat : size = pages * PAGE_SIZE
      /\ e <= MaxPages * PAGE_SIZE /\ k = write_header_footer(h1, old, size, 0)
  BY DEF GrowsBy
<1>1. Good(h, S) /\ Held(h, S, g) /\ Joined(h, S) /\ (whole => Aligned(h, S, g, F))
  BY DEF Laid
<1>2. /\ h \in HeapType /\ old \in Nat /\ Tiled(h.mem, 0, old, S)
      /\ \A c \in S : c \in Nat /\ c \in Address /\ c + 7 \in Address /\ c + 8 <= old
      /\ ~h.lost /\ \E i \in Nat : old = i * PAGE_SIZE
  BY <1>1, Boundaries DEF Good
<1>3. size >= 17 /\ e \in Nat /\ old < e /\ size = e - old /\ e = old + size
  BY <1>2, <1>0 DEF TotalSize, MALLOC_HEADER_SIZE, INT_SIZE
<1>4. h1 \in HeapType /\ h1.end = e /\ h1.mem = h.mem /\ h1.lost = h.lost /\ h1.cut = h.cut
  <2>1. e \in 0 .. MaxPages * PAGE_SIZE
    BY <1>3, <1>0, Top
  <2> HIDE DEF e
  <2>2. QED BY <1>2, <2>1 DEF HeapType
<1> HIDE DEF h1, e
<1>5. k \in HeapType /\ Block(k.mem, old, e) /\ Wrote(h1, k, old, e, size, 0)
  <2>1. e <= h1.end /\ e = old + size /\ 0 \in {0, 1} /\ old \in Nat
    BY <1>2, <1>3, <1>4
  <2> HIDE DEF old
  <2>2. QED BY <1>0, <1>3, <1>4, <2>1, Written
<1>6. /\ k.end = e /\ k.lost = h.lost /\ k.cut = h.cut /\ IntAt(k.mem, old) = size
      /\ IntAt(k.mem, old + 4) = 0
      /\ KeptOutside(h.mem, k.mem, old, e)
  BY <1>4, <1>5 DEF Wrote
<1> HIDE DEF old
<1>7. \A a \in 0 .. old - 1 : k.mem[a] = h.mem[a]
  <2> TAKE a \in 0 .. old - 1
  <2>1. a \in Address /\ a \notin old .. e - 1
    BY <1>0, <1>2, <1>3, Top DEF Address
  <2>2. QED BY <1>6, <2>1 DEF KeptOutside
<1>8. \A c \in S : IntAt(k.mem, c) = IntAt(h.mem, c) /\ IntAt(k.mem, c + 4) = IntAt(h.mem, c + 4)
  <2> TAKE c \in S
  <2>1. c \in Address /\ c + 7 \in Address /\ c + 8 <= old /\ old \in Int /\ e \in Int
    BY <1>2, <1>3
  <2>2. QED BY <1>6, <2>1, HeaderKept
<1>9. Good(k, T)
  <2>1. Tiled(k.mem, 0, old, S)
    BY <1>2, <1>7, SameBytes
  <2>2. Tiled(k.mem, old, e, {old})
    BY <1>2, <1>3, <1>5, BlockAlone
  <2>3. Tiled(k.mem, 0, e, T)
    BY <1>2, <1>3, <2>1, <2>2, Concatenated
  <2>4. \E i \in Nat : e = i * PAGE_SIZE
    <3>1. PICK i \in Nat, pages \in Nat : old = i * PAGE_SIZE /\ size = pages * PAGE_SIZE
      BY <1>2, <1>0
    <3>2. e = (i + pages) * PAGE_SIZE
      <4>1. (i + pages) * PAGE_SIZE = i * PAGE_SIZE + pages * PAGE_SIZE
        BY Top, Distributes
      <4>2. QED BY <1>3, <3>1, <4>1
    <3>3. QED BY <3>2
  <2>5. QED BY <1>2, <1>5, <1>6, <2>3, <2>4 DEF Good
<1>10. /\ DOMAIN g2 = DOMAIN g \cup {old + 8} /\ g2[old + 8] = n
       /\ \A p \in DOMAIN g : p # old + 8 => g2[p] = g[p]
  BY DEF old, Gives
<1>11. ASSUME NEW p \in DOMAIN g
       PROVE  /\ p # old + 8 /\ p \in Nat /\ p - 8 \in T /\ IntAt(k.mem, p - 4) = 0
              /\ IntAt(k.mem, p - 8) >= TotalSize(g[p]) /\ g[p] \in Nat \ {0}
  <2>1. /\ p \in Nat /\ p - 8 \in S /\ IntAt(h.mem, p - 4) = 0
        /\ IntAt(h.mem, p - 8) >= TotalSize(g[p])
        /\ g[p] \in Nat \ {0}
    BY <1>1 DEF Held
  <2>2. p - 8 + 4 = p - 4 /\ p # old + 8
    BY <1>2, <2>1
  <2>3. QED BY <1>8, <2>1, <2>2
<1>12. Held(k, T, g2)
  <2>1. ASSUME NEW p \in DOMAIN g2
        PROVE  /\ p \in Nat /\ g2[p] \in Nat \ {0} /\ p - 8 \in T
               /\ IntAt(k.mem, p - 4) = 0 /\ IntAt(k.mem, p - 8) >= TotalSize(g2[p])
    <3>1. CASE p = old + 8
      <4>1. p - 8 = old /\ p - 4 = old + 4 /\ p \in Nat
        BY <1>2, <3>1
      <4>2. QED BY <1>0, <1>6, <1>10, <3>1, <4>1
    <3>2. CASE p # old + 8
      BY <1>10, <1>11, <3>2
    <3>3. QED BY <3>1, <3>2
  <2>2. ASSUME NEW c \in T, IntAt(k.mem, c + 4) = 0 PROVE c + 8 \in DOMAIN g2
    BY <1>1, <1>8, <1>10, <2>2 DEF Held
  <2>3. QED BY <2>1, <2>2 DEF Held
<1>13. ASSUME whole PROVE Aligned(k, T, g2, F2)
  <2>1. Aligned(h, S, g, F) /\ Whole(n)
    BY <1>1, <1>13
  <2>2. Whole(old)
    BY <1>1, EndWhole DEF old
  <2>3. F2 \subseteq F /\ \A q \in F2 : q - 4 \notin old .. e - 1
    <3>1. Forgets(F, F2, old, size)
      BY <1>6 DEF old
    <3>2. F2 \subseteq F /\ \A q \in F2 : q - 4 \notin old .. old + size - 1
      BY <3>1, Zenon DEF Forgets
    <3>3. old + size - 1 = e - 1
      BY <1>2, <1>3
    <3>4. QED BY <3>2, <3>3
  <2>4. \A c \in T : Whole(c)
    BY <2>1, <2>2 DEF Aligned
  <2>5. \A p \in DOMAIN g2 : Whole(g2[p])
    BY <1>10, <2>1 DEF Aligned
  <2>6. ASSUME NEW q \in F2
        PROVE  /\ Whole(q) /\ q \in Nat /\ q >= 8
               /\ \A p \in DOMAIN g2 : q - 4 \notin Place(g2, p)
               /\ q <= k.end => IntAt(k.mem, q - 4) \notin {0, Junk}
    <3>1. /\ Whole(q) /\ q \in Nat /\ q >= 8 /\ q - 4 \notin old .. e - 1
          /\ \A p \in DOMAIN g : q - 4 \notin Place(g, p)
          /\ q <= old => IntAt(h.mem, q - 4) \notin {0, Junk}
      BY <2>1, <2>3 DEF Aligned, old
    <3>2. ASSUME NEW p \in DOMAIN g2 PROVE q - 4 \notin Place(g2, p)
      <4>1. CASE p = old + 8
        <5>1. n + 16 <= size
          BY <1>0 DEF TotalSize, MALLOC_HEADER_SIZE, INT_SIZE
        <5>2. QED BY <1>2, <1>3, <1>10, <3>1, <4>1, <5>1 DEF Place
      <4>2. CASE p # old + 8
        BY <1>10, <3>1, <4>2 DEF Place
      <4>3. QED BY <4>1, <4>2
    <3>3. ASSUME q <= k.end PROVE IntAt(k.mem, q - 4) \notin {0, Junk}
      <4>1. q - 4 < old
        BY <1>2, <1>3, <1>6, <3>1, <3>3
      <4>2. (q - 4) + 4 <= old
        BY <2>2, <3>1, <4>1, WholeSum, WholeApart
      <4>3. /\ q - 4 \in Address /\ (q - 4) + 3 \in Address
        BY <1>0, <1>2, <1>3, <3>1, <4>2, Top DEF Address
      <4>4. IntAt(k.mem, q - 4) = IntAt(h.mem, q - 4)
        BY <1>2, <1>3, <1>6, <4>2, <4>3, IntKept
      <4>5. QED BY <1>2, <3>1, <4>2, <4>4
    <3>4. QED BY <3>1, <3>2, <3>3
  <2>7. QED BY <2>4, <2>5, <2>6 DEF Aligned
<1>14. Joined(k, T)
  <2>1. SUFFICES ASSUME NEW c \in T, NEW d \in T, d = c + IntAt(k.mem, c),
                        IntAt(k.mem, c + 4) # 0, IntAt(k.mem, d + 4) # 0
                 PROVE  FALSE
    BY DEF Joined
  <2>2. c \in S /\ d \in S
    BY <1>6, <2>1
  <2>3. QED BY <1>1, <1>8, <2>1, <2>2 DEF Joined
<1>15. PlacesKept(h, k, g)
  <2>1. SUFFICES ASSUME NEW p \in DOMAIN g, NEW a \in Place(g, p)
                 PROVE  k.mem[a] = h.mem[a]
    BY DEF PlacesKept
  <2>2. a \in Address /\ a < old
    BY <1>1, PlaceInside DEF old
  <2>3. QED BY <1>2, <1>7, <2>2 DEF Address
<1>16. QED BY <1>6, <1>9, <1>12, <1>13, <1>14, <1>15 DEF Laid, old

----------------------------------------------------------------------------
(* The invariant.                                                          *)

\* A pointer is freed twice only among requests for parts of ints, or after a shrink
\* left a block without a footer.  Until then no call goes astray, and the heap is laid
\* out as the program knows it.
HeapInv ==
  /\ twice => cut \/ unaligned
  /\ ~cut /\ ~twice =>
       /\ stopped \in {"no", "fault"}
       /\ heap_end = NULL => mem \in [Address -> Cell] /\ DOMAIN given = {} /\ freed = {}
       /\ heap_end # NULL => \E S : Laid(Heap, S, given, freed, ~unaligned)

HeapOf(m, e) == [mem |-> m, end |-> e, lost |-> FALSE, cut |-> FALSE]

LEMMA StartedLaid ==
  ASSUME HeapInv, ~cut, ~twice
  PROVE  \E S : /\ Laid(Started, S, given, freed, ~unaligned) /\ PlacesKept(Heap, Started, given)
                /\ ~Started.cut
<1>1. CASE heap_end # NULL
  <2>1. PICK S : Laid(Heap, S, given, freed, ~unaligned)
    BY <1>1 DEF HeapInv
  <2>2. Started = Heap /\ ~Heap.cut
    BY <1>1 DEF Started, Heap
  <2>3. QED BY <2>1, <2>2 DEF PlacesKept
<1>2. CASE heap_end = NULL
  <2> DEFINE h == [Heap EXCEPT !.end = PAGE_SIZE]
             S == {0}
  <2>1. mem \in [Address -> Cell] /\ DOMAIN given = {} /\ freed = {}
    BY <1>2 DEF HeapInv
  <2>2. h \in HeapType /\ h.end = PAGE_SIZE /\ ~h.lost /\ ~h.cut
    <3>1. Heap \in [mem : [Address -> Cell], end : {NULL}, lost : {FALSE}, cut : {FALSE}]
      BY <1>2, <2>1 DEF Heap
    <3>2. PAGE_SIZE \in 0 .. MaxPages * PAGE_SIZE
      BY Top
    <3>3. QED BY <2>1, <3>1, <3>2 DEF HeapType
  <2> HIDE DEF h
  <2>3. Started = write_header_footer(h, 0, PAGE_SIZE, 1)
    BY <1>2 DEF Started, h
  <2> DEFINE k == Started
  <2> HIDE DEF k
  <2>4. k \in HeapType /\ Block(k.mem, 0, PAGE_SIZE) /\ Wrote(h, k, 0, PAGE_SIZE, PAGE_SIZE, 1)
    <3>1. /\ PAGE_SIZE \in Nat /\ PAGE_SIZE >= 17 /\ PAGE_SIZE = 0 + PAGE_SIZE /\ 0 \in Nat
          /\ PAGE_SIZE <= h.end /\ 1 \in {0, 1} /\ k = write_header_footer(h, 0, PAGE_SIZE, 1)
      BY <2>2, <2>3, Top DEF k
    <3>2. QED BY <2>2, <3>1, Written
  <2>5. /\ k.end = PAGE_SIZE /\ ~k.lost /\ ~k.cut /\ IntAt(k.mem, 0) = PAGE_SIZE
        /\ IntAt(k.mem, 0 + 4) = 1
    BY <2>2, <2>4 DEF Wrote
  <2>6. Good(k, S)
    <3>1. Tiled(k.mem, 0, PAGE_SIZE, S)
      BY <2>4, Top, BlockAlone
    <3>2. PAGE_SIZE = 1 * PAGE_SIZE
      BY Top
    <3>3. QED BY <2>4, <2>5, <3>1, <3>2 DEF Good
  <2>7. Held(k, S, given) /\ Aligned(k, S, given, freed)
    <3>1. Whole(0)
      BY DEF Whole
    <3>2. QED BY <2>1, <2>5, <3>1 DEF Held, Aligned
  <2>8. Joined(k, S)
    <3>1. 0 + PAGE_SIZE # 0
      BY Top
    <3>2. QED BY <2>5, <3>1 DEF Joined
  <2>9. PlacesKept(Heap, k, given)
    BY <2>1 DEF PlacesKept
  <2>10. QED BY <2>5, <2>6, <2>7, <2>8, <2>9 DEF Laid, k
<1>3. QED BY <1>1, <1>2

\* A heap of this kind is the bytes and the end of it.
LEMMA HeapIs ==
  ASSUME NEW k, NEW S, Good(k, S), ~k.cut
  PROVE  k = HeapOf(k.mem, k.end)
BY DEF Good, HeapType, HeapOf

\* What malloc finds in a heap that is laid out.
LEMMA WalkEnds ==
  ASSUME NEW h, NEW S, Good(h, S), NEW total, NEW b, b = FirstFit(h, total)
  PROVE  b = NoFit \/ (b \in S /\ IntAt(h.mem, b + 4) # 0 /\ IntAt(h.mem, b) >= total)
<1>1. /\ h \in HeapType /\ h.end \in Nat /\ Tiled(h.mem, 0, h.end, S)
      /\ h.end <= MaxPages * PAGE_SIZE
  BY Boundaries
<1>2. ASSUME NEW c \in Nat, Known(h, c) PROVE IntAt(h.mem, c) \in Nat
  <2>1. c + 8 <= h.end /\ IntAt(h.mem, c) # Junk
    BY <1>2 DEF Known, SizeAt, IsFreeAt, MALLOC_HEADER_SIZE, INT_SIZE
  <2>2. c \in Address
    BY <1>1, <2>1, Top DEF Address
  <2>3. IntAt(h.mem, c) \in Word
    BY <1>1, <2>2, IntType DEF HeapType
  <2>4. QED BY <2>1, <2>3, Top DEF Word, Junk
<1>3. LET c == FirstFit(h, total)
      IN c = NoFit \/ (c \in S /\ IntAt(h.mem, c + 4) # 0 /\ IntAt(h.mem, c) >= total)
  BY <1>1, <1>2, FirstFitFinds
<1>4. QED BY <1>3

LEMMA LessWhole ==
  ASSUME NEW h, NEW S, NEW g, NEW F, NEW n \in Nat, Laid(h, S, g, F, ~unaligned),
         unaligned' = (unaligned \/ n % INT_SIZE # 0)
  PROVE  Laid(h, S, g, F, ~unaligned') /\ (~unaligned' => Whole(n))
<1>1. ~unaligned' => ~unaligned /\ n % INT_SIZE = 0
  OBVIOUS
<1>2. QED BY <1>1, WholeNumber DEF Laid

\* malloc returns a place of its own for n bytes, and leaves alone what the
\* program holds.
Allots(n) ==
  \E T, p :
    /\ Laid(HeapOf(mem', heap_end'), T, given', freed', ~unaligned')
    /\ PlacesKept(Heap, HeapOf(mem', heap_end'), given)
    /\ p \notin DOMAIN given
    /\ Gives(given, given', p, n)
    /\ stopped' = "no" /\ ~cut' /\ ~twice'

LEMMA Returned ==
  ASSUME NEW k, NEW b, NEW n, stopped = "no", Return(k, b, n)
  PROVE  /\ mem' = k.mem /\ heap_end' = k.end /\ (~k.lost => stopped' = "no")
         /\ cut' = cut /\ twice' = twice /\ unaligned' = (unaligned \/ n % INT_SIZE # 0)
         /\ Gives(given, given', b + 8, n) /\ Forgets(freed, freed', b, IntAt(k.mem, b))
<1>1. /\ mem' = k.mem /\ heap_end' = k.end /\ (~k.lost => stopped' = "no")
      /\ cut' = cut /\ twice' = twice /\ unaligned' = (unaligned \/ n % INT_SIZE # 0)
  BY DEF Return
<1>2. Gives(given, given', b + 8, n)
  BY DEF Return, MALLOC_HEADER_SIZE, INT_SIZE, Gives
<1>3. Forgets(freed, freed', b, IntAt(k.mem, b))
  <2>1. freed' = {q \in freed : q - 4 \notin b .. b + IntAt(k.mem, b) - 1}
    BY DEF Return, SizeAt, INT_SIZE
  <2>2. QED BY <2>1, Zenon DEF Forgets
<1>4. QED BY <1>1, <1>2, <1>3

LEMMA FitAllots ==
  ASSUME HeapInv, ~cut, ~twice, NEW n \in Nat \ {0}, MallocFit(n)
  PROVE  Allots(n)
<1> DEFINE h == Started
           b == FirstFit(h, TotalSize(n))
           k == Split(h, b, TotalSize(n))
<1>1. PICK S : /\ Laid(h, S, given, freed, ~unaligned) /\ PlacesKept(Heap, h, given)
               /\ ~h.cut
  BY StartedLaid
<1>2. b >= 0 /\ stopped = "no" /\ Return(k, b, n)
  BY DEF MallocFit, Running
<1> HIDE DEF h
<1>3. b \in S /\ IntAt(h.mem, b + 4) # 0 /\ IntAt(h.mem, b) >= TotalSize(n)
  <2> HIDE DEF b
  <2>1. b = FirstFit(h, TotalSize(n)) /\ Good(h, S)
    BY <1>1 DEF b, Laid
  <2>2. QED BY <1>2, <2>1, WalkEnds DEF NoFit
<1> HIDE DEF b
<1> HIDE DEF k
<1>4. /\ mem' = k.mem /\ heap_end' = k.end /\ (~k.lost => stopped' = "no")
      /\ cut' = cut /\ twice' = twice /\ unaligned' = (unaligned \/ n % INT_SIZE # 0)
      /\ Gives(given, given', b + 8, n) /\ Forgets(freed, freed', b, IntAt(k.mem, b))
  BY <1>2, Returned
<1>5. PICK T : Laid(k, T, given', freed', ~unaligned') /\ PlacesKept(h, k, given) /\ k.cut = h.cut
  <2>1. k = Split(h, b, TotalSize(n))
    BY DEF k
  <2> DEFINE whole == ~unaligned'
  <2>2. Laid(h, S, given, freed, whole) /\ (whole => Whole(n))
    BY <1>1, <1>4, LessWhole
  <2> HIDE DEF whole
  <2>3. \E T : /\ Laid(k, T, given', freed', whole) /\ PlacesKept(h, k, given)
               /\ k.end = h.end /\ k.cut = h.cut
    <3>1. Gives(given, given', b + 8, n) /\ Forgets(freed, freed', b, IntAt(k.mem, b))
      BY <1>4
    <3>2. IntAt(h.mem, b + 4) # 0 /\ IntAt(h.mem, b) >= TotalSize(n) /\ b \in S
      BY <1>3
    <3>3. QED BY <2>1, <2>2, <3>1, <3>2, Allotted
  <2>4. QED BY <2>3 DEF whole
<1>6. k = HeapOf(mem', heap_end') /\ ~k.lost
  <2>1. Good(k, T) /\ ~k.cut
    BY <1>1, <1>5 DEF Laid
  <2>2. QED BY <1>4, <2>1, HeapIs DEF Good
<1>7. b + 8 \notin DOMAIN given
  <2>1. b \in Nat
    BY <1>1, <1>3, Boundaries DEF Laid
  <2>2. b + 8 - 4 = b + 4
    BY <2>1
  <2>3. QED BY <1>1, <1>3, <2>1, <2>2 DEF Laid, Held
<1>8. PlacesKept(Heap, k, given)
  BY <1>1, <1>5 DEF PlacesKept
<1>9. QED BY <1>4, <1>5, <1>6, <1>7, <1>8 DEF Allots

LEMMA RoundedUp ==
  ASSUME NEW t \in Nat, NEW s \in Nat \ {0}
  PROVE  (t + s - 1) \div s \in Nat /\ ((t + s - 1) \div s) * s >= t
<1> DEFINE q == (t + s - 1) \div s
<1>1. t + s - 1 \in Nat /\ s > 0
  OBVIOUS
<1>2. q \in Int /\ s * q <= t + s - 1 /\ t + s - 1 < s * q + s
  BY <1>1
<1> HIDE DEF q
<1>3. q * s = s * q /\ s * q \in Int
  BY <1>2
<1>4. q * s >= t
  BY <1>1, <1>2, <1>3
<1>5. q >= 0
  <2>1. SUFFICES ASSUME q < 0 PROVE FALSE
    BY <1>2
  <2>2. q * s <= -s
    BY <1>1, <1>2, <2>1
  <2>3. QED BY <1>1, <1>3, <1>4, <2>2
<1>6. QED BY <1>2, <1>4, <1>5 DEF q

LEMMA GrowAllots ==
  ASSUME HeapInv, ~cut, ~twice, NEW n \in Nat \ {0}, MallocGrow(n)
  PROVE  Allots(n)
<1> DEFINE h == Started
           size == PagesFor(n) * PAGE_SIZE
           e == h.end + size
           h1 == [h EXCEPT !.end = e]
           k == write_header_footer(h1, h.end, size, 0)
<1>1. PICK S : /\ Laid(h, S, given, freed, ~unaligned) /\ PlacesKept(Heap, h, given)
               /\ ~h.cut
  BY StartedLaid
<1>2. e <= MaxPages * PAGE_SIZE /\ stopped = "no" /\ Return(k, h.end, n)
  BY DEF MallocGrow, Running
<1> HIDE DEF h
<1>3. PagesFor(n) \in Nat /\ size \in Nat /\ size >= TotalSize(n)
  <2> DEFINE t == TotalSize(n)
             s == PAGE_SIZE
  <2>1. t \in Nat /\ s \in Nat /\ s > 16
    BY Top DEF TotalSize, MALLOC_HEADER_SIZE, INT_SIZE
  <2>2. PagesFor(n) = (t + s - 1) \div s
    BY DEF PagesFor
  <2> HIDE DEF t, s
  <2>3. (t + s - 1) \div s \in Nat /\ ((t + s - 1) \div s) * s >= t
    BY <2>1, RoundedUp
  <2>4. QED BY <2>1, <2>2, <2>3 DEF t, s
<1> HIDE DEF size
<1>4. h.end \in Nat
  BY <1>1, Boundaries DEF Laid
<1> HIDE DEF e
<1> HIDE DEF k
<1>5. /\ mem' = k.mem /\ heap_end' = k.end /\ (~k.lost => stopped' = "no")
      /\ cut' = cut /\ twice' = twice /\ unaligned' = (unaligned \/ n % INT_SIZE # 0)
      /\ Gives(given, given', h.end + 8, n)
      /\ Forgets(freed, freed', h.end, IntAt(k.mem, h.end))
  BY <1>2, Returned
<1>6. /\ Laid(k, S \cup {h.end}, given', freed', ~unaligned') /\ PlacesKept(h, k, given)
      /\ k.cut = h.cut
  <2>1. k = write_header_footer([h EXCEPT !.end = h.end + size], h.end, size, 0)
    BY DEF k, e
  <2>2. \E pages \in Nat : size = pages * PAGE_SIZE
    BY <1>3 DEF size
  <2>3. h.end + size <= MaxPages * PAGE_SIZE
    BY <1>2 DEF e
  <2>4. GrowsBy(h, k, n, size)
    BY <1>3, <2>1, <2>2, <2>3 DEF GrowsBy
  <2> DEFINE whole == ~unaligned'
  <2>5. Laid(h, S, given, freed, whole) /\ (whole => Whole(n))
    BY <1>1, <1>5, LessWhole
  <2> HIDE DEF whole
  <2>6. /\ Laid(k, S \cup {h.end}, given', freed', whole) /\ PlacesKept(h, k, given)
        /\ k.cut = h.cut
    BY <1>5, <2>4, <2>5, Grown
  <2>7. QED BY <2>6 DEF whole
<1>7. k = HeapOf(mem', heap_end') /\ ~k.lost
  <2>1. Good(k, S \cup {h.end}) /\ ~k.cut
    BY <1>1, <1>6 DEF Laid
  <2>2. QED BY <1>5, <2>1, HeapIs DEF Good
<1>8. h.end + 8 \notin DOMAIN given
  <2>1. \A c \in S : c \in Nat /\ c + 8 <= h.end
    BY <1>1, Boundaries DEF Laid
  <2>2. h.end + 8 - 8 \notin S
    BY <1>4, <2>1
  <2>3. QED BY <1>1, <1>4, <2>2 DEF Laid, Held
<1>9. PlacesKept(Heap, k, given)
  BY <1>1, <1>6 DEF PlacesKept
<1>10. QED BY <1>5, <1>6, <1>7, <1>8, <1>9 DEF Allots

----------------------------------------------------------------------------
(* The program writes in a place that it holds.                            *)

LEMMA Filled ==
  ASSUME NEW h, NEW S, NEW g, NEW F, NEW whole, Laid(h, S, g, F, whole),
         NEW p \in DOMAIN g, NEW k,
         k \in HeapType, k.end = h.end, k.lost = h.lost, k.cut = h.cut,
         \A a \in Address : IF a \in Place(g, p) THEN k.mem[a] = JunkByte ELSE k.mem[a] = h.mem[a]
  PROVE  Laid(k, S, g, F, whole)
<1>1. Good(h, S) /\ Held(h, S, g) /\ Joined(h, S) /\ (whole => Aligned(h, S, g, F))
  BY DEF Laid
<1>2. /\ h \in HeapType /\ h.end \in Nat /\ Tiled(h.mem, 0, h.end, S)
      /\ h.end <= MaxPages * PAGE_SIZE /\ S \in SUBSET (0 .. h.end - 1) /\ 0 \in S \cup {h.end}
      /\ \A c \in S : c \in Nat /\ c \in Address /\ c + 7 \in Address /\ c + 8 <= h.end
      /\ ~h.lost /\ \E i \in Nat : h.end = i * PAGE_SIZE
  BY <1>1, Boundaries DEF Good
<1>3. p - 8 \in S /\ p \in Nat
  BY <1>1 DEF Held
<1>4. ASSUME NEW c \in S
      PROVE  \E e \in S \cup {h.end} :
               /\ Tile(h.mem, S, 0, h.end, c, e)
               /\ IntAt(k.mem, c) = IntAt(h.mem, c) /\ IntAt(k.mem, c + 4) = IntAt(h.mem, c + 4)
               /\ IntAt(k.mem, e - 8) = IntAt(h.mem, e - 8)
               /\ IntAt(k.mem, e - 4) = IntAt(h.mem, e - 4)
  <2>1. PICK e \in S \cup {h.end} : Tile(h.mem, S, 0, h.end, c, e)
    BY <1>1, SameTiles
  <2>2. /\ IntAt(h.mem, c) = e - c /\ c \in Nat /\ e \in Nat /\ e - c >= 8 /\ e <= h.end /\ c <= e
        /\ e = c + IntAt(h.mem, c)
    BY <2>1 DEF Tile
  <2>3. ASSUME NEW x \in Int, x \in c .. c + 7 \/ x \in e - 8 .. e - 1 PROVE k.mem[x] = h.mem[x]
    <3>1. x \in Address /\ x \in c .. e - 1
      BY <1>2, <2>2, <2>3, Top DEF Address
    <3>2. x \notin Place(g, p)
      <4>1. SUFFICES ASSUME x \in Place(g, p) PROVE FALSE
        OBVIOUS
      <4>2. /\ p <= x /\ x <= p - 8 + IntAt(h.mem, p - 8) - 9
            /\ \A y \in S : \A z \in S \cup {h.end} :
                 y <= z /\ p - 8 \notin y .. z - 1 => x \notin y .. z - 1
        BY <1>1, <4>1, PlaceInside
      <4>3. p - 8 \in c .. e - 1
        BY <2>2, <3>1, <4>2
      <4>4. p - 8 = c
        <5>1. \A y \in S : c < y => e <= y
          BY <2>1 DEF Tile
        <5>2. QED BY <1>3, <2>2, <4>3, <5>1
      <4>5. QED BY <1>3, <2>2, <2>3, <4>2, <4>4
    <3>3. QED BY <3>1, <3>2
  <2>4. ASSUME NEW y \in {c, c + 4, e - 8, e - 4} PROVE IntAt(k.mem, y) = IntAt(h.mem, y)
    <3>1. /\ y \in Int
          /\ \A x \in y .. y + 3 : x \in Int /\ (x \in c .. c + 7 \/ x \in e - 8 .. e - 1)
      BY <2>2
    <3>2. \A x \in y .. y + 3 : k.mem[x] = h.mem[x]
      BY <2>3, <3>1
    <3>3. QED BY <3>1, <3>2, SameInt
  <2>5. QED BY <2>1, <2>4
<1>5. Good(k, S)
  <2>1. ASSUME NEW c \in S
        PROVE  /\ c + IntAt(k.mem, c) \in S \cup {h.end} /\ Block(k.mem, c, c + IntAt(k.mem, c))
               /\ \A d \in S : c < d => c + IntAt(k.mem, c) <= d
    <3>1. PICK e \in S \cup {h.end} :
            /\ Tile(h.mem, S, 0, h.end, c, e)
            /\ IntAt(k.mem, c) = IntAt(h.mem, c) /\ IntAt(k.mem, c + 4) = IntAt(h.mem, c + 4)
            /\ IntAt(k.mem, e - 8) = IntAt(h.mem, e - 8)
               /\ IntAt(k.mem, e - 4) = IntAt(h.mem, e - 4)
      BY <1>4
    <3>2. c + IntAt(k.mem, c) = e /\ Block(h.mem, c, e) /\ \A d \in S : c < d => e <= d
      BY <3>1 DEF Tile
    <3>3. Block(k.mem, c, e)
      BY <3>1, <3>2 DEF Block
    <3>4. QED BY <3>2, <3>3
  <2>2. Tiled(k.mem, 0, h.end, S)
    BY <1>2, <2>1 DEF Tiled
  <2>3. QED BY <1>2, <2>2 DEF Good
<1>6. \A c \in S : IntAt(k.mem, c) = IntAt(h.mem, c) /\ IntAt(k.mem, c + 4) = IntAt(h.mem, c + 4)
  BY <1>4
<1>7. Held(k, S, g)
  <2>1. ASSUME NEW q \in DOMAIN g
        PROVE  /\ q \in Nat /\ g[q] \in Nat \ {0} /\ q - 8 \in S
               /\ IntAt(k.mem, q - 4) = 0 /\ IntAt(k.mem, q - 8) >= TotalSize(g[q])
    <3>1. /\ q \in Nat /\ g[q] \in Nat \ {0} /\ q - 8 \in S
          /\ IntAt(h.mem, q - 4) = 0 /\ IntAt(h.mem, q - 8) >= TotalSize(g[q])
      BY <1>1 DEF Held
    <3>2. q - 8 + 4 = q - 4
      BY <3>1
    <3>3. QED BY <1>6, <3>1, <3>2
  <2>2. \A b \in S : IntAt(k.mem, b + 4) = 0 => b + 8 \in DOMAIN g
    BY <1>1, <1>6 DEF Held
  <2>3. QED BY <2>1, <2>2 DEF Held
<1>8. ASSUME whole PROVE Aligned(k, S, g, F)
  <2>1. Aligned(h, S, g, F)
    BY <1>1, <1>8
  <2>2. ASSUME NEW q \in F, q <= k.end PROVE IntAt(k.mem, q - 4) \notin {0, Junk}
    <3>1. /\ Whole(q) /\ q \in Nat /\ q >= 8 /\ q - 4 \notin Place(g, p)
          /\ IntAt(h.mem, q - 4) \notin {0, Junk}
      BY <2>1, <2>2 DEF Aligned
    <3>2. Whole(p) /\ Whole(g[p]) /\ g[p] \in Nat
      <4>1. Whole(p - 8) /\ Whole(g[p]) /\ g[p] \in Nat
        BY <1>1, <1>3, <2>1 DEF Aligned, Held
      <4>2. Whole((p - 8) + 8) /\ (p - 8) + 8 = p
        BY <1>3, <4>1, WholeSum
      <4>3. QED BY <4>1, <4>2
    <3>3. q - 4 \in Int /\ Whole(q - 4) /\ p + g[p] \in Int
      BY <1>3, <3>1, <3>2, WholeSum
    <3>4. q - 4 < p \/ p + g[p] <= q - 4
      BY <1>3, <3>1, <3>2, <3>3 DEF Place
    <3>5. (q - 4) + 4 <= p \/ p + g[p] <= q - 4
      BY <3>2, <3>3, <3>4, WholeApart
    <3>6. ASSUME NEW x \in q - 4 .. (q - 4) + 3 PROVE k.mem[x] = h.mem[x]
      <4>1. x \in Address
        BY <1>2, <2>2, <3>1, Top DEF Address
      <4>2. x \notin Place(g, p)
        BY <1>3, <3>1, <3>2, <3>5 DEF Place
      <4>3. QED BY <4>1, <4>2
    <3>7. IntAt(k.mem, q - 4) = IntAt(h.mem, q - 4)
      BY <3>3, <3>6, SameInt
    <3>8. QED BY <3>1, <3>7
  <2>3. QED BY <2>1, <2>2 DEF Aligned
<1>9. Joined(k, S)
  BY <1>1, <1>6 DEF Joined
<1>10. QED BY <1>5, <1>7, <1>8, <1>9 DEF Laid

----------------------------------------------------------------------------
(* free.                                                                   *)

\* p is taken back.
TakesBack(g, g2, p) ==
  DOMAIN g2 = DOMAIN g \ {p} /\ \A q \in DOMAIN g2 : g2[q] = g[q]

\* In the middle of free, block b is free and its neighbours may be, too.
JoinedBut(h, S, b) ==
  \A c, d \in S :
    d = c + IntAt(h.mem, c) /\ IntAt(h.mem, c + 4) # 0 /\ IntAt(h.mem, d + 4) # 0 => c = b \/ d = b

Freeing(h, S, g, F, whole, b) ==
  /\ Good(h, S) /\ Held(h, S, g) /\ (whole => Aligned(h, S, g, F)) /\ JoinedBut(h, S, b)
  /\ b \in S /\ IntAt(h.mem, b + 4) # 0 /\ IntAt(h.mem, b) >= 17

NextInUse(h, S, b) == \A d \in S : d = b + IntAt(h.mem, b) => IntAt(h.mem, d + 4) = 0

LEMMA StillAligned ==
  ASSUME NEW h, NEW S, NEW g, NEW F, Good(h, S), Aligned(h, S, g, F),
         NEW k, NEW T, T \subseteq S, k.end \in Nat, k.end <= h.end,
         NEW g2, DOMAIN g2 \subseteq DOMAIN g, \A q \in DOMAIN g2 : g2[q] = g[q],
         \A a \in Ints : a + 4 <= k.end => NotCleared(h, k, a)
  PROVE  Aligned(k, T, g2, F)
<1>1. (\A c \in T : Whole(c)) /\ \A q \in DOMAIN g2 : Whole(g2[q])
  BY DEF Aligned
<1>2. ASSUME NEW q \in F
      PROVE  /\ Whole(q) /\ q \in Nat /\ q >= 8
             /\ \A p \in DOMAIN g2 : q - 4 \notin Place(g2, p)
             /\ q <= k.end => IntAt(k.mem, q - 4) \notin {0, Junk}
  <2>1. /\ Whole(q) /\ q \in Nat /\ q >= 8
        /\ \A p \in DOMAIN g : q - 4 \notin Place(g, p)
        /\ q <= h.end => IntAt(h.mem, q - 4) \notin {0, Junk}
    BY DEF Aligned
  <2>2. \A p \in DOMAIN g2 : q - 4 \notin Place(g2, p)
    BY <2>1 DEF Place
  <2>3. ASSUME q <= k.end PROVE IntAt(k.mem, q - 4) \notin {0, Junk}
    <3>1. q <= h.end /\ (q - 4) + 4 <= k.end
      <4>1. h.end \in Nat
        BY Boundaries
      <4>2. QED BY <2>1, <2>3, <4>1
    <3>2. q - 4 \in Ints
      BY <2>1, <3>1, IntOf
    <3>3. NotCleared(h, k, q - 4)
      BY <3>1, <3>2
    <3>4. QED BY <2>1, <3>1, <3>3 DEF NotCleared
  <2>4. QED BY <2>1, <2>2, <2>3
<1>3. QED BY <1>1, <1>2 DEF Aligned

LEMMA Marked ==
  ASSUME NEW h, NEW S, NEW g, NEW F, NEW whole, Laid(h, S, g, F, whole), NEW p \in DOMAIN g,
         NEW k, k = write_header_footer(h, p - 8, IntAt(h.mem, p - 8), 1),
         NEW g2, TakesBack(g, g2, p), NEW F2, F2 = F \cup {p}
  PROVE  Freeing(k, S, g2, F2, whole, p - 8) /\ PlacesKept(h, k, g2) /\ k.cut = h.cut
<1> DEFINE b == p - 8
           size == IntAt(h.mem, b)
<1>1. Good(h, S) /\ Held(h, S, g) /\ Joined(h, S) /\ (whole => Aligned(h, S, g, F))
  BY DEF Laid
<1>2. /\ h \in HeapType /\ h.end \in Nat /\ h.end <= MaxPages * PAGE_SIZE
      /\ \A c \in S : c \in Nat /\ c \in Address /\ c + 7 \in Address /\ c + 8 <= h.end
  BY <1>1, Boundaries
<1>3. b \in S /\ p \in Nat /\ IntAt(h.mem, p - 4) = 0 /\ b \in Nat
  BY <1>1, <1>2 DEF Held
<1>4. b + 8 = p /\ b + 4 = p - 4
  BY <1>3
<1> HIDE DEF b
<1>5. PICK e \in S \cup {h.end} :
        Tile(h.mem, S, 0, h.end, b, e) /\ (S \ (b .. e - 1)) \cup {b} = S
  BY <1>1, <1>3, SameTiles
<1>6. /\ size = e - b /\ e = b + size /\ Block(h.mem, b, e) /\ e \in Nat /\ e <= h.end /\ b < e
      /\ \A c \in S : b < c => e <= c
  BY <1>5 DEF Tile
<1>7. size \in Nat /\ size >= 17
  BY <1>3, <1>4, <1>6 DEF Block
<1> HIDE DEF size
<1>8. /\ Good(k, S) /\ Wrote(h, k, b, e, size, 1) /\ SameHeaders(h, k, S \ (b .. e - 1))
  <2>1. k = write_header_footer(h, b, size, 1)
    BY DEF b, size
  <2>2. /\ Good(k, (S \ (b .. e - 1)) \cup {b}) /\ Wrote(h, k, b, e, size, 1)
        /\ SameHeaders(h, k, S \ (b .. e - 1))
    <3>1. e = b + size /\ 1 \in {0, 1} /\ e \in S \cup {h.end}
      BY <1>6
    <3>2. QED BY <1>1, <1>3, <1>7, <2>1, <3>1, Rewritten
  <2>3. QED BY <1>5, <2>2
<1>9. /\ k.end = h.end /\ k.cut = h.cut /\ IntAt(k.mem, b) = size /\ IntAt(k.mem, b + 4) = 1
      /\ KeptOutside(h.mem, k.mem, b, e)
      /\ Whole(b) /\ Whole(e) => \A a \in Ints : IntAt(k.mem, a) \in {IntAt(h.mem, a), size, 1}
  BY <1>8 DEF Wrote
<1>10. \A c \in S \ {b} : IntAt(k.mem, c) = IntAt(h.mem, c)
           /\ IntAt(k.mem, c + 4) = IntAt(h.mem, c + 4)
  <2>1. \A c \in S \ {b} : c \in S \ (b .. e - 1)
    BY <1>2, <1>3, <1>6
  <2>2. QED BY <1>8, <2>1 DEF SameHeaders
<1>11. \A q \in DOMAIN g2 : q \in DOMAIN g /\ q # p /\ g2[q] = g[q]
  BY DEF TakesBack
<1>12. Held(k, S, g2)
  <2>1. ASSUME NEW q \in DOMAIN g2
        PROVE  /\ q \in Nat /\ g2[q] \in Nat \ {0} /\ q - 8 \in S
               /\ IntAt(k.mem, q - 4) = 0 /\ IntAt(k.mem, q - 8) >= TotalSize(g2[q])
    <3>1. /\ q \in Nat /\ g[q] \in Nat \ {0} /\ q - 8 \in S
          /\ IntAt(h.mem, q - 4) = 0 /\ IntAt(h.mem, q - 8) >= TotalSize(g[q]) /\ q # p
      BY <1>1, <1>11 DEF Held
    <3>2. q - 8 + 4 = q - 4 /\ q - 8 # b
      BY <1>3, <1>4, <3>1
    <3>3. QED BY <1>10, <1>11, <3>1, <3>2
  <2>2. ASSUME NEW c \in S, IntAt(k.mem, c + 4) = 0 PROVE c + 8 \in DOMAIN g2
    <3>1. c # b
      BY <1>9, <2>2
    <3>2. c + 8 \in DOMAIN g
      BY <1>1, <1>10, <2>2, <3>1 DEF Held
    <3>3. c + 8 # p
      <4>1. c \in Nat /\ b \in Nat /\ b + 8 = p
        BY <1>2, <1>3, <1>4
      <4>2. QED BY <3>1, <4>1
    <3>4. QED BY <3>2, <3>3 DEF TakesBack
  <2>3. QED BY <2>1, <2>2 DEF Held
<1>13. ASSUME whole PROVE Aligned(k, S, g2, F2)
  <2>1. Aligned(h, S, g, F)
    BY <1>1, <1>13
  <2>2. Whole(b) /\ Whole(e)
    BY <1>1, <1>3, <2>1, EndWhole DEF Aligned
  <2>3. \A a \in Ints : NotCleared(h, k, a)
    BY <1>7, <1>9, <2>2 DEF NotCleared, Junk
  <2>4. Aligned(k, S, g2, F)
    <3>1. DOMAIN g2 \subseteq DOMAIN g /\ \A q \in DOMAIN g2 : g2[q] = g[q]
      BY <1>11
    <3>2. k.end \in Nat /\ k.end <= h.end
      BY <1>2, <1>9
    <3>3. QED BY <1>1, <2>1, <2>3, <3>1, <3>2, StillAligned
  <2>5. Whole(p) /\ p \in Nat /\ p >= 8
    BY <1>3, <1>4, <2>2, WholeSum
  <2>6. ASSUME NEW q \in DOMAIN g2 PROVE p - 4 \notin Place(g2, q)
    <3>1. SUFFICES ASSUME p - 4 \in Place(g, q), q \in DOMAIN g, q # p PROVE FALSE
      BY <1>11, <2>6 DEF Place
    <3>2. \A x \in S : \A y \in S \cup {h.end} :
            x <= y /\ q - 8 \notin x .. y - 1 => p - 4 \notin x .. y - 1
      BY <1>1, <3>1, PlaceInside
    <3>3. q - 8 \in S /\ q \in Nat
      BY <1>1, <3>1 DEF Held
    <3>4. q - 8 \notin b .. e - 1 /\ p - 4 \in b .. e - 1
      <4>1. e - b >= 8
        BY <1>6 DEF Block
      <4>2. QED BY <1>3, <1>4, <1>6, <3>1, <3>3, <4>1
    <3>5. QED BY <1>3, <1>6, <3>2, <3>4
  <2>7. IntAt(k.mem, p - 4) \notin {0, Junk}
    BY <1>4, <1>9 DEF Junk
  <2>8. QED BY <2>4, <2>5, <2>6, <2>7 DEF Aligned
<1>14. JoinedBut(k, S, b)
  BY <1>1, <1>10 DEF Joined, JoinedBut
<1>15. PlacesKept(h, k, g2)
  <2>1. SUFFICES ASSUME NEW q \in DOMAIN g2, NEW a \in Place(g2, q)
                 PROVE  k.mem[a] = h.mem[a]
    BY DEF PlacesKept
  <2>2. q \in DOMAIN g /\ q # p /\ a \in Place(g, q)
    BY <1>11, <2>1 DEF Place
  <2>3. q - 8 \in S /\ q \in Nat
    BY <1>1, <2>2 DEF Held
  <2>4. q - 8 \notin b .. e - 1
    BY <1>3, <1>4, <1>6, <2>2, <2>3
  <2>5. /\ a \in Address
        /\ \A x \in S : \A y \in S \cup {h.end} :
             x <= y /\ q - 8 \notin x .. y - 1 => a \notin x .. y - 1
    BY <1>1, <2>2, PlaceInside
  <2>6. a \notin b .. e - 1
    BY <1>3, <1>6, <2>4, <2>5
  <2>7. QED BY <1>9, <2>5, <2>6, KeptAt
<1>16. Freeing(k, S, g2, F2, whole, b)
  BY <1>3, <1>7, <1>8, <1>9, <1>12, <1>13, <1>14 DEF Freeing
<1>17. QED BY <1>9, <1>15, <1>16 DEF b

\* A heap but for its free blocks' being apart.
Sound(h, S, g, F, whole) ==
  Good(h, S) /\ Held(h, S, g) /\ (whole => Aligned(h, S, g, F))

\* Two free neighbours become one block.
LEMMA Merged ==
  ASSUME NEW h, NEW S, NEW g, NEW F, NEW whole,
         Sound(h, S, g, F, whole),
         NEW c \in S, NEW d \in S, d = c + IntAt(h.mem, c),
         IntAt(h.mem, c + 4) # 0, IntAt(h.mem, d + 4) # 0,
         NEW size, size = IntAt(h.mem, c) + IntAt(h.mem, d),
         IntAt(h.mem, c) >= 17 \/ IntAt(h.mem, d) >= 17,
         NEW k, k = write_header_footer(h, c, size, 1)
  PROVE  /\ Sound(k, S \ {d}, g, F, whole)
         /\ c \in S \ {d} /\ IntAt(k.mem, c + 4) # 0 /\ IntAt(k.mem, c) >= 17
         /\ c + IntAt(k.mem, c) = d + IntAt(h.mem, d)
         /\ SameHeaders(h, k, S \ {c, d}) /\ PlacesKept(h, k, g)
         /\ k.end = h.end /\ k.cut = h.cut
<1>0. Good(h, S) /\ Held(h, S, g) /\ (whole => Aligned(h, S, g, F))
  BY DEF Sound
<1>1. /\ h \in HeapType /\ h.end \in Nat /\ h.end <= MaxPages * PAGE_SIZE
      /\ \A x \in S : x \in Nat /\ x \in Address /\ x + 7 \in Address /\ x + 8 <= h.end
  BY <1>0, Boundaries
<1>2. PICK d1 \in S \cup {h.end} : Tile(h.mem, S, 0, h.end, c, d1)
  BY <1>0, SameTiles
<1>3. PICK e \in S \cup {h.end} : Tile(h.mem, S, 0, h.end, d, e)
  BY <1>0, SameTiles
<1>4. /\ IntAt(h.mem, c) = d - c /\ IntAt(h.mem, d) = e - d /\ e = d + IntAt(h.mem, d)
      /\ c \in Nat /\ d \in Nat /\ e \in Nat /\ c < d /\ d < e /\ e <= h.end
      /\ d - c >= 8 /\ e - d >= 8
      /\ (\A x \in S : c < x => d <= x) /\ (\A x \in S : d < x => e <= x)
  BY <1>2, <1>3 DEF Tile
<1>5. size = e - c /\ e = c + size /\ size \in Nat /\ size >= 17
  BY <1>4
<1>6. S \ (c .. e - 1) = S \ {c, d}
  BY <1>1, <1>4
<1>7. /\ Good(k, S \ {d}) /\ Wrote(h, k, c, e, size, 1) /\ SameHeaders(h, k, S \ {c, d})
  <2>1. /\ Good(k, (S \ (c .. e - 1)) \cup {c}) /\ Wrote(h, k, c, e, size, 1)
        /\ SameHeaders(h, k, S \ (c .. e - 1))
    BY <1>0, <1>5, Rewritten
  <2>2. (S \ {c, d}) \cup {c} = S \ {d}
    BY <1>4
  <2>3. QED BY <1>6, <2>1, <2>2
<1>8. /\ k.end = h.end /\ k.cut = h.cut /\ IntAt(k.mem, c) = size /\ IntAt(k.mem, c + 4) = 1
      /\ KeptOutside(h.mem, k.mem, c, e)
      /\ Whole(c) /\ Whole(e) => \A a \in Ints : IntAt(k.mem, a) \in {IntAt(h.mem, a), size, 1}
  BY <1>7 DEF Wrote
<1>9. \A x \in S \ {c, d} : IntAt(k.mem, x) = IntAt(h.mem, x)
          /\ IntAt(k.mem, x + 4) = IntAt(h.mem, x + 4)
  BY <1>7 DEF SameHeaders
<1>10. Held(k, S \ {d}, g)
  <2>1. ASSUME NEW q \in DOMAIN g
        PROVE  /\ q \in Nat /\ g[q] \in Nat \ {0} /\ q - 8 \in S \ {d}
               /\ IntAt(k.mem, q - 4) = 0 /\ IntAt(k.mem, q - 8) >= TotalSize(g[q])
    <3>1. /\ q \in Nat /\ g[q] \in Nat \ {0} /\ q - 8 \in S
          /\ IntAt(h.mem, q - 4) = 0 /\ IntAt(h.mem, q - 8) >= TotalSize(g[q])
      BY <1>0 DEF Held
    <3>2. q - 8 + 4 = q - 4
      BY <3>1
    <3>3. q - 8 # c /\ q - 8 # d
      BY <3>1, <3>2
    <3>4. QED BY <1>9, <3>1, <3>2, <3>3
  <2>2. ASSUME NEW x \in S \ {d}, IntAt(k.mem, x + 4) = 0 PROVE x + 8 \in DOMAIN g
    <3>1. x # c
      <4>1. IntAt(k.mem, c + 4) = 1
        BY <1>8
      <4>2. QED BY <2>2, <4>1
    <3>2. IntAt(k.mem, x + 4) = IntAt(h.mem, x + 4)
      BY <1>9, <3>1
    <3>3. QED BY <1>0, <2>2, <3>2 DEF Held
  <2>3. QED BY <2>1, <2>2 DEF Held
<1>11. ASSUME whole PROVE Aligned(k, S \ {d}, g, F)
  <2>1. Aligned(h, S, g, F)
    BY <1>0, <1>11
  <2>2. Whole(c) /\ Whole(e)
    BY <2>1, <1>0, EndWhole DEF Aligned
  <2>3. \A a \in Ints : NotCleared(h, k, a)
    BY <1>5, <1>8, <2>2 DEF NotCleared, Junk
  <2>4. k.end \in Nat /\ k.end <= h.end
    BY <1>1, <1>8
  <2>5. QED BY <1>0, <2>1, <2>3, <2>4, StillAligned
<1>12. PlacesKept(h, k, g)
  <2>1. SUFFICES ASSUME NEW q \in DOMAIN g, NEW a \in Place(g, q)
                 PROVE  k.mem[a] = h.mem[a]
    BY DEF PlacesKept
  <2>2. q - 8 \in S /\ q \in Nat /\ IntAt(h.mem, q - 4) = 0
    BY <1>0 DEF Held
  <2>3. q - 8 # c /\ q - 8 # d
    <3>1. q - 8 + 4 = q - 4
      BY <2>2
    <3>2. QED BY <2>2, <3>1
  <2>4. q - 8 \notin c .. e - 1
    <3>1. q - 8 \notin S \ (c .. e - 1) => q - 8 \in {c, d}
      BY <1>6, <2>2
    <3>2. QED BY <1>6, <2>2, <2>3
  <2>5. /\ a \in Address
        /\ \A x \in S : \A y \in S \cup {h.end} :
             x <= y /\ q - 8 \notin x .. y - 1 => a \notin x .. y - 1
    BY <1>0, PlaceInside
  <2>6. a \notin c .. e - 1
    BY <1>4, <2>4, <2>5
  <2>7. QED BY <1>8, <2>5, <2>6, KeptAt
<1>13. c \in S \ {d} /\ c + IntAt(k.mem, c) = d + IntAt(h.mem, d)
  <2>1. IntAt(k.mem, c) = size /\ c + size = e /\ d + IntAt(h.mem, d) = e
    BY <1>4, <1>5, <1>8
  <2>2. c + IntAt(k.mem, c) = e
    BY <2>1
  <2>3. c # d
    BY <1>4
  <2>4. QED BY <2>1, <2>2, <2>3
<1>14. IntAt(k.mem, c + 4) # 0 /\ IntAt(k.mem, c) >= 17
  <2>1. IntAt(k.mem, c) = size /\ IntAt(k.mem, c + 4) = 1
    BY <1>8
  <2>2. QED BY <1>5, <2>1
<1>15. QED BY <1>7, <1>8, <1>10, <1>11, <1>12, <1>13, <1>14 DEF Sound

\* A block that is known is not Junk.
LEMMA BlockKnown ==
  ASSUME NEW h, NEW S, Good(h, S), NEW c \in S
  PROVE  Known(h, c)
<1>1. PICK e \in S \cup {h.end} : Tile(h.mem, S, 0, h.end, c, e)
  BY SameTiles
<1>2. /\ IntAt(h.mem, c) = e - c /\ c \in Nat /\ e \in Nat /\ e - c >= 8 /\ Block(h.mem, c, e)
  BY <1>1 DEF Tile
<1>3. c + 8 <= h.end /\ 0 <= c /\ MALLOC_HEADER_SIZE = 8 /\ INT_SIZE = 4
  BY Boundaries DEF MALLOC_HEADER_SIZE, INT_SIZE
<1>4. IntAt(h.mem, c) # Junk
  BY <1>2 DEF Junk
<1>5. IntAt(h.mem, c + 4) \in {0, 1}
  BY <1>2 DEF Block
<1>6. IntAt(h.mem, c + 4) # Junk
  BY <1>5 DEF Junk
<1>7. QED BY <1>3, <1>4, <1>6 DEF Known, SizeAt, IsFreeAt

LEMMA NextJoined ==
  ASSUME NEW h, NEW S, NEW g, NEW F, NEW whole, NEW b, Freeing(h, S, g, F, whole, b),
         NEW k, k = JoinNext(h, b)
  PROVE  \E T : /\ Freeing(k, T, g, F, whole, b) /\ NextInUse(k, T, b)
                /\ PlacesKept(h, k, g) /\ k.cut = h.cut
<1>1. /\ Good(h, S) /\ Held(h, S, g) /\ (whole => Aligned(h, S, g, F)) /\ JoinedBut(h, S, b)
      /\ b \in S /\ IntAt(h.mem, b + 4) # 0 /\ IntAt(h.mem, b) >= 17
  BY DEF Freeing
<1>2. PICK d \in S \cup {h.end} : Tile(h.mem, S, 0, h.end, b, d)
  BY <1>1, SameTiles
<1>3. d = b + IntAt(h.mem, b) /\ b \in Nat /\ d \in Nat /\ b < d
  BY <1>2 DEF Tile
<1>4. \A c \in S : c \in Nat /\ c + 8 <= h.end
  BY <1>1, Boundaries
<1>5. next_block(h, b) = d /\ h.end \in Nat
  BY <1>1, <1>3, Boundaries DEF next_block, SizeAt
<1>6. CASE d \notin S \/ IntAt(h.mem, d + 4) = 0
  <2>1. k = h
    <3>1. CASE d \notin S
      BY <1>5, <3>1 DEF JoinNext
    <3>2. CASE d \in S
      <4>1. ~FreeAt(h, d) /\ Known(h, d)
        BY <1>1, <1>6, <3>2, BlockKnown DEF FreeAt, IsFreeAt, INT_SIZE
      <4>2. QED BY <1>5, <4>1 DEF JoinNext
    <3>3. QED BY <3>1, <3>2
  <2>2. NextInUse(h, S, b)
    BY <1>3, <1>6 DEF NextInUse
  <2>3. QED BY <2>1, <2>2 DEF PlacesKept
<1>7. CASE d \in S /\ IntAt(h.mem, d + 4) # 0
  <2> DEFINE size == IntAt(h.mem, b) + IntAt(h.mem, d)
             T == S \ {d}
  <2>1. k = write_header_footer(h, b, size, 1)
    <3>1. Known(h, d) /\ FreeAt(h, d) /\ ~(d >= h.end)
      BY <1>1, <1>4, <1>5, <1>7, BlockKnown DEF FreeAt, IsFreeAt, INT_SIZE
    <3>2. QED BY <1>5, <3>1 DEF JoinNext, SizeAt
  <2> HIDE DEF size
  <2>2. /\ Sound(k, T, g, F, whole)
        /\ b \in T /\ IntAt(k.mem, b + 4) # 0 /\ IntAt(k.mem, b) >= 17
        /\ b + IntAt(k.mem, b) = d + IntAt(h.mem, d)
        /\ SameHeaders(h, k, S \ {b, d}) /\ PlacesKept(h, k, g)
        /\ k.end = h.end /\ k.cut = h.cut
    <3>1. size = IntAt(h.mem, b) + IntAt(h.mem, d)
      BY DEF size
    <3>2. Sound(h, S, g, F, whole)
      BY <1>1 DEF Sound
    <3>3. /\ b \in S /\ d \in S /\ d = b + IntAt(h.mem, b) /\ IntAt(h.mem, b + 4) # 0
          /\ IntAt(h.mem, d + 4) # 0 /\ IntAt(h.mem, b) >= 17
      BY <1>1, <1>3, <1>7
    <3>4. QED BY <2>1, <3>1, <3>2, <3>3, Merged
  <2>3. \A x \in S \ {b, d} : IntAt(k.mem, x) = IntAt(h.mem, x)
            /\ IntAt(k.mem, x + 4) = IntAt(h.mem, x + 4)
    BY <2>2 DEF SameHeaders
  <2>4. JoinedBut(k, T, b)
    <3>1. SUFFICES ASSUME NEW x \in T, NEW y \in T, y = x + IntAt(k.mem, x),
                          IntAt(k.mem, x + 4) # 0, IntAt(k.mem, y + 4) # 0, x # b, y # b
                   PROVE  FALSE
      BY DEF JoinedBut
    <3>2. y = x + IntAt(h.mem, x) /\ IntAt(h.mem, x + 4) # 0 /\ IntAt(h.mem, y + 4) # 0
      BY <2>3, <3>1
    <3>3. QED BY <1>1, <3>1, <3>2 DEF JoinedBut
  <2>5. NextInUse(k, T, b)
    <3>1. SUFFICES ASSUME NEW y \in T, y = b + IntAt(k.mem, b), IntAt(k.mem, y + 4) # 0 PROVE FALSE
      BY DEF NextInUse
    <3>2. y = d + IntAt(h.mem, d)
      BY <2>2, <3>1
    <3>3. y # b /\ d # b
      <4>1. PICK e \in S \cup {h.end} : Tile(h.mem, S, 0, h.end, d, e)
        BY <1>1, <1>7, SameTiles
      <4>2. e = d + IntAt(h.mem, d) /\ e \in Nat /\ d < e
        BY <4>1 DEF Tile
      <4>3. QED BY <1>3, <3>2, <4>2
    <3>4. IntAt(h.mem, y + 4) # 0
      BY <2>3, <3>1, <3>3
    <3>5. QED BY <1>1, <1>7, <3>2, <3>3, <3>4 DEF JoinedBut
  <2>6. Freeing(k, T, g, F, whole, b)
    BY <2>2, <2>4 DEF Freeing, Sound
  <2>7. QED BY <2>2, <2>5, <2>6
<1>8. QED BY <1>6, <1>7

\* The block before b, by its footer.
LEMMA PrevFound ==
  ASSUME NEW h, NEW S, Good(h, S), NEW e \in S \cup {h.end}, e # 0
  PROVE  \E c \in S : /\ prev_block(h, e) = c /\ Tile(h.mem, S, 0, h.end, c, e) /\ Known(h, c)
                      /\ IntAt(h.mem, e - 8) = e - c
<1>1. /\ h.end \in Nat /\ Tiled(h.mem, 0, h.end, S) /\ \A c \in S : c \in Nat
  BY Boundaries
<1>2. e \in Nat /\ 0 < e
  BY <1>1
<1>3. PICK c \in S : c + IntAt(h.mem, c) = e /\ c < e /\ Block(h.mem, c, e)
  BY <1>1, <1>2, Predecessor
<1>4. PICK t \in S \cup {h.end} : Tile(h.mem, S, 0, h.end, c, t)
  BY SameTiles
<1>5. Tile(h.mem, S, 0, h.end, c, e)
  BY <1>3, <1>4 DEF Tile
<1>6. c \in Nat /\ e - c >= 8 /\ IntAt(h.mem, e - 8) = e - c
  BY <1>1, <1>5 DEF Tile, Block
<1>7. prev_block(h, e) = c
  <2>1. e - MALLOC_HEADER_SIZE = e - 8 /\ e - 8 >= 0 /\ IntAt(h.mem, e - 8) # Junk
    BY <1>2, <1>6 DEF MALLOC_HEADER_SIZE, INT_SIZE, Junk
  <2>2. prev_block(h, e) = e - IntAt(h.mem, e - 8)
    BY <2>1 DEF prev_block, SizeAt
  <2>3. QED BY <1>2, <1>6, <2>2
<1>8. QED BY <1>5, <1>6, <1>7, BlockKnown

LEMMA PrevJoined ==
  ASSUME NEW h, NEW S, NEW g, NEW F, NEW whole, NEW b, Freeing(h, S, g, F, whole, b),
         NextInUse(h, S, b),
         NEW k, k = JoinPrev(h, b)
  PROVE  \E T : Laid(k, T, g, F, whole) /\ PlacesKept(h, k, g) /\ k.cut = h.cut /\ T # {}
<1>1. /\ Good(h, S) /\ Held(h, S, g) /\ (whole => Aligned(h, S, g, F)) /\ JoinedBut(h, S, b)
      /\ b \in S /\ IntAt(h.mem, b + 4) # 0 /\ IntAt(h.mem, b) >= 17
  BY DEF Freeing
<1>2. \A c \in S : c \in Nat
  BY <1>1, Boundaries
<1>3. CASE b = 0
  <2>1. k = h
    BY <1>3 DEF JoinPrev
  <2>2. Joined(h, S)
    <3>1. SUFFICES ASSUME NEW x \in S, NEW y \in S, y = x + IntAt(h.mem, x),
                          IntAt(h.mem, x + 4) # 0, IntAt(h.mem, y + 4) # 0
                   PROVE  FALSE
      BY DEF Joined
    <3>2. PICK t \in S \cup {h.end} : Tile(h.mem, S, 0, h.end, x, t)
      BY <1>1, SameTiles
    <3>3. t = y /\ x \in Nat /\ x < t
      BY <3>1, <3>2 DEF Tile
    <3>4. y # b
      BY <1>2, <1>3, <3>3
    <3>5. x = b
      BY <1>1, <3>1, <3>4 DEF JoinedBut
    <3>6. QED BY <3>1, <3>5 DEF NextInUse
  <2>3. QED BY <1>1, <2>1, <2>2 DEF Laid, PlacesKept
<1>4. CASE b # 0
  <2>1. PICK c \in S : /\ prev_block(h, b) = c /\ Tile(h.mem, S, 0, h.end, c, b) /\ Known(h, c)
    BY <1>1, <1>4, PrevFound
  <2>2. b = c + IntAt(h.mem, c) /\ c < b /\ c \in Nat /\ b \in Nat /\ IntAt(h.mem, c) = b - c
    BY <2>1 DEF Tile
  <2>3. CASE IntAt(h.mem, c + 4) = 0
    <3>1. k = h
      BY <1>4, <2>1, <2>3 DEF JoinPrev, FreeAt, IsFreeAt, INT_SIZE
    <3>2. Joined(h, S)
      <4>1. SUFFICES ASSUME NEW x \in S, NEW y \in S, y = x + IntAt(h.mem, x),
                            IntAt(h.mem, x + 4) # 0, IntAt(h.mem, y + 4) # 0
                     PROVE  FALSE
        BY DEF Joined
      <4>2. x # b
        BY <4>1 DEF NextInUse
      <4>3. y = b
        BY <1>1, <4>1, <4>2 DEF JoinedBut
      <4>4. x = c
        BY <1>1, <2>2, <4>1, <4>3, OnePredecessor
      <4>5. QED BY <2>3, <4>1, <4>4
    <3>3. QED BY <1>1, <3>1, <3>2 DEF Laid, PlacesKept
  <2>4. CASE IntAt(h.mem, c + 4) # 0
    <3> DEFINE size == IntAt(h.mem, c) + IntAt(h.mem, b)
               T == S \ {b}
    <3>1. k = write_header_footer(h, c, size, 1)
      <4>1. k = write_header_footer(h, c, SizeAt(h, b) + SizeAt(h, c), 1)
        BY <1>4, <2>1, <2>4 DEF JoinPrev, FreeAt, IsFreeAt, INT_SIZE
      <4>2. IntAt(h.mem, b) \in Int
        <5>1. PICK t \in S \cup {h.end} : Tile(h.mem, S, 0, h.end, b, t)
          BY <1>1, SameTiles
        <5>2. QED BY <5>1 DEF Tile
      <4>3. IntAt(h.mem, b) + IntAt(h.mem, c) = IntAt(h.mem, c) + IntAt(h.mem, b)
        BY <2>2, <4>2
      <4>4. QED BY <4>1, <4>3 DEF SizeAt
    <3> HIDE DEF size
    <3>2. /\ Sound(k, T, g, F, whole)
          /\ c \in T /\ IntAt(k.mem, c + 4) # 0 /\ IntAt(k.mem, c) >= 17
          /\ c + IntAt(k.mem, c) = b + IntAt(h.mem, b)
          /\ SameHeaders(h, k, S \ {c, b}) /\ PlacesKept(h, k, g)
          /\ k.end = h.end /\ k.cut = h.cut
      <4>1. size = IntAt(h.mem, c) + IntAt(h.mem, b)
        BY DEF size
      <4>2. b = c + IntAt(h.mem, c)
        BY <2>2
      <4>3. Sound(h, S, g, F, whole)
        BY <1>1 DEF Sound
      <4>4. /\ c \in S /\ b \in S /\ IntAt(h.mem, c + 4) # 0
            /\ IntAt(h.mem, b + 4) # 0 /\ IntAt(h.mem, b) >= 17
        BY <1>1, <2>4
      <4>5. QED BY <3>1, <4>1, <4>2, <4>3, <4>4, Merged
    <3>3. \A x \in S \ {c, b} : IntAt(k.mem, x) = IntAt(h.mem, x)
              /\ IntAt(k.mem, x + 4) = IntAt(h.mem, x + 4)
      BY <3>2 DEF SameHeaders
    <3>4. Joined(k, T)
      <4>1. SUFFICES ASSUME NEW x \in T, NEW y \in T, y = x + IntAt(k.mem, x),
                            IntAt(k.mem, x + 4) # 0, IntAt(k.mem, y + 4) # 0
                     PROVE  FALSE
        BY DEF Joined
      <4>2. CASE x = c
        <5>1. y = b + IntAt(h.mem, b)
          BY <3>2, <4>1, <4>2
        <5>2. PICK t \in S \cup {h.end} : Tile(h.mem, S, 0, h.end, b, t)
          BY <1>1, SameTiles
        <5>3. y \in Nat /\ b < y
          BY <5>1, <5>2 DEF Tile
        <5>4. y # c
          BY <2>2, <5>3
        <5>5. IntAt(h.mem, y + 4) # 0
          BY <3>3, <4>1, <5>4
        <5>6. QED BY <4>1, <5>1, <5>5 DEF NextInUse
      <4>3. CASE x # c
        <5>1. y = x + IntAt(h.mem, x) /\ IntAt(h.mem, x + 4) # 0
          BY <3>3, <4>1, <4>3
        <5>2. IntAt(h.mem, y + 4) # 0
          BY <2>4, <3>3, <4>1
        <5>3. QED BY <1>1, <4>1, <5>1, <5>2 DEF JoinedBut
      <4>4. QED BY <4>2, <4>3
    <3>5. QED BY <3>2, <3>4 DEF Laid, Sound
  <2>5. QED BY <2>3, <2>4
<1>5. QED BY <1>3, <1>4

----------------------------------------------------------------------------
(* Pages.                                                                  *)

LEMMA NextMultiple ==
  ASSUME NEW i \in Nat, NEW j \in Nat, NEW s \in Nat, i < j
  PROVE  i * s + s <= j * s
<1> DEFINE r == j - (i + 1)
<1>1. r \in Nat /\ j = (i + 1) + r
  OBVIOUS
<1> HIDE DEF r
<1>2. j * s = (i + 1) * s + r * s /\ (i + 1) * s = i * s + 1 * s
  BY <1>1, Distributes
<1>3. r * s \in Nat /\ 1 * s = s /\ i * s \in Nat
  BY <1>1
<1>4. QED BY <1>2, <1>3

LEMMA LessPages ==
  ASSUME NEW i \in Nat, NEW j \in Nat, NEW s \in Nat \ {0}, i * s <= j * s
  PROVE  \E r \in Nat : j * s - i * s = r * s
<1>1. i <= j
  <2>1. SUFFICES ASSUME j < i PROVE FALSE
    OBVIOUS
  <2>2. j * s + s <= i * s
    BY <2>1, NextMultiple
  <2>3. j * s \in Nat /\ i * s \in Nat
    OBVIOUS
  <2>4. QED BY <2>2, <2>3
<1> DEFINE r == j - i
<1>2. r \in Nat /\ j = i + r
  BY <1>1
<1> HIDE DEF r
<1>3. j * s = i * s + r * s
  BY <1>2, Distributes
<1>4. i * s \in Nat /\ r * s \in Nat
  BY <1>2
<1>5. QED BY <1>2, <1>3, <1>4

LEMMA RoundedDown ==
  ASSUME NEW x \in Nat, NEW s \in Nat \ {0}, NEW q, q = x \div s
  PROVE  /\ q \in Nat /\ q * s \in Nat /\ q * s <= x
         /\ \A n \in Nat : x = n * s => q * s = x
<1>1. q \in Int /\ s * q <= x /\ x < s * q + s
  OBVIOUS
<1>2. q * s = s * q /\ s * q \in Int
  BY <1>1
<1>3. q >= 0
  <2>1. SUFFICES ASSUME q < 0 PROVE FALSE
    BY <1>1
  <2>2. q * s <= -s
    BY <1>1, <2>1
  <2>3. QED BY <1>1, <1>2, <2>2
<1>4. q \in Nat /\ q * s \in Nat
  BY <1>1, <1>3
<1>5. ASSUME NEW n \in Nat, x = n * s PROVE q * s = x
  <2>1. ~(q < n)
    <3>1. SUFFICES ASSUME q < n PROVE FALSE
      OBVIOUS
    <3>2. q * s + s <= n * s
      BY <1>4, <3>1, NextMultiple
    <3>3. QED BY <1>1, <1>2, <1>5, <3>2
  <2>2. ~(n < q)
    <3>1. SUFFICES ASSUME n < q PROVE FALSE
      OBVIOUS
    <3>2. n * s + s <= q * s
      BY <1>4, <3>1, NextMultiple
    <3>3. QED BY <1>1, <1>2, <1>5, <3>2
  <2>3. q = n
    BY <1>4, <2>1, <2>2
  <2>4. QED BY <1>5, <2>3
<1>6. QED BY <1>1, <1>2, <1>4, <1>5

\* The heap without its last bytes: c, the last block, is shorter by gone bytes,
\* or has gone with them.
Shorter(h, k, c, gone) ==
  /\ k.end = h.end - gone /\ k.lost = h.lost
  /\ ~k.cut /\ c < k.end => /\ k.end - c = 8 \/ k.end - c >= 16
                            /\ IntAt(k.mem, k.end - 8) = k.end - c
  /\ k.mem \in [Address -> Cell]
  /\ KeptOutside(h.mem, k.mem, c, MaxPages * PAGE_SIZE)
  /\ c + 8 <= k.end => IntAt(k.mem, c) = k.end - c /\ IntAt(k.mem, c + 4) = 1
  /\ Whole(c) => \A a \in Ints : a + 4 <= k.end => NotCleared(h, k, a)

LEMMA ShrunkIs ==
  ASSUME NEW h, h \in HeapType, NEW c \in Nat, c + 8 <= h.end,
         IntAt(h.mem, c) = h.end - c, IntAt(h.mem, c + 4) = 1,
         NEW pages \in Nat, NEW gone \in Nat, gone = pages * PAGE_SIZE, gone <= h.end - c,
         NEW k, k = Shrunk(h, c, pages)
  PROVE  Shorter(h, k, c, gone) /\ k \in HeapType
<1> DEFINE end == h.end - gone
           w == Header(h.mem, c, SizeAt(h, c) - gone, IsFreeAt(h, c))
           m == [a \in Address |-> IF a >= end THEN JunkByte ELSE w[a]]
           size == end - c
           short == size > 0 /\ ~(/\ size = MALLOC_HEADER_SIZE \/ size >= 2 * MALLOC_HEADER_SIZE
                                  /\ IntAt(m, end - MALLOC_HEADER_SIZE) = size)
<1>1. h.end \in Nat /\ h.end <= MaxPages * PAGE_SIZE /\ h.mem \in [Address -> Cell]
  BY Top DEF HeapType
<1>2. /\ end \in Nat /\ end <= h.end /\ c <= end /\ end = h.end - gone
      /\ end <= MaxPages * PAGE_SIZE /\ MaxPages * PAGE_SIZE \in Nat
      /\ c + 8 <= MaxPages * PAGE_SIZE
  BY <1>1, Top
<1>3. k = [h EXCEPT !.end = end, !.mem = m, !.cut = short]
  BY DEF Shrunk
<1>3a. /\ w = Header(h.mem, c, end - c, 1) /\ MALLOC_HEADER_SIZE = 8
      /\ 2 * MALLOC_HEADER_SIZE = 16
  <2>1. SizeAt(h, c) - gone = end - c /\ IsFreeAt(h, c) = 1
    BY <1>1 DEF SizeAt, IsFreeAt, INT_SIZE
  <2>2. QED BY <2>1 DEF MALLOC_HEADER_SIZE, INT_SIZE
<1>4. end - c \in Word /\ 1 \in Word
  BY <1>2, Top DEF Word
<1> HIDE DEF end
<1>5. /\ w \in [Address -> Cell] /\ IntAt(w, c) = end - c /\ IntAt(w, c + 4) = 1
      /\ KeptOutside(h.mem, w, c, c + 8)
  <2> HIDE DEF w
  <2>1. /\ w \in [Address -> Cell] /\ IntAt(w, c) = end - c /\ IntAt(w, c + 4) = 1
        /\ \A a \in Address : a \notin c .. c + 7 => w[a] = h.mem[a]
    BY <1>1, <1>2, <1>4, <1>3a, Headed
  <2>2. c .. c + 7 = c .. (c + 8) - 1
    BY <1>2
  <2>3. QED BY <2>1, <2>2 DEF KeptOutside
<1> HIDE DEF w
<1>6. m \in [Address -> Cell]
  <2>1. JunkByte \in Cell
    BY Top DEF JunkByte, Byte, Junk, Cell, Word, INT_SIZE
  <2>2. QED BY <1>5, <2>1
<1>7. \A a \in Address : a < end => m[a] = w[a]
  BY <1>2 DEF Address
<1>8. short \in BOOLEAN
  OBVIOUS
<1> HIDE DEF m
<1>9. /\ k \in HeapType /\ k.end = end /\ k.mem = m /\ k.lost = h.lost /\ k.cut = short
  <2>1. end \in 0 .. MaxPages * PAGE_SIZE
    BY <1>2
  <2> HIDE DEF short
  <2>2. QED BY <1>3, <1>6, <1>8, <2>1 DEF HeapType
<1>10. \A a \in Address : a + 3 \in Address /\ a + 4 <= end => IntAt(m, a) = IntAt(w, a)
  <2> SUFFICES ASSUME NEW a \in Address, a + 3 \in Address, a + 4 <= end
               PROVE  IntAt(m, a) = IntAt(w, a)
    OBVIOUS
  <2>1. \A x \in a .. a + 3 : x \in Address /\ x < end
    BY <1>2 DEF Address
  <2>2. a \in Int
    BY DEF Address
  <2>3. QED BY <1>7, <2>1, <2>2, SameInt
<1>11. c + 8 <= end => IntAt(m, c) = end - c /\ IntAt(m, c + 4) = 1
  <2> SUFFICES ASSUME c + 8 <= end PROVE IntAt(m, c) = end - c /\ IntAt(m, c + 4) = 1
    OBVIOUS
  <2>1. /\ c \in Address /\ c + 3 \in Address /\ c + 4 \in Address /\ (c + 4) + 3 \in Address
        /\ c + 4 <= end /\ (c + 4) + 4 <= end
    BY <1>2 DEF Address
  <2>2. QED BY <1>5, <1>10, <2>1
<1>12. KeptOutside(h.mem, m, c, MaxPages * PAGE_SIZE)
  <2>1. SUFFICES ASSUME NEW a \in Address, a \notin c .. MaxPages * PAGE_SIZE - 1
                 PROVE  m[a] = h.mem[a]
    BY DEF KeptOutside
  <2>2. a < end /\ a \notin c .. (c + 8) - 1
    BY <1>2, <2>1 DEF Address
  <2>3. w[a] = h.mem[a]
    BY <1>5, <2>2, KeptAt
  <2>4. QED BY <1>7, <2>2, <2>3
<1>13. ASSUME Whole(c), NEW a \in Ints, a + 4 <= end
       PROVE  IntAt(m, a) = IntAt(h.mem, a) \/ IntAt(m, a) \notin {0, Junk}
  <2>1. a \in Address /\ a + 3 \in Address /\ Whole(a) /\ a \in Nat
    BY DEF Ints, Address
  <2>2. IntAt(m, a) = IntAt(w, a)
    BY <1>10, <1>13, <2>1
  <2>3. CASE a + 4 <= c \/ c + 8 <= a
    <3>1. IntAt(w, a) = IntAt(h.mem, a)
      BY <1>5, <2>1, <2>3, IntKept
    <3>2. QED BY <2>2, <3>1
  <2>4. CASE ~(a + 4 <= c \/ c + 8 <= a)
    <3>1. a = c \/ a = c + 4
      <4>1. ~(a < c)
        BY <1>13, <2>1, <2>4, WholeApart
      <4>2. Whole(c + 4)
        BY <1>13, WholeSum
      <4>3. ~(c < a) \/ c + 4 <= a
        BY <1>13, <2>1, WholeApart
      <4>4. ~(c + 4 < a)
        <5>1. c + 4 < a => (c + 4) + 4 <= a
          BY <2>1, <4>2, WholeApart
        <5>2. QED BY <2>1, <2>4, <5>1
      <4>5. QED BY <2>1, <4>1, <4>3, <4>4
    <3>2. c < end
      BY <1>2, <1>13, <2>1, <3>1
    <3>3. IntAt(w, a) \in {end - c, 1}
      BY <1>5, <3>1
    <3>4. QED BY <1>2, <2>2, <3>2, <3>3 DEF Junk
  <2>5. QED BY <2>3, <2>4
<1>14. Shorter(h, k, c, gone)
  <2>1. k.end = h.end - gone
    BY <1>2, <1>9
  <2>2. ~k.cut /\ c < k.end => (k.end - c = 8 \/ k.end - c >= 16)
                               /\ IntAt(k.mem, k.end - 8) = k.end - c
    <3>1. SUFFICES ASSUME ~k.cut, c < end
                   PROVE  (end - c = 8 \/ end - c >= 16) /\ IntAt(m, end - 8) = end - c
      BY <1>9
    <3> HIDE DEF short
    <3>2. ~short
      BY <1>9, <3>1
    <3> USE DEF short
    <3>3. size > 0
      BY <1>2, <3>1
    <3>4. QED BY <1>3a, <3>2, <3>3
  <2>3. Whole(c) => \A a \in Ints : a + 4 <= k.end => NotCleared(h, k, a)
    BY <1>9, <1>13 DEF NotCleared
  <2>4. QED BY <1>6, <1>9, <1>11, <1>12, <2>1, <2>2, <2>3 DEF Shorter
<1>15. QED BY <1>9, <1>14

LEMMA ShrunkLaid ==
  ASSUME NEW h, NEW S, NEW g, NEW F, NEW whole, Laid(h, S, g, F, whole),
         NEW c \in S, Tile(h.mem, S, 0, h.end, c, h.end), IntAt(h.mem, c + 4) # 0,
         NEW gone \in Nat, gone <= h.end - c, \E i \in Nat : h.end - gone = i * PAGE_SIZE,
         NEW k, k \in HeapType, Shorter(h, k, c, gone), ~k.cut
  PROVE  (\E T : Laid(k, T, g, F, whole)) /\ PlacesKept(h, k, g)
<1> DEFINE end == k.end
<1>1. Good(h, S) /\ Held(h, S, g) /\ Joined(h, S) /\ (whole => Aligned(h, S, g, F))
  BY DEF Laid
<1>2. /\ h \in HeapType /\ h.end \in Nat /\ h.end <= MaxPages * PAGE_SIZE /\ ~h.lost
      /\ Tiled(h.mem, 0, h.end, S)
      /\ \A x \in S : x \in Nat /\ x \in Address /\ x + 7 \in Address /\ x + 8 <= h.end
  BY <1>1, Boundaries DEF Good
<1>3. /\ IntAt(h.mem, c) = h.end - c /\ c \in Nat /\ c < h.end /\ h.end - c >= 8
      /\ Block(h.mem, c, h.end) /\ \A x \in S : c < x => h.end <= x
  BY DEF Tile
<1>4. /\ end = h.end - gone /\ ~k.lost
      /\ c < end => (end - c = 8 \/ end - c >= 16) /\ IntAt(k.mem, end - 8) = end - c
      /\ c + 8 <= end => IntAt(k.mem, c) = end - c /\ IntAt(k.mem, c + 4) = 1
      /\ KeptOutside(h.mem, k.mem, c, MaxPages * PAGE_SIZE)
      /\ Whole(c) => \A a \in Ints : a + 4 <= end => NotCleared(h, k, a)
  BY <1>2 DEF Shorter
<1>5. /\ end \in Nat /\ c <= end /\ end <= h.end /\ \E i \in Nat : end = i * PAGE_SIZE
      /\ MaxPages * PAGE_SIZE \in Nat
  BY <1>2, <1>3, <1>4, Top
<1> HIDE DEF end
<1> DEFINE L == S \cap (0 .. c - 1)
<1>7. \A a \in 0 .. c - 1 : k.mem[a] = h.mem[a]
  <2> TAKE a \in 0 .. c - 1
  <2>1. a \in Address /\ a \notin c .. MaxPages * PAGE_SIZE - 1
    BY <1>2, <1>3, <1>5, Top DEF Address
  <2>2. QED BY <1>4, <2>1, KeptAt
<1>8. Tiled(k.mem, 0, c, L)
  <2>1. Tiled(h.mem, 0, c, L)
    BY <1>2, CutAt
  <2> HIDE DEF L
  <2>2. QED BY <1>3, <1>7, <2>1, SameBytes
<1>9. \A x \in S : x \in L \/ x = c
  <2> TAKE x \in S
  <2>1. x \in Nat /\ x < h.end /\ ~(c < x)
    BY <1>2, <1>3
  <2>2. QED BY <1>3, <2>1
<1>10. \A x \in L : x + 8 <= c
  <2> TAKE x \in L
  <2>1. PICK t \in S \cup {h.end} : Tile(h.mem, S, 0, h.end, x, t)
    BY <1>1, SameTiles
  <2>2. x \in Nat /\ x < c /\ t \in Nat /\ t - x >= 8 /\ t <= c
    BY <1>3, <2>1 DEF Tile
  <2>3. QED BY <1>3, <2>2
<1>11. \A x \in L : IntAt(k.mem, x) = IntAt(h.mem, x) /\ IntAt(k.mem, x + 4) = IntAt(h.mem, x + 4)
  <2> TAKE x \in L
  <2>1. x \in Address /\ x + 7 \in Address /\ x + 8 <= c
    BY <1>2, <1>10
  <2>2. QED BY <1>3, <1>4, <1>5, <2>1, HeaderKept
\* What is left of c is a block.
<1>12. ASSUME c < end
       PROVE  Block(k.mem, c, end) /\ IntAt(k.mem, c + 4) # 0 /\ c + 8 <= end
  <2>1. c + 8 <= end /\ (end - c = 8 \/ end - c >= 16)
    BY <1>3, <1>4, <1>5, <1>12
  <2>2. IntAt(k.mem, c) = end - c /\ IntAt(k.mem, c + 4) = 1 /\ IntAt(k.mem, end - 8) = end - c
    BY <1>4, <1>12, <2>1
  <2>3. QED BY <2>1, <2>2 DEF Block
<1> DEFINE T == IF c < end THEN L \cup {c} ELSE L
<1>13. Tiled(k.mem, 0, end, T)
  <2>1. CASE c < end
    <3>1. Tiled(k.mem, c, end, {c})
      BY <1>3, <1>5, <1>12, <2>1, BlockAlone
    <3> HIDE DEF L
    <3>2. Tiled(k.mem, 0, end, L \cup {c})
      BY <1>3, <1>5, <1>8, <3>1, Concatenated
    <3>3. QED BY <2>1, <3>2
  <2>2. CASE ~(c < end)
    <3>1. c = end
      BY <1>3, <1>5, <2>2
    <3>2. QED BY <1>8, <2>2, <3>1
  <2>3. QED BY <2>1, <2>2
<1>14. Good(k, T)
  BY <1>4, <1>5, <1>13 DEF Good, end
<1>15. Held(k, T, g)
  <2>1. ASSUME NEW q \in DOMAIN g
        PROVE  /\ q \in Nat /\ g[q] \in Nat \ {0} /\ q - 8 \in T
               /\ IntAt(k.mem, q - 4) = 0 /\ IntAt(k.mem, q - 8) >= TotalSize(g[q])
    <3>1. /\ q \in Nat /\ g[q] \in Nat \ {0} /\ q - 8 \in S
          /\ IntAt(h.mem, q - 4) = 0 /\ IntAt(h.mem, q - 8) >= TotalSize(g[q])
      BY <1>1 DEF Held
    <3>2. q - 8 + 4 = q - 4
      BY <3>1
    <3>3. q - 8 # c
      BY <3>1, <3>2
    <3>4. q - 8 \in L
      BY <1>9, <3>1, <3>3
    <3>5. IntAt(k.mem, q - 8) = IntAt(h.mem, q - 8) /\ IntAt(k.mem, q - 4) = IntAt(h.mem, q - 4)
      BY <1>11, <3>2, <3>4
    <3>6. QED BY <3>1, <3>4, <3>5
  <2>2. ASSUME NEW x \in T, IntAt(k.mem, x + 4) = 0 PROVE x + 8 \in DOMAIN g
    <3>1. x # c \/ ~(c < end)
      BY <1>12, <2>2
    <3>2. x \in L
      BY <3>1
    <3>3. IntAt(h.mem, x + 4) = 0 /\ x \in S
      BY <1>11, <2>2, <3>2
    <3>4. QED BY <1>1, <3>3 DEF Held
  <2>3. QED BY <2>1, <2>2 DEF Held
<1>16. ASSUME whole PROVE Aligned(k, T, g, F)
  <2>1. Aligned(h, S, g, F) /\ Whole(c)
    BY <1>1, <1>16 DEF Aligned
  <2>2. T \subseteq S
    OBVIOUS
  <2>3. \A a \in Ints : a + 4 <= k.end => NotCleared(h, k, a)
    BY <1>4, <2>1 DEF end
  <2>4. k.end \in Nat /\ k.end <= h.end
    BY <1>5 DEF end
  <2> HIDE DEF T
  <2>5. QED BY <1>1, <2>1, <2>2, <2>3, <2>4, StillAligned
<1>17. Joined(k, T)
  <2>1. SUFFICES ASSUME NEW x \in T, NEW y \in T, y = x + IntAt(k.mem, x),
                        IntAt(k.mem, x + 4) # 0, IntAt(k.mem, y + 4) # 0
                 PROVE  FALSE
    BY DEF Joined
  <2>2. x \in L
    <3>1. SUFFICES ASSUME x = c, c < end PROVE FALSE
      OBVIOUS
    <3>2. IntAt(k.mem, c) = end - c
      BY <1>12, <3>1 DEF Block
    <3>3. y = end
      BY <1>3, <1>5, <2>1, <3>1, <3>2
    <3>4. \A z \in T : z < end
      <4>1. T \in SUBSET (0 .. end - 1)
        BY <1>13 DEF Tiled
      <4>2. QED BY <1>5, <4>1
    <3>5. QED BY <1>5, <3>3, <3>4
  <2>3. y = x + IntAt(h.mem, x) /\ IntAt(h.mem, x + 4) # 0 /\ x \in S
    BY <1>11, <2>1, <2>2
  <2>4. y \in S /\ IntAt(h.mem, y + 4) # 0
    <3>1. CASE y \in L
      BY <1>11, <2>1, <3>1
    <3>2. CASE y = c
      BY <3>2
    <3>3. QED BY <3>1, <3>2
  <2>5. QED BY <1>1, <2>3, <2>4 DEF Joined
<1>18. PlacesKept(h, k, g)
  <2>1. SUFFICES ASSUME NEW q \in DOMAIN g, NEW a \in Place(g, q)
                 PROVE  k.mem[a] = h.mem[a]
    BY DEF PlacesKept
  <2>2. q - 8 \in S /\ q \in Nat /\ IntAt(h.mem, q - 4) = 0
    BY <1>1 DEF Held
  <2>3. q - 8 # c
    <3>1. q - 8 + 4 = q - 4
      BY <2>2
    <3>2. QED BY <2>2, <3>1
  <2>4. q - 8 \notin c .. h.end - 1
    <3>1. q - 8 \in 0 .. c - 1
      BY <1>9, <2>2, <2>3
    <3>2. QED BY <1>3, <3>1
  <2>5. /\ a \in Address /\ a < h.end
        /\ \A x \in S : \A y \in S \cup {h.end} :
             x <= y /\ q - 8 \notin x .. y - 1 => a \notin x .. y - 1
    BY <1>1, PlaceInside
  <2>6. a \notin c .. h.end - 1
    <3>1. c <= h.end /\ h.end \in S \cup {h.end}
      BY <1>2, <1>3
    <3>2. QED BY <2>4, <2>5, <3>1
  <2>7. a \in 0 .. c - 1
    BY <1>2, <1>3, <2>5, <2>6, Top DEF Address
  <2>8. QED BY <1>7, <2>7
<1>19. QED BY <1>14, <1>15, <1>16, <1>17, <1>18 DEF Laid

\* When nothing is held, there is one block, and it is free.
LEMMA AllFree ==
  ASSUME NEW h, NEW S, NEW g, NEW F, NEW whole,
         Laid(h, S, g, F, whole), DOMAIN g = {},
         NEW c \in S, Tile(h.mem, S, 0, h.end, c, h.end)
  PROVE  c = 0 /\ IntAt(h.mem, c + 4) # 0
<1>1. Good(h, S) /\ Held(h, S, g) /\ Joined(h, S)
  BY DEF Laid
<1>2. \A x \in S : IntAt(h.mem, x + 4) # 0
  BY <1>1 DEF Held
<1>3. c = 0
  <2>1. SUFFICES ASSUME c # 0 PROVE FALSE
    OBVIOUS
  <2>2. PICK x \in S : Tile(h.mem, S, 0, h.end, x, c)
    BY <1>1, <2>1, PrevFound
  <2>3. c = x + IntAt(h.mem, x)
    BY <2>2 DEF Tile
  <2>4. QED BY <1>1, <1>2, <2>3 DEF Joined
<1>4. QED BY <1>2, <1>3

LEMMA GivenBack ==
  ASSUME NEW h, NEW S, NEW g, NEW F, NEW whole,
         Laid(h, S, g, F, whole), S # {}, NEW k, k = GiveBack(h), ~k.cut
  PROVE  /\ \E T : Laid(k, T, g, F, whole)
         /\ PlacesKept(h, k, g) /\ (DOMAIN g = {} => k.end = 0)
<1>1. Good(h, S)
  BY DEF Laid
<1>2. /\ h \in HeapType /\ h.end \in Nat /\ h.end <= MaxPages * PAGE_SIZE
      /\ \A x \in S : x \in Nat /\ x + 8 <= h.end
  BY <1>1, Boundaries
<1>3. h.end # 0
  BY <1>2
<1>4. PICK c \in S : /\ prev_block(h, h.end) = c /\ Tile(h.mem, S, 0, h.end, c, h.end)
                     /\ Known(h, c)
  BY <1>1, <1>3, PrevFound
<1>5. IntAt(h.mem, c) = h.end - c /\ h.end = c + IntAt(h.mem, c) /\ c \in Nat /\ c < h.end
  BY <1>4 DEF Tile
<1>6. next_block(h, c) = h.end
  BY <1>5 DEF next_block, SizeAt
<1> DEFINE pages == (h.end - c) \div PAGE_SIZE
           gone == pages * PAGE_SIZE
<1>7. /\ pages \in Nat /\ gone \in Nat /\ gone <= h.end - c
      /\ \A n \in Nat : h.end - c = n * PAGE_SIZE => gone = h.end - c
  <2>1. h.end - c \in Nat /\ PAGE_SIZE \in Nat \ {0}
    BY <1>2, <1>5, Top
  <2>2. QED BY <2>1, RoundedDown
<1>8. PICK n \in Nat : h.end = n * PAGE_SIZE
  BY <1>1 DEF Good
<1>9. DOMAIN g = {} => IntAt(h.mem, c + 4) # 0 /\ gone = h.end
  <2>1. SUFFICES ASSUME DOMAIN g = {} PROVE IntAt(h.mem, c + 4) # 0 /\ gone = h.end
    OBVIOUS
  <2>2. c = 0 /\ IntAt(h.mem, c + 4) # 0
    BY <1>4, <2>1, AllFree
  <2>3. h.end - c = n * PAGE_SIZE /\ h.end - c = h.end
    BY <1>2, <1>8, <2>2
  <2>4. QED BY <1>7, <2>2, <2>3
<1>10. k = IF IntAt(h.mem, c + 4) # 0 /\ pages > 0 THEN Shrunk(h, c, pages) ELSE h
  BY <1>4, <1>6 DEF GiveBack, FreeAt, IsFreeAt, INT_SIZE
<1> HIDE DEF pages
<1>11. CASE IntAt(h.mem, c + 4) # 0 /\ pages > 0
  <2>1. k = Shrunk(h, c, pages) /\ gone = pages * PAGE_SIZE
    BY <1>10, <1>11
  <2> HIDE DEF gone
  <2>2. Shorter(h, k, c, gone) /\ k \in HeapType
    <3>1. IntAt(h.mem, c + 4) = 1
      BY <1>4, <1>11 DEF Tile, Block
    <3>2. c + 8 <= h.end
      BY <1>2
    <3>3. QED BY <1>2, <1>5, <1>7, <2>1, <3>1, <3>2, ShrunkIs
  <2>3. \E i \in Nat : h.end - gone = i * PAGE_SIZE
    <3>1. pages * PAGE_SIZE <= n * PAGE_SIZE
      <4>1. gone <= h.end
        BY <1>2, <1>5, <1>7
      <4>2. QED BY <1>8, <2>1, <4>1
    <3>2. \E i \in Nat : n * PAGE_SIZE - pages * PAGE_SIZE = i * PAGE_SIZE
      BY <1>7, <3>1, Top, LessPages
    <3>3. QED BY <1>8, <2>1, <3>2
  <2>4. (\E T : Laid(k, T, g, F, whole)) /\ PlacesKept(h, k, g)
    BY <1>4, <1>7, <1>11, <2>2, <2>3, ShrunkLaid
  <2>5. k.end = h.end - gone
    BY <2>2 DEF Shorter
  <2>6. QED BY <1>2, <1>9, <2>4, <2>5
<1>12. CASE ~(IntAt(h.mem, c + 4) # 0 /\ pages > 0)
  <2>1. k = h
    BY <1>10, <1>12
  <2>2. DOMAIN g # {}
    <3>1. SUFFICES ASSUME DOMAIN g = {} PROVE FALSE
      OBVIOUS
    <3>2. IntAt(h.mem, c + 4) # 0 /\ gone = h.end
      BY <1>9, <3>1
    <3>3. pages = 0
      BY <1>7, <1>12, <3>2
    <3>4. gone = 0
      BY <3>3, Top
    <3>5. QED BY <1>3, <3>2, <3>4
  <2>3. QED BY <2>1, <2>2 DEF PlacesKept
<1>13. QED BY <1>11, <1>12

\* free takes back what the program holds, leaves alone the rest of it, and
\* leaves no heap when there is no rest.
LEMMA Released ==
  ASSUME NEW whole, NEW S, Laid(Heap, S, given, freed, whole), NEW p \in DOMAIN given,
         NEW g2, TakesBack(given, g2, p), ~FreeHeap(p).cut
  PROVE  /\ \E T : Laid(FreeHeap(p), T, g2, freed \cup {p}, whole)
         /\ PlacesKept(Heap, FreeHeap(p), g2) /\ ~FreeHeap(p).lost
         /\ (DOMAIN g2 = {} => FreeHeap(p).end = 0)
<1> DEFINE F2 == freed \cup {p}
           b == p - MALLOC_HEADER_SIZE
           marked == write_header_footer(Heap, b, SizeAt(Heap, b), 1)
           next == JoinNext(marked, b)
           prev == JoinPrev(next, b)
           back == GiveBack(prev)
<1> HIDE DEF F2
<1>1. b = p - 8
  BY DEF MALLOC_HEADER_SIZE, INT_SIZE
<1>2. Freeing(marked, S, g2, F2, whole, b) /\ PlacesKept(Heap, marked, g2) /\ ~marked.lost
  <2>1. marked = write_header_footer(Heap, p - 8, IntAt(Heap.mem, p - 8), 1)
    BY <1>1 DEF SizeAt
  <2> HIDE DEF marked, b
  <2>2. F2 = freed \cup {p}
    BY DEF F2
  <2>3. Freeing(marked, S, g2, F2, whole, p - 8) /\ PlacesKept(Heap, marked, g2)
    BY <2>1, <2>2, Marked
  <2>4. QED BY <1>1, <2>3 DEF Freeing, Good
<1> HIDE DEF marked, b
<1>3. PICK T : Freeing(next, T, g2, F2, whole, b) /\ NextInUse(next, T, b)
                   /\ PlacesKept(marked, next, g2)
  BY <1>2, NextJoined
<1>4. ~next.lost
  BY <1>3 DEF Freeing, Good
<1> HIDE DEF next
<1>5. PICK U : Laid(prev, U, g2, F2, whole) /\ PlacesKept(next, prev, g2) /\ U # {}
  BY <1>3, PrevJoined
<1>6. ~prev.lost
  BY <1>5 DEF Laid, Good
<1>7. FreeHeap(p) = back
  <2>1. FreeHeap(p) = IF prev.lost THEN prev ELSE GiveBack(prev)
    BY <1>2, <1>4 DEF FreeHeap, marked, next, b
  <2>2. QED BY <1>6, <2>1
<1> HIDE DEF prev
<1>8. ~back.cut
  BY <1>7
<1>9. /\ \E V : Laid(back, V, g2, F2, whole)
      /\ PlacesKept(prev, back, g2) /\ (DOMAIN g2 = {} => back.end = 0)
  BY <1>5, <1>8, GivenBack
<1>10. PlacesKept(Heap, back, g2)
  BY <1>2, <1>3, <1>5, <1>9 DEF PlacesKept
<1>11. ~back.lost
  BY <1>9 DEF Laid, Good
<1>12. QED BY <1>7, <1>9, <1>10, <1>11 DEF F2

----------------------------------------------------------------------------
(* The steps.                                                              *)

LEMMA HeapLaid ==
  ASSUME HeapInv, ~cut, ~twice, heap_end # NULL
  PROVE  /\ \E S : Laid(Heap, S, given, freed, ~unaligned)
         /\ heap_end \in Nat /\ stopped \in {"no", "fault"}
<1>1. PICK S : Laid(Heap, S, given, freed, ~unaligned)
  BY DEF HeapInv
<1>2. Heap.end \in Nat
  BY <1>1, Boundaries DEF Laid
<1>3. QED BY <1>1, <1>2 DEF HeapInv, Heap

\* A freed pointer is refused, as long as all requests are for whole ints.
LEMMA FreedRefused ==
  ASSUME HeapInv, ~cut, ~twice, ~unaligned, NEW p \in freed
  PROVE  ~Takes(p)
<1>1. heap_end # NULL
  BY DEF HeapInv
<1>2. PICK S : Laid(Heap, S, given, freed, ~unaligned)
  BY <1>1, HeapLaid
<1>3. /\ p \in Nat /\ (p <= heap_end => IntAt(Heap.mem, p - 4) \notin {0, Junk})
      /\ heap_end \in Nat
  BY <1>1, <1>2, HeapLaid DEF Laid, Aligned, Heap
<1>4. SUFFICES ASSUME Takes(p) PROVE FALSE
  OBVIOUS
<1>5. p \in 8 .. heap_end - 1 /\ IntAt(Heap.mem, (p - 8) + 4) \in {0, Junk}
  BY <1>4 DEF Takes, IsFreeOf, IsFreeAt, MALLOC_HEADER_SIZE, INT_SIZE
<1>6. (p - 8) + 4 = p - 4 /\ p <= heap_end
  BY <1>3, <1>5
<1>7. QED BY <1>3, <1>5, <1>6

\* free takes p back.
Releases(p) ==
  \E T :
    /\ Laid(HeapOf(mem', heap_end'), T, given', freed', ~unaligned')
    /\ PlacesKept(Heap, HeapOf(mem', heap_end'), given')
    /\ p \in DOMAIN given /\ TakesBack(given, given', p)
    /\ stopped' = "no" /\ (DOMAIN given' = {} => heap_end' = 0)

LEMMA FreeReleases ==
  ASSUME HeapInv, ~cut', ~twice', NEW p \in Address, Free(p)
  PROVE  Releases(p) /\ ~cut /\ ~twice
<1>1. ~cut /\ ~FreeHeap(p).cut /\ ~twice
  BY DEF Free
<1>2. p \in DOMAIN given
  BY DEF Free
<1>3. heap_end # NULL
  BY <1>1, <1>2 DEF HeapInv
<1>4. PICK S : Laid(Heap, S, given, freed, ~unaligned)
  BY <1>1, <1>3, HeapLaid
<1>5. TakesBack(given, given', p)
  BY DEF Free, TakesBack, Restrict
<1> DEFINE k == FreeHeap(p)
           whole == ~unaligned
<1>6. /\ mem' = k.mem /\ heap_end' = k.end /\ (~k.lost => stopped' = "no")
      /\ freed' = freed \cup {p}
  BY DEF Free
<1>7. /\ \E T : Laid(k, T, given', freed \cup {p}, whole)
      /\ PlacesKept(Heap, k, given') /\ ~k.lost /\ (DOMAIN given' = {} => k.end = 0)
  <2>1. Laid(Heap, S, given, freed, whole)
    BY <1>4
  <2> HIDE DEF whole
  <2>2. QED BY <1>1, <1>2, <2>1, <1>5, Released
<1> HIDE DEF k
<1>8. PICK T : Laid(k, T, given', freed', whole)
  BY <1>6, <1>7
<1>9. k = HeapOf(mem', heap_end')
  <2>1. Good(k, T) /\ ~k.cut
    BY <1>1, <1>8 DEF Laid, k
  <2>2. QED BY <1>6, <2>1, HeapIs
<1>10. Laid(k, T, given', freed', ~unaligned')
  <2>1. unaligned' = unaligned
    BY DEF Free
  <2>2. QED BY <1>8, <2>1
<1>11. QED BY <1>1, <1>2, <1>5, <1>6, <1>7, <1>9, <1>10 DEF Releases

\* The program writes where it may.
Fills(p) ==
  \E T :
    /\ Laid(HeapOf(mem', heap_end'), T, given', freed', ~unaligned')
    /\ p \in DOMAIN given /\ \A a \in Address : a \notin Place(given, p) => mem'[a] = mem[a]
    /\ UNCHANGED <<heap_end, stopped, given, freed, cut, unaligned, twice>> /\ stopped = "no"

LEMMA FillFills ==
  ASSUME HeapInv, ~cut, ~twice, NEW p \in Address, Fill(p)
  PROVE  Fills(p)
<1>1. /\ p \in DOMAIN given /\ stopped = "no"
      /\ mem' = [a \in Address |-> IF a \in Place(given, p) THEN JunkByte ELSE mem[a]]
      /\ UNCHANGED <<heap_end, stopped, given, freed, cut, unaligned, twice>>
  BY DEF Fill, Running, Payload, Place
<1>2. heap_end # NULL
  BY <1>1 DEF HeapInv
<1>3. PICK S : Laid(Heap, S, given, freed, ~unaligned)
  BY <1>2, HeapLaid
<1> DEFINE k == HeapOf(mem', heap_end')
<1>4. mem \in [Address -> Cell] /\ heap_end \in 0 .. MaxPages * PAGE_SIZE
  BY <1>3 DEF Laid, Good, HeapType, Heap
<1>5. mem' \in [Address -> Cell]
  <2>1. JunkByte \in Cell
    BY Top DEF JunkByte, Byte, Junk, Cell, Word, INT_SIZE
  <2>2. QED BY <1>1, <1>4, <2>1
<1>6. /\ k \in HeapType /\ k.end = Heap.end /\ k.lost = Heap.lost /\ k.cut = Heap.cut
      /\ k.mem = mem'
  BY <1>1, <1>4, <1>5 DEF HeapOf, HeapType, Heap
<1>7. \A a \in Address :
        IF a \in Place(given, p) THEN k.mem[a] = JunkByte ELSE k.mem[a] = Heap.mem[a]
  BY <1>1, <1>6 DEF Heap
<1> HIDE DEF k
<1>8. Laid(k, S, given, freed, ~unaligned)
  <2> DEFINE whole == ~unaligned
  <2>1. Laid(Heap, S, given, freed, whole)
    BY <1>3
  <2> HIDE DEF whole
  <2>2. Laid(k, S, given, freed, whole)
    BY <1>1, <1>6, <1>7, <2>1, Filled
  <2>3. QED BY <2>2 DEF whole
<1>9. \A a \in Address : a \notin Place(given, p) => mem'[a] = mem[a]
  BY <1>1
<1>10. Laid(k, S, given', freed', ~unaligned')
  BY <1>1, <1>8
<1>11. QED BY <1>1, <1>9, <1>10 DEF Fills, k

\* The histories only grow, and a pointer is freed twice by free alone.
LEMMA Histories ==
  ASSUME [HeapNext]_hvars
  PROVE  /\ (cut => cut') /\ (unaligned => unaligned')
         /\ twice' => twice \/ \E p \in freed : Takes(p)
<1> USE DEF hvars
<1>1. CASE UNCHANGED hvars
  BY <1>1
<1>2. ASSUME NEW n \in Sizes,
             MallocFit(n) \/ MallocGrow(n) \/ MallocFault(n) \/ MallocAstray(n)
      PROVE  (cut => cut') /\ (unaligned => unaligned') /\ (twice' => twice)
  <2>1. ASSUME NEW h, NEW b, Return(h, b, n)
        PROVE  (cut => cut') /\ (unaligned => unaligned') /\ (twice' => twice)
    <3>1. cut' = cut /\ twice' = twice /\ unaligned' = (unaligned \/ n % INT_SIZE # 0)
      BY <2>1 DEF Return
    <3>2. QED BY <3>1, Zenon
  <2>2. CASE MallocFit(n)
    BY <2>1, <2>2 DEF MallocFit
  <2>3. CASE MallocGrow(n)
    BY <2>1, <2>3 DEF MallocGrow
  <2>4. CASE MallocFault(n) \/ MallocAstray(n)
    BY <2>4 DEF MallocFault, MallocAstray
  <2>5. QED BY <1>2, <2>2, <2>3, <2>4
<1>3. ASSUME NEW p \in Address, Free(p)
      PROVE  /\ (cut => cut') /\ (unaligned => unaligned')
             /\ twice' => twice \/ \E q \in freed : Takes(q)
  <2>1. /\ Takes(p) /\ cut' = (cut \/ FreeHeap(p).cut) /\ twice' = (twice \/ p \in freed)
        /\ unaligned' = unaligned
    BY <1>3 DEF Free
  <2>2. QED BY <2>1, Zenon
<1>4. CASE \E p \in Address : FreeRefused(p) \/ Fill(p)
  BY <1>4 DEF FreeRefused, Fill
<1>5. CASE Stopped
  BY <1>5 DEF Stopped
<1>6. QED BY <1>1, <1>2, <1>3, <1>4, <1>5 DEF HeapNext

\* What a step does, when the heap stays laid out.
LEMMA Steps ==
  ASSUME HeapInv, ~cut', ~twice', [HeapNext]_hvars
  PROVE  /\ ~cut /\ ~twice
         /\ \/ \E n \in Nat \ {0} : Allots(n)
            \/ \E p : Releases(p)
            \/ \E p : Fills(p)
            \/ /\ UNCHANGED <<mem, heap_end, given, freed, cut, unaligned, twice>>
               /\ stopped' = stopped \/ (stopped = "no" /\ stopped' = "fault")
<1> USE DEF hvars
<1>1. CASE UNCHANGED hvars
  BY <1>1
<1>2. ASSUME NEW n \in Sizes, MallocFit(n) \/ MallocGrow(n)
      PROVE  ~cut /\ ~twice /\ \E i \in Nat \ {0} : Allots(i)
  <2>1. ~cut /\ ~twice /\ n \in Nat \ {0}
    BY <1>2, MallocAssumption DEF MallocFit, MallocGrow, Return
  <2>2. QED BY <1>2, <2>1, FitAllots, GrowAllots
<1>3. ASSUME NEW n \in Sizes, MallocFault(n)
      PROVE  /\ ~cut /\ ~twice
             /\ UNCHANGED <<mem, heap_end, given, freed, cut, unaligned, twice>>
             /\ stopped = "no" /\ stopped' = "fault"
  BY <1>3 DEF MallocFault, Running
<1>4. ASSUME NEW n \in Sizes, MallocAstray(n) PROVE FALSE
  <2>1. ~cut /\ ~twice /\ FirstFit(Started, TotalSize(n)) = Astray
    BY <1>4 DEF MallocAstray
  <2>2. PICK S : Laid(Started, S, given, freed, ~unaligned)
    BY <2>1, StartedLaid
  <2> DEFINE b == FirstFit(Started, TotalSize(n))
  <2> HIDE DEF b
  <2>3. Good(Started, S) /\ b = FirstFit(Started, TotalSize(n))
    BY <2>2 DEF Laid, b
  <2>4. b = NoFit \/ b \in S
    BY <2>3, WalkEnds
  <2>5. \A c \in S : c \in Nat
    BY <2>2, Boundaries DEF Laid
  <2>6. QED BY <2>1, <2>3, <2>4, <2>5 DEF NoFit, Astray
<1>5. ASSUME NEW p \in Address, Free(p) PROVE ~cut /\ ~twice /\ Releases(p)
  BY <1>5, FreeReleases
<1>6. ASSUME NEW p \in Address, FreeRefused(p) PROVE UNCHANGED hvars
  BY <1>6 DEF FreeRefused
<1>7. ASSUME NEW p \in Address, Fill(p) PROVE ~cut /\ ~twice /\ Fills(p)
  <2>1. ~cut /\ ~twice
    BY <1>7 DEF Fill
  <2>2. QED BY <1>7, <2>1, FillFills
<1>8. CASE Stopped
  BY <1>8 DEF Stopped
<1>9. QED BY <1>1, <1>2, <1>3, <1>4, <1>5, <1>6, <1>7, <1>8 DEF HeapNext

LEMMA HeapInvInit == HeapInit => HeapInv
<1> SUFFICES ASSUME HeapInit PROVE HeapInv
  OBVIOUS
<1>1. /\ mem = [a \in Address |-> JunkByte] /\ heap_end = NULL /\ stopped = "no"
      /\ given = <<>> /\ freed = {} /\ ~twice
  BY DEF HeapInit
<1>2. JunkByte \in Cell
  BY Top DEF JunkByte, Byte, Junk, Cell, Word, INT_SIZE
<1>3. mem \in [Address -> Cell]
  BY <1>1, <1>2
<1>4. DOMAIN given = {}
  BY <1>1
<1>5. QED BY <1>1, <1>3, <1>4 DEF HeapInv

LEMMA HeapInvNext == HeapInv /\ [HeapNext]_hvars => HeapInv'
<1> SUFFICES ASSUME HeapInv, [HeapNext]_hvars PROVE HeapInv'
  OBVIOUS
<1>9. twice' => cut' \/ unaligned'
  BY FreedRefused, Histories DEF HeapInv
<1>10. SUFFICES ASSUME ~cut', ~twice' PROVE HeapInv'
  BY <1>9 DEF HeapInv
<1>1. Heap' = HeapOf(mem', heap_end')
  BY DEF Heap, HeapOf
<1>2. ASSUME NEW T, Laid(HeapOf(mem', heap_end'), T, given', freed', ~unaligned'),
             stopped' \in {"no", "fault"}
      PROVE  HeapInv'
  <2>1. Good(HeapOf(mem', heap_end'), T)
    BY <1>2 DEF Laid
  <2>2. heap_end' \in Nat
    BY <2>1, Boundaries DEF HeapOf
  <2>3. heap_end' # NULL
    BY <2>2 DEF NULL
  <2>4. QED BY <1>1, <1>2, <1>9, <2>3 DEF HeapInv
<1>3. ~cut /\ ~twice
  BY <1>10, Steps
<1>4. CASE \E n \in Nat \ {0} : Allots(n)
  BY <1>2, <1>4 DEF Allots
<1>5. CASE \E p : Releases(p)
  BY <1>2, <1>5 DEF Releases
<1>6. CASE \E p : Fills(p)
  <2>1. PICK T : /\ Laid(HeapOf(mem', heap_end'), T, given', freed', ~unaligned')
                 /\ stopped' = "no"
    BY <1>6 DEF Fills
  <2>2. QED BY <1>2, <2>1
<1>7. CASE /\ UNCHANGED <<mem, heap_end, given, freed, cut, unaligned, twice>>
           /\ stopped' = stopped \/ (stopped = "no" /\ stopped' = "fault")
  <2>1. Heap' = Heap
    BY <1>7 DEF Heap
  <2>2. QED BY <1>3, <1>7, <2>1 DEF HeapInv
<1>8. QED BY <1>10, <1>4, <1>5, <1>6, <1>7, Steps

LEMMA HeapInvHolds == HeapSpec => []HeapInv
<1>1. QED BY HeapInvInit, HeapInvNext, PTL DEF HeapSpec
----------------------------------------------------------------------------
(* The properties of module Malloc.                                        *)

\* The walk of the properties meets the blocks of the layout.
LEMMA LaidBlocks ==
  ASSUME HeapInv, ~cut, ~twice, heap_end # NULL, NEW S, Laid(Heap, S, given, freed, ~unaligned)
  PROVE  Blocks = S \cup {heap_end} /\ BlockStarts = S
<1>1. /\ Good(Heap, S) /\ heap_end \in Nat /\ Heap.end = heap_end /\ Heap.mem = mem
  BY HeapLaid DEF Laid, Heap
<1>2. /\ mem \in [Address -> Cell] /\ heap_end <= MaxPages * PAGE_SIZE
      /\ Tiled(mem, 0, heap_end, S)
  BY <1>1, Boundaries DEF HeapType
<1>3. \A b \in 0 .. heap_end - 1 : IntAt(mem, b) \in Int
  <2>1. \A b \in 0 .. heap_end - 1 : b \in Address
    BY <1>1, <1>2, Top DEF Address
  <2>2. \A x \in Word : x \in Int
    BY Top DEF Word
  <2>3. QED BY <1>2, <2>1, <2>2, IntType
<1>4. QED BY <1>1, <1>2, <1>3, BlocksAre

\* Whatever is malloc'ed and freed in whatever order, the blocks tile the heap,
\* those in use are the ones the program holds, and footers match headers
\* (libc.c:85-172).
THEOREM BlocksTileHolds == HeapSpec => []BlocksTile
<1>1. HeapInv => BlocksTile
  <2> SUFFICES ASSUME HeapInv, Sane, heap_end # NULL
               PROVE  /\ heap_end \in Blocks
                      /\ {b \in BlockStarts : ~FreeAt(Heap, b)}
                           = {p - MALLOC_HEADER_SIZE : p \in DOMAIN given}
                      /\ \A b \in BlockStarts : prev_block(Heap, next_block(Heap, b)) = b
                      /\ \A p \in DOMAIN given :
                           SizeAt(Heap, p - MALLOC_HEADER_SIZE) >= TotalSize(given[p])
    BY DEF BlocksTile
  <2>1. PICK S : Laid(Heap, S, given, freed, ~unaligned)
    BY HeapLaid DEF Sane
  <2>2. /\ Good(Heap, S) /\ Held(Heap, S, given) /\ heap_end \in Nat /\ Heap.end = heap_end
        /\ Tiled(mem, 0, heap_end, S) /\ Heap.mem = mem
    BY <2>1, Boundaries DEF Laid, Heap
  <2>3. Blocks = S \cup {heap_end} /\ BlockStarts = S
    BY <2>1, LaidBlocks DEF Sane
  <2>5. \A b \in S : b \in Nat
    BY <2>2, Boundaries
  <2>6. {b \in S : ~FreeAt(Heap, b)} = {p - 8 : p \in DOMAIN given}
    <3>1. ASSUME NEW b \in S, ~FreeAt(Heap, b) PROVE \E p \in DOMAIN given : b = p - 8
      <4>1. b + 8 \in DOMAIN given
        BY <2>2, <3>1 DEF Held, FreeAt, IsFreeAt, INT_SIZE
      <4>2. b = (b + 8) - 8
        BY <2>5
      <4>3. QED BY <4>1, <4>2
    <3>2. ASSUME NEW p \in DOMAIN given PROVE p - 8 \in S /\ ~FreeAt(Heap, p - 8)
      <4>1. p \in Nat /\ p - 8 \in S /\ IntAt(Heap.mem, p - 4) = 0
        BY <2>2 DEF Held
      <4>2. p - 8 + 4 = p - 4
        BY <4>1
      <4>3. QED BY <4>1, <4>2 DEF FreeAt, IsFreeAt, INT_SIZE
    <3>3. QED BY <3>1, <3>2
  <2>7. ASSUME NEW b \in S PROVE prev_block(Heap, next_block(Heap, b)) = b
    <3>1. PICK e \in S \cup {heap_end} : Tile(mem, S, 0, heap_end, b, e)
      BY <2>2, SameTiles
    <3>2. e = b + IntAt(mem, b) /\ b \in Nat /\ e \in Nat /\ b < e
      BY <3>1 DEF Tile
    <3>3. next_block(Heap, b) = e /\ e # 0
      BY <2>2, <3>2 DEF next_block, SizeAt
    <3>4. PICK c \in S : prev_block(Heap, e) = c /\ Tile(mem, S, 0, heap_end, c, e)
      BY <2>2, <3>3, PrevFound
    <3>5. b + IntAt(mem, b) = c + IntAt(mem, c)
      BY <3>2, <3>4 DEF Tile
    <3>6. b = c
      BY <2>2, <3>5, OnePredecessor
    <3>7. QED BY <3>3, <3>4, <3>6
  <2>8. ASSUME NEW p \in DOMAIN given PROVE SizeAt(Heap, p - 8) >= TotalSize(given[p])
    BY <2>2 DEF Held, SizeAt
  <2>9. QED BY <2>3, <2>6, <2>7, <2>8 DEF MALLOC_HEADER_SIZE, INT_SIZE
<1>2. QED BY <1>1, HeapInvHolds, PTL

\* Two free blocks are never neighbours (libc.c:109-113, 144-157).
THEOREM FreesJoinedHolds == HeapSpec => []FreesJoined
<1>1. HeapInv => FreesJoined
  <2> SUFFICES ASSUME HeapInv, Sane, NEW b \in BlockStarts, FreeAt(Heap, b),
                      next_block(Heap, b) # heap_end
               PROVE  ~FreeAt(Heap, next_block(Heap, b))
    BY DEF FreesJoined
  <2>1. heap_end # NULL
    BY DEF BlockStarts, Blocks
  <2>2. PICK S : Laid(Heap, S, given, freed, ~unaligned)
    BY <2>1, HeapLaid DEF Sane
  <2>3. BlockStarts = S
    BY <2>1, <2>2, LaidBlocks DEF Sane
  <2>4. Good(Heap, S) /\ Joined(Heap, S) /\ Heap.end = heap_end /\ Heap.mem = mem
    BY <2>2 DEF Laid, Heap
  <2>5. PICK e \in S \cup {heap_end} : Tile(mem, S, 0, heap_end, b, e)
    BY <2>3, <2>4, SameTiles
  <2>6. e = b + IntAt(mem, b) /\ next_block(Heap, b) = e
    BY <2>4, <2>5 DEF Tile, next_block, SizeAt
  <2>7. QED BY <2>3, <2>4, <2>6 DEF Joined, FreeAt, IsFreeAt, INT_SIZE
<1>2. QED BY <1>1, HeapInvHolds, PTL

\* As long as all requests are for whole ints, a pointer that was freed is
\* refused until its place is given again (libc.c:135-140).
THEOREM DoubleFreeRefusedHolds == HeapSpec => []DoubleFreeRefused
<1>1. HeapInv => DoubleFreeRefused
  BY FreedRefused DEF DoubleFreeRefused, Sane
<1>2. QED BY <1>1, HeapInvHolds, PTL

\* malloc and free go by ints that they wrote, unless a shrink left a block
\* without a footer, or a pointer was freed twice after a request for a part of
\* an int (libc.c:78-83, 98, 159-169).
THEOREM LostForCauseHolds == HeapSpec => []LostForCause
<1>1. HeapInv => LostForCause
  BY DEF HeapInv, LostForCause
<1>2. QED BY <1>1, HeapInvHolds, PTL

----------------------------------------------------------------------------
(* The allocator.                                                          *)

Regions(g) == {Place(g, p) : p \in DOMAIN g}

\* What a layout says of the regions that the program holds.
LEMMA RegionsLaid ==
  ASSUME NEW h, NEW S, NEW g, NEW F, NEW whole, Laid(h, S, g, F, whole)
  PROVE  /\ \A r \in Regions(g) : r # {} /\ \A a \in r : a \in Address /\ a < h.end
         /\ \A r, s \in Regions(g) : r # s => r \cap s = {}
         /\ \A p, q \in DOMAIN g : Place(g, p) = Place(g, q) => p = q
<1>1. Good(h, S) /\ Held(h, S, g)
  BY DEF Laid
<1>2. ASSUME NEW p \in DOMAIN g
      PROVE  Place(g, p) # {} /\ \A a \in Place(g, p) : a \in Address /\ a < h.end
  <2>1. p \in Nat /\ g[p] \in Nat \ {0}
    BY <1>1 DEF Held
  <2>2. p \in Place(g, p)
    BY <2>1 DEF Place
  <2>3. \A a \in Place(g, p) : a \in Address /\ a < h.end
    BY <1>1, PlaceInside
  <2>4. QED BY <2>2, <2>3
<1>3. ASSUME NEW p \in DOMAIN g, NEW q \in DOMAIN g, p # q
      PROVE  Place(g, p) \cap Place(g, q) = {}
  BY <1>1, <1>3, PlacesDisjoint
<1>4. ASSUME NEW p \in DOMAIN g, NEW q \in DOMAIN g, Place(g, p) = Place(g, q)
      PROVE  p = q
  BY <1>2, <1>3, <1>4
<1>5. QED BY <1>2, <1>3, <1>4 DEF Regions

LEMMA PayloadRegions ==
  /\ {Payload(p) : p \in DOMAIN given} = Regions(given)
  /\ {Payload(p) : p \in DOMAIN given}' = Regions(given')
<1>1. {Payload(p) : p \in DOMAIN given} = Regions(given)
  BY DEF Payload, Regions, Place
<1>2. {Payload(p) : p \in DOMAIN given}' = Regions(given')
  BY DEF Payload, Regions, Place
<1>3. QED BY <1>1, <1>2

\* The steps of the allocator, over regions.
Reserves(R, R2, r, top) ==
  /\ r # {} /\ R2 = R \cup {r} /\ r \notin R
  /\ (\A s, t \in R2 : s # t => s \cap t = {})
  /\ (\A s \in R2 : \A a \in s : a < top)
  /\ \A s \in R : \A a \in s : mem'[a] = mem[a]

LEMMA AllotReserves ==
  ASSUME NEW n \in Nat \ {0}, Allots(n)
  PROVE  heap_end' \in Nat /\ \E r : Reserves(Regions(given), Regions(given'), r, heap_end')
<1> DEFINE k == HeapOf(mem', heap_end')
<1>1. PICK T, p : /\ Laid(k, T, given', freed', ~unaligned') /\ PlacesKept(Heap, k, given)
                  /\ p \notin DOMAIN given /\ Gives(given, given', p, n)
  BY DEF Allots
<1>2. k.mem = mem' /\ k.end = heap_end' /\ Heap.mem = mem
  BY DEF HeapOf, Heap
<1> HIDE DEF k
<1>3. heap_end' \in Nat
  BY <1>1, <1>2, Boundaries DEF Laid
<1> DEFINE g2 == given'
<1>4. Laid(k, T, g2, freed', ~unaligned') /\ Gives(given, g2, p, n)
  BY <1>1
<1> HIDE DEF g2
<1>5. /\ \A r \in Regions(g2) : r # {} /\ \A a \in r : a < heap_end'
      /\ \A r, s \in Regions(g2) : r # s => r \cap s = {}
      /\ \A x, q \in DOMAIN g2 : Place(g2, x) = Place(g2, q) => x = q
  BY <1>2, <1>4, RegionsLaid
<1>6. /\ DOMAIN g2 = DOMAIN given \cup {p}
      /\ \A q \in DOMAIN given : Place(g2, q) = Place(given, q)
  BY <1>1, <1>4 DEF Gives, Place
<1>7. Regions(g2) = Regions(given) \cup {Place(g2, p)}
  BY <1>6 DEF Regions
<1>8. Place(g2, p) \notin Regions(given)
  <2>1. SUFFICES ASSUME NEW q \in DOMAIN given, Place(g2, p) = Place(given, q) PROVE FALSE
    BY DEF Regions
  <2>2. Place(g2, p) = Place(g2, q) /\ q \in DOMAIN g2 /\ p \in DOMAIN g2
    BY <1>6, <2>1
  <2>3. p = q
    BY <1>5, <2>2
  <2>4. QED BY <1>1, <2>3
<1>9. \A s \in Regions(given) : \A a \in s : mem'[a] = mem[a]
  BY <1>1, <1>2 DEF PlacesKept, Regions
<1>10. Reserves(Regions(given), Regions(g2), Place(g2, p), heap_end')
  BY <1>5, <1>7, <1>8, <1>9 DEF Reserves
<1>11. QED BY <1>3, <1>10 DEF g2

Releasing(R, R2, r, top) ==
  /\ r \in R /\ R2 = R \ {r}
  /\ (\A s \in R2 : \A a \in s : a < top)
  /\ (R2 = {} => top = 0)
  /\ \A s \in R2 : \A a \in s : mem'[a] = mem[a]

LEMMA FreeReleasing ==
  ASSUME HeapInv, ~cut, ~twice, NEW p, Releases(p)
  PROVE  heap_end' \in Nat /\ \E r : Releasing(Regions(given), Regions(given'), r, heap_end')
<1> DEFINE k == HeapOf(mem', heap_end')
<1>1. PICK T : /\ Laid(k, T, given', freed', ~unaligned') /\ PlacesKept(Heap, k, given')
               /\ p \in DOMAIN given /\ TakesBack(given, given', p)
               /\ (DOMAIN given' = {} => heap_end' = 0)
  BY DEF Releases
<1>2. k.mem = mem' /\ k.end = heap_end' /\ Heap.mem = mem
  BY DEF HeapOf, Heap
<1> HIDE DEF k
<1>3. heap_end' \in Nat
  BY <1>1, <1>2, Boundaries DEF Laid
<1>4. PICK S : Laid(Heap, S, given, freed, ~unaligned)
  BY <1>1 DEF HeapInv
<1>5. \A x, q \in DOMAIN given : Place(given, x) = Place(given, q) => x = q
  BY <1>4, RegionsLaid
<1> DEFINE g2 == given'
<1>6. /\ Laid(k, T, g2, freed', ~unaligned') /\ PlacesKept(Heap, k, g2) /\ TakesBack(given, g2, p)
      /\ (DOMAIN g2 = {} => heap_end' = 0)
  BY <1>1
<1> HIDE DEF g2
<1>7. \A r \in Regions(g2) : \A a \in r : a < heap_end'
  BY <1>2, <1>6, RegionsLaid
<1>8. /\ DOMAIN g2 = DOMAIN given \ {p}
      /\ \A q \in DOMAIN g2 : Place(g2, q) = Place(given, q)
  BY <1>6 DEF TakesBack, Place
<1>9. Regions(g2) = Regions(given) \ {Place(given, p)}
  <2>1. Regions(g2) \subseteq Regions(given) \ {Place(given, p)}
    <3>1. SUFFICES ASSUME NEW q \in DOMAIN g2
                   PROVE  Place(g2, q) \in Regions(given) \ {Place(given, p)}
      BY DEF Regions
    <3>2. q \in DOMAIN given /\ q # p /\ Place(g2, q) = Place(given, q)
      BY <1>8
    <3>3. Place(given, q) # Place(given, p)
      BY <1>1, <1>5, <3>2
    <3>4. QED BY <3>2, <3>3 DEF Regions
  <2>2. Regions(given) \ {Place(given, p)} \subseteq Regions(g2)
    BY <1>8 DEF Regions
  <2>3. QED BY <2>1, <2>2
<1>10. Regions(g2) = {} => heap_end' = 0
  BY <1>6 DEF Regions
<1>11. \A s \in Regions(g2) : \A a \in s : mem'[a] = mem[a]
  BY <1>2, <1>6 DEF PlacesKept, Regions
<1>12. Place(given, p) \in Regions(given)
  BY <1>1 DEF Regions
<1>13. Releasing(Regions(given), Regions(g2), Place(given, p), heap_end')
  BY <1>7, <1>9, <1>10, <1>11, <1>12 DEF Releasing
<1>14. QED BY <1>3, <1>13 DEF g2

LEMMA FillUses ==
  ASSUME HeapInv, ~cut, ~twice, NEW p, Fills(p)
  PROVE  \E r \in Regions(given) :
           \A s \in Regions(given) \ {r} : \A a \in s : mem'[a] = mem[a]
<1>1. p \in DOMAIN given /\ \A a \in Address : a \notin Place(given, p) => mem'[a] = mem[a]
  BY DEF Fills
<1>2. PICK S : Laid(Heap, S, given, freed, ~unaligned)
  BY <1>1 DEF HeapInv
<1>3. /\ \A r \in Regions(given) : \A a \in r : a \in Address
      /\ \A r, s \in Regions(given) : r # s => r \cap s = {}
  BY <1>2, RegionsLaid
<1>4. Place(given, p) \in Regions(given)
  BY <1>1 DEF Regions
<1>5. ASSUME NEW s \in Regions(given) \ {Place(given, p)}, NEW a \in s PROVE mem'[a] = mem[a]
  <2>1. a \in Address /\ a \notin Place(given, p)
    BY <1>3, <1>4
  <2>2. QED BY <1>1, <2>1
<1>6. QED BY <1>4, <1>5

\* malloc and free keep what they have given apart, touch none of it, and give
\* every page back when nothing is held (libc.c:85-172).
THEOREM AllocatorImplemented == HeapSpec => ImplementsAllocator
<1> DEFINE R == {Payload(p) : p \in DOMAIN given}
           T == IF heap_end = NULL THEN 0 ELSE heap_end
<1>1. HeapInit => A!Init
  <2> SUFFICES ASSUME HeapInit PROVE A!Init
    OBVIOUS
  <2>1. DOMAIN given = {} /\ heap_end = NULL /\ Sane
    BY DEF HeapInit, Sane
  <2>2. mem \in [Address -> (-1 .. MaxPages * PAGE_SIZE) \X (0 .. INT_SIZE - 1)]
    <3>1. JunkByte \in (-1 .. MaxPages * PAGE_SIZE) \X (0 .. INT_SIZE - 1)
      BY Top DEF JunkByte, Byte, Junk, INT_SIZE
    <3>2. mem = [a \in Address |-> JunkByte]
      BY DEF HeapInit
    <3>3. QED BY <3>1, <3>2
  <2>3. R = {} /\ T \in Int /\ (~Sane) = FALSE
    BY <2>1
  <2>4. QED BY <2>2, <2>3 DEF A!Init
<1>2. HeapInv /\ [HeapNext]_hvars => [A!Next]_(A!avars)
  <2> SUFFICES ASSUME HeapInv, [HeapNext]_hvars, HeapInv' PROVE [A!Next]_(A!avars)
    BY HeapInvNext
  <2>1. CASE cut' \/ twice'
    <3>1. (~Sane)'
      BY <2>1 DEF Sane
    <3>2. QED BY <3>1 DEF A!Next
  <2>2. CASE ~cut' /\ ~twice'
    <3>1. ~(~Sane)'
      BY <2>2 DEF HeapInv, Sane
    <3>2. R = Regions(given) /\ R' = Regions(given')
      BY PayloadRegions
    <3>3. ~cut /\ ~twice
      BY <2>2, Steps
    <3>4. ASSUME heap_end' \in Nat PROVE T' = heap_end'
      BY <3>4 DEF NULL
    <3> HIDE DEF R, T
    <3>5. ASSUME NEW n \in Nat \ {0}, Allots(n) PROVE A!Next
      <4>1. PICK r : Reserves(R, R', r, T')
        BY <3>2, <3>4, <3>5, AllotReserves
      <4>2. r \in R \cup R' /\ A!Reserve(r)
        BY <4>1 DEF Reserves, A!Reserve, A!Disjoint, A!Untouched, R, T
      <4>3. QED BY <3>1, <4>2 DEF A!Next, R
    <3>6. ASSUME NEW p, Releases(p) PROVE A!Next
      <4>1. PICK r : Releasing(R, R', r, T')
        BY <3>2, <3>3, <3>4, <3>6, FreeReleasing
      <4>2. r \in R \cup R' /\ A!Release(r)
        BY <4>1 DEF Releasing, A!Release, A!Untouched, R, T
      <4>3. QED BY <3>1, <4>2 DEF A!Next, R
    <3>7. ASSUME NEW p, Fills(p) PROVE A!Next
      <4>1. PICK r \in R : \A s \in R \ {r} : \A a \in s : mem'[a] = mem[a]
        BY <3>2, <3>3, <3>7, FillUses
      <4>2. R' = R /\ T' = T
        BY <3>2, <3>7 DEF Fills, T
      <4>3. A!Use(r)
        BY <4>1, <4>2 DEF A!Use, A!Untouched, R, T
      <4>4. QED BY <3>1, <4>1, <4>3 DEF A!Next, R
    <3>8. ASSUME UNCHANGED <<mem, heap_end, given, freed, cut, unaligned, twice>>,
                 stopped' = stopped \/ (stopped = "no" /\ stopped' = "fault")
          PROVE  UNCHANGED A!avars
      <4>1. R' = R /\ T' = T
        BY <3>2, <3>8 DEF T
      <4>2. (~Sane)' = (~Sane)
        BY <3>8 DEF Sane
      <4>3. QED BY <3>8, <4>1, <4>2 DEF A!avars, R, T
    <3>9. QED BY <2>2, <3>5, <3>6, <3>7, <3>8, Steps
  <2>3. QED BY <2>1, <2>2
<1>3. QED BY <1>1, <1>2, HeapInvHolds, PTL DEF HeapSpec, ImplementsAllocator, A!Spec

=============================================================================

--------------------------- MODULE SyscallsProofs ---------------------------
(***************************************************************************)
(* What a program is told of its errors, and which of its pointers the     *)
(* kernel may fault on, for any sizes and any number of threads; and that  *)
(* what they write appears as on a terminal.                               *)
(*                                                                         *)
(* access_ok looks at pages, of the first byte and of the one after the    *)
(* last.  The page of an address never decreases, and grows by one at most *)
(* from an address to the next (PageMonotone, PageNext): what passes       *)
(* reaches one page past the code at most, and what does not has a byte    *)
(* outside of data and code.                                               *)
(***************************************************************************)
EXTENDS Syscalls, FiniteSetTheorems, SequenceTheorems, WellFoundedInduction, TLAPS

\* A value that waits in a wrapper is the thread's error, negated.
ValueIsOwn == \A t \in Thread : pc[t] = "checking" => eax[t] = -own[t]

\* A reader sleeps with a buffer that passed.
SleepsChecked == \A t \in Thread : pc[t] = "asleep" => ReadError(buffer[t]) = 0

SysInv ==
  /\ SysTypeOK
  /\ ValueIsOwn
  /\ ErrnoIsOwn
  /\ SleepsChecked
  /\ FaultsOnlyInHeap
  /\ RefusedOnlyOutside

----------------------------------------------------------------------------
(* Pages *)

LEMMA Layout ==
  /\ PAGE_SIZE \in Nat /\ PAGE_SIZE > 0 /\ USER_FIRST_PAGE \in Nat /\ USER_FIRST_PAGE > 0
  /\ NUM_PAG_DATA \in Nat /\ NUM_PAG_DATA > 0 /\ NUM_PAG_CODE \in Nat /\ NUM_PAG_CODE > 0
  /\ MaxHeap \in Nat /\ Buffers \subseteq Nat \X Int
  /\ HeapPage = USER_FIRST_PAGE + NUM_PAG_DATA + NUM_PAG_CODE /\ HeapPage \in Nat
BY SyscallsAssumption DEF HeapPage

\* The page of an address, by the addresses of the page.
LEMMA PageBounds ==
  ASSUME NEW a \in Int
  PROVE  /\ PageOf(a) \in Int
         /\ PAGE_SIZE * PageOf(a) <= a /\ a < PAGE_SIZE * PageOf(a) + PAGE_SIZE
BY Layout DEF PageOf

LEMMA Multiples ==
  ASSUME NEW P \in Nat, P > 0, NEW m \in Int, NEW n \in Int, m < n
  PROVE  P * m + P <= P * n
<1>1. P * (n - m - 1) >= 0
  OBVIOUS
<1>2. P * (n - m - 1) = P * n - P * m - P
  OBVIOUS
<1> QED
  BY <1>1, <1>2

LEMMA PageMonotone ==
  ASSUME NEW a \in Int, NEW b \in Int, a <= b
  PROVE  PageOf(a) <= PageOf(b)
<1> SUFFICES ASSUME PageOf(b) < PageOf(a) PROVE FALSE
  BY PageBounds
<1>1. PAGE_SIZE * PageOf(b) + PAGE_SIZE <= PAGE_SIZE * PageOf(a)
  BY PageBounds, Multiples, Layout
<1>2. /\ PAGE_SIZE * PageOf(a) \in Int /\ PAGE_SIZE * PageOf(b) \in Int
      /\ PAGE_SIZE * PageOf(a) <= a /\ b < PAGE_SIZE * PageOf(b) + PAGE_SIZE
  BY PageBounds, Layout
<1> QED
  BY <1>1, <1>2, Layout

LEMMA PageNext ==
  ASSUME NEW a \in Int
  PROVE  PageOf(a + 1) <= PageOf(a) + 1
<1>1. PageOf(a) \in Int /\ PageOf(a + 1) \in Int
  BY PageBounds
<1> SUFFICES ASSUME PageOf(a) + 1 < PageOf(a + 1) PROVE FALSE
  BY <1>1
<1>2. PAGE_SIZE * (PageOf(a) + 1) + PAGE_SIZE <= PAGE_SIZE * PageOf(a + 1)
  BY <1>1, Multiples, Layout
<1>3. PAGE_SIZE * (PageOf(a) + 1) = PAGE_SIZE * PageOf(a) + PAGE_SIZE
  BY <1>1, Layout
<1>4. /\ PAGE_SIZE * PageOf(a) \in Int /\ PAGE_SIZE * PageOf(a + 1) \in Int
      /\ a < PAGE_SIZE * PageOf(a) + PAGE_SIZE /\ PAGE_SIZE * PageOf(a + 1) <= a + 1
  BY <1>1, PageBounds, Layout
<1> QED
  BY <1>2, <1>3, <1>4, Layout

LEMMA PageZero == PageOf(0) = 0
BY Layout DEF PageOf

----------------------------------------------------------------------------
(* access_ok *)

\* A byte of a buffer that passes is on a page of the program, or on the first
\* of the heap.
LEMMA PassesNear ==
  ASSUME NEW b \in Nat \X Int, NEW type, access_ok(type, b), NEW a \in Bytes(b)
  PROVE  a \in Int /\ PageOf(a) \in USER_FIRST_PAGE .. HeapPage
<1>1. a \in Int /\ b[1] \in Int /\ b[1] + b[2] \in Int /\ b[1] <= a /\ a <= b[1] + b[2]
  BY DEF Bytes
<1>2. PageOf(b[1]) <= PageOf(a) /\ PageOf(a) <= PageOf(b[1] + b[2])
  BY <1>1, PageMonotone
<1>3. PageOf(b[1]) >= USER_FIRST_PAGE /\ PageOf(b[1] + b[2]) <= HeapPage
  BY <1>1, PageBounds, Layout DEF access_ok
<1> QED
  BY <1>1, <1>2, <1>3, PageBounds, Layout

\* Where the kernel faults, the heap is empty.
LEMMA FaultNear ==
  ASSUME NEW b \in Nat \X Int, NEW type, access_ok(type, b), heap \in 0 .. MaxHeap, ~AllMapped(b)
  PROVE  heap = 0 /\ \E a \in Bytes(b) : PageOf(a) = HeapPage
<1>1. PICK a \in Bytes(b) : ~Mapped(a)
  BY DEF AllMapped
<1>2. PageOf(a) \in USER_FIRST_PAGE .. HeapPage
  BY PassesNear
<1> QED
  BY <1>1, <1>2, Layout DEF Mapped

\* A buffer with something in it, or that is at least the start of one, does
\* not pass for a byte outside of data and code.
LEMMA RefusedOutside ==
  ASSUME NEW b \in Nat \X Int, b[1] = 0 \/ (b[2] >= 0 /\ ~access_ok("VERIFY_READ", b))
  PROVE  \E a \in {b[1]} \cup Bytes(b) : PageOf(a) \notin USER_FIRST_PAGE .. HeapPage - 1
<1>1. b[1] \in Int /\ b[2] \in Int /\ PageOf(b[1]) \in Int /\ PageOf(b[1] + b[2]) \in Int
  BY PageBounds
<1>2. CASE PageOf(b[1]) < USER_FIRST_PAGE
  BY <1>1, <1>2, Layout
<1>3. CASE b[1] = 0
  BY <1>3, PageZero, Layout
<1>4. CASE b[2] >= 0 /\ PageOf(b[1] + b[2]) > HeapPage
  <2>1. CASE b[2] = 0
    BY <1>1, <1>4, <2>1, Layout
  <2>2. CASE b[2] > 0
    <3> DEFINE last == b[1] + b[2] - 1
    <3>1. last \in Int /\ last \in Bytes(b) /\ last + 1 = b[1] + b[2] /\ PageOf(last) \in Int
      BY <1>1, <2>2, PageBounds DEF Bytes
    <3>2. PageOf(last + 1) <= PageOf(last) + 1
      BY <3>1, PageNext
    <3>3. PageOf(last) \notin USER_FIRST_PAGE .. HeapPage - 1
      BY <1>1, <1>4, <3>1, <3>2, Layout
    <3> QED
      BY <3>1, <3>3
  <2> QED
    BY <1>1, <1>4, <2>1, <2>2
<1> QED
  BY <1>1, <1>2, <1>3, <1>4, Layout DEF access_ok

----------------------------------------------------------------------------
(* Steps *)

\* A call that fails, with an error that a buffer may be the cause of.
LEMMA FailsInv ==
  ASSUME SysInv, NEW t \in Thread, NEW error \in Nat, NEW b \in Nat \X Int,
         Calls(t), Fails(t, error), Names(t, b), UNCHANGED <<heap, halted>>,
         error = EFAULT =>
           \E a \in {b[1]} \cup Bytes(b) : PageOf(a) \notin USER_FIRST_PAGE .. HeapPage - 1
  PROVE  SysInv'
<1> USE DEF SysInv, SysTypeOK, Calls, Running, Fails, Names
<1>1. SysTypeOK'
  BY Layout
<1>2. ValueIsOwn' /\ ErrnoIsOwn'
  BY DEF ValueIsOwn, ErrnoIsOwn
<1>3. SleepsChecked'
  BY DEF SleepsChecked, ReadError, access_ok
<1>4. FaultsOnlyInHeap'
  BY DEF FaultsOnlyInHeap
<1>5. RefusedOnlyOutside'
  <2> SUFFICES ASSUME NEW u \in Thread, pc'[u] \in {"checking", "failed"}, own'[u] = EFAULT
               PROVE  \E a \in {buffer'[u][1]} \cup Bytes(buffer'[u]) :
                        PageOf(a) \notin USER_FIRST_PAGE .. HeapPage - 1
    BY DEF RefusedOnlyOutside, Bytes, PageOf, HeapPage
  <2>1. CASE u = t
    BY <2>1
  <2>2. CASE u # t
    BY <2>2 DEF RefusedOnlyOutside
  <2> QED
    BY <2>1, <2>2
<1> QED
  BY <1>1, <1>2, <1>3, <1>4, <1>5

\* A call that returns, or one that stops the machine for no buffer.
LEMMA ReturnsInv ==
  ASSUME SysInv, Running, Returns, UNCHANGED buffer, heap' \in 0 .. MaxHeap,
         halted' \in {"no", "wild"}
  PROVE  SysInv'
<1> USE DEF SysInv, Returns
<1>1. SysTypeOK'
  BY DEF SysTypeOK
<1>2. ValueIsOwn' /\ ErrnoIsOwn' /\ SleepsChecked'
  BY DEF ValueIsOwn, ErrnoIsOwn, SleepsChecked, ReadError, access_ok, PageOf
<1>3. FaultsOnlyInHeap' /\ RefusedOnlyOutside'
  BY DEF FaultsOnlyInHeap, RefusedOnlyOutside, Bytes, PageOf, HeapPage
<1> QED
  BY <1>1, <1>2, <1>3

\* A fault on a buffer that passed.
LEMMA FaultInv ==
  ASSUME SysInv, Running, NEW t \in Thread, NEW b \in Nat \X Int, NEW type,
         access_ok(type, b), ~AllMapped(b),
         pc[t] = "user" \/ b = buffer[t],
         Names(t, b), Returns, UNCHANGED heap, halted' = "page fault"
  PROVE  SysInv'
<1> USE DEF SysInv, Returns, Names
<1>1. SysTypeOK'
  BY DEF SysTypeOK
<1>2. ValueIsOwn' /\ ErrnoIsOwn'
  BY DEF ValueIsOwn, ErrnoIsOwn
<1>3. \A u \in Thread : pc[u] # "user" => buffer'[u] = buffer[u]
  BY DEF SysTypeOK
<1>4. SleepsChecked' /\ RefusedOnlyOutside'
  <2>1. SleepsChecked'
    BY <1>3 DEF SleepsChecked, ReadError, access_ok, PageOf
  <2>2. RefusedOnlyOutside'
    BY <1>3 DEF RefusedOnlyOutside, PageOf, Bytes, HeapPage
  <2> QED
    BY <2>1, <2>2
<1>5. heap = 0 /\ \E a \in Bytes(b) : PageOf(a) = HeapPage
  <2>1. heap \in 0 .. MaxHeap
    BY DEF SysTypeOK
  <2> QED
    BY <2>1, FaultNear
<1>6. buffer'[t] = b
  BY DEF SysTypeOK
<1>7. FaultsOnlyInHeap'
  BY <1>5, <1>6 DEF FaultsOnlyInHeap, Bytes, PageOf, HeapPage
<1> QED
  BY <1>1, <1>2, <1>4, <1>7

LEMMA StoreInv ==
  ASSUME SysInv, NEW t \in Thread, Store(t) PROVE SysInv'
<1> USE DEF SysInv, SysTypeOK, Store, Running
<1>1. errno' = own[t]
  BY DEF ValueIsOwn
<1>2. SysTypeOK'
  BY <1>1
<1>3. ValueIsOwn'
  BY DEF ValueIsOwn
<1>4. ErrnoIsOwn'
  <2> SUFFICES ASSUME NEW u \in Thread, pc'[u] = "failed", ~disturbed'[u] PROVE errno' = own'[u]
    BY DEF ErrnoIsOwn
  <2> QED
    BY <1>1
<1>5. SleepsChecked' /\ FaultsOnlyInHeap'
  BY DEF SleepsChecked, FaultsOnlyInHeap, ReadError, access_ok, PageOf
<1>6. \A u \in Thread : pc'[u] \in {"checking", "failed"} => pc[u] \in {"checking", "failed"}
  OBVIOUS
<1>7. RefusedOnlyOutside'
  BY <1>6 DEF RefusedOnlyOutside, Bytes, PageOf, HeapPage
<1> QED
  BY <1>2, <1>3, <1>4, <1>5, <1>7

\* The thread is through with its call, or sleeps in it with a buffer that
\* passed.
LEMMA MovesInv ==
  ASSUME SysInv, Running, NEW t \in Thread, NEW b \in Nat \X Int, NEW next \in {"user", "asleep"},
         next = "asleep" => ReadError(b) = 0,
         pc' = [pc EXCEPT ![t] = next], Names(t, b),
         own' \in [Thread -> Nat], disturbed' \in [Thread -> BOOLEAN],
         \A u \in Thread \ {t} : own'[u] = own[u] /\ (disturbed'[u] <=> disturbed[u]),
         UNCHANGED <<eax, errno, heap, halted>>
  PROVE  SysInv'
<1> USE DEF SysInv, Names, Running
<1>1. SysTypeOK'
  BY DEF SysTypeOK
<1>2. \A u \in Thread : /\ u # t => pc'[u] = pc[u] /\ buffer'[u] = buffer[u]
                        /\ u = t => pc'[u] = next /\ buffer'[u] = b
  BY DEF SysTypeOK
<1>3. ValueIsOwn'
  BY <1>2 DEF ValueIsOwn
<1>4. ErrnoIsOwn'
  BY <1>2 DEF ErrnoIsOwn
<1>5. SleepsChecked'
  BY <1>2 DEF SleepsChecked, ReadError, access_ok, PageOf
<1>6. FaultsOnlyInHeap' /\ RefusedOnlyOutside'
  BY <1>2 DEF FaultsOnlyInHeap, RefusedOnlyOutside, Bytes, PageOf, HeapPage
<1> QED
  BY <1>1, <1>3, <1>4, <1>5, <1>6

LEMMA InitSys == SysInit => SysInv
BY Layout DEF SysInit, SysInv, SysTypeOK, ValueIsOwn, ErrnoIsOwn, SleepsChecked, FaultsOnlyInHeap,
   RefusedOnlyOutside

LEMMA UnchangedSys ==
  ASSUME SysInv, UNCHANGED sysvars PROVE SysInv'
<1>1. UNCHANGED procvars /\ UNCHANGED halted
  BY DEF sysvars
<1> QED
  BY <1>1 DEF procvars, SysInv, SysTypeOK, ValueIsOwn, ErrnoIsOwn, SleepsChecked, FaultsOnlyInHeap,
     RefusedOnlyOutside, ReadError, access_ok, Bytes, PageOf, HeapPage

LEMMA NextSys ==
  ASSUME SysInv, SysNext PROVE SysInv'
<1>1. ASSUME NEW t \in Thread, Store(t) PROVE SysInv'
  BY <1>1, StoreInv
<1>2. ASSUME NEW t \in Thread, perror(t) PROVE SysInv'
  <2>1. /\ own' \in [Thread -> Nat] /\ disturbed' \in [Thread -> BOOLEAN]
        /\ \A u \in Thread \ {t} : own'[u] = own[u] /\ (disturbed'[u] <=> disturbed[u])
    BY <1>2 DEF perror, SysInv, SysTypeOK
  <2>2. /\ Running /\ pc' = [pc EXCEPT ![t] = "user"] /\ Names(t, <<0, 0>>)
        /\ UNCHANGED <<eax, errno, heap, halted>>
    BY <1>2 DEF perror, Names
  <2>3. <<0, 0>> \in Nat \X Int /\ "user" \in {"user", "asleep"} /\ "user" # "asleep"
    OBVIOUS
  <2> QED
    BY <2>1, <2>2, <2>3, MovesInv
\* The calls that fail whatever their buffer.
<1>3. ASSUME NEW t \in Thread, NEW error \in Nat, error # EFAULT, Calls(t), Fails(t, error),
             UNCHANGED <<buffer, heap, halted>>
      PROVE  SysInv'
  <2>1. buffer[t] \in Nat \X Int /\ Names(t, buffer[t])
    BY <1>3 DEF Names, SysInv, SysTypeOK
  <2> QED
    BY <1>3, <2>1, FailsInv
<1>4. ASSUME NEW t \in Thread, WriteBadFile(t) \/ OtherFails(t) PROVE SysInv'
  BY <1>3, <1>4 DEF WriteBadFile, OtherFails, Call, EBADF, EFAULT
<1>5. ASSUME NEW t \in Thread, NEW n \in {-1, 1}, DynMemFails(t, n) PROVE SysInv'
  BY <1>3, <1>5 DEF DynMemFails, Call, ENOMEM, EINVAL, EFAULT
<1>6. ASSUME NEW t \in Thread, NEW i, NEW j, GotoxyFails(t, i, j) \/ Set_colorFails(t, i, j)
      PROVE  SysInv'
  BY <1>3, <1>6 DEF GotoxyFails, Set_colorFails, Call, EINVAL, EFAULT
\* The calls on a buffer.
<1>7. ASSUME NEW t \in Thread, NEW b \in Buffers, WriteFails(t, b) PROVE SysInv'
  <2>1. b \in Nat \X Int /\ WriteError(b) \in Nat
    BY Layout DEF WriteError, EFAULT, EINVAL
  <2>2. WriteError(b) = EFAULT => b[1] = 0 \/ (b[2] >= 0 /\ ~access_ok("VERIFY_READ", b))
    BY <1>7, <2>1 DEF WriteError, EFAULT, EINVAL
  <2> QED
    BY <1>7, <2>1, <2>2, RefusedOutside, FailsInv DEF WriteFails, Call
<1>8. ASSUME NEW t \in Thread, NEW b \in Buffers, ReadFails(t, b) PROVE SysInv'
  <2>1. b \in Nat \X Int /\ ReadError(b) \in Nat
    BY Layout DEF ReadError, EFAULT, EINVAL
  <2>2. ReadError(b) = EFAULT => b[1] = 0 \/ (b[2] >= 0 /\ ~access_ok("VERIFY_READ", b))
    BY <1>8, <2>1 DEF ReadError, access_ok, EFAULT, EINVAL
  <2> QED
    BY <1>8, <2>1, <2>2, RefusedOutside, FailsInv DEF ReadFails, Call
<1>9. ASSUME NEW t \in Thread, NEW b \in Buffers, ReadSleeps(t, b) PROVE SysInv'
  <2>1. b \in Nat \X Int /\ "asleep" \in {"user", "asleep"}
    BY Layout
  <2>2. /\ own' \in [Thread -> Nat] /\ disturbed' \in [Thread -> BOOLEAN]
        /\ \A u \in Thread \ {t} : own'[u] = own[u] /\ (disturbed'[u] <=> disturbed[u])
    BY <1>9 DEF ReadSleeps, SysInv, SysTypeOK
  <2> QED
    BY <1>9, <2>1, <2>2, MovesInv DEF ReadSleeps, Call, Calls
<1>10. ASSUME NEW t \in Thread, ReadReturns(t) PROVE SysInv'
  <2>1. /\ own' \in [Thread -> Nat] /\ disturbed' \in [Thread -> BOOLEAN]
        /\ \A u \in Thread \ {t} : own'[u] = own[u] /\ (disturbed'[u] <=> disturbed[u])
    BY <1>10 DEF ReadReturns, SysInv, SysTypeOK
  <2>2. <<0, 0>> \in Nat \X Int /\ "user" \in {"user", "asleep"} /\ "user" # "asleep"
    OBVIOUS
  <2> QED
    BY <1>10, <2>1, <2>2, MovesInv DEF ReadReturns
<1>11. ASSUME NEW t \in Thread, NEW b \in Buffers, NEW string, WriteFault(t, b, string)
       PROVE  SysInv'
  <2>1. b \in Nat \X Int /\ access_ok("VERIFY_READ", b)
    BY <1>11, Layout DEF WriteFault, WriteError, EFAULT, EINVAL
  <2>2. /\ Running /\ pc[t] = "user" /\ ~AllMapped(b) /\ Names(t, b) /\ Returns
        /\ UNCHANGED heap /\ halted' = "page fault"
    BY <1>11 DEF WriteFault, Call, Calls, PageFault
  <2> QED
    BY <2>1, <2>2, FaultInv
<1>12. ASSUME NEW t \in Thread, ReadFault(t) PROVE SysInv'
  <2> DEFINE b == buffer[t]
  <2>1. b \in Nat \X Int /\ Names(t, b) /\ Returns /\ UNCHANGED heap
    BY <1>12 DEF ReadFault, procvars, Returns, Names, SysInv, SysTypeOK
  <2>2. access_ok("VERIFY_WRITE", b)
    BY <1>12 DEF ReadFault, SysInv, SleepsChecked, ReadError, EFAULT, EINVAL
  <2>3. Running /\ ~AllMapped(b) /\ halted' = "page fault"
    BY <1>12 DEF ReadFault, PageFault
  <2> QED
    BY <2>1, <2>2, <2>3, FaultInv
\* The calls that return.
<1>13. ASSUME NEW t \in Thread, NEW b, NEW string, Write(t, b, string) PROVE SysInv'
  BY <1>13, ReturnsInv DEF Write, Call, Calls, Running, SysInv, SysTypeOK
<1>14. ASSUME NEW t \in Thread, NEW i, NEW j, Gotoxy(t, i, j) \/ Set_color(t, i, j) PROVE SysInv'
  BY <1>14, ReturnsInv DEF Gotoxy, Set_color, Call, Calls, Running, SysInv, SysTypeOK
<1>15. ASSUME NEW t \in Thread, NEW n, DynMem(t, n) PROVE SysInv'
  BY <1>15, ReturnsInv DEF DynMem, Call, Calls, Running, SysInv, SysTypeOK
<1>16. ASSUME NEW t \in Thread, NEW n, RawCall(t, n) PROVE SysInv'
  BY <1>16, ReturnsInv DEF RawCall, Calls, Running, Returns, procvars, SysInv, SysTypeOK
<1>17. CASE UNCHANGED sysvars
  BY <1>17, UnchangedSys
<1> QED
  BY <1>1, <1>2, <1>4, <1>5, <1>6, <1>7, <1>8, <1>9, <1>10, <1>11, <1>12, <1>13, <1>14, <1>15,
     <1>16,
     <1>17 DEF SysNext, Halted

----------------------------------------------------------------------------
(* Theorems *)

LEMMA InvSys == SysSpec => []SysInv
<1>1. SysInv /\ [SysNext]_sysvars => SysInv'
  BY NextSys, UnchangedSys
<1> QED
  BY <1>1, InitSys, PTL DEF SysSpec

\* The variables of a call keep their types (wrappers.S, entry.S).
THEOREM SysTypeCorrect == SysSpec => []SysTypeOK
<1>1. SysInv => SysTypeOK
  BY DEF SysInv
<1> QED
  BY <1>1, InvSys, PTL

\* Who fails finds its own error in errno, unless another thread failed before
\* it looked (wrappers.S:37; libc.c:12).
THEOREM ErrnoStaysOwn == SysSpec => []ErrnoIsOwn
<1>1. SysInv => ErrnoIsOwn
  BY DEF SysInv
<1> QED
  BY <1>1, InvSys, PTL

\* The kernel faults on a buffer only at an empty heap's first page
\* (utils.c:65-86).
THEOREM FaultsAtHeap == SysSpec => []FaultsOnlyInHeap
<1>1. SysInv => FaultsOnlyInHeap
  BY DEF SysInv
<1> QED
  BY <1>1, InvSys, PTL

\* No buffer inside the program's data and code is refused (utils.c:65-86).
THEOREM RefusedIsOutside == SysSpec => []RefusedOnlyOutside
<1>1. SysInv => RefusedOnlyOutside
  BY DEF SysInv
<1> QED
  BY <1>1, InvSys, PTL

----------------------------------------------------------------------------
(* The least element of a set stands in for induction.                     *)

LEMMA Least ==
  ASSUME NEW I \in SUBSET Nat, I # {}
  PROVE  \E m \in I : \A k \in I : m <= k
<1> DEFINE R == {p \in Nat \X Nat : p[1] < p[2]}
<1>1. OpToRel(<, Nat) = R
  BY DEF OpToRel
<1>2. IsWellFoundedOn(R, Nat)
  BY <1>1, NatLessThanWellFounded
<1>3. PICK m \in I : \A k \in I : <<k, m>> \notin R
  <2> HIDE DEF R
  <2> QED BY <1>2, WFMin
<1>4. ASSUME NEW k \in I PROVE m <= k
  <2>1. m \in Nat /\ k \in Nat
    OBVIOUS
  <2>2. <<k, m>> \notin R
    BY <1>3
  <2>3. QED
    BY <2>1, <2>2
<1>5. QED BY <1>4

----------------------------------------------------------------------------
(* Strings on the screen.                                                  *)

\* FoldLeft prints the characters one after the other.
LEMMA PrintsInOrder ==
  ASSUME NEW string, Len(string) \in Nat, DOMAIN string = 1 .. Len(string)
  PROVE  \E g : /\ FoldLeft(printc, Screen, string) = g[Len(string)]
                /\ g[0] = Screen
                /\ \A i \in 1 .. Len(string) : g[i] = printc(g[i - 1], string[i])
<1> DEFINE n == Len(string)
           Step(it, s) == IF s = {} THEN Screen
                          ELSE printc(it[s \ {Max(s)}], string[Max(s)])
           Upto(it, k) == \A s \in SUBSET (1 .. k) : it[s] = Step(it, s)
           Whole(it) == it = [s \in SUBSET (1 .. n) |-> Step(it, s)]
           bad == {k \in 0 .. n : ~\E it : Upto(it, k)}
<1>1. ASSUME NEW k \in Nat, NEW s \in SUBSET (1 .. k), k \in s PROVE Max(s) = k
  <2>1. \A j \in s : k >= j
    OBVIOUS
  <2>2. \A j \in s : j >= k => j = k
    <3>1. \A j \in s : j \in Int /\ k >= j
      OBVIOUS
    <3>2. QED BY <3>1
  <2>3. \A z \in s : (\A j \in s : z >= j) => z = k
    BY <1>1, <2>2
  <2>4. QED BY <1>1, <2>1, <2>3 DEF Max
<1>2. bad = {}
  <2>1. SUFFICES ASSUME bad # {} PROVE FALSE
    OBVIOUS
  <2>2. bad \in SUBSET Nat
    OBVIOUS
  <2>3. PICK k \in bad : \A j \in bad : k <= j
    <3> HIDE DEF bad
    <3> QED BY <2>1, <2>2, Least
  <2>4. k \in 0 .. n /\ ~\E it : Upto(it, k)
    <3> HIDE DEF Upto
    <3> QED OBVIOUS
  <2>5. k # 0
    <3>1. Upto([s \in {{}} |-> Screen], 0)
      BY SMT
    <3>2. (\E it : Upto(it, 0))
      <4> HIDE DEF Upto
      <4> QED BY <3>1
    <3>3. QED BY <2>4, <3>2
  <2>6. k - 1 \in 0 .. n /\ k - 1 \notin bad
    <3>1. k - 1 \in 0 .. n /\ ~(k <= k - 1)
      BY <2>4, <2>5
    <3> HIDE DEF bad
    <3>2. QED BY <2>3, <3>1
  <2>7. PICK it : Upto(it, k - 1)
    <3> HIDE DEF Upto
    <3> QED BY <2>6
  <2> DEFINE f == [s \in SUBSET (1 .. k) |->
                     IF k \in s THEN printc(it[s \ {k}], string[k]) ELSE it[s]]
  <2>8. ASSUME NEW s \in SUBSET (1 .. k), k \notin s PROVE s \in SUBSET (1 .. k - 1)
    BY <2>4, <2>8
  <2>9. ASSUME NEW s \in SUBSET (1 .. k) PROVE f[s] = Step(f, s)
    <3>1. CASE k \in s
      <4>1. Max(s) = k
        BY <1>1, <2>4, <3>1
      <4>2. s \ {k} \in SUBSET (1 .. k) /\ k \notin s \ {k}
        OBVIOUS
      <4>3. f[s \ {k}] = it[s \ {k}]
        BY <4>2
      <4>4. f[s] = printc(it[s \ {k}], string[k])
        BY <3>1
      <4>5. s # {}
        BY <3>1
      <4> HIDE DEF f
      <4>6. QED BY <4>1, <4>3, <4>4, <4>5
    <3>2. CASE k \notin s
      <4>1. f[s] = it[s]
        BY <3>2
      <4>2. it[s] = Step(it, s)
        <5> HIDE DEF Step
        <5> QED BY <2>7, <2>8, <3>2
      <4>3. f[s \ {Max(s)}] = it[s \ {Max(s)}]
        <5>1. s \ {Max(s)} \in SUBSET (1 .. k) /\ k \notin s \ {Max(s)}
          BY <3>2
        <5>2. QED BY <5>1
      <4> HIDE DEF f
      <4>4. QED BY <4>1, <4>2, <4>3
    <3>3. QED BY <3>1, <3>2
  <2>10. Upto(f, k)
    <3> HIDE DEF Step, f
    <3> QED BY <2>9
  <2>11. (\E h : Upto(h, k))
    <3> HIDE DEF Upto, f
    <3> QED BY <2>10
  <2>12. QED BY <2>4, <2>11
<1>3. \E it : Whole(it)
  <2>1. \E it : Upto(it, n)
    <3>1. n \in 0 .. n
      OBVIOUS
    <3> HIDE DEF Upto, n
    <3>2. QED BY <1>2, <3>1
  <2>2. PICK it : Upto(it, n)
    <3> HIDE DEF Upto
    <3> QED BY <2>1
  <2> DEFINE f == [s \in SUBSET (1 .. n) |-> it[s]]
  <2>3. ASSUME NEW s \in SUBSET (1 .. n) PROVE f[s] = Step(f, s)
    <3>1. f[s] = it[s] /\ f[s \ {Max(s)}] = it[s \ {Max(s)}]
      <4>1. s \ {Max(s)} \in SUBSET (1 .. n)
        OBVIOUS
      <4>2. QED BY <4>1
    <3>2. it[s] = Step(it, s)
      <4> HIDE DEF Step
      <4> QED BY <2>2
    <3> HIDE DEF f
    <3>3. QED BY <3>1, <3>2
  <2>4. Whole(f)
    <3> HIDE DEF Step
    <3> QED BY <2>3
  <2>5. QED
    <3> HIDE DEF Whole, f
    <3> QED BY <2>4
<1> DEFINE it == CHOOSE it : Whole(it)
<1>4. Whole(it)
  <2> HIDE DEF Whole
  <2> QED BY <1>3
<1>5. \A s \in SUBSET (1 .. n) : it[s] = Step(it, s)
  <2> HIDE DEF it, Step
  <2> QED BY <1>4
<1>6. FoldLeft(printc, Screen, string) = it[1 .. n]
  BY DEF FoldLeft, MapThenFoldSet
<1> HIDE DEF it
<1> DEFINE g == [i \in 0 .. n |-> it[1 .. i]]
<1>7. g[0] = Screen
  <2>1. 1 .. 0 = {} /\ 1 .. 0 \in SUBSET (1 .. n) /\ 0 \in 0 .. n
    OBVIOUS
  <2>2. it[1 .. 0] = Screen
    BY <1>5, <2>1
  <2>3. QED BY <2>1, <2>2
<1>8. ASSUME NEW i \in 1 .. n PROVE g[i] = printc(g[i - 1], string[i])
  <2>1. 1 .. i \in SUBSET (1 .. n) /\ i \in 1 .. i /\ i \in Nat
    OBVIOUS
  <2>9. 1 .. i # {}
    BY <2>1
  <2>2. Max(1 .. i) = i
    BY <1>1, <2>1
  <2>3. (1 .. i) \ {i} = 1 .. i - 1
    OBVIOUS
  <2>4. it[1 .. i] = printc(it[1 .. i - 1], string[i])
    BY <1>5, <2>1, <2>2, <2>3, <2>9
  <2>5. g[i] = it[1 .. i] /\ g[i - 1] = it[1 .. i - 1]
    OBVIOUS
  <2>6. QED BY <2>4, <2>5
<1>9. g[n] = it[1 .. n]
  OBVIOUS
<1> HIDE DEF g
<1>10. QED BY <1>6, <1>7, <1>8, <1>9

\* Division, by the multiple that is next below.
LEMMA Divides ==
  ASSUME NEW P \in Nat, P > 0, NEW q \in Int, NEW r \in 0 .. P - 1
  PROVE  (P * q + r) \div P = q /\ (P * q + r) % P = r
<1> DEFINE a == P * q + r
           d == a \div P
<1>1. P * q \in Int /\ a \in Int /\ d \in Int /\ P * d \in Int
  OBVIOUS
<1>2. P * d <= a /\ a < P * d + P /\ a % P = a - P * d
  BY <1>1
<1> HIDE DEF d
<1>3. ~(d < q)
  <2>1. d < q => P * d + P <= P * q
    BY <1>1, Multiples
  <2>2. QED BY <1>1, <1>2, <2>1
<1>4. ~(q < d)
  <2>1. q < d => P * q + P <= P * d
    BY <1>1, Multiples
  <2>2. QED BY <1>1, <1>2, <2>1
<1>5. d = q
  BY <1>1, <1>3, <1>4
<1>6. QED BY <1>1, <1>2, <1>5 DEF d

LEMMA ScreenSize ==
  /\ NUM_COLUMNS \in Nat /\ NUM_COLUMNS > 0 /\ NUM_ROWS \in Nat /\ NUM_ROWS > 0
  /\ NUM_COLUMNS * NUM_ROWS \in Nat /\ NUM_COLUMNS * NUM_ROWS > 0
<1>1. NUM_COLUMNS \in Nat /\ NUM_COLUMNS > 0 /\ NUM_ROWS \in Nat /\ NUM_ROWS > 0
  BY ConsoleAssumption
<1>2. NUM_COLUMNS * 0 + NUM_COLUMNS <= NUM_COLUMNS * NUM_ROWS
  BY <1>1, Multiples
<1>3. NUM_COLUMNS * NUM_ROWS \in Int /\ NUM_COLUMNS * 0 = 0
  BY <1>1
<1>4. QED BY <1>1, <1>2, <1>3

\* The cell in column i of line j, and the ones that follow it.
LEMMA CellAt ==
  ASSUME NEW i \in 0 .. NUM_COLUMNS - 1, NEW j \in 0 .. NUM_ROWS - 1
  PROVE  /\ j * NUM_COLUMNS + i \in Cell
         /\ T!LineAfter(j * NUM_COLUMNS + i) = ((j + 1) % NUM_ROWS) * NUM_COLUMNS
         /\ i + 1 < NUM_COLUMNS =>
              (j * NUM_COLUMNS + i + 1) % (NUM_COLUMNS * NUM_ROWS) = j * NUM_COLUMNS + (i + 1)
         /\ i + 1 >= NUM_COLUMNS =>
              (j * NUM_COLUMNS + i + 1) % (NUM_COLUMNS * NUM_ROWS)
                = ((j + 1) % NUM_ROWS) * NUM_COLUMNS
<1> DEFINE C == NUM_COLUMNS
           M == NUM_COLUMNS * NUM_ROWS
           p == j * C + i
<1>1. C \in Nat /\ C > 0 /\ NUM_ROWS \in Nat /\ NUM_ROWS > 0 /\ M \in Nat /\ M > 0
  BY ScreenSize
<1>2. j \in Nat /\ i \in Nat /\ i < C /\ j < NUM_ROWS
  BY <1>1
<1>3. C * j + C <= M
  BY <1>1, <1>2, Multiples
<1>4. j * C = C * j /\ j * C \in Nat /\ (j + 1) * C = C * j + C
  BY <1>1, <1>2
<1>5. p \in 0 .. M - 1
  <2> HIDE DEF C, M
  <2> QED BY <1>1, <1>2, <1>3, <1>4
<1>6. p \div C = j
  <2>1. (C * j + i) \div C = j
    BY <1>1, <1>2, Divides
  <2>2. QED BY <1>4, <2>1
<1>7. ASSUME NEW q \in 0 .. M - 1 PROVE q % M = q
  <2>1. M * 0 + q = q
    BY <1>1
  <2>2. (M * 0 + q) % M = q
    <3> HIDE DEF M
    <3> QED BY <1>1, Divides
  <2>3. QED BY <2>1, <2>2
<1>8. CASE i + 1 < C
  <2>1. p + 1 \in 0 .. M - 1 /\ p + 1 = j * C + (i + 1)
    <3> HIDE DEF C, M
    <3> QED BY <1>1, <1>2, <1>3, <1>4, <1>8
  <2>2. (p + 1) % M = p + 1
    BY <1>7, <2>1
  <2>3. ~(i + 1 >= C)
    BY <1>1, <1>2, <1>8
  <2>4. (p + 1) % M = j * C + (i + 1)
    BY <2>1, <2>2
  <2>5. p \in Cell /\ T!LineAfter(p) = ((j + 1) % NUM_ROWS) * C
    BY <1>5, <1>6 DEF Cell, T!LineAfter
  <2>6. QED BY <2>3, <2>4, <2>5
<1>9. CASE ~(i + 1 < C)
  <2>1. p + 1 = C * j + C
    <3> HIDE DEF C, M
    <3> QED BY <1>1, <1>2, <1>4, <1>9
  <2>2. CASE j + 1 < NUM_ROWS
    <3>1. C * (j + 1) + C <= M
      BY <1>1, <1>2, <2>2, Multiples
    <3>2. p + 1 \in 0 .. M - 1
      <4>1. C * (j + 1) = C * j + C
        BY <1>1, <1>2
      <4> HIDE DEF C, M, p
      <4>2. QED BY <1>1, <1>4, <2>1, <3>1, <4>1
    <3>3. (p + 1) % M = p + 1
      BY <1>7, <3>2
    <3>4. (j + 1) % NUM_ROWS = j + 1
      <4>1. NUM_ROWS * 0 + (j + 1) = j + 1
        BY <1>1, <1>2
      <4>2. (NUM_ROWS * 0 + (j + 1)) % NUM_ROWS = j + 1
        BY <1>1, <1>2, <2>2, Divides
      <4>3. QED BY <4>1, <4>2
    <3>5. QED BY <1>4, <1>5, <1>6, <1>9, <2>1, <3>3, <3>4 DEF Cell, T!LineAfter
  <2>3. CASE ~(j + 1 < NUM_ROWS)
    <3>1. j + 1 = NUM_ROWS
      BY <1>1, <1>2, <2>3
    <3>2. p + 1 = M
      <4>1. C * (j + 1) = C * j + C
        BY <1>1, <1>2
      <4>2. QED BY <2>1, <3>1, <4>1
    <3>3. M % M = 0 /\ NUM_ROWS % NUM_ROWS = 0
      <4>1. M * 1 + 0 = M /\ NUM_ROWS * 1 + 0 = NUM_ROWS
        BY <1>1
      <4>2. (M * 1 + 0) % M = 0
        <5> HIDE DEF M
        <5> QED BY <1>1, Divides
      <4>3. (NUM_ROWS * 1 + 0) % NUM_ROWS = 0
        BY <1>1, Divides
      <4>4. QED BY <4>1, <4>2, <4>3
    <3>4. 0 * C = 0
      BY <1>1
    <3>5. QED BY <1>5, <1>6, <1>9, <3>1, <3>2, <3>3, <3>4 DEF Cell, T!LineAfter
  <2>4. QED BY <2>2, <2>3
<1>10. QED BY <1>8, <1>9

OnCell(s) ==
  /\ s = [x |-> s.x, y |-> s.y, put |-> s.put]
  /\ s.x \in 0 .. NUM_COLUMNS - 1 /\ s.y \in 0 .. NUM_ROWS - 1
  /\ s.put = [c \in Cell |-> s.put[c]]

CellOf(s) == s.y * NUM_COLUMNS + s.x

\* A character is put where the cursor is, and the cursor goes to the next cell,
\* or to the next line.
LEMMA PrintsOne ==
  ASSUME NEW s, OnCell(s), NEW char
  PROVE  /\ OnCell(printc(s, char))
         /\ CellOf(printc(s, char)) =
              IF char = "\n" THEN T!LineAfter(CellOf(s))
              ELSE (CellOf(s) + 1) % (NUM_COLUMNS * NUM_ROWS)
         /\ \A c \in Cell :
              printc(s, char).put[c] =
                IF char # "\n" /\ c = CellOf(s) THEN <<char, Attribute>> ELSE s.put[c]
<1> DEFINE k == printc(s, char)
           line == [x |-> 0, y |-> (s.y + 1) % NUM_ROWS, put |-> s.put]
           putting == [s.put EXCEPT ![CellOf(s)] = <<char, Attribute>>]
<1>1. /\ s = [x |-> s.x, y |-> s.y, put |-> s.put]
      /\ s.x \in 0 .. NUM_COLUMNS - 1 /\ s.y \in 0 .. NUM_ROWS - 1
      /\ s.put = [c \in Cell |-> s.put[c]]
  BY DEF OnCell
<1>2. NUM_COLUMNS \in Nat /\ NUM_COLUMNS > 0 /\ NUM_ROWS \in Nat /\ NUM_ROWS > 0
  BY ScreenSize
<1>3. (s.y + 1) % NUM_ROWS \in 0 .. NUM_ROWS - 1 /\ 0 \in 0 .. NUM_COLUMNS - 1
  BY <1>1, <1>2
<1>4. CellOf(s) \in Cell /\ DOMAIN s.put = Cell
  BY <1>1, CellAt DEF CellOf
<1>5. putting = [c \in Cell |-> putting[c]] /\ \A c \in Cell :
        putting[c] = IF c = CellOf(s) THEN <<char, Attribute>> ELSE s.put[c]
  <2> HIDE DEF CellOf
  <2> QED BY <1>1, <1>4
<1>6. ((s.y + 1) % NUM_ROWS) * NUM_COLUMNS + 0 = ((s.y + 1) % NUM_ROWS) * NUM_COLUMNS
  BY <1>2, <1>3
<1>7. CASE char = "\n"
  <2>1. k = line
    BY <1>1, <1>7 DEF printc, NewLine
  <2>2. OnCell(line)
    BY <1>1, <1>3 DEF OnCell
  <2>3. CellOf(line) = T!LineAfter(CellOf(s))
    BY <1>1, <1>6, CellAt DEF CellOf
  <2> HIDE DEF k
  <2>4. QED BY <1>7, <2>1, <2>2, <2>3 DEF k
<1>8. CASE char # "\n" /\ s.x + 1 >= NUM_COLUMNS
  <2> DEFINE l == [x |-> 0, y |-> (s.y + 1) % NUM_ROWS, put |-> putting]
  <2>1. k = l
    <3>1. [s EXCEPT !.put[s.y * NUM_COLUMNS + s.x] = <<char, Attribute>>]
            = [x |-> s.x, y |-> s.y, put |-> putting]
      BY <1>1 DEF CellOf
    <3> HIDE DEF putting
    <3>2. QED BY <1>8, <3>1 DEF printc, NewLine
  <2>2. OnCell(l)
    <3> HIDE DEF putting
    <3> QED BY <1>3, <1>5 DEF OnCell
  <2>3. CellOf(l) = (CellOf(s) + 1) % (NUM_COLUMNS * NUM_ROWS)
    BY <1>1, <1>6, <1>8, CellAt DEF CellOf
  <2>4. l.put = putting
    OBVIOUS
  <2> HIDE DEF k, putting, l
  <2>5. QED BY <1>5, <1>8, <2>1, <2>2, <2>3, <2>4 DEF k
<1>9. CASE char # "\n" /\ ~(s.x + 1 >= NUM_COLUMNS)
  <2> DEFINE l == [x |-> s.x + 1, y |-> s.y, put |-> putting]
  <2>1. k = l
    <3>1. [s EXCEPT !.put[s.y * NUM_COLUMNS + s.x] = <<char, Attribute>>]
            = [x |-> s.x, y |-> s.y, put |-> putting]
      BY <1>1 DEF CellOf
    <3> HIDE DEF putting
    <3>2. QED BY <1>9, <3>1 DEF printc
  <2>2. OnCell(l)
    <3>1. s.x + 1 \in 0 .. NUM_COLUMNS - 1
      BY <1>1, <1>2, <1>9
    <3> HIDE DEF putting
    <3>2. QED BY <1>1, <1>5, <3>1 DEF OnCell
  <2>3. CellOf(l) = (CellOf(s) + 1) % (NUM_COLUMNS * NUM_ROWS)
    <3>1. s.x + 1 < NUM_COLUMNS
      BY <1>1, <1>2, <1>9
    <3>2. QED BY <1>1, <3>1, CellAt DEF CellOf
  <2>4. l.put = putting
    OBVIOUS
  <2> HIDE DEF k, putting, l
  <2>5. QED BY <1>5, <1>9, <2>1, <2>2, <2>3, <2>4 DEF k
<1>10. QED BY <1>7, <1>8, <1>9

\* A string appears as the terminal shows it.
LEMMA PrintsText ==
  ASSUME x \in 0 .. NUM_COLUMNS - 1, y \in 0 .. NUM_ROWS - 1,
         NEW string, Len(string) \in Nat, DOMAIN string = 1 .. Len(string),
         NEW after, after = FoldLeft(printc, Screen, string)
  PROVE  /\ OnCell(after)
         /\ CellOf(after) = T!After(string)[Len(string)]
         /\ after.put = T!Text(string, Attribute)
<1> DEFINE n == Len(string)
<1>1. PICK g : /\ after = g[n]
               /\ g[0] = Screen
               /\ \A i \in 1 .. n : g[i] = printc(g[i - 1], string[i])
  BY PrintsInOrder
<1> HIDE DEF n
<1>2. n \in Nat
  BY DEF n
<1>3. OnCell(Screen) /\ CellOf(Screen) = y * NUM_COLUMNS + x
  BY DEF OnCell, CellOf, Screen, Nothing
<1>4. \A i \in 0 .. n : OnCell(g[i])
  <2> DEFINE bad == {i \in 0 .. n : ~OnCell(g[i])}
  <2>1. SUFFICES ASSUME bad # {} PROVE FALSE
    OBVIOUS
  <2>2. bad \in SUBSET Nat
    OBVIOUS
  <2>3. PICK i \in bad : \A j \in bad : i <= j
    <3> HIDE DEF bad
    <3> QED BY <2>1, <2>2, Least
  <2>4. i \in 0 .. n /\ ~OnCell(g[i])
    OBVIOUS
  <2>5. i # 0
    BY <1>1, <1>3, <2>4
  <2>6. i \in 1 .. n /\ i - 1 \in 0 .. n /\ ~(i <= i - 1)
    BY <1>2, <2>4, <2>5
  <2>7. OnCell(g[i - 1])
    BY <2>3, <2>6
  <2>8. g[i] = printc(g[i - 1], string[i])
    BY <1>1, <2>6
  <2>9. OnCell(printc(g[i - 1], string[i]))
    BY <2>7, PrintsOne
  <2>10. QED BY <2>4, <2>8, <2>9
<1> DEFINE Follow(f, i) ==
             IF i = 0 THEN y * NUM_COLUMNS + x
             ELSE IF string[i] = "\n" THEN T!LineAfter(f[i - 1])
                  ELSE (f[i - 1] + 1) % (NUM_COLUMNS * NUM_ROWS)
           Whole(f) == f = [i \in 0 .. n |-> Follow(f, i)]
           cell == [i \in 0 .. n |-> CellOf(g[i])]
           at == CHOOSE f : Whole(f)
<1>5. \A i \in 0 .. n : cell[i] = Follow(cell, i)
  <2> TAKE i \in 0 .. n
  <2>1. CASE i = 0
    BY <1>1, <1>3, <2>1
  <2>2. CASE i # 0
    <3>1. i \in 1 .. n /\ i - 1 \in 0 .. n
      BY <1>2, <2>2
    <3>2. g[i] = printc(g[i - 1], string[i]) /\ OnCell(g[i - 1])
      BY <1>1, <1>4, <3>1
    <3>3. cell[i - 1] = CellOf(g[i - 1]) /\ cell[i] = CellOf(g[i])
      BY <3>1
    <3>4. CellOf(g[i]) = IF string[i] = "\n" THEN T!LineAfter(CellOf(g[i - 1]))
                         ELSE (CellOf(g[i - 1]) + 1) % (NUM_COLUMNS * NUM_ROWS)
      <4> DEFINE before == g[i - 1]
                 char == string[i]
      <4>1. g[i] = printc(before, char) /\ OnCell(before)
        BY <3>2
      <4> HIDE DEF before, char
      <4>2. CellOf(printc(before, char)) = IF char = "\n" THEN T!LineAfter(CellOf(before))
                         ELSE (CellOf(before) + 1) % (NUM_COLUMNS * NUM_ROWS)
        BY <4>1, PrintsOne
      <4>3. QED BY <4>1, <4>2 DEF before, char
    <3> HIDE DEF cell
    <3>5. QED BY <2>2, <3>3, <3>4
  <2>3. QED BY <2>1, <2>2
<1>6. Whole(at)
  <2>1. Whole(cell)
    <3> HIDE DEF Follow
    <3> QED BY <1>5
  <2>2. \E f : Whole(f)
    <3> HIDE DEF Whole, cell
    <3> QED BY <2>1
  <2> HIDE DEF Whole
  <2>3. QED BY <2>2
<1>7. T!After(string) = at
  BY DEF T!After, n
<1> HIDE DEF at
<1>8. \A i \in 0 .. n : at[i] = Follow(at, i)
  <2> HIDE DEF Follow
  <2> QED BY <1>6
<1>9. \A i \in 0 .. n : at[i] = CellOf(g[i])
  <2> DEFINE bad == {i \in 0 .. n : at[i] # cell[i]}
  <2>1. ASSUME bad # {} PROVE FALSE
    <3>1. bad \in SUBSET Nat
      OBVIOUS
    <3>2. PICK i \in bad : \A j \in bad : i <= j
      <4> HIDE DEF bad
      <4> QED BY <2>1, <3>1, Least
    <3>3. i \in 0 .. n /\ at[i] # cell[i]
      <4> HIDE DEF cell
      <4> QED OBVIOUS
    <3> HIDE DEF cell
    <3>4. i # 0
      BY <1>5, <1>8, <3>3
    <3>5. i - 1 \in 0 .. n /\ ~(i <= i - 1)
      BY <1>2, <3>3, <3>4
    <3>6. at[i - 1] = cell[i - 1]
      BY <3>2, <3>5
    <3>7. QED BY <1>5, <1>8, <3>3, <3>6
  <2>2. \A i \in 0 .. n : at[i] = cell[i]
    <3> HIDE DEF cell
    <3> QED BY <2>1
  <2>3. QED BY <2>2
<1> DEFINE Shown(c, i) == {j \in 1 .. i : string[j] # "\n" /\ at[j - 1] = c}
           Latest(c, i) == CHOOSE j \in Shown(c, i) : \A k \in Shown(c, i) : k <= j
           Char(c, i) == IF Shown(c, i) = {} THEN Blank ELSE <<string[Latest(c, i)], Attribute>>
<1>10. \A i \in 0 .. n : \A c \in Cell : g[i].put[c] = Char(c, i)
  <2> DEFINE bad == {i \in 0 .. n : ~\A c \in Cell : g[i].put[c] = Char(c, i)}
  <2>1. SUFFICES ASSUME bad # {} PROVE FALSE
    <3> HIDE DEF Char
    <3> QED OBVIOUS
  <2>2. bad \in SUBSET Nat
    OBVIOUS
  <2>3. PICK i \in bad : \A j \in bad : i <= j
    <3> HIDE DEF bad
    <3> QED BY <2>1, <2>2, Least
  <2>4. i \in 0 .. n /\ ~\A c \in Cell : g[i].put[c] = Char(c, i)
    <3> HIDE DEF Char
    <3> QED OBVIOUS
  <2>5. i # 0
    <3>1. \A c \in Cell : Screen.put[c] = Blank
      BY DEF Screen, Nothing
    <3>2. \A c \in Cell : Shown(c, 0) = {}
      OBVIOUS
    <3> HIDE DEF Shown
    <3>3. QED BY <1>1, <2>4, <3>1, <3>2
  <2>6. i \in 1 .. n /\ i - 1 \in 0 .. n /\ ~(i <= i - 1) /\ i \in Nat
    BY <1>2, <2>4, <2>5
  <2>7. \A c \in Cell : g[i - 1].put[c] = Char(c, i - 1)
    <3> HIDE DEF Char
    <3> QED BY <2>3, <2>6
  <2>8. \A c \in Cell :
          g[i].put[c] = IF string[i] # "\n" /\ c = at[i - 1]
                        THEN <<string[i], Attribute>> ELSE g[i - 1].put[c]
    BY <1>1, <1>4, <1>9, <2>6, PrintsOne
  <2>9. ASSUME NEW c \in Cell PROVE g[i].put[c] = Char(c, i)
    <3>1. CASE string[i] # "\n" /\ c = at[i - 1]
      <4>1. i \in Shown(c, i) /\ \A k \in Shown(c, i) : k \in Int /\ k <= i
        BY <2>6, <3>1
      <4>2. \A j \in Shown(c, i) : (\A k \in Shown(c, i) : k <= j) => j = i
        <5> HIDE DEF Shown
        <5> QED BY <4>1, <2>6
      <4>3. Latest(c, i) = i
        <5> HIDE DEF Shown
        <5> QED BY <4>1, <4>2
      <4> HIDE DEF Shown, Latest
      <4>4. QED BY <2>8, <3>1, <4>1, <4>3
    <3>2. CASE ~(string[i] # "\n" /\ c = at[i - 1])
      <4>1. Shown(c, i) = Shown(c, i - 1)
        <5>1. \A j : j \in 1 .. i <=> (j \in 1 .. i - 1 \/ j = i)
          BY <2>6
        <5>2. QED BY <3>2, <5>1
      <4>2. Char(c, i) = Char(c, i - 1)
        <5> HIDE DEF Shown
        <5> QED BY <4>1
      <4>3. g[i].put[c] = g[i - 1].put[c]
        BY <2>8, <3>2
      <4> HIDE DEF Char
      <4>4. QED BY <2>7, <4>2, <4>3
    <3>3. QED BY <3>1, <3>2
  <2> HIDE DEF Char
  <2>10. QED BY <2>4, <2>9
<1>11. OnCell(after)
  BY <1>1, <1>2, <1>4
<1>12. after.put = T!Text(string, Attribute)
  <2>1. T!Cell = Cell
    BY DEF T!Cell, Cell
  <2>2. T!Text(string, Attribute) = [c \in Cell |-> Char(c, n)]
    BY <1>7, <2>1 DEF T!Text, n
  <2>3. after.put = [c \in Cell |-> after.put[c]]
    BY <1>11 DEF OnCell
  <2>4. \A c \in Cell : after.put[c] = Char(c, n)
    <3> HIDE DEF Char
    <3> QED BY <1>1, <1>2, <1>10
  <2> HIDE DEF Char
  <2>5. QED BY <2>2, <2>3, <2>4
<1>13. QED BY <1>1, <1>2, <1>7, <1>9, <1>11, <1>12 DEF n

----------------------------------------------------------------------------
(* The console is a terminal.                                              *)

\* The pieces that write copies are the string.
LEMMA CopiesAll ==
  ASSUME NEW U, NEW string \in Seq(U)
  PROVE  Copied(string) = string
<1> DEFINE W == WRITE_AUX_BUFF_MAX_SIZE
           X == {string[i] : i \in DOMAIN string}
           Piece(f, s) == IF Len(s) > W
                          THEN SubSeq(s, 1, W) \o f[SubSeq(s, W + 1, Len(s))] ELSE s
           Whole(f) == f = [s \in Seq(X) |-> Piece(f, s)]
           from == CHOOSE f : Whole(f)
<1>1. W \in Nat /\ W > 0
  BY ConsoleAssumption
<1>2. string \in Seq(X)
  OBVIOUS
<1>3. ASSUME NEW s \in Seq(X), Len(s) > W
      PROVE  /\ SubSeq(s, W + 1, Len(s)) \in Seq(X)
             /\ Len(SubSeq(s, W + 1, Len(s))) \in Nat
             /\ Len(SubSeq(s, W + 1, Len(s))) < Len(s)
             /\ SubSeq(s, 1, W) \o SubSeq(s, W + 1, Len(s)) = s
  <2> HIDE DEF W, X
  <2> DEFINE a == SubSeq(s, 1, W)
             b == SubSeq(s, W + 1, Len(s))
  <2>1. Len(s) \in Nat
    OBVIOUS
  <2>2. a \in Seq(X) /\ Len(a) = W /\ \A i \in 1 .. W : a[i] = s[i]
    BY <1>1, <1>3, <2>1
  <2>3. /\ b \in Seq(X) /\ Len(b) = Len(s) - W
        /\ \A i \in 1 .. Len(s) - W : b[i] = s[i + W]
    BY <1>1, <1>3, <2>1
  <2> HIDE DEF a, b
  <2>4. a \o b \in Seq(X) /\ Len(a \o b) = Len(s)
    <3>1. a \o b \in Seq(X) /\ Len(a \o b) = Len(a) + Len(b)
      BY <2>2, <2>3, ConcatProperties
    <3>2. QED BY <1>1, <2>1, <2>2, <2>3, <3>1
  <2>5. \A i \in 1 .. Len(s) : (a \o b)[i] = s[i]
    <3> TAKE i \in 1 .. Len(s)
    <3>1. CASE i <= W
      BY <1>1, <2>1, <2>2, <2>3, <3>1
    <3>2. CASE ~(i <= W)
      <4>1. i - W \in 1 .. Len(s) - W /\ (i - W) + W = i
        BY <1>1, <2>1, <3>2
      <4>2. (a \o b)[i] = b[i - W]
        BY <1>1, <2>1, <2>2, <2>3, <3>2
      <4>3. QED BY <2>3, <4>1, <4>2
    <3>3. QED BY <3>1, <3>2
  <2>6. a \o b = s
    BY <2>4, <2>5, SeqEqual
  <2>7. Len(b) \in Nat /\ Len(b) < Len(s)
    BY <1>1, <1>3, <2>1, <2>3
  <2>8. QED BY <2>3, <2>6, <2>7 DEF a, b
<1>4. Whole(from)
  <2> DEFINE same == [s \in Seq(X) |-> s]
  <2>1. ASSUME NEW s \in Seq(X) PROVE same[s] = Piece(same, s)
    <3>1. CASE Len(s) > W
      <4>1. same[SubSeq(s, W + 1, Len(s))] = SubSeq(s, W + 1, Len(s))
        BY <1>3, <3>1
      <4>2. QED BY <1>3, <3>1, <4>1
    <3>2. CASE ~(Len(s) > W)
      BY <3>2
    <3>3. QED BY <3>1, <3>2
  <2>2. Whole(same)
    <3> HIDE DEF Piece
    <3> QED BY <2>1
  <2>3. \E f : Whole(f)
    <3> HIDE DEF Whole, same
    <3> QED BY <2>2
  <2> HIDE DEF Whole
  <2>4. QED BY <2>3
<1>5. Copied(string) = from[string]
  BY DEF Copied
<1> HIDE DEF from
<1>6. \A s \in Seq(X) : from[s] = Piece(from, s)
  <2> HIDE DEF Piece
  <2> QED BY <1>4
<1> DEFINE bad == {k \in Nat : \E s \in Seq(X) : Len(s) = k /\ from[s] # s}
<1>7. ASSUME bad # {} PROVE FALSE
  <2>1. bad \in SUBSET Nat
    OBVIOUS
  <2>2. PICK k \in bad : \A j \in bad : k <= j
    <3> HIDE DEF bad
    <3> QED BY <1>7, <2>1, Least
  <2>3. PICK s \in Seq(X) : Len(s) = k /\ from[s] # s
    OBVIOUS
  <2>4. Len(s) > W
    BY <1>6, <2>3
  <2> DEFINE b == SubSeq(s, W + 1, Len(s))
  <2>5. b \in Seq(X) /\ Len(b) \in Nat /\ Len(b) < k
    BY <1>3, <2>3, <2>4
  <2>6. Len(b) \notin bad
    <3> HIDE DEF b, bad
    <3>1. k \in Nat
      BY <2>1
    <3>2. QED BY <2>2, <2>5, <3>1
  <2>7. from[b] = b
    <3> HIDE DEF b
    <3> QED BY <2>5, <2>6
  <2>8. from[s] = SubSeq(s, 1, W) \o from[b]
    BY <1>6, <2>4
  <2>9. SubSeq(s, 1, W) \o b = s
    BY <1>3, <2>4
  <2>10. QED BY <2>3, <2>7, <2>8, <2>9
<1>8. from[string] = string
  <2>1. Len(string) \in Nat /\ Len(string) \notin bad
    <3>1. Len(string) \in Nat
      BY <1>2
    <3> HIDE DEF bad
    <3>2. QED BY <1>7, <3>1
  <2>2. QED BY <1>2, <2>1
<1>9. QED BY <1>5, <1>8

ScreenInv ==
  /\ x \in 0 .. NUM_COLUMNS - 1 /\ y \in 0 .. NUM_ROWS - 1
  /\ foreground \in 0 .. NUM_COLOURS /\ background \in 0 .. NUM_COLOURS

\* A text is in the colours that were set, if both are colours.
LEMMA Attributes ==
  ASSUME foreground \in 0 .. NUM_COLOURS, background \in 0 .. NUM_COLOURS
  PROVE  /\ Attribute \in (0 .. NUM_COLOURS - 1) \X (0 .. NUM_COLOURS - 1)
         /\ foreground # NUM_COLOURS /\ background # NUM_COLOURS =>
              Attribute = <<foreground, background>>
<1> DEFINE N == NUM_COLOURS
           back == background % N
<1>1. N \in Nat /\ N > 0 /\ N % 2 = 0
  BY ConsoleAssumption
<1>2. foreground % N \in 0 .. N - 1 /\ back \in 0 .. N - 1
  BY <1>1
<1>3. back % 2 = 0 => back + 1 \in 0 .. N - 1
  <2> HIDE DEF back, N
  <2> QED BY <1>1, <1>2
<1>4. ASSUME NEW c \in 0 .. N - 1 PROVE c % N = c /\ c \div N = 0
  <2>1. N * 0 + c = c
    BY <1>1
  <2>2. QED BY <1>1, <2>1, Divides
<1>5. foreground # N => foreground % N = foreground /\ foreground \div N = 0
  BY <1>1, <1>4
<1>6. background # N => back = background
  BY <1>1, <1>4
<1>7. Attribute = <<foreground % N,
                    IF foreground \div N = 1 /\ back % 2 = 0 THEN back + 1 ELSE back>>
  BY DEF Attribute
<1> HIDE DEF back
<1>8. QED BY <1>2, <1>3, <1>5, <1>6, <1>7

\* What is printed is printed by the terminal.
LEMMA PutsText ==
  ASSUME ScreenInv, NEW U, NEW string \in Seq(U), Puts(string)
  PROVE  T!Puts(string) /\ ScreenInv'
<1> DEFINE after == FoldLeft(printc, Screen, string)
<1>1. Len(string) \in Nat /\ DOMAIN string = 1 .. Len(string)
  OBVIOUS
<1>2. /\ OnCell(after)
      /\ CellOf(after) = T!After(string)[Len(string)]
      /\ after.put = T!Text(string, Attribute)
  <2> HIDE DEF after
  <2>1. x \in 0 .. NUM_COLUMNS - 1 /\ y \in 0 .. NUM_ROWS - 1
    BY DEF ScreenInv
  <2>2. QED BY <1>1, <2>1, PrintsText DEF after
<1>3. /\ x' = after.x /\ y' = after.y /\ put' = after.put
      /\ foreground' = foreground /\ background' = background
  BY DEF Puts
<1> HIDE DEF after
<1>4. y' * NUM_COLUMNS + x' = T!After(string)[Len(string)]
  BY <1>2, <1>3 DEF CellOf
<1>5. foreground \in 0 .. NUM_COLOURS /\ background \in 0 .. NUM_COLOURS
  BY DEF ScreenInv
<1>6. /\ Attribute \in (0 .. NUM_COLOURS - 1) \X (0 .. NUM_COLOURS - 1)
      /\ (foreground = NUM_COLOURS \/ background = NUM_COLOURS)
           \/ Attribute = <<foreground, background>>
  BY <1>5, Attributes
<1>7. put' = T!Text(string, Attribute)
  BY <1>2, <1>3
<1>8. T!Puts(string)
  BY <1>3, <1>4, <1>6, <1>7 DEF T!Puts
<1>9. ScreenInv'
  BY <1>2, <1>3, <1>5 DEF ScreenInv, OnCell
<1>10. QED BY <1>8, <1>9

LEMMA StillQuiet ==
  ASSUME ScreenInv, Quiet
  PROVE  T!Still /\ ScreenInv'
BY DEF Quiet, Nothing, Cell, T!Still, T!Nothing, T!Cell, ScreenInv

LEMMA TextIsSeq ==
  ASSUME NEW n \in Nat, NEW string \in [1 .. n -> Chars]
  PROVE  string \in Seq(Chars) /\ Len(string) = n
OBVIOUS

LEMMA TextsOf ==
  ASSUME NEW b \in Buffers, NEW n \in 0 .. b[2], NEW string \in [1 .. n -> Chars]
  PROVE  string \in Texts
BY DEF Texts

\* The message of a fault, after what had been printed.
LEMMA FaultText ==
  ASSUME ScreenInv, NEW string \in Texts \cup {<<>>}, string \in Seq(Chars),
         PageFault(string)
  PROVE  T!Next /\ ScreenInv'
<1> DEFINE end == <<"\n", Letter, "\n">>
           whole == string \o end
           U == Chars \cup {"\n", Letter}
<1>1. end \in Seq(U)
  OBVIOUS
<1>2. string \in Seq(U)
  OBVIOUS
<1>3. whole \in Seq(U)
  <2> HIDE DEF end, U
  <2> QED BY <1>1, <1>2, ConcatProperties
<1>4. Puts(whole)
  BY DEF PageFault
<1>5. whole \in Strings
  BY DEF Strings
<1> HIDE DEF whole
<1>6. T!Puts(whole) /\ ScreenInv'
  BY <1>3, <1>4, PutsText
<1>7. QED BY <1>5, <1>6 DEF T!Next

LEMMA PerrorText ==
  ASSUME ScreenInv, NEW t \in Thread, perror(t)
  PROVE  T!Next /\ ScreenInv'
<1> DEFINE string == <<Letter, "\n">>
           U == {"\n", Letter}
<1>1. string \in Seq(U)
  OBVIOUS
<1>2. string \in Strings
  BY DEF Strings
<1>3. Puts(string)
  <2> HIDE DEF string, U
  <2>1. Copied(string) = string
    BY <1>1, CopiesAll
  <2>2. Puts(Copied(string))
    BY DEF perror, string
  <2>3. QED BY <2>1, <2>2
<1> HIDE DEF string
<1>4. T!Puts(string) /\ ScreenInv'
  BY <1>1, <1>3, PutsText
<1>5. QED BY <1>2, <1>4 DEF T!Next

LEMMA WriteSize ==
  ASSUME NEW b \in Buffers, WriteError(b) = 0
  PROVE  b[1] \in Nat /\ b[2] \in Nat /\ b[2] > 0
<1>1. b[1] \in Nat /\ b[2] \in Int
  BY Layout
<1>2. ~(b[2] <= 0)
  BY DEF WriteError, EFAULT, EINVAL
<1>3. QED BY <1>1, <1>2

LEMMA WriteText ==
  ASSUME ScreenInv, NEW t \in Thread, NEW b \in Buffers, NEW string \in [1 .. b[2] -> Chars],
         Write(t, b, string)
  PROVE  T!Next /\ ScreenInv'
<1>1. b[2] \in Nat
  BY WriteSize DEF Write
<1>2. string \in Seq(Chars)
  BY <1>1, TextIsSeq
<1>3. string \in Strings
  <2>1. b[2] \in 0 .. b[2]
    BY <1>1
  <2>2. QED BY <2>1, TextsOf DEF Strings
<1>4. Puts(string)
  <2>1. Copied(string) = string
    BY <1>2, CopiesAll
  <2>2. QED BY <2>1 DEF Write
<1>5. T!Puts(string) /\ ScreenInv'
  BY <1>2, <1>4, PutsText
<1>6. QED BY <1>3, <1>5 DEF T!Next

LEMMA WriteFaultText ==
  ASSUME ScreenInv, NEW t \in Thread, NEW b \in Buffers, NEW string \in [1 .. b[2] -> Chars],
         WriteFault(t, b, string)
  PROVE  T!Next /\ ScreenInv'
<1> DEFINE there == {a \in Bytes(b) : Mapped(a)}
           good == Cardinality(there)
           k == good - (good % WRITE_AUX_BUFF_MAX_SIZE)
           piece == SubSeq(string, 1, k)
<1>1. b[1] \in Nat /\ b[2] \in Nat /\ b[2] > 0
  BY WriteSize DEF WriteFault
<1>2. good \in 0 .. b[2]
  <2>1. IsFiniteSet(Bytes(b)) /\ Cardinality(Bytes(b)) = b[2]
    <3> DEFINE first == b[1]
               last == b[1] + b[2] - 1
    <3>1. first \in Int /\ last \in Int /\ last - first + 1 = b[2] /\ ~(first > last)
      BY <1>1
    <3>2. Bytes(b) = first .. last
      BY DEF Bytes
    <3> HIDE DEF first, last
    <3>3. IsFiniteSet(first .. last) /\ Cardinality(first .. last) = last - first + 1
      BY <3>1, FS_Interval
    <3>4. QED BY <3>1, <3>2, <3>3
  <2>2. there \subseteq Bytes(b)
    OBVIOUS
  <2>3. IsFiniteSet(there) /\ good <= b[2]
    <3> HIDE DEF there
    <3> QED BY <2>1, <2>2, FS_Subset
  <2>4. good \in Nat
    <3> HIDE DEF there
    <3> QED BY <2>3, FS_CardinalityType
  <2>5. QED BY <1>1, <2>3, <2>4
<1> HIDE DEF good
<1>3. k \in 0 .. b[2]
  <2> DEFINE W == WRITE_AUX_BUFF_MAX_SIZE
  <2>1. W \in Nat /\ W > 0
    BY ConsoleAssumption
  <2>2. good \in Nat /\ good % W \in 0 .. W - 1
    BY <1>2, <2>1
  <2>3. CASE good < W
    <3>1. W * 0 + good = good /\ good \in 0 .. W - 1
      BY <2>1, <2>2, <2>3
    <3>2. good % W = good
      BY <2>1, <3>1, Divides
    <3>3. k = good - good
      BY <3>2
    <3> HIDE DEF k
    <3>4. QED BY <1>1, <1>2, <3>3
  <2>4. CASE ~(good < W)
    <3> HIDE DEF W
    <3>1. good % W <= good
      BY <2>1, <2>2, <2>4
    <3>2. k = good - (good % W) /\ good % W \in Nat
      BY <2>1, <2>2 DEF W
    <3> HIDE DEF k
    <3>3. QED BY <1>1, <1>2, <2>2, <3>1, <3>2
  <2>5. QED BY <2>3, <2>4
<1> HIDE DEF k
<1>4. piece \in Seq(Chars) /\ Len(piece) = k /\ piece \in [1 .. k -> Chars]
  <2>1. \A i \in 1 .. k : string[i] \in Chars
    BY <1>1, <1>3
  <2>2. piece \in Seq(Chars) /\ Len(piece) = k
    BY <1>1, <1>3, <2>1, SubSeqProperties
  <2> HIDE DEF piece
  <2>3. QED BY <2>2
<1>5. piece \in Texts
  <2> HIDE DEF piece
  <2> QED BY <1>3, <1>4, TextsOf
<1>6. PageFault(piece)
  BY DEF WriteFault, k, good
<1> HIDE DEF piece
<1>7. QED BY <1>4, <1>5, <1>6, FaultText

LEMMA TerminalStep ==
  ASSUME ScreenInv, [SysNext]_sysvars
  PROVE  [T!Next]_T!tvars /\ ScreenInv'
<1>1. ASSUME UNCHANGED sysvars PROVE UNCHANGED T!tvars /\ ScreenInv'
  BY <1>1 DEF sysvars, convars, T!tvars, ScreenInv
<1>2. ASSUME Quiet PROVE T!Next /\ ScreenInv'
  BY <1>2, StillQuiet DEF T!Next
<1>3. ASSUME NEW t \in Thread, Store(t) PROVE Quiet
  BY <1>3 DEF Store
<1>4. ASSUME NEW t \in Thread, WriteBadFile(t) PROVE Quiet
  BY <1>4 DEF WriteBadFile
<1>5. ASSUME NEW t \in Thread, NEW b, WriteFails(t, b) \/ ReadFails(t, b) \/ ReadSleeps(t, b)
      PROVE  Quiet
  BY <1>5 DEF WriteFails, ReadFails, ReadSleeps
<1>6. ASSUME NEW t \in Thread, ReadReturns(t) PROVE Quiet
  BY <1>6 DEF ReadReturns
<1>7. ASSUME NEW t \in Thread, ReadFault(t) PROVE T!Next /\ ScreenInv'
  <2>1. PageFault(<<>>) /\ <<>> \in Seq(Chars)
    BY <1>7 DEF ReadFault
  <2>2. QED BY <2>1, FaultText
<1>8. ASSUME NEW t \in Thread, NEW i \in 0 .. NUM_COLUMNS, NEW j \in 0 .. NUM_ROWS,
             Gotoxy(t, i, j)
      PROVE  T!Next /\ ScreenInv'
  <2>1. OnScreen(i, j) /\ x' = i /\ y' = j /\ put' = Nothing /\ UNCHANGED <<foreground, background>>
    BY <1>8 DEF Gotoxy, GotoXY
  <2>2. i \in 0 .. NUM_COLUMNS - 1 /\ j \in 0 .. NUM_ROWS - 1
    BY <2>1, ScreenSize DEF OnScreen
  <2>3. y' * NUM_COLUMNS + x' \in T!Cell
    BY <2>1, <2>2, CellAt DEF Cell, T!Cell
  <2>4. put' = T!Nothing
    BY <2>1 DEF Nothing, Cell, T!Nothing, T!Cell
  <2>5. T!Move
    BY <2>1, <2>3, <2>4 DEF T!Move
  <2>6. ScreenInv'
    BY <2>1, <2>2 DEF ScreenInv
  <2>7. QED BY <2>5, <2>6 DEF T!Next
<1>9. ASSUME NEW t \in Thread, NEW i, NEW j, GotoxyFails(t, i, j) PROVE Quiet
  BY <1>9 DEF GotoxyFails
<1>10. ASSUME NEW t \in Thread, NEW c \in Paints, Set_color(t, c[1], c[2])
       PROVE  T!Next /\ ScreenInv'
  <2>1. /\ IsColour(c[1]) /\ IsColour(c[2]) /\ put' = Nothing /\ UNCHANGED <<x, y>>
        /\ foreground' = c[1] /\ background' = c[2]
    BY <1>10 DEF Set_color, SetColour
  <2>2. NUM_COLOURS \in Nat /\ c[1] \in Int /\ c[2] \in Int
    BY ConsoleAssumption, SyscallsAssumption
  <2>3. c[1] \in 0 .. NUM_COLOURS /\ c[2] \in 0 .. NUM_COLOURS
    BY <2>1, <2>2 DEF IsColour
  <2>4. put' = T!Nothing
    BY <2>1 DEF Nothing, Cell, T!Nothing, T!Cell
  <2>5. /\ (foreground' = NUM_COLOURS \/ background' = NUM_COLOURS) \in BOOLEAN
        /\ ~(foreground' = NUM_COLOURS \/ background' = NUM_COLOURS) =>
             <<foreground', background'>> \in (0 .. NUM_COLOURS - 1) \X (0 .. NUM_COLOURS - 1)
    BY <2>1, <2>2, <2>3
  <2>6. T!Colour
    BY <2>1, <2>4, <2>5 DEF T!Colour
  <2>7. ScreenInv'
    BY <2>1, <2>3 DEF ScreenInv
  <2>8. QED BY <2>6, <2>7 DEF T!Next
<1>11. ASSUME NEW t \in Thread, NEW c, Set_colorFails(t, c[1], c[2]) PROVE Quiet
  BY <1>11 DEF Set_colorFails
<1>12. ASSUME NEW t \in Thread, NEW n, DynMem(t, n) \/ DynMemFails(t, n) PROVE Quiet
  BY <1>12 DEF DynMem, DynMemFails
<1>13. ASSUME NEW t \in Thread, NEW n, RawCall(t, n) \/ OtherFails(t) PROVE Quiet
  BY <1>13 DEF RawCall, OtherFails
<1>14. CASE SysNext
  <2>1. CASE Halted
    BY <1>1, <2>1 DEF Halted
  <2>2. CASE ~Halted
    BY <1>2, <1>3, <1>4, <1>5, <1>6, <1>7, <1>8, <1>9, <1>10, <1>11, <1>12, <1>13, <1>14,
       <2>2, PerrorText, WriteText, WriteFaultText, Zenon DEF SysNext
  <2>3. QED BY <2>1, <2>2
<1>15. QED BY <1>1, <1>14

\* The console is a terminal, whatever programs write, in whatever pieces, wherever
\* they move the cursor and whatever colours they set (io.c:28-47;
\* sys.c:309-330, 366-381).
THEOREM TerminalImplemented == SysSpec => ImplementsTerminal
<1>1. ASSUME SysInit PROVE T!Init /\ ScreenInv
  <2>1. /\ x \in 0 .. NUM_COLUMNS - 1 /\ y \in 0 .. NUM_ROWS - 1
        /\ foreground \in 1 .. NUM_COLOURS - 1 /\ background = 0
        /\ put = Nothing
    BY <1>1 DEF SysInit, ConsoleInit
  <2>2. NUM_COLOURS \in Nat /\ NUM_COLOURS > 0
    BY ConsoleAssumption
  <2>3. y * NUM_COLUMNS + x \in T!Cell
    BY <2>1, CellAt DEF Cell, T!Cell
  <2>4. /\ foreground \in 0 .. NUM_COLOURS - 1 /\ background \in 0 .. NUM_COLOURS - 1
        /\ foreground # NUM_COLOURS /\ background # NUM_COLOURS
    BY <2>1, <2>2
  <2>5. put = T!Nothing
    BY <2>1 DEF Nothing, Cell, T!Nothing, T!Cell
  <2>6. T!Init
    BY <2>3, <2>4, <2>5 DEF T!Init
  <2>7. ScreenInv
    BY <2>1, <2>2 DEF ScreenInv
  <2>8. QED BY <2>6, <2>7
<1>2. ASSUME ScreenInv, [SysNext]_sysvars PROVE [T!Next]_T!tvars /\ ScreenInv'
  BY <1>2, TerminalStep
<1>3. QED BY <1>1, <1>2, PTL DEF SysSpec, ImplementsTerminal, T!Spec

=============================================================================

---------------------------- MODULE MemoryProofs ----------------------------
(***************************************************************************)
(* That frames stay disjoint, for any number of tasks, frames and pages,   *)
(* and whatever the programs call.                                         *)
(*                                                                         *)
(* A step leaves each mapped page of data or heap on its frame, or puts it *)
(* on a frame that was free (KeptOrFresh); two pages that a step puts on   *)
(* free frames get different ones, for alloc_frame marks what it returns   *)
(* (GrantInjective); and a frame is freed only with the page on it         *)
(* unmapped.  For the last the invariant says more than that frames are    *)
(* disjoint: an entry that is not mapped has frame 0, which free_frame     *)
(* ignores, and everybody's code is on the frames that task1 got at boot.  *)
(*                                                                         *)
(* Then, that the pages of a heap are those its counter says, that data    *)
(* and heap keep their frames while their task lives, and that no frame is *)
(* lost (SpaceInv): a directory is counted exactly by the tasks on it, all *)
(* of which agree about the heap; one that nobody counts holds no page;    *)
(* and each frame in use is mapped, or the kernel's, or the code's.        *)
(***************************************************************************)
EXTENDS Memory, FiniteSetTheorems, TLAPS

CodeUsed == \A f \in CodeFrames : phys_mem[f] = "USED_FRAME"

CodeShared ==
  \A t \in UserTask : \A p \in CodePages :
    pagusr_table[dir[t]][p].frame = pagusr_table[2][p].frame

AbsentIsZero ==
  \A d \in Dir : \A p \in Page :
    ~Present(pagusr_table[d][p]) => pagusr_table[d][p].frame = 0

HeapsKnown == \A t \in UserTask : my_heap[t] \in Dir

MemInv ==
  /\ MemTypeOK
  /\ HeapsKnown
  /\ AbsentIsZero
  /\ CodeShared
  /\ CodeUsed
  /\ FramesDisjoint

----------------------------------------------------------------------------
(* Pages and frames *)

\* The areas of an address space are apart, and within the page table.
LEMMA Layout ==
  /\ 2 \in Dir /\ task1 \in Task /\ Idle \in Task /\ NoDir \notin Dir
  /\ KernelPages \subseteq Page /\ DataPages \subseteq Page /\ CodePages \subseteq Page
  /\ \A p \in DataPages : p \notin KernelPages /\ p \notin CodePages
  /\ \A p \in CodePages : p \notin KernelPages
  /\ \A n \in 0 .. MaxHeap :
       HeapPages(n) \subseteq {p \in Page : p >= PAG_LOG_INIT_HEAP}
  /\ \A p \in Page : p >= PAG_LOG_INIT_HEAP =>
       p \notin KernelPages /\ p \notin CodePages /\ p \notin DataPages
BY MemoryAssumption
   DEF Dir, Task, task1, Idle, NoDir, KernelPages, DataPages, CodePages, Page, HeapPages,
       PAG_LOG_INIT_DATA, PAG_LOG_INIT_CODE, PAG_LOG_INIT_HEAP

\* alloc_frame returns a free frame,
LEMMA GrantIsFree ==
  ASSUME NEW pm, NEW n \in Nat, CanGrant(pm, n), NEW i \in 0 .. n - 1
  PROVE  IsGrant(pm, i, Grant(pm, i)) /\ Grant(pm, i) \in Frame
<1>1. \E f \in Frame : IsGrant(pm, i, f)
  BY DEF CanGrant
<1> QED
  BY <1>1 DEF Grant

\* and never the same one twice.
LEMMA GrantInjective ==
  ASSUME NEW pm, NEW n \in Nat, CanGrant(pm, n),
         NEW i \in 0 .. n - 1, NEW j \in 0 .. n - 1, Grant(pm, i) = Grant(pm, j)
  PROVE  i = j
BY GrantIsFree DEF IsGrant

\* What FreeFrames says of its members.
LEMMA FreeFrameFacts ==
  ASSUME NEW pm, NEW f \in FreeFrames(pm)
  PROVE  f \in Frame /\ f >= NUM_PAG_KERNEL /\ pm[f] = "FREE_FRAME"
BY DEF FreeFrames

----------------------------------------------------------------------------
(* The argument of every step *)

Kept(d, p) ==
  p \in OwnedAt(d) /\ pagusr_table'[d][p].frame = pagusr_table[d][p].frame

Fresh(d, p) == pagusr_table'[d][p].frame \in FreeFrames(phys_mem)

KeptOrFresh == \A d \in Dir : \A p \in OwnedAt(d)' : Kept(d, p) \/ Fresh(d, p)

FreshApart ==
  \A d, e \in Dir : \A p \in OwnedAt(d)', q \in OwnedAt(e)' :
    Fresh(d, p) /\ Fresh(e, q) /\ pagusr_table'[d][p].frame = pagusr_table'[e][q].frame
      => d = e /\ p = q

OwnedUsed ==
  \A d \in Dir : \A p \in OwnedAt(d) : phys_mem[pagusr_table[d][p].frame] = "USED_FRAME"

LEMMA StepDisjoint ==
  ASSUME FramesDisjoint, CodeUsed, CodeFrames' = CodeFrames,
         KeptOrFresh, FreshApart, OwnedUsed'
  PROVE  FramesDisjoint'
<1> SUFFICES ASSUME NEW d \in Dir, NEW e \in Dir, NEW p \in OwnedAt(d)', NEW q \in OwnedAt(e)'
             PROVE  LET f == pagusr_table'[d][p].frame
                    IN /\ f = pagusr_table'[e][q].frame => d = e /\ p = q
                       /\ f >= NUM_PAG_KERNEL
                       /\ f \notin CodeFrames
                       /\ phys_mem'[f] = "USED_FRAME"
  BY DEF FramesDisjoint
<1> DEFINE f == pagusr_table'[d][p].frame
           g == pagusr_table'[e][q].frame
<1>0. (Kept(d, p) \/ Fresh(d, p)) /\ (Kept(e, q) \/ Fresh(e, q))
  BY DEF KeptOrFresh
<1>1. phys_mem'[f] = "USED_FRAME"
  BY DEF OwnedUsed
<1>2. Kept(d, p) => f >= NUM_PAG_KERNEL /\ f \notin CodeFrames /\ phys_mem[f] = "USED_FRAME"
  BY DEF FramesDisjoint, Kept
<1>3. Kept(e, q) => phys_mem[g] = "USED_FRAME"
  BY DEF FramesDisjoint, Kept
<1>4. Fresh(d, p) => f >= NUM_PAG_KERNEL /\ phys_mem[f] = "FREE_FRAME"
  BY FreeFrameFacts DEF Fresh
<1>5. Fresh(e, q) => phys_mem[g] = "FREE_FRAME"
  BY FreeFrameFacts DEF Fresh
<1>6. Fresh(d, p) => f \notin CodeFrames
  BY <1>4 DEF CodeUsed
<1>7. ASSUME f = g PROVE d = e /\ p = q
  <2>1. CASE Kept(d, p) /\ Kept(e, q)
    <3>1. /\ p \in OwnedAt(d) /\ q \in OwnedAt(e)
          /\ pagusr_table[d][p].frame = pagusr_table[e][q].frame
      BY <1>7, <2>1 DEF Kept
    <3> QED
      BY <3>1, SMTT(30) DEF FramesDisjoint
  <2>2. CASE Fresh(d, p) /\ Fresh(e, q)
    BY <1>7, <2>2 DEF FreshApart
  <2>3. ~(Kept(d, p) /\ Fresh(e, q)) /\ ~(Fresh(d, p) /\ Kept(e, q))
    BY <1>7, <1>2, <1>3, <1>4, <1>5
  <2> HIDE DEF f, g
  <2> QED
    BY <1>0, <2>1, <2>2, <2>3
<1> QED
  BY <1>0, <1>1, <1>2, <1>4, <1>6, <1>7

----------------------------------------------------------------------------
(* Steps that unmap pages, those that map pages of a heap, and fork *)

TablesOK ==
  /\ phys_mem \in [Frame -> {"FREE_FRAME", "USED_FRAME"}]
  /\ pagusr_table \in [Dir -> [Page -> Entry]]
  /\ AbsentIsZero
  /\ CodeUsed
  /\ FramesDisjoint

CodeStays == \A d \in Dir : \A p \in CodePages : pagusr_table'[d][p] = pagusr_table[d][p]

LEMMA EntryFacts ==
  /\ \A f : UserPage(f).frame = f /\ Present(UserPage(f))
  /\ \A f : CodePage(f).frame = f /\ Present(CodePage(f))
  /\ \A f : KernelPage(f).frame = f /\ Present(KernelPage(f))
  /\ Absent.frame = 0 /\ ~Present(Absent)
  /\ \A f \in Frame : {UserPage(f), CodePage(f), KernelPage(f)} \subseteq Entry
  /\ Absent \in Entry
<1>1. 0 \in Frame
  BY MemoryAssumption DEF Frame
<1> QED
  BY <1>1 DEF UserPage, CodePage, KernelPage, Absent, Present, Entry

LEMMA CodeFramesStay ==
  ASSUME CodeStays
  PROVE  CodeFrames' = CodeFrames
BY Layout DEF CodeStays, CodeFrames

PrivatePage == {p \in Page : p \notin KernelPages /\ p \notin CodePages}

\* Unmapping pages, whether or not their frames are freed: a frame that stays
\* mapped is not among those freed.
LEMMA DeleteStep ==
  ASSUME TablesOK, NEW dd \in Dir, NEW S, S \subseteq PrivatePage,
         pagusr_table' = [pagusr_table EXCEPT ![dd] = Deleted(@, S)],
         \/ phys_mem' = Freed(phys_mem, FramesOf(pagusr_table[dd], S))
         \/ phys_mem' = phys_mem
  PROVE  TablesOK' /\ CodeStays
<1>0. \A d \in Dir : pagusr_table[d] \in [Page -> Entry]
  BY DEF TablesOK
<1>1. \A d \in Dir : \A p \in Page :
        pagusr_table'[d][p] = IF d = dd /\ p \in S THEN Absent ELSE pagusr_table[d][p]
  BY <1>0 DEF TablesOK, Deleted
<1>2. CodeStays
  BY <1>1, Layout DEF CodeStays, PrivatePage
<1>3. phys_mem' \in [Frame -> {"FREE_FRAME", "USED_FRAME"}]
  BY DEF TablesOK, Freed
<1>4. Absent \in Entry
  BY MemoryAssumption DEF Absent, Entry, Frame
<1>5. pagusr_table' \in [Dir -> [Page -> Entry]]
  BY <1>0, <1>4 DEF TablesOK, Deleted
<1>6. AbsentIsZero'
  BY <1>1 DEF AbsentIsZero, TablesOK, Absent, Present
<1>7. \A d \in Dir : \A p \in OwnedAt(d)' : Kept(d, p) /\ ~(d = dd /\ p \in S)
  BY <1>1 DEF OwnedAt, Kept, Present, Absent
<1>8. \A f \in Frame : phys_mem'[f] # phys_mem[f] =>
        \E q \in S : q \in OwnedAt(dd) /\ pagusr_table[dd][q].frame = f
  <2> SUFFICES ASSUME NEW f \in Frame, phys_mem'[f] # phys_mem[f]
               PROVE  \E q \in S : q \in OwnedAt(dd) /\ pagusr_table[dd][q].frame = f
    OBVIOUS
  <2>1. f \in FramesOf(pagusr_table[dd], S) /\ f > NUM_PAG_KERNEL
    BY DEF Freed, TablesOK
  <2>2. PICK q \in S : pagusr_table[dd][q].frame = f
    BY <2>1 DEF FramesOf
  <2>3. Present(pagusr_table[dd][q])
    BY <2>1, <2>2, MemoryAssumption DEF AbsentIsZero, TablesOK, PrivatePage
  <2> QED
    BY <2>2, <2>3 DEF OwnedAt, PrivatePage
<1>9. OwnedUsed'
  <2> SUFFICES ASSUME NEW d \in Dir, NEW p \in OwnedAt(d)'
               PROVE  phys_mem'[pagusr_table'[d][p].frame] = "USED_FRAME"
    BY DEF OwnedUsed
  <2> DEFINE f == pagusr_table[d][p].frame
  <2>1. p \in OwnedAt(d) /\ pagusr_table'[d][p].frame = f /\ ~(d = dd /\ p \in S)
    BY <1>7 DEF Kept
  <2>2. phys_mem[f] = "USED_FRAME" /\ f \in Frame
    BY <2>1, <1>0 DEF FramesDisjoint, TablesOK, OwnedAt, Entry
  <2>3. phys_mem'[f] = phys_mem[f]
    BY <1>8, <2>1, <2>2, SMTT(30) DEF FramesDisjoint, TablesOK
  <2> QED
    BY <2>1, <2>2, <2>3
<1>10. CodeUsed'
  <2> SUFFICES ASSUME NEW f \in CodeFrames
               PROVE  phys_mem'[f] = "USED_FRAME"
    BY <1>2, CodeFramesStay DEF CodeUsed
  <2>1. f \in Frame /\ phys_mem[f] = "USED_FRAME"
    BY <1>0, Layout DEF CodeUsed, TablesOK, CodeFrames, Entry
  <2>2. phys_mem'[f] = phys_mem[f]
    BY <1>8, <2>1, SMTT(30) DEF FramesDisjoint, TablesOK
  <2> QED
    BY <2>1, <2>2
<1>11. KeptOrFresh
  BY <1>7 DEF KeptOrFresh
<1>12. \A d \in Dir : \A p \in OwnedAt(d)' : ~Fresh(d, p)
  BY <1>7, FreeFrameFacts DEF Fresh, Kept, FramesDisjoint, TablesOK
<1>13. FreshApart
  BY <1>12 DEF FreshApart
<1>14. FramesDisjoint'
  BY <1>2, <1>9, <1>11, <1>13, CodeFramesStay, StepDisjoint DEF TablesOK
<1> QED
  BY <1>2, <1>3, <1>5, <1>6, <1>10, <1>14 DEF TablesOK

\* Mapping pages on frames that alloc_frame grants, each on one of its own.
LEMMA MapStep ==
  ASSUME TablesOK, NEW n \in Nat, CanGrant(phys_mem, n),
         phys_mem' = Taken(phys_mem, Grants(phys_mem, n)),
         NEW dd \in Dir, NEW S, NEW idx \in [S -> 0 .. n - 1],
         \A p, q \in S : idx[p] = idx[q] => p = q,
         pagusr_table' \in [Dir -> [Page -> Entry]],
         AbsentIsZero', CodeFrames' = CodeFrames,
         \A d \in Dir : \A p \in OwnedAt(d)' :
           \/ Kept(d, p)
           \/ d = dd /\ p \in S /\ pagusr_table'[d][p].frame = Grant(phys_mem, idx[p])
  PROVE  TablesOK'
<1> DEFINE Granted(d, p) ==
             d = dd /\ p \in S /\ pagusr_table'[d][p].frame = Grant(phys_mem, idx[p])
<1>1. phys_mem' \in [Frame -> {"FREE_FRAME", "USED_FRAME"}]
  BY DEF TablesOK, Taken
<1>2. \A f \in Frame : phys_mem[f] = "USED_FRAME" => phys_mem'[f] = "USED_FRAME"
  BY DEF Taken
<1>3. \A d \in Dir : \A p \in OwnedAt(d)' : Kept(d, p) =>
        /\ phys_mem[pagusr_table'[d][p].frame] = "USED_FRAME"
        /\ pagusr_table'[d][p].frame \in Frame
  BY SMTT(30) DEF FramesDisjoint, TablesOK, OwnedAt, Kept, Entry
<1>4. ASSUME NEW d \in Dir, NEW p \in OwnedAt(d)', Granted(d, p)
      PROVE  /\ Fresh(d, p)
             /\ pagusr_table'[d][p].frame \in Grants(phys_mem, n)
             /\ pagusr_table'[d][p].frame \in Frame
  <2>1. idx[p] \in 0 .. n - 1
    BY <1>4
  <2>2. Grant(phys_mem, idx[p]) \in FreeFrames(phys_mem) /\ Grant(phys_mem, idx[p]) \in Frame
    BY <2>1, GrantIsFree DEF IsGrant
  <2>3. Grant(phys_mem, idx[p]) \in Grants(phys_mem, n)
    BY <2>1 DEF Grants
  <2> QED
    BY <1>4, <2>2, <2>3 DEF Fresh
<1>5. KeptOrFresh
  BY <1>4 DEF KeptOrFresh
<1>6. OwnedUsed'
  BY <1>2, <1>3, <1>4 DEF OwnedUsed, Taken
<1>7. \A d \in Dir : \A p \in OwnedAt(d)' : Fresh(d, p) => Granted(d, p)
  BY <1>3, FreeFrameFacts DEF Fresh
<1>8. FreshApart
  <2> SUFFICES ASSUME NEW d \in Dir, NEW e \in Dir,
                      NEW p \in OwnedAt(d)', NEW q \in OwnedAt(e)', Fresh(d, p), Fresh(e, q),
                      pagusr_table'[d][p].frame = pagusr_table'[e][q].frame
               PROVE  d = e /\ p = q
    BY DEF FreshApart
  <2>1. /\ d = dd /\ e = dd /\ p \in S /\ q \in S
        /\ Grant(phys_mem, idx[p]) = Grant(phys_mem, idx[q])
    BY <1>7
  <2>2. idx[p] \in 0 .. n - 1 /\ idx[q] \in 0 .. n - 1
    BY <2>1
  <2>3. idx[p] = idx[q]
    BY <2>1, <2>2, GrantInjective
  <2> QED
    BY <2>1, <2>3
<1>9. CodeUsed'
  <2>1. CodeFrames \subseteq Frame
    BY Layout DEF TablesOK, CodeFrames, Entry
  <2> QED
    BY <2>1, <1>2 DEF CodeUsed, TablesOK
<1>10. FramesDisjoint'
  BY <1>5, <1>6, <1>8, StepDisjoint DEF TablesOK
<1> QED
  BY <1>1, <1>9, <1>10 DEF TablesOK

\* dyn_mem that grows the heap.
LEMMA GrowStep ==
  ASSUME MemInv, NEW t \in Task, NEW n \in Requests, DynMemGrow(t, n)
  PROVE  TablesOK' /\ CodeStays
<1> DEFINE c == counter(t)
           base == PAG_LOG_INIT_HEAP + c
           S == GrowPages(t, n)
           idx == [p \in S |-> p - PAG_LOG_INIT_HEAP - c]
<1>1. TablesOK
  BY DEF MemInv, MemTypeOK, TablesOK
<1>2. n \in Nat /\ t \in UserTask /\ dir[t] \in Dir /\ my_heap[t] \in Dir
  BY MemoryAssumption DEF DynMemGrow, Calls, UserTask, Live, MemInv, MemTypeOK, HeapsKnown
<1>3. c \in 0 .. MaxHeap /\ c + n <= MaxHeap
  BY <1>2 DEF counter, DynMemGrow, MemInv, MemTypeOK
<1>4. S \subseteq HeapPages(c + n) /\ PAG_LOG_INIT_HEAP \in Int
  BY <1>2, <1>3, MemoryAssumption
     DEF GrowPages, HeapPages, PAG_LOG_INIT_HEAP, PAG_LOG_INIT_CODE, PAG_LOG_INIT_DATA
<1>5. S \subseteq PrivatePage
  BY <1>2, <1>3, <1>4, Layout, MemoryAssumption DEF PrivatePage
<1>6. idx \in [S -> 0 .. n - 1] /\ \A p, q \in S : idx[p] = idx[q] => p = q
  BY <1>2, <1>3, <1>4 DEF GrowPages
<1>7. CanGrant(phys_mem, n) /\ phys_mem' = Taken(phys_mem, Grants(phys_mem, n))
  BY DEF DynMemGrow
<1>8. pagusr_table' = [pagusr_table EXCEPT ![dir[t]] =
                         Updated(@, [p \in S |-> UserPage(Grant(phys_mem, idx[p]))])]
  BY DEF DynMemGrow
<1> HIDE DEF S, idx, c, base
<1>9. \A p \in S : UserPage(Grant(phys_mem, idx[p])) \in Entry
  BY <1>2, <1>6, <1>7, GrantIsFree DEF UserPage, Entry
<1>10. \A d \in Dir : \A p \in Page :
         pagusr_table'[d][p] = IF d = dir[t] /\ p \in S THEN UserPage(Grant(phys_mem, idx[p]))
                               ELSE pagusr_table[d][p]
  BY <1>1, <1>2, <1>8 DEF TablesOK, Updated
<1>11. pagusr_table' \in [Dir -> [Page -> Entry]]
  BY <1>1, <1>2, <1>8, <1>9 DEF TablesOK, Updated
<1>12. AbsentIsZero'
  BY <1>1, <1>10, EntryFacts DEF AbsentIsZero, TablesOK
<1>13. CodeStays
  BY <1>5, <1>10, Layout DEF CodeStays, PrivatePage
<1>14. \A d \in Dir : \A p \in OwnedAt(d)' :
         \/ Kept(d, p)
         \/ d = dir[t] /\ p \in S /\ pagusr_table'[d][p].frame = Grant(phys_mem, idx[p])
  <2> SUFFICES ASSUME NEW d \in Dir, NEW p \in OwnedAt(d)', ~(d = dir[t] /\ p \in S)
               PROVE  Kept(d, p)
    BY <1>10, EntryFacts DEF OwnedAt
  <2> QED
    BY <1>10 DEF OwnedAt, Kept
<1> QED
  BY <1>1, <1>2, <1>6, <1>7, <1>11, <1>12, <1>13, <1>14, CodeFramesStay, MapStep

\* fork: where each page of each table comes from.
LEMMA ForkEntries ==
  ASSUME MemInv, NEW t \in Task, Fork(t)
  PROVE  /\ dir[t] \in Dir /\ my_heap[t] \in Dir /\ ForkDir(t) \in Dir
         /\ ForkHeap(t) \in 0 .. MaxHeap
         /\ \A d \in Dir : \A p \in Page :
              LET h == ForkHeap(t)
              IN pagusr_table'[d][p] =
                   IF d = dir[t] /\ p \in TempPages(t) THEN Absent
                   ELSE IF d # ForkDir(t) THEN pagusr_table[d][p]
                   ELSE IF p \in KernelPages \cup CodePages
                        THEN UserPage(pagusr_table[dir[t]][p].frame)
                   ELSE IF p \in DataPages
                        THEN UserPage(Grant(phys_mem, p - PAG_LOG_INIT_DATA))
                   ELSE IF p \in HeapPages(h)
                        THEN UserPage(Grant(phys_mem, NUM_PAG_DATA + p - PAG_LOG_INIT_HEAP))
                   ELSE pagusr_table[d][p]
<1>1. t \in UserTask /\ dir[t] \in Dir /\ my_heap[t] \in Dir
  BY DEF Fork, Calls, UserTask, Live, MemInv, MemTypeOK, HeapsKnown
<1>2. ForkDir(t) \in Dir
  BY <1>1 DEF ForkDir, NewDir
<1>3. ForkHeap(t) \in 0 .. MaxHeap
  BY <1>1, <1>2, MemoryAssumption DEF ForkHeap, ForkZones, MemInv, MemTypeOK
<1> DEFINE h == ForkHeap(t)
           mapped == KernelPages \cup DataPages \cup CodePages \cup HeapPages(h)
           filled == [pagusr_table EXCEPT ![ForkDir(t)] = ForkTable(t)]
<1>4. \A p \in Page : ForkTable(t)[p] =
        IF p \in KernelPages \cup CodePages THEN UserPage(pagusr_table[dir[t]][p].frame)
        ELSE IF p \in DataPages THEN UserPage(Grant(phys_mem, p - PAG_LOG_INIT_DATA))
        ELSE IF p \in HeapPages(h)
             THEN UserPage(Grant(phys_mem, NUM_PAG_DATA + p - PAG_LOG_INIT_HEAP))
        ELSE pagusr_table[ForkDir(t)][p]
  BY <1>3, Layout DEF ForkTable, Updated
<1>5. pagusr_table' = [filled EXCEPT ![dir[t]] = Deleted(filled[dir[t]], TempPages(t))]
  BY DEF Fork, ForkTables
<1>6. DOMAIN pagusr_table = Dir
  BY DEF MemInv, MemTypeOK
<1>7. \A d \in Dir : \A p \in Page :
        pagusr_table'[d][p] = IF d = dir[t] /\ p \in TempPages(t) THEN Absent ELSE filled[d][p]
  BY <1>1, <1>5, <1>6 DEF Deleted
<1>8. \A d \in Dir : filled[d] = IF d = ForkDir(t) THEN ForkTable(t) ELSE pagusr_table[d]
  BY <1>2, <1>6
<1> QED
  BY <1>1, <1>2, <1>3, <1>4, <1>7, <1>8

\* The last line of the argument for fork: the new table has the code of the
\* parent, which is everybody's, and its other pages are on granted frames.
LEMMA ForkStep ==
  ASSUME MemInv, NEW t \in Task, Fork(t)
  PROVE  /\ TablesOK'
         /\ \A d \in Dir : \A p \in CodePages :
              pagusr_table'[d][p].frame =
                IF d = ForkDir(t) THEN pagusr_table[2][p].frame ELSE pagusr_table[d][p].frame
<1> DEFINE h == ForkHeap(t)
           n == ForkNeeds(t)
           fd == ForkDir(t)
           S == DataPages \cup HeapPages(h)
           idx == [p \in S |-> IF p \in DataPages THEN p - PAG_LOG_INIT_DATA
                               ELSE NUM_PAG_DATA + p - PAG_LOG_INIT_HEAP]
<1>1. TablesOK /\ t \in UserTask
  BY DEF MemInv, MemTypeOK, TablesOK, Fork, Calls
<1>2. dir[t] \in Dir /\ fd \in Dir /\ h \in 0 .. MaxHeap /\ n \in Nat /\ n = NUM_PAG_DATA + h
  BY ForkEntries, MemoryAssumption DEF ForkNeeds
<1>3. CanGrant(phys_mem, n) /\ phys_mem' = Taken(phys_mem, Grants(phys_mem, n))
  BY DEF Fork
<1>4. idx \in [S -> 0 .. n - 1] /\ \A p, q \in S : idx[p] = idx[q] => p = q
  BY <1>2, MemoryAssumption
     DEF DataPages, HeapPages, PAG_LOG_INIT_HEAP, PAG_LOG_INIT_CODE, PAG_LOG_INIT_DATA
<1>5. S \subseteq PrivatePage
  BY <1>2, Layout DEF PrivatePage
<1>6. \A p \in TempPages(t) \cap Page : p \notin KernelPages /\ p \notin CodePages
  <2>1. \A p \in TempPages(t) \cap Page : p >= PAG_LOG_INIT_HEAP
    BY <1>2, MemoryAssumption
       DEF TempPages, Page, PAG_LOG_INIT_HEAP, PAG_LOG_INIT_CODE, PAG_LOG_INIT_DATA
  <2> QED
    BY <2>1, Layout
<1>7. \A d \in Dir : \A p \in Page :
        pagusr_table'[d][p] =
          IF d = dir[t] /\ p \in TempPages(t) THEN Absent
          ELSE IF d # fd THEN pagusr_table[d][p]
          ELSE IF p \in KernelPages \cup CodePages
               THEN UserPage(pagusr_table[dir[t]][p].frame)
          ELSE IF p \in S THEN UserPage(Grant(phys_mem, idx[p]))
          ELSE pagusr_table[d][p]
  BY ForkEntries
<1> HIDE DEF S, idx, h, n, fd
<1>8. \A p \in S : UserPage(Grant(phys_mem, idx[p])) \in Entry
  BY <1>2, <1>3, <1>4, GrantIsFree DEF UserPage, Entry
<1>9. \A p \in Page : UserPage(pagusr_table[dir[t]][p].frame) \in Entry
  BY <1>1, <1>2 DEF TablesOK, UserPage, Entry
<1>10. Absent \in Entry
  BY MemoryAssumption DEF Absent, Entry, Frame
<1>11. \A d \in Dir : \A p \in Page : pagusr_table'[d][p] \in Entry
  BY <1>1, <1>7, <1>8, <1>9, <1>10 DEF TablesOK
<1>12. pagusr_table' \in [Dir -> [Page -> Entry]]
  <2>1. \A d \in Dir : pagusr_table'[d] = [p \in Page |-> pagusr_table'[d][p]]
    <3> DEFINE filled == [pagusr_table EXCEPT ![fd] = ForkTable(t)]
    <3>1. ForkTable(t) = [p \in Page |-> ForkTable(t)[p]]
      BY DEF ForkTable, Updated
    <3>2. \A d \in Dir : filled[d] = [p \in Page |-> filled[d][p]]
      BY <1>1, <1>2, <3>1 DEF TablesOK
    <3>3. \A S1 : Deleted(filled[dir[t]], S1) =
                  [p \in Page |-> Deleted(filled[dir[t]], S1)[p]]
      BY DEF Deleted
    <3>4. pagusr_table' = [filled EXCEPT ![dir[t]] = Deleted(filled[dir[t]], TempPages(t))]
      BY DEF Fork, ForkTables, fd
    <3>5. DOMAIN filled = Dir
      BY <1>1 DEF TablesOK
    <3> HIDE DEF filled
    <3> QED
      BY <1>2, <3>2, <3>3, <3>4, <3>5
  <2>2. pagusr_table' = [d \in Dir |-> pagusr_table'[d]]
    BY <1>1 DEF Fork, ForkTables, TablesOK
  <2> QED
    BY <1>11, <2>1, <2>2
<1>13. AbsentIsZero'
  BY <1>1, <1>7, EntryFacts DEF AbsentIsZero, TablesOK
<1>14. \A d \in Dir : \A p \in CodePages :
         pagusr_table'[d][p].frame =
           IF d = fd THEN pagusr_table[2][p].frame ELSE pagusr_table[d][p].frame
  BY <1>1, <1>6, <1>7, EntryFacts, Layout DEF MemInv, CodeShared
<1>15. CodeFrames' = CodeFrames
  BY <1>14, Layout DEF CodeFrames
<1>16. \A d \in Dir : \A p \in OwnedAt(d)' :
         \/ Kept(d, p)
         \/ d = fd /\ p \in S /\ pagusr_table'[d][p].frame = Grant(phys_mem, idx[p])
  <2> SUFFICES ASSUME NEW d \in Dir, NEW p \in OwnedAt(d)'
               PROVE  \/ Kept(d, p)
                      \/ /\ d = fd /\ p \in S
                         /\ pagusr_table'[d][p].frame = Grant(phys_mem, idx[p])
    OBVIOUS
  <2>1. p \in Page /\ p \notin KernelPages \cup CodePages /\ Present(pagusr_table'[d][p])
    BY DEF OwnedAt
  <2>2. ~(d = dir[t] /\ p \in TempPages(t))
    BY <2>1, <1>7, EntryFacts
  <2>3. CASE d = fd /\ p \in S
    BY <2>1, <2>2, <2>3, <1>7, EntryFacts
  <2>4. CASE ~(d = fd /\ p \in S)
    BY <2>1, <2>2, <2>4, <1>7 DEF Kept, OwnedAt
  <2> QED
    BY <2>3, <2>4
<1>17. TablesOK'
  BY <1>1, <1>2, <1>3, <1>4, <1>12, <1>13, <1>15, <1>16, MapStep
<1> QED
  BY <1>14, <1>17 DEF fd

----------------------------------------------------------------------------
(* The invariant *)

LEMMA InitMemInv ==
  ASSUME MemInit
  PROVE  MemInv
<1> DEFINE n == NUM_PAG_CODE + NUM_PAG_DATA
<1>1. n \in Nat /\ CanGrant(InitFrames, n)
  BY MemoryAssumption DEF MemInit
<1>2. \A p \in CodePages : p - PAG_LOG_INIT_CODE \in 0 .. n - 1
  BY MemoryAssumption
     DEF CodePages, PAG_LOG_INIT_HEAP, PAG_LOG_INIT_CODE, PAG_LOG_INIT_DATA
<1>3. \A p \in DataPages : NUM_PAG_CODE + p - PAG_LOG_INIT_DATA \in 0 .. n - 1
  BY MemoryAssumption DEF DataPages, PAG_LOG_INIT_CODE, PAG_LOG_INIT_DATA
<1>4. \A i \in 0 .. n - 1 : /\ Grant(InitFrames, i) \in Frame
                             /\ Grant(InitFrames, i) >= NUM_PAG_KERNEL
                             /\ Grant(InitFrames, i) \in Grants(InitFrames, n)
  BY <1>1, GrantIsFree, FreeFrameFacts DEF IsGrant, Grants
<1>5. \A d \in Dir : \A p \in Page :
        pagusr_table[d][p] =
          IF d = 2 /\ p \in CodePages
          THEN CodePage(Grant(InitFrames, p - PAG_LOG_INIT_CODE))
          ELSE IF d = 2 /\ p \in DataPages
          THEN UserPage(Grant(InitFrames, NUM_PAG_CODE + p - PAG_LOG_INIT_DATA))
          ELSE IF p \in KernelPages \ {0} THEN KernelPage(p)
          ELSE Absent
  BY Layout DEF MemInit, set_user_pages, KernelTable
<1>6. phys_mem \in [Frame -> {"FREE_FRAME", "USED_FRAME"}]
  BY DEF MemInit, Taken, InitFrames
<1>7. \A f \in Grants(InitFrames, n) : f \in Frame => phys_mem[f] = "USED_FRAME"
  BY DEF MemInit, Taken
<1>8. \A p \in KernelPages : p \in Frame
  BY MemoryAssumption DEF KernelPages, Frame
<1>9. \A d \in Dir : \A p \in Page : pagusr_table[d][p] \in Entry
  BY <1>2, <1>3, <1>4, <1>5, <1>8, EntryFacts
<1>10. pagusr_table \in [Dir -> [Page -> Entry]]
  <2>0. /\ set_user_pages(KernelTable) = [p \in Page |-> set_user_pages(KernelTable)[p]]
        /\ KernelTable = [p \in Page |-> KernelTable[p]]
    BY DEF set_user_pages, KernelTable
  <2>1. \A d \in Dir : pagusr_table[d] = [p \in Page |-> pagusr_table[d][p]]
    BY <2>0 DEF MemInit
  <2>2. pagusr_table = [d \in Dir |-> pagusr_table[d]]
    BY DEF MemInit
  <2> QED
    BY <1>9, <2>1, <2>2
<1>11. MemTypeOK
  <2>1. 1 \in Dir /\ 2 \in Dir
    BY MemoryAssumption DEF Dir
  <2>2. dir \in [Task -> Dir \cup {NoDir}] /\ my_heap \in [Task -> Dir \cup {NoDir}]
    BY <2>1 DEF MemInit
  <2>3. dir_pages_num_references \in [Dir -> Int] /\ heap_zones \in [Dir -> 0 .. MaxHeap]
    BY MemoryAssumption DEF MemInit
  <2> QED
    BY <1>6, <1>10, <2>2, <2>3 DEF MemInit, MemTypeOK
<1>12. UserTask = {task1} /\ dir[task1] = 2 /\ my_heap[task1] = 2
  BY Layout DEF MemInit, UserTask, Live, task1, Idle, NoDir
<1>13. AbsentIsZero
  <2> SUFFICES ASSUME NEW d \in Dir, NEW p \in Page, ~Present(pagusr_table[d][p])
               PROVE  pagusr_table[d][p] = Absent
    BY EntryFacts DEF AbsentIsZero
  <2> QED
    BY <1>5, EntryFacts
<1>14. \A f \in CodeFrames : \E p \in CodePages : f = Grant(InitFrames, p - PAG_LOG_INIT_CODE)
  <2>1. \A p \in CodePages :
          pagusr_table[2][p].frame = Grant(InitFrames, p - PAG_LOG_INIT_CODE)
    BY <1>5, Layout, EntryFacts
  <2> QED
    BY <2>1 DEF CodeFrames
<1>15. CodeUsed
  BY <1>2, <1>4, <1>7, <1>14 DEF CodeUsed
<1>16. \A d \in Dir : \A p \in OwnedAt(d) :
         d = 2 /\ p \in DataPages
         /\ pagusr_table[d][p].frame = Grant(InitFrames, NUM_PAG_CODE + p - PAG_LOG_INIT_DATA)
  <2> SUFFICES ASSUME NEW d \in Dir, NEW p \in OwnedAt(d)
               PROVE  /\ d = 2 /\ p \in DataPages
                      /\ pagusr_table[d][p].frame
                           = Grant(InitFrames, NUM_PAG_CODE + p - PAG_LOG_INIT_DATA)
    OBVIOUS
  <2>1. p \in Page /\ p \notin KernelPages /\ p \notin CodePages /\ pagusr_table[d][p] # Absent
    BY EntryFacts DEF OwnedAt
  <2> QED
    BY <1>5, <2>1, EntryFacts
<1>17. FramesDisjoint
  <2> SUFFICES ASSUME NEW d \in Dir, NEW e \in Dir, NEW p \in OwnedAt(d), NEW q \in OwnedAt(e)
               PROVE  LET f == pagusr_table[d][p].frame
                      IN /\ f = pagusr_table[e][q].frame => d = e /\ p = q
                         /\ f >= NUM_PAG_KERNEL
                         /\ f \notin CodeFrames
                         /\ phys_mem[f] = "USED_FRAME"
    BY DEF FramesDisjoint
  <2> DEFINE i == NUM_PAG_CODE + p - PAG_LOG_INIT_DATA
             j == NUM_PAG_CODE + q - PAG_LOG_INIT_DATA
  <2>1. /\ d = 2 /\ e = 2 /\ p \in DataPages /\ q \in DataPages
        /\ pagusr_table[d][p].frame = Grant(InitFrames, i)
        /\ pagusr_table[e][q].frame = Grant(InitFrames, j)
    BY <1>16
  <2>2. i \in 0 .. n - 1 /\ j \in 0 .. n - 1
    BY <1>3, <2>1
  <2>3. Grant(InitFrames, i) = Grant(InitFrames, j) => i = j
    BY <1>1, <2>2, GrantInjective
  <2>4. i = j => p = q
    BY <2>1, MemoryAssumption DEF DataPages, PAG_LOG_INIT_CODE, PAG_LOG_INIT_DATA
  <2>5. ASSUME Grant(InitFrames, i) \in CodeFrames PROVE FALSE
    <3>1. PICK c \in CodePages : Grant(InitFrames, i) = Grant(InitFrames, c - PAG_LOG_INIT_CODE)
      BY <1>14, <2>5
    <3>2. i = c - PAG_LOG_INIT_CODE
      BY <1>1, <1>2, <2>2, <3>1, GrantInjective
    <3> QED
      BY <2>1, <3>2, MemoryAssumption
         DEF DataPages, CodePages, PAG_LOG_INIT_HEAP, PAG_LOG_INIT_CODE, PAG_LOG_INIT_DATA
  <2> QED
    BY <1>4, <1>7, <2>1, <2>2, <2>3, <2>4, <2>5
<1>18. CodeShared /\ HeapsKnown
  BY <1>12, Layout DEF CodeShared, HeapsKnown
<1> QED
  BY <1>11, <1>13, <1>15, <1>17, <1>18 DEF MemInv

\* What the steps on the tables leave to be shown of the invariant.
LEMMA Rejoined ==
  ASSUME MemInv, TablesOK', CodeStays,
         \A u \in UserTask' : u \in UserTask /\ dir'[u] = dir[u] /\ my_heap'[u] = my_heap[u],
         dir_pages_num_references' \in [Dir -> Int],
         heap_zones' \in [Dir -> 0 .. MaxHeap],
         dir' \in [Task -> Dir \cup {NoDir}], my_heap' \in [Task -> Dir \cup {NoDir}],
         page_fault' \in BOOLEAN, unguarded' \subseteq MemAdmitted
  PROVE  MemInv' /\ CodeFrames' = CodeFrames
<1>1. \A u \in UserTask : dir[u] \in Dir
  BY DEF UserTask, Live, MemInv, MemTypeOK
<1>2. CodeShared'
  BY <1>1, Layout DEF CodeShared, CodeStays, MemInv
<1>3. HeapsKnown'
  BY DEF HeapsKnown, MemInv
<1> QED
  BY <1>2, <1>3, CodeFramesStay DEF MemInv, MemTypeOK, TablesOK

\* The code stays on the frames it was loaded to.
LEMMA NextMemInv ==
  ASSUME MemInv, [MemNext /\ Bounded /\ unguarded' \subseteq MemAdmitted]_memvars
  PROVE  MemInv' /\ CodeFrames' = CodeFrames
<1>1. TablesOK /\ MemTypeOK /\ HeapsKnown
  BY DEF MemInv, MemTypeOK, TablesOK
<1>2. CASE UNCHANGED memvars
  BY <1>2 DEF memvars, MemInv, MemTypeOK, HeapsKnown, AbsentIsZero, CodeShared, CodeUsed,
              FramesDisjoint, CodeFrames, UserTask, Live, OwnedAt
<1> SUFFICES ASSUME NEW t \in Task, unguarded' \subseteq MemAdmitted,
                    \/ Fork(t)
                    \/ ForkPageFault(t) \/ ForkNoFrames(t)
                    \/ CreateThread(t) \/ CreateThreadPageFault(t) \/ Exit(t)
                    \/ \E n \in Requests :
                         DynMemGrow(t, n) \/ DynMemNoFrames(t, n) \/ DynMemShrink(t, -n)
             PROVE  MemInv' /\ CodeFrames' = CodeFrames
  BY <1>2 DEF MemNext, Halted
<1>3. t \in UserTask /\ dir[t] \in Dir /\ my_heap[t] \in Dir /\ counter(t) \in 0 .. MaxHeap
  <2>1. t \in UserTask
    BY DEF Fork, ForkPageFault, CreateThreadPageFault, ForkNoFrames, CreateThread, Exit,
           DynMemGrow, DynMemNoFrames,
           DynMemShrink, Calls
  <2> QED
    BY <1>1, <2>1 DEF UserTask, Live, MemTypeOK, HeapsKnown, counter
<1>4. ForkDir(t) \in Dir
  BY <1>3 DEF ForkDir, NewDir
<1>5. /\ ForkZones(t) \in [Dir -> 0 .. MaxHeap]
      /\ ForkRefs(t) \in [Dir -> Int]
  BY <1>1, <1>3, <1>4, MemoryAssumption DEF ForkZones, ForkRefs, MemTypeOK
<1>6. PcbIsFree => FreePcb \in Task
  BY DEF PcbIsFree, FreePcb
<1>7. \A n \in Int : HeapPages(counter(t)) \subseteq PrivatePage
  BY <1>3, Layout DEF PrivatePage
<1>8. CASE Fork(t)
  <2>1. /\ TablesOK'
        /\ \A d \in Dir : \A p \in CodePages :
             pagusr_table'[d][p].frame =
               IF d = ForkDir(t) THEN pagusr_table[2][p].frame ELSE pagusr_table[d][p].frame
    BY <1>8, ForkStep
  <2>2. /\ dir' = [dir EXCEPT ![FreePcb] = ForkDir(t)] /\ FreePcb \in Task
        /\ my_heap' = [my_heap EXCEPT ![FreePcb] = my_heap[t]]
    BY <1>6, <1>8 DEF Fork
  <2>3. CodeShared'
    <3> SUFFICES ASSUME NEW u \in UserTask', NEW p \in CodePages
                 PROVE  pagusr_table'[dir'[u]][p].frame = pagusr_table'[2][p].frame
      BY DEF CodeShared
    <3>1. \/ dir'[u] = ForkDir(t)
          \/ u \in UserTask /\ dir'[u] = dir[u] /\ dir[u] \in Dir
      <4>1. u \in Task /\ u # Idle /\ dir'[u] # NoDir
        BY DEF UserTask, Live
      <4> DEFINE v == FreePcb
      <4>0. dir \in [Task -> Dir \cup {NoDir}] /\ v \in Task
            /\ dir' = [dir EXCEPT ![v] = ForkDir(t)]
        BY <1>1, <2>2 DEF MemTypeOK
      <4> HIDE DEF v
      <4>2. CASE u = v
        BY <4>0, <4>2
      <4>3. CASE u # v
        <5>1. dir'[u] = dir[u]
          BY <4>0, <4>1, <4>3
        <5>2. dir[u] \in Dir \cup {NoDir}
          BY <4>0, <4>1
        <5>3. dir[u] \in Dir /\ Live(u)
          BY <4>1, <5>1, <5>2 DEF Live
        <5> QED
          BY <4>1, <5>1, <5>3 DEF UserTask
      <4> QED
        BY <4>2, <4>3
    <3>2. pagusr_table'[2][p].frame = pagusr_table[2][p].frame
      BY <2>1, Layout
    <3>3. CASE dir'[u] = ForkDir(t)
      BY <1>4, <2>1, <3>2, <3>3
    <3>4. CASE u \in UserTask /\ dir'[u] = dir[u] /\ dir[u] \in Dir
      BY <2>1, <3>2, <3>4 DEF CodeShared, MemInv
    <3> QED
      BY <3>1, <3>3, <3>4
  <2>4. HeapsKnown'
    BY <1>1, <1>3, <2>2 DEF HeapsKnown, UserTask, Live, MemTypeOK
  <2>5. dir' \in [Task -> Dir \cup {NoDir}] /\ my_heap' \in [Task -> Dir \cup {NoDir}]
    BY <1>1, <1>3, <1>4, <2>2 DEF MemTypeOK
  <2>6. MemTypeOK'
    BY <1>1, <1>5, <1>8, <2>1, <2>5 DEF Fork, MemTypeOK, TablesOK
  <2>7. CodeFrames' = CodeFrames
    BY <2>1, Layout DEF CodeFrames
  <2> QED
    BY <2>1, <2>3, <2>4, <2>6, <2>7 DEF MemInv, TablesOK
<1>9. CASE ForkPageFault(t) \/ ForkNoFrames(t) \/ CreateThreadPageFault(t)
  <2>1. UNCHANGED <<phys_mem, pagusr_table, dir, my_heap>>
    BY <1>9 DEF ForkPageFault, CreateThreadPageFault, ForkNoFrames
  <2>2. MemTypeOK'
    BY <1>1, <1>5, <1>9 DEF ForkPageFault, CreateThreadPageFault, ForkNoFrames, MemTypeOK
  <2> QED
    BY <2>1, <2>2 DEF MemInv, HeapsKnown, AbsentIsZero, CodeShared, CodeUsed,
                      FramesDisjoint, CodeFrames, UserTask, Live, OwnedAt
<1>10. CASE CreateThread(t)
  <2>1. /\ dir' = [dir EXCEPT ![FreePcb] = dir[t]] /\ FreePcb \in Task
        /\ my_heap' = [my_heap EXCEPT ![FreePcb] = my_heap[t]]
        /\ UNCHANGED <<phys_mem, pagusr_table>>
    BY <1>6, <1>10 DEF CreateThread
  <2>2. MemTypeOK'
    BY <1>1, <1>3, <1>10, <2>1 DEF CreateThread, MemTypeOK
  <2>3. \A u \in UserTask' : \E v \in UserTask : dir'[u] = dir[v] /\ my_heap'[u] = my_heap[v]
    BY <1>1, <1>3, <2>1 DEF UserTask, Live, MemTypeOK
  <2>4. HeapsKnown' /\ CodeShared'
    BY <2>1, <2>3 DEF HeapsKnown, CodeShared, MemInv
  <2> QED
    BY <2>1, <2>2, <2>4 DEF MemInv, AbsentIsZero, CodeUsed, FramesDisjoint, CodeFrames, OwnedAt
<1>11. CASE Exit(t)
  <2>1. OwnPages(t) \subseteq PrivatePage
    BY <1>3, Layout DEF OwnPages, PrivatePage, counter
  <2>2. TablesOK' /\ CodeStays
    <3>1. CASE UNCHANGED <<phys_mem, pagusr_table>>
      BY <1>1, <3>1 DEF TablesOK, CodeStays, AbsentIsZero, CodeUsed, FramesDisjoint,
                        CodeFrames, OwnedAt
    <3>2. CASE ~UNCHANGED <<phys_mem, pagusr_table>>
      BY <1>1, <1>3, <1>11, <2>1, <3>2, DeleteStep DEF Exit
    <3> QED
      BY <3>1, <3>2
  <2>3. /\ dir' \in [Task -> Dir \cup {NoDir}] /\ my_heap' \in [Task -> Dir \cup {NoDir}]
        /\ dir_pages_num_references' \in [Dir -> Int]
        /\ UNCHANGED <<heap_zones, page_fault, unguarded>>
    BY <1>1, <1>3, <1>11 DEF Exit, MemTypeOK
  <2>4. \A u \in UserTask' : u \in UserTask /\ dir'[u] = dir[u] /\ my_heap'[u] = my_heap[u]
    BY <1>1, <1>11 DEF Exit, UserTask, Live, MemTypeOK
  <2> QED
    BY <1>1, <2>2, <2>3, <2>4, Rejoined DEF MemTypeOK
<1>12. ASSUME NEW n \in Requests,
              DynMemGrow(t, n) \/ DynMemNoFrames(t, n) \/ DynMemShrink(t, -n)
       PROVE  MemInv' /\ CodeFrames' = CodeFrames
  <2>1. UNCHANGED <<dir_pages_num_references, dir, my_heap, page_fault>>
    BY <1>12 DEF DynMemGrow, DynMemNoFrames, DynMemShrink
  <2>2. n \in Int /\ PAG_LOG_INIT_HEAP \in Int
    BY MemoryAssumption DEF PAG_LOG_INIT_HEAP, PAG_LOG_INIT_CODE, PAG_LOG_INIT_DATA
  <2>3. heap_zones' \in [Dir -> 0 .. MaxHeap]
    <3> DEFINE h == my_heap[t]
    <3>1. /\ heap_zones \in [Dir -> 0 .. MaxHeap] /\ h \in Dir
          /\ heap_zones[h] \in 0 .. MaxHeap /\ MaxHeap \in Nat
      BY <1>1, <1>3, MemoryAssumption DEF MemTypeOK
    <3>2. \/ heap_zones' = heap_zones
          \/ heap_zones' = [heap_zones EXCEPT ![h] = @ + n] /\ n > 0
             /\ heap_zones[h] + n <= MaxHeap
          \/ heap_zones' = [heap_zones EXCEPT ![h] = @ - (-n)] /\ -n > 0
             /\ heap_zones[h] >= -n
      <4>1. CASE DynMemGrow(t, n)
        BY <4>1 DEF DynMemGrow, counter
      <4>2. CASE DynMemNoFrames(t, n)
        BY <4>2 DEF DynMemNoFrames
      <4>3. CASE DynMemShrink(t, -n)
        BY <4>3 DEF DynMemShrink, counter
      <4> QED
        BY <1>12, <4>1, <4>2, <4>3
    <3> HIDE DEF h
    <3>3. CASE heap_zones' = heap_zones
      BY <3>1, <3>3
    <3>4. CASE heap_zones' = [heap_zones EXCEPT ![h] = @ + n] /\ n > 0
               /\ heap_zones[h] + n <= MaxHeap
      BY <2>2, <3>1, <3>4
    <3>5. CASE heap_zones' = [heap_zones EXCEPT ![h] = @ - (-n)] /\ -n > 0
               /\ heap_zones[h] >= -n
      BY <2>2, <3>1, <3>5
    <3> QED
      BY <3>2, <3>3, <3>4, <3>5
  <2>4. TablesOK' /\ CodeStays
    <3>1. CASE DynMemGrow(t, n)
      BY <3>1, GrowStep
    <3>2. CASE DynMemNoFrames(t, n)
      <4> DEFINE S == GrowPages(t, Cardinality(FreeFrames(phys_mem))) \cap Page
      <4>1. S \subseteq PrivatePage
        <5>1. \A p \in S : p >= PAG_LOG_INIT_HEAP
          BY <1>3, <2>2 DEF GrowPages, Page
        <5> QED
          BY <5>1, Layout DEF PrivatePage
      <4>2. Deleted(pagusr_table[dir[t]], GrowPages(t, Cardinality(FreeFrames(phys_mem))))
              = Deleted(pagusr_table[dir[t]], S)
        BY DEF Deleted
      <4>3. pagusr_table' = [pagusr_table EXCEPT ![dir[t]] = Deleted(@, S)]
            /\ phys_mem' = phys_mem
        BY <3>2, <4>2 DEF DynMemNoFrames
      <4> HIDE DEF S
      <4> QED
        BY <1>1, <1>3, <4>1, <4>3, DeleteStep
    <3>3. CASE DynMemShrink(t, -n)
      <4>1. ShrinkPages(t, -n) \subseteq HeapPages(counter(t))
        BY <1>3, <2>2, <3>3 DEF DynMemShrink, ShrinkPages, HeapPages
      <4> QED
        BY <1>1, <1>3, <1>7, <2>2, <3>3, <4>1, DeleteStep DEF DynMemShrink
    <3> QED
      BY <1>12, <3>1, <3>2, <3>3
  <2> QED
    BY <1>1, <2>1, <2>3, <2>4, Rejoined DEF MemTypeOK, UserTask, Live
<1> QED
  BY <1>8, <1>9, <1>10, <1>11, <1>12

\* The tables keep their types, and the heap counters their bounds, whatever
\* situation the programs get into (sys.c:56-156, 215-257, 383-422).
THEOREM MemTypeCorrect == MemSpec => []MemTypeOK
<1>1. MemInit => MemInv
  BY InitMemInv
<1>2. MemInv /\ [MemNext /\ Bounded /\ unguarded' \subseteq MemAdmitted]_memvars => MemInv'
  BY NextMemInv
<1>3. MemInv => MemTypeOK
  BY DEF MemInv
<1> QED
  BY <1>1, <1>2, <1>3, PTL DEF MemSpec

\* No two pages share a frame and no mapped frame is handed out again,
\* whatever situation the programs get into (mm.c:214-246, sys.c:77-122).
THEOREM FramesNeverShared == MemSpec => []FramesDisjoint
<1>1. MemInit => MemInv
  BY InitMemInv
<1>2. MemInv /\ [MemNext /\ Bounded /\ unguarded' \subseteq MemAdmitted]_memvars => MemInv'
  BY NextMemInv
<1>3. MemInv => FramesDisjoint
  BY DEF MemInv
<1> QED
  BY <1>1, <1>2, <1>3, PTL DEF MemSpec

----------------------------------------------------------------------------
(* Who uses which directory *)

Owners(d) == {t \in UserTask : dir[t] = d}

DirsKnown == "no_directory" \notin unguarded

IdleLives == Live(Idle)

\* A count is exact, except for the directories that nobody uses and nobody
\* gives back: the idle task's, that of init_mm and those of failed forks.
RefsCount ==
  DirsKnown => \A d \in Dir :
    \/ dir_pages_num_references[d] = Cardinality(Owners(d))
    \/ Owners(d) = {} /\ dir_pages_num_references[d] >= 1

\* The threads of an address space use one heap counter.
OneHeap == DirsKnown => \A t, u \in UserTask : dir[t] = dir[u] => my_heap[t] = my_heap[u]

DirInv == IdleLives /\ RefsCount /\ OneHeap

LEMMA OwnersFinite == \A d : IsFiniteSet(Owners(d))
<1>1. IsFiniteSet(Task)
  BY FS_Interval, MemoryAssumption DEF Task
<1> QED
  BY <1>1, FS_Subset DEF Owners, UserTask

\* A directory without references is nobody's.
LEMMA FreeUnowned ==
  ASSUME MemInv, RefsCount, DirsKnown, NEW d \in Dir, FreeDir(d)
  PROVE  Owners(d) = {} /\ dir_pages_num_references[d] = 0
<1>1. Cardinality(Owners(d)) \in Nat
  BY OwnersFinite, FS_CardinalityType
<1>2. dir_pages_num_references[d] = Cardinality(Owners(d))
  BY <1>1 DEF RefsCount, FreeDir, MemInv, MemTypeOK
<1>3. Cardinality(Owners(d)) = 0
  BY <1>1, <1>2 DEF FreeDir
<1> QED
  BY <1>2, <1>3, OwnersFinite, FS_EmptySet

\* fork takes a directory that nobody uses.
LEMMA ForkDirFree ==
  ASSUME MemInv, RefsCount, DirsKnown, NEW t \in UserTask,
         "no_directory" \notin ForkSituations(t)
  PROVE  /\ ForkDir(t) \in Dir /\ ForkDir(t) # dir[t]
         /\ Owners(ForkDir(t)) = {} /\ dir_pages_num_references[ForkDir(t)] = 0
<1>1. ForkDir(t) # dir[t]
  BY DEF ForkSituations
<1>2. ForkDir(t) \in Dir /\ FirstFreeDir(ForkDir(t))
  BY <1>1 DEF ForkDir, NewDir
<1> QED
  BY <1>1, <1>2, FreeUnowned DEF FirstFreeDir

\* A new task is one user task more, and the others keep what they have.
LEMMA NewTask ==
  ASSUME MemInv, IdleLives, PcbIsFree, NEW d \in Dir, NEW h \in Dir,
         dir' = [dir EXCEPT ![FreePcb] = d], my_heap' = [my_heap EXCEPT ![FreePcb] = h]
  PROVE  /\ UserTask' = UserTask \cup {FreePcb} /\ FreePcb \notin UserTask
         /\ dir'[FreePcb] = d /\ my_heap'[FreePcb] = h
         /\ \A u \in UserTask : dir'[u] = dir[u] /\ my_heap'[u] = my_heap[u]
         /\ IdleLives'
<1> DEFINE c == FreePcb
<1>1. c \in Task /\ ~Live(c)
  BY DEF PcbIsFree, FreePcb
<1>2. c # Idle /\ c \notin UserTask /\ d # NoDir
  BY <1>1, Layout DEF IdleLives, UserTask
<1>3. DOMAIN dir = Task /\ DOMAIN my_heap = Task
  BY DEF MemInv, MemTypeOK
<1>4. /\ dir'[c] = d /\ my_heap'[c] = h
      /\ \A u \in Task \ {c} : dir'[u] = dir[u] /\ my_heap'[u] = my_heap[u]
  BY <1>1, <1>3
<1> HIDE DEF c
<1>5. UserTask' = UserTask \cup {c} /\ IdleLives'
  BY <1>1, <1>2, <1>4, Layout DEF UserTask, Live, IdleLives
<1> QED
  BY <1>2, <1>4, <1>5 DEF UserTask, c

LEMMA LeftTask ==
  ASSUME MemInv, IdleLives, NEW t \in UserTask, Exit(t)
  PROVE  /\ UserTask' = UserTask \ {t}
         /\ \A u \in UserTask \ {t} : dir'[u] = dir[u] /\ my_heap'[u] = my_heap[u]
         /\ IdleLives'
<1>1. DOMAIN dir = Task /\ DOMAIN my_heap = Task /\ t \in Task /\ t # Idle
  BY DEF MemInv, MemTypeOK, UserTask
<1>2. dir'[t] = NoDir
  BY <1>1 DEF Exit
<1>3. \A u \in Task \ {t} : dir'[u] = dir[u] /\ my_heap'[u] = my_heap[u]
  BY <1>1 DEF Exit
<1> QED
  BY <1>1, <1>2, <1>3, Layout DEF UserTask, Live, IdleLives

\* A step of a task, as the next-state relation admits it.
StepOf(t) ==
  /\ t \in UserTask /\ unguarded' \subseteq MemAdmitted
  /\ \/ Fork(t) \/ ForkPageFault(t) \/ ForkNoFrames(t) \/ CreateThread(t)
     \/ CreateThreadPageFault(t) \/ Exit(t)
     \/ \E n \in Requests : DynMemGrow(t, n) \/ DynMemNoFrames(t, n) \/ DynMemShrink(t, -n)

MemStep == [MemNext /\ Bounded /\ unguarded' \subseteq MemAdmitted]_memvars

LEMMA Steps ==
  ASSUME MemStep
  PROVE  UNCHANGED memvars \/ \E t \in Task : StepOf(t)
BY DEF MemStep, MemNext, Halted, StepOf, Fork, ForkPageFault, CreateThreadPageFault,
       ForkNoFrames, CreateThread, Exit,
       DynMemGrow, DynMemNoFrames, DynMemShrink, Calls

\* What has been recorded stays recorded.
LEMMA NotesGrow ==
  ASSUME MemStep
  PROVE  unguarded \subseteq unguarded'
BY Steps DEF memvars, StepOf, Fork, ForkPageFault, CreateThreadPageFault, ForkNoFrames,
             CreateThread, Exit,
             DynMemGrow, DynMemNoFrames, DynMemShrink, CounterNote, Note

LEMMA DirInvInit ==
  ASSUME MemInit
  PROVE  DirInv
<1>1. UserTask = {task1} /\ dir[task1] = 2 /\ IdleLives
  BY Layout DEF MemInit, UserTask, Live, task1, Idle, NoDir, IdleLives
<1>2. \A d \in Dir : Owners(d) = IF d = 2 THEN {task1} ELSE {}
  BY <1>1 DEF Owners
<1>3. Cardinality({task1}) = 1 /\ Cardinality({}) = 0
  BY FS_Singleton, FS_EmptySet
<1>4. \A d \in Dir : dir_pages_num_references[d] = IF d <= 2 THEN 1 ELSE 0
  BY DEF MemInit
<1>5. ASSUME NEW d \in Dir
      PROVE  \/ dir_pages_num_references[d] = Cardinality(Owners(d))
             \/ Owners(d) = {} /\ dir_pages_num_references[d] >= 1
  BY <1>2, <1>3, <1>4
<1> QED
  BY <1>1, <1>5 DEF DirInv, RefsCount, OneHeap

\* dyn_mem and a fork that stops leave directories as they are.
LEMMA SameDirs ==
  ASSUME DirInv, UNCHANGED <<dir, my_heap, dir_pages_num_references>>,
         unguarded \subseteq unguarded'
  PROVE  DirInv'
<1>1. UserTask' = UserTask /\ (\A d : Owners(d)' = Owners(d)) /\ IdleLives'
  BY DEF UserTask, Live, Owners, DirInv, IdleLives
<1> QED
  BY <1>1 DEF DirInv, RefsCount, OneHeap, DirsKnown

LEMMA DirInvNext ==
  ASSUME MemInv, DirInv, MemStep
  PROVE  DirInv'
<1>0. IdleLives /\ RefsCount /\ OneHeap /\ unguarded \subseteq unguarded'
      /\ dir_pages_num_references \in [Dir -> Int]
  BY NotesGrow DEF DirInv, MemInv, MemTypeOK
<1>1. CASE UNCHANGED memvars
  BY <1>1, SameDirs DEF memvars
<1> SUFFICES ASSUME NEW t \in Task, StepOf(t) PROVE DirInv'
  BY <1>1, Steps
<1>2. t \in UserTask /\ dir[t] \in Dir /\ my_heap[t] \in Dir
  BY DEF StepOf, UserTask, Live, MemInv, MemTypeOK, HeapsKnown
<1>3. \A d : IsFiniteSet(Owners(d)) /\ Cardinality(Owners(d)) \in Nat
  BY OwnersFinite, FS_CardinalityType
<1>4. ForkDir(t) \in Dir
  BY <1>2 DEF ForkDir, NewDir
<1>5. CASE Fork(t)
  <2> DEFINE c == FreePcb
             fd == ForkDir(t)
  <2>1. /\ UserTask' = UserTask \cup {c} /\ c \notin UserTask
        /\ dir'[c] = fd /\ my_heap'[c] = my_heap[t]
        /\ \A u \in UserTask : dir'[u] = dir[u] /\ my_heap'[u] = my_heap[u]
        /\ IdleLives'
    BY <1>0, <1>2, <1>4, <1>5, NewTask DEF Fork
  <2> SUFFICES ASSUME DirsKnown' PROVE RefsCount' /\ OneHeap'
    BY <2>1 DEF DirInv, RefsCount, OneHeap
  <2>2. DirsKnown /\ "no_directory" \notin ForkSituations(t)
    BY <1>0, <1>5 DEF DirsKnown, Fork, Note
  <2>3. fd # dir[t] /\ Owners(fd) = {} /\ dir_pages_num_references[fd] = 0
    BY <1>0, <1>2, <2>2, ForkDirFree
  <2>4. dir_pages_num_references' = [dir_pages_num_references EXCEPT ![fd] = @ + 1]
    BY <1>5, <2>3 DEF Fork, ForkRefs, ForkDir, NewDir
  <2> HIDE DEF c, fd
  <2>5. \A d \in Dir : Owners(d)' = IF d = fd THEN {c} ELSE Owners(d)
    BY <2>1, <2>3 DEF Owners
  <2>6. Cardinality({c}) = 1
    BY FS_Singleton
  <2>7. \A d \in Dir : \/ dir_pages_num_references'[d] = Cardinality(Owners(d)')
                       \/ Owners(d)' = {} /\ dir_pages_num_references'[d] >= 1
    <3> SUFFICES ASSUME NEW d \in Dir
                 PROVE  \/ dir_pages_num_references'[d] = Cardinality(Owners(d)')
                        \/ Owners(d)' = {} /\ dir_pages_num_references'[d] >= 1
      OBVIOUS
    <3>1. CASE d = fd
      BY <1>0, <2>3, <2>4, <2>5, <2>6, <3>1
    <3>2. CASE d # fd
      BY <1>0, <2>2, <2>4, <2>5, <3>2 DEF RefsCount
    <3> QED
      BY <3>1, <3>2
  <2>8. OneHeap'
    BY <1>0, <2>1, <2>2, <2>3 DEF OneHeap, Owners
  <2> QED
    BY <2>7, <2>8 DEF RefsCount
<1>6. CASE ForkPageFault(t) \/ CreateThreadPageFault(t)
  BY <1>0, <1>6, SameDirs DEF ForkPageFault, CreateThreadPageFault
<1>7. CASE ForkNoFrames(t)
  <2>1. UserTask' = UserTask /\ (\A d : Owners(d)' = Owners(d)) /\ IdleLives'
        /\ UNCHANGED <<dir, my_heap>>
    BY <1>0, <1>7 DEF UserTask, Live, Owners, IdleLives, ForkNoFrames
  <2> SUFFICES ASSUME DirsKnown' PROVE RefsCount' /\ OneHeap'
    BY <2>1 DEF DirInv, RefsCount, OneHeap
  <2>2. DirsKnown /\ "no_directory" \notin ForkSituations(t)
    BY <1>0, <1>7 DEF DirsKnown, ForkNoFrames, Note
  <2> DEFINE fd == ForkDir(t)
  <2>3. fd # dir[t] /\ Owners(fd) = {} /\ dir_pages_num_references[fd] = 0
    BY <1>0, <1>2, <2>2, ForkDirFree
  <2>4. dir_pages_num_references' = [dir_pages_num_references EXCEPT ![fd] = @ + 1]
    BY <1>7, <2>3 DEF ForkNoFrames, ForkRefs, ForkDir, NewDir
  <2> HIDE DEF fd
  <2>5. RefsCount'
    <3> SUFFICES ASSUME NEW d \in Dir
                 PROVE  \/ dir_pages_num_references'[d] = Cardinality(Owners(d)')
                        \/ Owners(d)' = {} /\ dir_pages_num_references'[d] >= 1
      BY DEF RefsCount
    <3>1. CASE d = fd
      BY <1>0, <2>1, <2>3, <2>4, <3>1
    <3>2. CASE d # fd
      BY <1>0, <2>1, <2>2, <2>4, <3>2 DEF RefsCount
    <3> QED
      BY <3>1, <3>2
  <2> QED
    BY <1>0, <2>1, <2>2, <2>5 DEF OneHeap
<1>8. CASE CreateThread(t)
  <2> DEFINE c == FreePcb
             dt == dir[t]
  <2>1. /\ UserTask' = UserTask \cup {c} /\ c \notin UserTask
        /\ dir'[c] = dt /\ my_heap'[c] = my_heap[t]
        /\ \A u \in UserTask : dir'[u] = dir[u] /\ my_heap'[u] = my_heap[u]
        /\ IdleLives'
    BY <1>0, <1>2, <1>8, NewTask DEF CreateThread
  <2> SUFFICES ASSUME DirsKnown' PROVE RefsCount' /\ OneHeap'
    BY <2>1 DEF DirInv, RefsCount, OneHeap
  <2>2. DirsKnown
    BY <1>0 DEF DirsKnown
  <2>3. dir_pages_num_references' = [dir_pages_num_references EXCEPT ![dt] = @ + 1]
    BY <1>8 DEF CreateThread
  <2>4. OneHeap'
    BY <1>0, <1>2, <2>1, <2>2 DEF OneHeap
  <2>5. t \in Owners(dt) /\ dt \in Dir /\ c \notin Owners(dt)
    BY <1>2, <2>1 DEF Owners
  <2> HIDE DEF c, dt
  <2>6. \A d \in Dir : Owners(d)' = IF d = dt THEN Owners(d) \cup {c} ELSE Owners(d)
    BY <2>1 DEF Owners
  <2>7. Cardinality(Owners(dt) \cup {c}) = Cardinality(Owners(dt)) + 1
    BY <1>3, <2>5, FS_AddElement
  <2>8. RefsCount'
    <3> SUFFICES ASSUME NEW d \in Dir
                 PROVE  \/ dir_pages_num_references'[d] = Cardinality(Owners(d)')
                        \/ Owners(d)' = {} /\ dir_pages_num_references'[d] >= 1
      BY DEF RefsCount
    <3>1. CASE d = dt
      BY <1>0, <1>3, <2>2, <2>3, <2>5, <2>6, <2>7, <3>1 DEF RefsCount
    <3>2. CASE d # dt
      BY <1>0, <2>2, <2>3, <2>6, <3>2 DEF RefsCount
    <3> QED
      BY <3>1, <3>2
  <2> QED
    BY <2>4, <2>8
<1>9. CASE Exit(t)
  <2> DEFINE dt == dir[t]
  <2>1. /\ UserTask' = UserTask \ {t}
        /\ \A u \in UserTask \ {t} : dir'[u] = dir[u] /\ my_heap'[u] = my_heap[u]
        /\ IdleLives'
    BY <1>0, <1>2, <1>9, LeftTask
  <2> SUFFICES ASSUME DirsKnown' PROVE RefsCount' /\ OneHeap'
    BY <2>1 DEF DirInv, RefsCount, OneHeap
  <2>2. DirsKnown
    BY <1>0 DEF DirsKnown
  <2>3. dir_pages_num_references' = [dir_pages_num_references EXCEPT ![dt] = @ - 1]
    BY <1>9 DEF Exit
  <2>4. OneHeap'
    BY <1>0, <2>1, <2>2 DEF OneHeap
  <2>5. t \in Owners(dt) /\ dt \in Dir
    BY <1>2 DEF Owners
  <2>6. \A d \in Dir : Owners(d)' = IF d = dt THEN Owners(d) \ {t} ELSE Owners(d)
    BY <1>2, <2>1 DEF Owners
  <2> HIDE DEF dt
  <2>7. Cardinality(Owners(dt) \ {t}) = Cardinality(Owners(dt)) - 1
    BY <1>3, <2>5, FS_RemoveElement
  <2>8. RefsCount'
    <3> SUFFICES ASSUME NEW d \in Dir
                 PROVE  \/ dir_pages_num_references'[d] = Cardinality(Owners(d)')
                        \/ Owners(d)' = {} /\ dir_pages_num_references'[d] >= 1
      BY DEF RefsCount
    <3>1. CASE d = dt
      BY <1>0, <1>3, <2>2, <2>3, <2>5, <2>6, <2>7, <3>1 DEF RefsCount
    <3>2. CASE d # dt
      BY <1>0, <2>2, <2>3, <2>6, <3>2 DEF RefsCount
    <3> QED
      BY <3>1, <3>2
  <2> QED
    BY <2>4, <2>8
<1>10. ASSUME NEW n \in Requests,
              DynMemGrow(t, n) \/ DynMemNoFrames(t, n) \/ DynMemShrink(t, -n)
       PROVE  DirInv'
  BY <1>0, <1>10, SameDirs DEF DynMemGrow, DynMemNoFrames, DynMemShrink
<1> QED
  BY <1>5, <1>6, <1>7, <1>8, <1>9, <1>10 DEF StepOf

----------------------------------------------------------------------------
(* What a step does to the tasks and to the tables *)

\* A user task after a step is one from before it, with what it had, or the
\* one that fork or create_thread made.
LEMMA TasksNext ==
  ASSUME MemInv, DirInv, NEW t \in Task, StepOf(t), NEW u \in UserTask'
  PROVE  \/ u \in UserTask /\ dir'[u] = dir[u] /\ my_heap'[u] = my_heap[u]
         \/ /\ u \notin UserTask /\ my_heap'[u] = my_heap[t]
            /\ \/ Fork(t) /\ dir'[u] = ForkDir(t)
               \/ CreateThread(t) /\ dir'[u] = dir[t]
<1>1. t \in UserTask /\ dir[t] \in Dir /\ my_heap[t] \in Dir /\ IdleLives
  BY DEF StepOf, UserTask, Live, MemInv, MemTypeOK, HeapsKnown, DirInv
<1>2. ForkDir(t) \in Dir
  BY <1>1 DEF ForkDir, NewDir
<1>3. CASE Fork(t)
  <2>1. PcbIsFree /\ dir' = [dir EXCEPT ![FreePcb] = ForkDir(t)]
        /\ my_heap' = [my_heap EXCEPT ![FreePcb] = my_heap[t]]
    BY <1>3 DEF Fork
  <2>2. /\ UserTask' = UserTask \cup {FreePcb} /\ FreePcb \notin UserTask
        /\ dir'[FreePcb] = ForkDir(t) /\ my_heap'[FreePcb] = my_heap[t]
        /\ \A v \in UserTask : dir'[v] = dir[v] /\ my_heap'[v] = my_heap[v]
    BY <1>1, <1>2, <2>1, NewTask
  <2> QED
    BY <1>3, <2>2
<1>4. CASE CreateThread(t)
  <2>1. PcbIsFree /\ dir' = [dir EXCEPT ![FreePcb] = dir[t]]
        /\ my_heap' = [my_heap EXCEPT ![FreePcb] = my_heap[t]]
    BY <1>4 DEF CreateThread
  <2>2. /\ UserTask' = UserTask \cup {FreePcb} /\ FreePcb \notin UserTask
        /\ dir'[FreePcb] = dir[t] /\ my_heap'[FreePcb] = my_heap[t]
        /\ \A v \in UserTask : dir'[v] = dir[v] /\ my_heap'[v] = my_heap[v]
    BY <1>1, <2>1, NewTask
  <2> QED
    BY <1>4, <2>2
<1>5. CASE Exit(t)
  BY <1>1, <1>5, LeftTask
<1>6. CASE UNCHANGED <<dir, my_heap>>
  BY <1>6 DEF UserTask, Live
<1> QED
  BY <1>3, <1>4, <1>5, <1>6
     DEF StepOf, ForkPageFault, CreateThreadPageFault, ForkNoFrames, DynMemGrow,
         DynMemNoFrames, DynMemShrink

\* The same, for a task that lives on.
LEMMA TaskStays ==
  ASSUME MemInv, DirInv, NEW t \in Task, StepOf(t), NEW u \in UserTask
  PROVE  \/ u \in UserTask' /\ dir'[u] = dir[u] /\ my_heap'[u] = my_heap[u]
         \/ Exit(t) /\ u = t /\ dir'[u] = NoDir
<1>1. t \in UserTask /\ dir[t] \in Dir /\ my_heap[t] \in Dir /\ IdleLives
  BY DEF StepOf, UserTask, Live, MemInv, MemTypeOK, HeapsKnown, DirInv
<1>2. ForkDir(t) \in Dir
  BY <1>1 DEF ForkDir, NewDir
<1>3. CASE Fork(t)
  BY <1>1, <1>2, <1>3, NewTask DEF Fork
<1>4. CASE CreateThread(t)
  BY <1>1, <1>4, NewTask DEF CreateThread
<1>5. CASE Exit(t)
  <2>1. dir'[t] = NoDir
    BY <1>1, <1>5 DEF Exit, MemInv, MemTypeOK, UserTask
  <2> QED
    BY <1>1, <1>5, <2>1, LeftTask
<1>6. CASE UNCHANGED <<dir, my_heap>>
  BY <1>6 DEF UserTask, Live
<1> QED
  BY <1>3, <1>4, <1>5, <1>6
     DEF StepOf, ForkPageFault, CreateThreadPageFault, ForkNoFrames, DynMemGrow,
         DynMemNoFrames, DynMemShrink

\* The last thread of an address space is alone in it.
LEMMA LastThread ==
  ASSUME MemInv, RefsCount, DirsKnown, NEW t \in UserTask, dir_pages_num_references[dir[t]] - 1 <= 0
  PROVE  Owners(dir[t]) = {t}
<1>1. dir[t] \in Dir /\ t \in Owners(dir[t])
  BY DEF UserTask, Live, MemInv, MemTypeOK, Owners
<1>2. dir_pages_num_references[dir[t]] = Cardinality(Owners(dir[t]))
  BY <1>1 DEF RefsCount
<1>3. Cardinality(Owners(dir[t])) \in Nat /\ Cardinality(Owners(dir[t])) # 0
  BY <1>1, OwnersFinite, FS_CardinalityType, FS_EmptySet
<1>4. Cardinality(Owners(dir[t])) = 1
  BY <1>2, <1>3
<1> QED
  BY <1>1, <1>4, OwnersFinite, FS_Singleton

\* The entries after pages are unmapped,
LEMMA DeletedEntries ==
  ASSUME MemInv, NEW dd \in Dir, NEW S,
         pagusr_table' = [pagusr_table EXCEPT ![dd] = Deleted(@, S)]
  PROVE  \A d \in Dir : \A p \in Page :
           pagusr_table'[d][p] = IF d = dd /\ p \in S THEN Absent ELSE pagusr_table[d][p]
BY DEF MemInv, MemTypeOK, Deleted

\* and after the heap grows.
LEMMA GrownEntries ==
  ASSUME MemInv, NEW t \in UserTask, NEW n, DynMemGrow(t, n)
  PROVE  \A d \in Dir : \A p \in Page :
           pagusr_table'[d][p] =
             IF d = dir[t] /\ p \in GrowPages(t, n)
             THEN UserPage(Grant(phys_mem, p - PAG_LOG_INIT_HEAP - counter(t)))
             ELSE pagusr_table[d][p]
<1>1. dir[t] \in Dir
  BY DEF UserTask, Live, MemInv, MemTypeOK
<1> QED
  BY <1>1 DEF DynMemGrow, MemInv, MemTypeOK, Updated

\* Where the pages of the heap are.
LEMMA HeapArea ==
  ASSUME MemInv, NEW t \in UserTask
  PROVE  /\ dir[t] \in Dir /\ my_heap[t] \in Dir
         /\ counter(t) \in 0 .. MaxHeap /\ PAG_LOG_INIT_HEAP \in Nat
         /\ \A n : \A p \in GrowPages(t, n) : p >= PAG_LOG_INIT_HEAP + counter(t)
<1>1. dir[t] \in Dir /\ my_heap[t] \in Dir
  BY DEF UserTask, Live, MemInv, MemTypeOK, HeapsKnown
<1>2. counter(t) \in 0 .. MaxHeap
  BY <1>1 DEF counter, MemInv, MemTypeOK
<1>3. PAG_LOG_INIT_HEAP \in Nat
  BY MemoryAssumption DEF PAG_LOG_INIT_HEAP, PAG_LOG_INIT_CODE, PAG_LOG_INIT_DATA
<1> QED
  BY <1>1, <1>2, <1>3 DEF GrowPages

----------------------------------------------------------------------------
(* The data pages *)

DataMapped ==
  DirsKnown => \A t \in UserTask : \A p \in DataPages : Present(pagusr_table[dir[t]][p])

\* No step moves the data pages of an address space that is in use after it.
LEMMA DataKept ==
  ASSUME MemInv, DirInv, MemStep, DirsKnown', NEW u \in UserTask, dir'[u] = dir[u],
         NEW p \in DataPages
  PROVE  pagusr_table'[dir[u]][p] = pagusr_table[dir[u]][p]
<1>0. DirsKnown /\ p \in Page /\ dir[u] \in Dir /\ RefsCount /\ p < PAG_LOG_INIT_HEAP
  <2>1. p < PAG_LOG_INIT_HEAP
    BY MemoryAssumption
       DEF DataPages, PAG_LOG_INIT_HEAP, PAG_LOG_INIT_CODE, PAG_LOG_INIT_DATA
  <2> QED
    BY <2>1, NotesGrow, Layout, HeapArea DEF DirsKnown, DirInv
<1>1. CASE UNCHANGED memvars
  BY <1>1 DEF memvars
<1> SUFFICES ASSUME NEW t \in Task, StepOf(t)
             PROVE  pagusr_table'[dir[u]][p] = pagusr_table[dir[u]][p]
  BY <1>1, Steps
<1>2. t \in UserTask /\ dir[t] \in Dir /\ counter(t) \in 0 .. MaxHeap /\ PAG_LOG_INIT_HEAP \in Nat
  BY HeapArea DEF StepOf
<1>3. CASE Fork(t)
  <2>1. "no_directory" \notin ForkSituations(t)
    BY <1>3 DEF DirsKnown, Fork, Note
  <2>2. dir[u] # ForkDir(t)
    BY <1>0, <1>2, <2>1, ForkDirFree DEF Owners
  <2>3. p \notin TempPages(t)
    BY <1>0, <1>2, <1>3, ForkEntries DEF TempPages
  <2> QED
    BY <1>0, <1>2, <1>3, <2>2, <2>3, ForkEntries
<1>4. CASE Exit(t)
  <2>1. CASE UNCHANGED pagusr_table
    BY <2>1
  <2>2. CASE ~UNCHANGED pagusr_table
    <3>1. /\ dir_pages_num_references[dir[t]] - 1 <= 0
          /\ pagusr_table' = [pagusr_table EXCEPT ![dir[t]] = Deleted(@, OwnPages(t))]
      BY <1>4, <2>2 DEF Exit
    <3>2. u # t
      BY <1>0, <1>2, <1>4, Layout DEF Exit, MemInv, MemTypeOK
    <3>3. dir[u] # dir[t]
      BY <1>0, <1>2, <3>1, <3>2, LastThread DEF Owners
    <3> QED
      BY <1>0, <1>2, <3>1, <3>3, DeletedEntries
  <2> QED
    BY <2>1, <2>2
<1>5. ASSUME NEW n \in Requests, DynMemGrow(t, n)
      PROVE  pagusr_table'[dir[u]][p] = pagusr_table[dir[u]][p]
  <2>1. p \notin GrowPages(t, n)
    BY <1>0, <1>2 DEF GrowPages
  <2> QED
    BY <1>0, <1>2, <1>5, <2>1, GrownEntries
<1>6. ASSUME NEW n \in Requests, DynMemNoFrames(t, n)
      PROVE  pagusr_table'[dir[u]][p] = pagusr_table[dir[u]][p]
  <2> DEFINE S == GrowPages(t, Cardinality(FreeFrames(phys_mem)))
  <2>1. p \notin S
    BY <1>0, <1>2 DEF GrowPages
  <2>2. pagusr_table' = [pagusr_table EXCEPT ![dir[t]] = Deleted(@, S)]
    BY <1>6 DEF DynMemNoFrames
  <2> HIDE DEF S
  <2>3. \A d \in Dir : \A q \in Page :
          pagusr_table'[d][q] = IF d = dir[t] /\ q \in S THEN Absent ELSE pagusr_table[d][q]
    BY <2>2 DEF MemInv, MemTypeOK, Deleted
  <2> QED
    BY <1>0, <2>1, <2>3
<1>7. ASSUME NEW n \in Requests, DynMemShrink(t, -n)
      PROVE  pagusr_table'[dir[u]][p] = pagusr_table[dir[u]][p]
  <2>1. n \in Int
    BY MemoryAssumption
  <2>2. p \notin ShrinkPages(t, -n)
    BY <1>0, <1>2, <1>7, <2>1 DEF ShrinkPages, DynMemShrink
  <2> DEFINE S == ShrinkPages(t, -n)
  <2>3. pagusr_table' = [pagusr_table EXCEPT ![dir[t]] = Deleted(@, S)]
    BY <1>7 DEF DynMemShrink
  <2> HIDE DEF S
  <2>4. \A d \in Dir : \A q \in Page :
          pagusr_table'[d][q] = IF d = dir[t] /\ q \in S THEN Absent ELSE pagusr_table[d][q]
    BY <2>3 DEF MemInv, MemTypeOK, Deleted
  <2>5. p \notin S
    BY <2>2 DEF S
  <2> QED
    BY <1>0, <2>4, <2>5
<1> QED
  BY <1>3, <1>4, <1>5, <1>6, <1>7 DEF StepOf, ForkPageFault, CreateThreadPageFault, ForkNoFrames,
     CreateThread

LEMMA DataMappedInit ==
  ASSUME MemInit
  PROVE  DataMapped
<1>1. UserTask = {task1} /\ dir[task1] = 2
  BY Layout DEF MemInit, UserTask, Live, task1, Idle, NoDir
<1>2. pagusr_table[2] = set_user_pages(KernelTable)
  BY Layout DEF MemInit
<1>3. \A p \in DataPages : Present(pagusr_table[2][p])
  BY <1>2, Layout, EntryFacts DEF set_user_pages
<1> QED
  BY <1>1, <1>3 DEF DataMapped

LEMMA DataMappedNext ==
  ASSUME MemInv, DirInv, DataMapped, MemStep
  PROVE  DataMapped'
<1> SUFFICES ASSUME DirsKnown', NEW u \in UserTask', NEW p \in DataPages
             PROVE  Present(pagusr_table'[dir'[u]][p])
  BY DEF DataMapped, Present
<1>0. DirsKnown /\ p \in Page
  BY NotesGrow, Layout DEF DirsKnown
<1>1. ASSUME NEW v \in UserTask, dir'[v] = dir[v], dir'[u] = dir[v]
      PROVE  Present(pagusr_table'[dir'[u]][p])
  BY <1>0, <1>1, DataKept DEF DataMapped
<1>2. CASE UNCHANGED memvars
  BY <1>1, <1>2 DEF memvars, UserTask, Live
<1> SUFFICES ASSUME NEW t \in Task, StepOf(t)
             PROVE  Present(pagusr_table'[dir'[u]][p])
  BY <1>2, Steps
<1>3. CASE u \in UserTask /\ dir'[u] = dir[u]
  BY <1>1, <1>3
<1>4. CASE Fork(t) /\ dir'[u] = ForkDir(t)
  <2>1. "no_directory" \notin ForkSituations(t) /\ t \in UserTask /\ RefsCount
    BY <1>4 DEF DirsKnown, Fork, Note, StepOf, DirInv
  <2>2. ForkDir(t) # dir[t] /\ ForkDir(t) \in Dir
    BY <1>0, <2>1, ForkDirFree
  <2>3. pagusr_table'[ForkDir(t)][p] = UserPage(Grant(phys_mem, p - PAG_LOG_INIT_DATA))
    BY <1>0, <1>4, <2>2, ForkEntries, Layout
  <2> QED
    BY <1>4, <2>3, EntryFacts
<1>5. CASE CreateThread(t) /\ dir'[u] = dir[t]
  <2>1. t \in UserTask
    BY DEF StepOf
  <2>2. dir'[t] = dir[t]
    BY <2>1, <1>5, TaskStays DEF Exit, CreateThread, UserTask, Live
  <2> QED
    BY <1>1, <1>5, <2>1, <2>2
<1> QED
  BY <1>3, <1>4, <1>5, TasksNext

----------------------------------------------------------------------------
(* The heaps *)

Harmless == unguarded \subseteq {"no_frames"}

\* A directory that nobody uses holds no pages of data or heap.
Unowned == Harmless => \A d \in Dir : Owners(d) = {} => OwnedAt(d) = {}

HeapInv == HeapMapped /\ Unowned

LEMMA HarmlessBefore ==
  ASSUME MemStep, Harmless'
  PROVE  Harmless /\ DirsKnown /\ DirsKnown'
BY NotesGrow DEF Harmless, DirsKnown

LEMMA InHeap ==
  ASSUME NEW n \in Int, NEW p \in Page
  PROVE  p \in HeapPages(n) <=> PAG_LOG_INIT_HEAP <= p /\ p < PAG_LOG_INIT_HEAP + n
BY MemoryAssumption
   DEF HeapPages, Page, PAG_LOG_INIT_HEAP, PAG_LOG_INIT_CODE, PAG_LOG_INIT_DATA

\* A fork that resets no counter in use leaves each user's as it was.
LEMMA ZonesKept ==
  ASSUME MemInv, NEW t \in UserTask, "counter_reset" \notin ForkSituations(t)
  PROVE  /\ \A u \in UserTask : ForkZones(t)[my_heap[u]] = counter(u)
         /\ ForkHeap(t) = counter(t)
<1>1. ForkDir(t) \in Dir /\ heap_zones \in [Dir -> 0 .. MaxHeap]
  BY HeapArea DEF ForkDir, NewDir, MemInv, MemTypeOK
<1>2. \A u \in UserTask : u \in Task /\ Live(u) /\ my_heap[u] \in Dir
  BY DEF UserTask, MemInv, HeapsKnown
<1>3. heap_zones[ForkDir(t)] # 0 => \A u \in UserTask : my_heap[u] # ForkDir(t)
  BY <1>2 DEF ForkSituations
<1> QED
  BY <1>1, <1>2, <1>3 DEF ForkZones, ForkHeap, counter

\* Those that use the counter of a task are the threads of its address space.
LEMMA NotShared ==
  ASSUME MemInv, DirInv, DirsKnown, NEW t \in UserTask, NEW u \in UserTask,
         CounterNote(t), "shared_counter" \notin unguarded'
  PROVE  my_heap[u] = my_heap[t] <=> dir[u] = dir[t]
<1>1. ~SharesCounter(t)
  BY DEF CounterNote, Note
<1> QED
  BY <1>1 DEF SharesCounter, DirInv, OneHeap, UserTask

\* A task that lives on has the pages that its counter tells, and those it
\* keeps stay on their frames.
LEMMA HeapKept ==
  ASSUME MemInv, DirInv, HeapInv, MemStep, Harmless',
         NEW u \in UserTask, dir'[u] = dir[u], NEW p \in Page, p >= PAG_LOG_INIT_HEAP
  PROVE  /\ Present(pagusr_table'[dir[u]][p]) <=> p \in HeapPages(counter(u)')
         /\ p \in HeapPages(counter(u)) /\ p \in HeapPages(counter(u)') =>
              pagusr_table'[dir[u]][p] = pagusr_table[dir[u]][p]
<1> DEFINE Goal ==
             /\ Present(pagusr_table'[dir[u]][p]) <=> p \in HeapPages(counter(u)')
             /\ p \in HeapPages(counter(u)) /\ p \in HeapPages(counter(u)') =>
                  pagusr_table'[dir[u]][p] = pagusr_table[dir[u]][p]
<1>0. /\ Harmless /\ DirsKnown /\ DirsKnown' /\ RefsCount /\ OneHeap
      /\ dir[u] \in Dir /\ my_heap[u] \in Dir /\ counter(u) \in 0 .. MaxHeap
      /\ PAG_LOG_INIT_HEAP \in Nat
  BY HarmlessBefore, HeapArea DEF DirInv
<1>h. Present(pagusr_table[dir[u]][p]) <=> p \in HeapPages(counter(u))
  BY <1>0 DEF HeapInv, HeapMapped, Harmless
<1>i. \A m \in Int : p \in HeapPages(m) <=> p < PAG_LOG_INIT_HEAP + m
  BY InHeap
<1>1. CASE UNCHANGED memvars
  BY <1>1, <1>h DEF memvars, counter
<1> SUFFICES ASSUME NEW t \in Task, StepOf(t) PROVE Goal
  BY <1>1, Steps
<1>2. /\ t \in UserTask /\ dir[t] \in Dir /\ my_heap[t] \in Dir /\ counter(t) \in 0 .. MaxHeap
      /\ heap_zones \in [Dir -> 0 .. MaxHeap]
  BY HeapArea DEF StepOf, MemInv, MemTypeOK
<1>3. my_heap'[u] = my_heap[u]
  BY <1>0, TaskStays, Layout
<1>4. counter(u)' = heap_zones'[my_heap[u]]
  BY <1>3 DEF counter
<1>s. ASSUME heap_zones'[my_heap[u]] = counter(u),
             pagusr_table'[dir[u]][p] = pagusr_table[dir[u]][p]
      PROVE  Goal
  BY <1>4, <1>h, <1>s
<1>5. CASE Fork(t)
  <2>1. /\ "no_directory" \notin ForkSituations(t) /\ "counter_reset" \notin ForkSituations(t)
        /\ heap_zones' = ForkZones(t)
    BY <1>5 DEF Harmless, Fork, Note
  <2>2. dir[u] # ForkDir(t)
    BY <1>0, <1>2, <2>1, ForkDirFree DEF Owners
  <2>3. heap_zones'[my_heap[u]] = counter(u) /\ ForkHeap(t) = counter(t)
    BY <1>2, <2>1, ZonesKept
  <2>4. CASE dir[u] = dir[t] /\ p \in TempPages(t)
    <3>1. counter(u) = counter(t)
      BY <1>0, <1>2, <2>4 DEF OneHeap, counter
    <3>2. p \notin HeapPages(counter(u))
      BY <1>0, <2>3, <2>4, <3>1, InHeap DEF TempPages
    <3>3. ~Present(pagusr_table'[dir[u]][p])
      BY <1>0, <1>5, <2>4, ForkEntries, EntryFacts
    <3> QED
      BY <1>4, <2>3, <3>2, <3>3
  <2>5. CASE ~(dir[u] = dir[t] /\ p \in TempPages(t))
    <3>1. pagusr_table'[dir[u]][p] = pagusr_table[dir[u]][p]
      BY <1>0, <1>5, <2>2, <2>5, ForkEntries
    <3> QED
      BY <1>s, <2>3, <3>1
  <2> QED
    BY <2>4, <2>5
<1>6. CASE ForkPageFault(t) \/ CreateThread(t) \/ CreateThreadPageFault(t)
  BY <1>6, <1>s DEF ForkPageFault, CreateThreadPageFault, CreateThread, counter
<1>7. CASE ForkNoFrames(t)
  <2>1. /\ "counter_reset" \notin ForkSituations(t)
        /\ heap_zones' = ForkZones(t) /\ pagusr_table' = pagusr_table
    BY <1>7 DEF Harmless, ForkNoFrames, Note
  <2> QED
    BY <1>2, <1>s, <2>1, ZonesKept
<1>8. CASE Exit(t)
  <2>1. heap_zones' = heap_zones
    BY <1>8 DEF Exit
  <2>2. CASE UNCHANGED pagusr_table
    BY <1>s, <2>1, <2>2 DEF counter
  <2>3. CASE ~UNCHANGED pagusr_table
    <3>1. /\ dir_pages_num_references[dir[t]] - 1 <= 0
          /\ pagusr_table' = [pagusr_table EXCEPT ![dir[t]] = Deleted(@, OwnPages(t))]
      BY <1>8, <2>3 DEF Exit
    <3>2. u # t
      BY <1>0, <1>2, <1>8, Layout DEF Exit, MemInv, MemTypeOK
    <3>3. dir[u] # dir[t]
      BY <1>0, <1>2, <3>1, <3>2, LastThread DEF Owners
    <3>4. pagusr_table'[dir[u]][p] = pagusr_table[dir[u]][p]
      BY <1>0, <1>2, <3>1, <3>3, DeletedEntries
    <3> QED
      BY <1>s, <2>1, <3>4 DEF counter
  <2> QED
    BY <2>2, <2>3
<1>9. ASSUME NEW n \in Requests, DynMemGrow(t, n) \/ DynMemNoFrames(t, n) \/ DynMemShrink(t, -n)
      PROVE  Goal
  <2>1. /\ my_heap[u] = my_heap[t] <=> dir[u] = dir[t]
        /\ n \in Int
    <3>1. CounterNote(t) /\ "shared_counter" \notin unguarded'
      BY <1>9 DEF DynMemGrow, DynMemNoFrames, DynMemShrink, Harmless
    <3> QED
      BY <1>0, <1>2, <3>1, NotShared, MemoryAssumption
  <2>2. my_heap[u] = my_heap[t] => counter(u) = counter(t)
    BY DEF counter
  <2>3. CASE DynMemGrow(t, n)
    <3>1. heap_zones'[my_heap[u]] = IF dir[u] = dir[t] THEN counter(u) + n ELSE counter(u)
      BY <1>0, <1>2, <2>1, <2>3 DEF DynMemGrow, counter
    <3>2. pagusr_table'[dir[u]][p] =
            IF dir[u] = dir[t] /\ p \in GrowPages(t, n)
            THEN UserPage(Grant(phys_mem, p - PAG_LOG_INIT_HEAP - counter(t)))
            ELSE pagusr_table[dir[u]][p]
      BY <1>0, <1>2, <2>3, GrownEntries
    <3>3. CASE dir[u] # dir[t]
      BY <1>s, <3>1, <3>2, <3>3
    <3>4. CASE dir[u] = dir[t]
      <4>1. n > 0 /\ counter(u) = counter(t)
        BY <2>1, <2>2, <2>3, <3>4 DEF DynMemGrow
      <4>2. counter(u)' = counter(u) + n
        BY <1>4, <3>1, <3>4
      <4>3. p \in GrowPages(t, n)
              <=> p \in HeapPages(counter(u) + n) /\ p \notin HeapPages(counter(u))
        BY <1>0, <2>1, <4>1, InHeap DEF GrowPages, Page
      <4>4. p \in HeapPages(counter(u)) => p \in HeapPages(counter(u) + n)
        <5>1. counter(u) \in Int /\ counter(u) + n \in Int /\ p \in Int
          BY <1>0, <2>1 DEF Page
        <5>2. /\ p \in HeapPages(counter(u) + n) <=> p < PAG_LOG_INIT_HEAP + (counter(u) + n)
              /\ p \in HeapPages(counter(u)) <=> p < PAG_LOG_INIT_HEAP + counter(u)
          BY <1>i, <5>1
        <5> QED
          BY <1>0, <2>1, <4>1, <5>1, <5>2
      <4> QED
        BY <1>h, <3>2, <3>4, <4>2, <4>3, <4>4, EntryFacts
    <3> QED
      BY <3>3, <3>4
  <2>4. CASE DynMemNoFrames(t, n)
    <3> DEFINE S == GrowPages(t, Cardinality(FreeFrames(phys_mem)))
    <3>1. pagusr_table' = [pagusr_table EXCEPT ![dir[t]] = Deleted(@, S)]
              /\ heap_zones' = heap_zones
      BY <2>4 DEF DynMemNoFrames
    <3>2. p \in S => p >= PAG_LOG_INIT_HEAP + counter(t)
      BY <1>2, HeapArea
    <3> HIDE DEF S
    <3>3. pagusr_table'[dir[u]][p] =
            IF dir[u] = dir[t] /\ p \in S THEN Absent ELSE pagusr_table[dir[u]][p]
      BY <1>0, <3>1 DEF MemInv, MemTypeOK, Deleted
    <3>4. CASE dir[u] = dir[t] /\ p \in S
      <4>1. p \notin HeapPages(counter(u))
        <5>1. counter(u) = counter(t) /\ counter(u) \in Int /\ p \in Int
          BY <1>0, <2>1, <2>2, <3>4 DEF Page
        <5>2. p \in HeapPages(counter(u)) <=> p < PAG_LOG_INIT_HEAP + counter(u)
          BY <1>i, <5>1
        <5> QED
          BY <1>0, <3>2, <3>4, <5>1, <5>2
      <4>2. counter(u)' = counter(u)
        BY <1>4, <3>1 DEF counter
      <4> QED
        BY <3>3, <3>4, <4>1, <4>2, EntryFacts
    <3>5. CASE ~(dir[u] = dir[t] /\ p \in S)
      BY <1>s, <3>1, <3>3, <3>5 DEF counter
    <3> QED
      BY <3>4, <3>5
  <2>5. CASE DynMemShrink(t, -n)
    <3> DEFINE S == ShrinkPages(t, -n)
    <3>1. heap_zones'[my_heap[u]] = IF dir[u] = dir[t] THEN counter(u) + n ELSE counter(u)
      BY <1>0, <1>2, <2>1, <2>5 DEF DynMemShrink, counter
    <3>2. pagusr_table' = [pagusr_table EXCEPT ![dir[t]] = Deleted(@, S)]
      BY <2>5 DEF DynMemShrink
    <3>3. n < 0 /\ counter(t) >= -n
      BY <2>1, <2>5 DEF DynMemShrink
    <3>4. p \in S <=> PAG_LOG_INIT_HEAP + counter(t) + n <= p /\ p < PAG_LOG_INIT_HEAP + counter(t)
      BY <1>0, <1>2, <2>1 DEF ShrinkPages, Page
    <3> HIDE DEF S
    <3>5. pagusr_table'[dir[u]][p] =
            IF dir[u] = dir[t] /\ p \in S THEN Absent ELSE pagusr_table[dir[u]][p]
      BY <1>0, <3>2 DEF MemInv, MemTypeOK, Deleted
    <3>6. CASE dir[u] # dir[t]
      BY <1>s, <3>1, <3>5, <3>6
    <3>7. CASE dir[u] = dir[t]
      <4>1. counter(u) = counter(t)
        BY <2>1, <2>2, <3>7
      <4>2. counter(u)' = counter(u) + n
        BY <1>4, <3>1, <3>7
      <4>3. p \in HeapPages(counter(u) + n) <=> p \in HeapPages(counter(u)) /\ p \notin S
        <5>1. counter(u) \in Int /\ counter(u) + n \in Int /\ p \in Int
          BY <1>0, <2>1 DEF Page
        <5>2. /\ p \in HeapPages(counter(u) + n) <=> p < PAG_LOG_INIT_HEAP + (counter(u) + n)
              /\ p \in HeapPages(counter(u)) <=> p < PAG_LOG_INIT_HEAP + counter(u)
          BY <1>i, <5>1
        <5> QED
          BY <1>0, <2>1, <3>3, <3>4, <4>1, <5>1, <5>2
      <4> QED
        BY <1>h, <3>5, <3>7, <4>2, <4>3, EntryFacts
    <3> QED
      BY <3>6, <3>7
  <2> QED
    BY <1>9, <2>3, <2>4, <2>5
<1> QED
  BY <1>5, <1>6, <1>7, <1>8, <1>9 DEF StepOf

LEMMA HeapInvInit ==
  ASSUME MemInit
  PROVE  HeapInv
<1>1. UserTask = {task1} /\ dir[task1] = 2 /\ my_heap[task1] = 2 /\ heap_zones[2] = 0
  BY Layout DEF MemInit, UserTask, Live, task1, Idle, NoDir
<1>2. \A d \in Dir : pagusr_table[d] = IF d = 2 THEN set_user_pages(KernelTable) ELSE KernelTable
  BY DEF MemInit
<1>3. \A p \in Page : p \notin KernelPages /\ p \notin CodePages =>
        /\ KernelTable[p] = Absent
        /\ p \notin DataPages => set_user_pages(KernelTable)[p] = Absent
  BY DEF KernelTable, set_user_pages
<1>4. HeapMapped
  <2>1. counter(task1) = 0 /\ \A p \in Page : p \notin HeapPages(0)
    BY <1>1, InHeap, MemoryAssumption
       DEF counter, Page, PAG_LOG_INIT_HEAP, PAG_LOG_INIT_CODE, PAG_LOG_INIT_DATA
  <2>2. \A p \in Page : p >= PAG_LOG_INIT_HEAP => ~Present(pagusr_table[2][p])
    BY <1>2, <1>3, Layout, EntryFacts
  <2> QED
    BY <1>1, <2>1, <2>2 DEF HeapMapped
<1>5. Unowned
  <2>1. \A d \in Dir : d # 2 => OwnedAt(d) = {}
    BY <1>2, <1>3, EntryFacts DEF OwnedAt
  <2>2. Owners(2) # {}
    BY <1>1 DEF Owners
  <2> QED
    BY <2>1, <2>2 DEF Unowned
<1> QED
  BY <1>4, <1>5 DEF HeapInv

\* A step writes the table of the task that makes it, and fork the child's.
LEMMA OtherTables ==
  ASSUME MemInv, NEW t \in Task, StepOf(t), NEW d \in Dir, d # dir[t],
         Fork(t) => d # ForkDir(t), NEW p \in Page
  PROVE  pagusr_table'[d][p] = pagusr_table[d][p]
<1>1. CASE Fork(t)
  BY <1>1, ForkEntries
<1>2. CASE ~Fork(t)
  BY <1>2 DEF StepOf, ForkPageFault, CreateThreadPageFault, ForkNoFrames, CreateThread, Exit,
     DynMemGrow,
              DynMemNoFrames, DynMemShrink, MemInv, MemTypeOK
<1> QED
  BY <1>1, <1>2

\* The pages of an address space are its data and what its counter tells.
LEMMA OwnedIs ==
  ASSUME MemInv, HeapInv, Harmless, NEW t \in UserTask
  PROVE  OwnedAt(dir[t]) \subseteq OwnPages(t)
<1> SUFFICES ASSUME NEW p \in OwnedAt(dir[t]) PROVE p \in OwnPages(t)
  OBVIOUS
<1>1. p \in Page /\ p \notin KernelPages /\ p \notin CodePages /\ Present(pagusr_table[dir[t]][p])
  BY DEF OwnedAt
<1>2. p \in DataPages \/ p >= PAG_LOG_INIT_HEAP
  BY <1>1, MemoryAssumption
     DEF KernelPages, DataPages, CodePages, Page,
         PAG_LOG_INIT_DATA, PAG_LOG_INIT_CODE, PAG_LOG_INIT_HEAP
<1>3. p >= PAG_LOG_INIT_HEAP => p \in HeapPages(counter(t))
  BY <1>1 DEF HeapInv, HeapMapped, Harmless
<1> QED
  BY <1>2, <1>3 DEF OwnPages, counter

LEMMA HeapInvNext ==
  ASSUME MemInv, DirInv, HeapInv, MemStep
  PROVE  HeapInv'
<1> SUFFICES ASSUME Harmless' PROVE HeapInv'
  BY DEF HeapInv, HeapMapped, Unowned, Harmless
<1>0. Harmless /\ DirsKnown /\ DirsKnown' /\ RefsCount /\ OneHeap
  BY HarmlessBefore DEF DirInv
<1>1. CASE UNCHANGED memvars
  <2>1. UNCHANGED <<UserTask, dir, my_heap, heap_zones, pagusr_table>> /\ Harmless
    BY <1>0, <1>1 DEF memvars, UserTask, Live
  <2>2. HeapMapped'
    BY <2>1 DEF HeapInv, HeapMapped, Harmless, counter
  <2>3. Unowned'
    BY <2>1 DEF HeapInv, Unowned, Owners, OwnedAt
  <2> QED
    BY <2>2, <2>3 DEF HeapInv
<1> SUFFICES ASSUME NEW t \in Task, StepOf(t) PROVE HeapInv'
  BY <1>1, Steps
<1>2. t \in UserTask /\ dir[t] \in Dir /\ my_heap[t] \in Dir /\ counter(t) \in 0 .. MaxHeap
  BY HeapArea DEF StepOf
<1>3. Fork(t) => /\ "no_directory" \notin ForkSituations(t)
                 /\ "counter_reset" \notin ForkSituations(t)
  BY DEF Harmless, Fork, Note
<1>4. Fork(t) => /\ ForkDir(t) \in Dir /\ ForkDir(t) # dir[t] /\ Owners(ForkDir(t)) = {}
                 /\ OwnedAt(ForkDir(t)) = {} /\ ForkHeap(t) = counter(t)
  <2>1. Fork(t) => ForkDir(t) \in Dir /\ ForkDir(t) # dir[t] /\ Owners(ForkDir(t)) = {}
    BY <1>0, <1>2, <1>3, ForkDirFree
  <2> QED
    BY <1>0, <1>2, <1>3, <2>1, ZonesKept DEF HeapInv, Unowned
<1>5. HeapMapped'
  <2> SUFFICES ASSUME NEW u \in UserTask', NEW p \in Page, p >= PAG_LOG_INIT_HEAP
               PROVE  Present(pagusr_table'[dir'[u]][p]) <=> p \in HeapPages(counter(u)')
    BY DEF HeapMapped, Present, HeapPages, PAG_LOG_INIT_HEAP, PAG_LOG_INIT_CODE,
           PAG_LOG_INIT_DATA
  <2>1. CASE u \in UserTask /\ dir'[u] = dir[u]
    BY <2>1, HeapKept
  <2>2. CASE Fork(t) /\ dir'[u] = ForkDir(t) /\ my_heap'[u] = my_heap[t]
    <3>1. counter(u)' = counter(t)
      BY <1>2, <1>3, <2>2, ZonesKept DEF Fork, counter
    <3>2. p \notin KernelPages /\ p \notin CodePages /\ p \notin DataPages
      BY Layout
    <3>3. pagusr_table'[dir'[u]][p] =
            IF p \in HeapPages(counter(t))
            THEN UserPage(Grant(phys_mem, NUM_PAG_DATA + p - PAG_LOG_INIT_HEAP))
            ELSE pagusr_table[ForkDir(t)][p]
      BY <1>2, <1>4, <2>2, <3>2, ForkEntries
    <3>4. ~Present(pagusr_table[ForkDir(t)][p])
      BY <1>4, <2>2, <3>2 DEF OwnedAt
    <3> QED
      BY <3>1, <3>3, <3>4, EntryFacts
  <2>3. CASE CreateThread(t) /\ dir'[u] = dir[t] /\ my_heap'[u] = my_heap[t]
    <3>1. dir'[t] = dir[t] /\ my_heap'[t] = my_heap[t]
      BY <1>2, <2>3, TaskStays DEF Exit, CreateThread, UserTask, Live
    <3>2. counter(u)' = counter(t)'
      BY <2>3, <3>1 DEF counter
    <3>3. Present(pagusr_table'[dir[t]][p]) <=> p \in HeapPages(counter(t)')
      BY <1>2, <3>1, HeapKept
    <3> QED
      BY <2>3, <3>2, <3>3
  <2> QED
    BY <2>1, <2>2, <2>3, TasksNext
<1>6. Unowned'
  <2> SUFFICES ASSUME NEW d \in Dir, Owners(d)' = {}, NEW p \in OwnedAt(d)'
               PROVE  FALSE
    BY DEF Unowned
  <2>1. /\ p \in Page /\ p \notin KernelPages /\ p \notin CodePages
        /\ Present(pagusr_table'[d][p])
    BY DEF OwnedAt, Present
  <2>2. \A u \in UserTask : dir[u] = d => Exit(t) /\ u = t
    BY TaskStays DEF Owners
  <2>3. Fork(t) => d # ForkDir(t)
    <3> SUFFICES ASSUME Fork(t) PROVE \E u \in UserTask' : dir'[u] = ForkDir(t)
      BY DEF Owners
    <3>1. PcbIsFree /\ dir' = [dir EXCEPT ![FreePcb] = ForkDir(t)]
          /\ my_heap' = [my_heap EXCEPT ![FreePcb] = my_heap[t]]
      BY DEF Fork
    <3> QED
      BY <1>2, <1>4, <3>1, NewTask DEF DirInv
  <2>4. CASE d # dir[t]
    <3>1. pagusr_table'[d][p] = pagusr_table[d][p]
      BY <2>1, <2>3, <2>4, OtherTables
    <3>2. Owners(d) = {}
      BY <2>2, <2>4 DEF Owners
    <3> QED
      BY <1>0, <2>1, <3>1, <3>2 DEF HeapInv, Unowned, OwnedAt
  <2>5. CASE d = dir[t]
    <3>1. Exit(t) /\ Owners(d) = {t}
      BY <1>2, <2>2, <2>5 DEF Owners
    <3>2. dir_pages_num_references[d] = 1
      <4>1. Cardinality(Owners(d)) = 1 /\ Owners(d) # {}
        BY <3>1, FS_Singleton
      <4> QED
        BY <1>0, <4>1 DEF RefsCount
    <3>3. pagusr_table' = [pagusr_table EXCEPT ![d] = Deleted(@, OwnPages(t))]
      BY <2>5, <3>1, <3>2 DEF Exit
    <3>4. pagusr_table'[d][p] = IF p \in OwnPages(t) THEN Absent ELSE pagusr_table[d][p]
      BY <2>1, <3>3 DEF MemInv, MemTypeOK, Deleted
    <3>5. p \notin OwnPages(t) /\ Present(pagusr_table[d][p])
      BY <2>1, <3>4, EntryFacts
    <3> QED
      BY <1>0, <1>2, <2>1, <2>5, <3>5, OwnedIs DEF OwnedAt
  <2> QED
    BY <2>4, <2>5
<1> QED
  BY <1>5, <1>6 DEF HeapInv

----------------------------------------------------------------------------
(* No frame is lost *)

\* A frame in use is the kernel's, the code's, or under a page of some table.
Backed ==
  Harmless => \A f \in Frame :
    f >= NUM_PAG_KERNEL /\ phys_mem[f] = "USED_FRAME" /\ f \notin CodeFrames =>
      \E d \in Dir : \E p \in OwnedAt(d) : pagusr_table[d][p].frame = f

\* free_frame ignores the first frame that alloc_frame may hand out, and it
\* does no harm: at boot that frame goes to the code, which is never freed.
FirstIsCode == NUM_PAG_KERNEL \in CodeFrames

FrameInv == Backed /\ FirstIsCode

LEMMA FrameInvInit ==
  ASSUME MemInit
  PROVE  FrameInv
<1> DEFINE n == NUM_PAG_CODE + NUM_PAG_DATA
<1>1. n \in Nat \ {0} /\ CanGrant(InitFrames, n)
  BY MemoryAssumption DEF MemInit
<1>2. /\ \A p \in CodePages :
           pagusr_table[2][p].frame = Grant(InitFrames, p - PAG_LOG_INIT_CODE)
      /\ \A p \in DataPages :
           /\ pagusr_table[2][p].frame
                = Grant(InitFrames, NUM_PAG_CODE + p - PAG_LOG_INIT_DATA)
           /\ p \in OwnedAt(2)
  <2>1. pagusr_table[2] = set_user_pages(KernelTable)
    BY Layout DEF MemInit
  <2> QED
    BY <2>1, Layout, EntryFacts DEF set_user_pages, OwnedAt
<1>3. Grant(InitFrames, 0) = NUM_PAG_KERNEL
  <2> DEFINE f == Grant(InitFrames, 0)
             below == {g \in FreeFrames(InitFrames) : g < f}
  <2>1. f \in FreeFrames(InitFrames) /\ Cardinality(below) = 0
    BY <1>1, GrantIsFree DEF IsGrant
  <2>2. NUM_PAG_KERNEL \in FreeFrames(InitFrames)
    BY MemoryAssumption DEF FreeFrames, InitFrames, Frame
  <2>3. IsFiniteSet(Frame)
    BY FS_Interval, MemoryAssumption DEF Frame
  <2>4. below \in SUBSET Frame
    BY DEF FreeFrames
  <2>5. below = {}
    BY <2>1, <2>3, <2>4, FS_Subset, FS_EmptySet
  <2>6. ~(NUM_PAG_KERNEL < f)
    BY <2>2, <2>5
  <2>7. f >= NUM_PAG_KERNEL /\ f \in Int
    BY <2>1 DEF FreeFrames, Frame
  <2> HIDE DEF f
  <2>8. f = NUM_PAG_KERNEL
    BY <2>6, <2>7, MemoryAssumption
  <2> QED
    BY <2>8 DEF f
<1>4. FirstIsCode
  <2>1. /\ PAG_LOG_INIT_CODE \in CodePages
        /\ PAG_LOG_INIT_CODE - PAG_LOG_INIT_CODE = 0
    BY MemoryAssumption
       DEF CodePages, PAG_LOG_INIT_HEAP, PAG_LOG_INIT_CODE, PAG_LOG_INIT_DATA
  <2>2. pagusr_table[2][PAG_LOG_INIT_CODE].frame = NUM_PAG_KERNEL
    BY <1>2, <1>3, <2>1
  <2> QED
    BY <2>1, <2>2 DEF FirstIsCode, CodeFrames
<1>5. Backed
  <2> SUFFICES ASSUME NEW f \in Frame, f >= NUM_PAG_KERNEL, phys_mem[f] = "USED_FRAME",
                      f \notin CodeFrames
               PROVE  \E p \in OwnedAt(2) : pagusr_table[2][p].frame = f
    BY Layout DEF Backed
  <2>1. f \in Grants(InitFrames, n)
    BY MemoryAssumption DEF MemInit, Taken, InitFrames, Frame
  <2>2. PICK i \in 0 .. n - 1 : f = Grant(InitFrames, i)
    BY <2>1 DEF Grants
  <2>3. CASE i < NUM_PAG_CODE
    <3> DEFINE p == PAG_LOG_INIT_CODE + i
    <3>1. p \in CodePages /\ p - PAG_LOG_INIT_CODE = i
      BY <2>3, MemoryAssumption
         DEF CodePages, PAG_LOG_INIT_HEAP, PAG_LOG_INIT_CODE, PAG_LOG_INIT_DATA
    <3>2. pagusr_table[2][p].frame = f
      BY <1>2, <2>2, <3>1
    <3> QED
      BY <3>1, <3>2 DEF CodeFrames
  <2>4. CASE i >= NUM_PAG_CODE
    <3> DEFINE p == PAG_LOG_INIT_DATA + (i - NUM_PAG_CODE)
    <3>1. p \in DataPages /\ NUM_PAG_CODE + p - PAG_LOG_INIT_DATA = i
      BY <2>4, MemoryAssumption DEF DataPages, PAG_LOG_INIT_CODE, PAG_LOG_INIT_DATA
    <3>2. pagusr_table[2][p].frame = f /\ p \in OwnedAt(2)
      BY <1>2, <2>2, <3>1
    <3> QED
      BY <3>2
  <2> QED
    BY <2>3, <2>4, MemoryAssumption
<1> QED
  BY <1>4, <1>5 DEF FrameInv

\* A page that was mapped stays on its frame, or its frame is free again.
LEMMA OwnedStays ==
  ASSUME MemInv, DirInv, HeapInv, FirstIsCode, Harmless, Harmless', NEW t \in Task, StepOf(t),
         NEW d \in Dir, NEW p \in OwnedAt(d)
  PROVE  \/ p \in OwnedAt(d)' /\ pagusr_table'[d][p].frame = pagusr_table[d][p].frame
         \/ phys_mem'[pagusr_table[d][p].frame] = "FREE_FRAME"
<1> DEFINE f == pagusr_table[d][p].frame
           Goal == \/ p \in OwnedAt(d)' /\ pagusr_table'[d][p].frame = f
                   \/ phys_mem'[f] = "FREE_FRAME"
<1>0. /\ DirsKnown /\ RefsCount /\ t \in UserTask
      /\ p \in Page /\ p \notin KernelPages /\ p \notin CodePages
      /\ Present(pagusr_table[d][p])
  BY DEF Harmless, DirsKnown, DirInv, StepOf, OwnedAt
<1>1. dir[t] \in Dir /\ counter(t) \in 0 .. MaxHeap /\ PAG_LOG_INIT_HEAP \in Nat
  BY <1>0, HeapArea
<1>2. ASSUME pagusr_table'[d][p] = pagusr_table[d][p] PROVE Goal
  BY <1>0, <1>2 DEF OwnedAt, Present
<1>3. f \in Frame /\ f > NUM_PAG_KERNEL
  <2>1. f \in Frame
    BY <1>0 DEF MemInv, MemTypeOK, Entry
  <2>2. f >= NUM_PAG_KERNEL /\ f \notin CodeFrames
    BY DEF MemInv, FramesDisjoint
  <2> QED
    BY <2>1, <2>2, MemoryAssumption DEF FirstIsCode, Frame
<1>4. d = dir[t] => p < PAG_LOG_INIT_HEAP + counter(t)
  <2> SUFFICES ASSUME d = dir[t], p >= PAG_LOG_INIT_HEAP + counter(t) PROVE FALSE
    BY <1>0, <1>1 DEF Page
  <2>1. p >= PAG_LOG_INIT_HEAP
    BY <1>0, <1>1 DEF Page
  <2>2. p \in HeapPages(counter(t))
    BY <1>0, <2>1 DEF HeapInv, HeapMapped, Harmless
  <2> QED
    BY <1>0, <1>1, <2>2 DEF HeapPages
<1>5. ASSUME NEW S, pagusr_table' = [pagusr_table EXCEPT ![dir[t]] = Deleted(@, S)],
             d = dir[t] /\ p \in S => phys_mem' = Freed(phys_mem, FramesOf(pagusr_table[d], S))
      PROVE  Goal
  <2>1. CASE d = dir[t] /\ p \in S
    <3>1. f \in FramesOf(pagusr_table[d], S)
      BY <2>1 DEF FramesOf
    <3>2. phys_mem'[f] = "FREE_FRAME"
      BY <1>3, <1>5, <2>1, <3>1 DEF Freed
    <3> QED
      BY <3>2
  <2>2. CASE ~(d = dir[t] /\ p \in S)
    <3>1. pagusr_table'[d][p] = pagusr_table[d][p]
      BY <1>0, <1>5, <2>2 DEF MemInv, MemTypeOK, Deleted
    <3> QED
      BY <1>2, <3>1
  <2> QED
    BY <2>1, <2>2
<1>6. CASE Fork(t)
  <2>1. "no_directory" \notin ForkSituations(t) /\ "counter_reset" \notin ForkSituations(t)
    BY <1>6 DEF Harmless, Fork, Note
  <2>2. ForkDir(t) \in Dir /\ OwnedAt(ForkDir(t)) = {} /\ ForkHeap(t) = counter(t)
    BY <1>0, <2>1, ForkDirFree, ZonesKept DEF HeapInv, Unowned
  <2>3. d # ForkDir(t)
    BY <2>2
  <2>4. ~(d = dir[t] /\ p \in TempPages(t))
    BY <1>0, <1>1, <1>4, <2>2 DEF TempPages, Page
  <2>5. pagusr_table'[d][p] = pagusr_table[d][p]
    BY <1>0, <1>6, <2>3, <2>4, ForkEntries
  <2> QED
    BY <1>2, <2>5
<1>7. CASE UNCHANGED pagusr_table
  BY <1>2, <1>7
<1>8. CASE Exit(t) /\ ~UNCHANGED pagusr_table
  <2>1. /\ pagusr_table' = [pagusr_table EXCEPT ![dir[t]] = Deleted(@, OwnPages(t))]
        /\ phys_mem' = Freed(phys_mem, FramesOf(pagusr_table[dir[t]], OwnPages(t)))
    BY <1>8 DEF Exit
  <2> QED
    BY <1>5, <2>1
<1>9. ASSUME NEW n \in Requests, DynMemGrow(t, n) PROVE Goal
  <2>1. ~(d = dir[t] /\ p \in GrowPages(t, n))
    BY <1>0, <1>1, <1>4 DEF GrowPages, Page
  <2>2. pagusr_table'[d][p] = pagusr_table[d][p]
    BY <1>0, <1>9, <2>1, GrownEntries
  <2> QED
    BY <1>2, <2>2
<1>10. ASSUME NEW n \in Requests, DynMemNoFrames(t, n) PROVE Goal
  <2>1. ~(d = dir[t] /\ p \in GrowPages(t, Cardinality(FreeFrames(phys_mem))))
    BY <1>0, <1>1, <1>4 DEF GrowPages, Page
  <2> QED
    BY <1>5, <1>10, <2>1 DEF DynMemNoFrames
<1>11. ASSUME NEW n \in Requests, DynMemShrink(t, -n) PROVE Goal
  BY <1>5, <1>11 DEF DynMemShrink
<1> QED
  BY <1>6, <1>7, <1>8, <1>9, <1>10, <1>11
     DEF StepOf, ForkPageFault, CreateThreadPageFault, ForkNoFrames, CreateThread

\* The frames that fork and dyn_mem take are each under a page.
LEMMA TakenMapped ==
  ASSUME MemInv, DirInv, Harmless, Harmless', NEW t \in Task, StepOf(t), NEW f \in Frame,
         phys_mem[f] = "FREE_FRAME", phys_mem'[f] = "USED_FRAME"
  PROVE  \E d \in Dir : \E p \in OwnedAt(d)' : pagusr_table'[d][p].frame = f
<1>0. t \in UserTask /\ DirsKnown /\ RefsCount
  BY DEF Harmless, DirsKnown, DirInv, StepOf
<1>1. dir[t] \in Dir /\ counter(t) \in 0 .. MaxHeap /\ PAG_LOG_INIT_HEAP \in Nat
  BY <1>0, HeapArea
<1>2. ASSUME NEW d \in Dir, NEW p \in Page, p \notin KernelPages, p \notin CodePages,
             pagusr_table'[d][p] = UserPage(f)
      PROVE  \E e \in Dir : \E q \in OwnedAt(e)' : pagusr_table'[e][q].frame = f
  BY <1>2, EntryFacts DEF OwnedAt, Present
<1>3. CASE Fork(t)
  <2> DEFINE h == ForkHeap(t)
             fd == ForkDir(t)
  <2>1. "no_directory" \notin ForkSituations(t)
    BY <1>3 DEF Harmless, Fork, Note
  <2>2. fd \in Dir /\ fd # dir[t]
    BY <1>0, <2>1, ForkDirFree
  <2>3. h \in 0 .. MaxHeap /\ ForkNeeds(t) = NUM_PAG_DATA + h
    BY <1>3, ForkEntries DEF ForkNeeds
  <2>4. PICK i \in 0 .. ForkNeeds(t) - 1 : f = Grant(phys_mem, i)
    BY <1>3 DEF Fork, Taken, Grants
  <2>5. CASE i < NUM_PAG_DATA
    <3> DEFINE p == PAG_LOG_INIT_DATA + i
    <3>1. p \in DataPages /\ p - PAG_LOG_INIT_DATA = i
      BY <2>3, <2>4, <2>5, MemoryAssumption DEF DataPages, PAG_LOG_INIT_CODE, PAG_LOG_INIT_DATA
    <3> HIDE DEF p
    <3>2. p \in Page /\ p \notin KernelPages /\ p \notin CodePages
      BY <3>1, Layout
    <3>3. pagusr_table'[fd][p] = UserPage(f)
      BY <1>3, <2>2, <2>4, <3>1, <3>2, ForkEntries
    <3> QED
      BY <1>2, <2>2, <3>2, <3>3
  <2>6. CASE i >= NUM_PAG_DATA
    <3> DEFINE p == PAG_LOG_INIT_HEAP + (i - NUM_PAG_DATA)
    <3>1. p \in HeapPages(h) /\ NUM_PAG_DATA + p - PAG_LOG_INIT_HEAP = i
      BY <1>1, <2>3, <2>4, <2>6, MemoryAssumption DEF HeapPages
    <3> HIDE DEF p
    <3>2. p \in Page /\ p \notin KernelPages /\ p \notin CodePages /\ p \notin DataPages
      BY <2>3, <3>1, Layout
    <3>3. pagusr_table'[fd][p] = UserPage(f)
      BY <1>3, <2>2, <2>4, <3>1, <3>2, ForkEntries
    <3> QED
      BY <1>2, <2>2, <3>2, <3>3
  <2> QED
    BY <2>3, <2>4, <2>5, <2>6, MemoryAssumption
<1>4. ASSUME NEW n \in Requests, DynMemGrow(t, n)
      PROVE  \E d \in Dir : \E p \in OwnedAt(d)' : pagusr_table'[d][p].frame = f
  <2>1. PICK i \in 0 .. n - 1 : f = Grant(phys_mem, i)
    BY <1>4 DEF DynMemGrow, Taken, Grants
  <2>2. n \in Int /\ n > 0 /\ counter(t) + n \in 0 .. MaxHeap
    BY <1>1, <1>4, MemoryAssumption DEF DynMemGrow
  <2> DEFINE p == PAG_LOG_INIT_HEAP + counter(t) + i
  <2>3. /\ p \in HeapPages(counter(t) + n) /\ p \in GrowPages(t, n)
        /\ p - PAG_LOG_INIT_HEAP - counter(t) = i
    BY <1>1, <2>1, <2>2 DEF HeapPages, GrowPages
  <2> HIDE DEF p
  <2>4. p \in Page /\ p \notin KernelPages /\ p \notin CodePages
    BY <2>2, <2>3, Layout
  <2>5. pagusr_table'[dir[t]][p] = UserPage(f)
    BY <1>0, <1>1, <1>4, <2>1, <2>3, <2>4, GrownEntries
  <2> QED
    BY <1>1, <1>2, <2>4, <2>5
<1>5. ASSUME NEW pt, phys_mem' = Freed(phys_mem, pt) PROVE FALSE
  BY <1>5 DEF Freed
<1> QED
  BY <1>3, <1>4, <1>5 DEF StepOf, ForkPageFault, CreateThreadPageFault, ForkNoFrames,
     CreateThread, Exit,
                          DynMemNoFrames, DynMemShrink

LEMMA FrameInvNext ==
  ASSUME MemInv, DirInv, HeapInv, FrameInv, MemStep
  PROVE  FrameInv'
<1>1. CodeFrames' = CodeFrames
  BY NextMemInv DEF MemStep
<1> SUFFICES ASSUME Harmless', NEW f \in Frame, f >= NUM_PAG_KERNEL,
                    phys_mem'[f] = "USED_FRAME", f \notin CodeFrames
             PROVE  \E d \in Dir : \E p \in OwnedAt(d)' : pagusr_table'[d][p].frame = f
  BY <1>1 DEF FrameInv, Backed, FirstIsCode
<1>2. Harmless /\ phys_mem[f] \in {"FREE_FRAME", "USED_FRAME"}
  BY HarmlessBefore DEF MemInv, MemTypeOK
<1>3. CASE UNCHANGED memvars
  <2>1. PICK d \in Dir : \E p \in OwnedAt(d) : pagusr_table[d][p].frame = f
    BY <1>2, <1>3 DEF FrameInv, Backed, memvars
  <2>2. OwnedAt(d)' = OwnedAt(d)
    BY <1>3 DEF memvars, OwnedAt
  <2> QED
    BY <1>3, <2>1, <2>2 DEF memvars
<1> SUFFICES ASSUME NEW t \in Task, StepOf(t)
             PROVE  \E d \in Dir : \E p \in OwnedAt(d)' : pagusr_table'[d][p].frame = f
  BY <1>3, Steps
<1>4. CASE phys_mem[f] = "USED_FRAME"
  <2>1. PICK d \in Dir : \E p \in OwnedAt(d) : pagusr_table[d][p].frame = f
    BY <1>2, <1>4 DEF FrameInv, Backed
  <2>2. PICK p \in OwnedAt(d) : pagusr_table[d][p].frame = f
    BY <2>1
  <2>3. p \in OwnedAt(d)' /\ pagusr_table'[d][p].frame = f
    BY <1>2, <2>2, OwnedStays DEF FrameInv
  <2> QED
    BY <2>3
<1>5. CASE phys_mem[f] = "FREE_FRAME"
  BY <1>2, <1>5, TakenMapped
<1> QED
  BY <1>2, <1>4, <1>5

----------------------------------------------------------------------------
SpaceInv == MemInv /\ DirInv /\ DataMapped /\ HeapInv /\ FrameInv

LEMMA SpaceInductive ==
  /\ MemInit => SpaceInv
  /\ SpaceInv /\ MemStep => SpaceInv'
<1>1. MemInit => SpaceInv
  BY InitMemInv, DirInvInit, DataMappedInit, HeapInvInit, FrameInvInit DEF SpaceInv
<1>2. SpaceInv /\ MemStep => SpaceInv'
  BY NextMemInv, DirInvNext, DataMappedNext, HeapInvNext, FrameInvNext DEF SpaceInv, MemStep
<1> QED
  BY <1>1, <1>2

\* In every address space exactly the pages of the heap that its counter tells
\* are mapped, through forks, threads and exits, as long as no family of forks
\* moves one counter (sys.c:75, 388-418; sched.c:68-85).
THEOREM HeapsMapped == MemSpec => []HeapMapped
<1>1. SpaceInv => HeapMapped
  BY DEF SpaceInv, HeapInv
<1> QED
  BY <1>1, SpaceInductive, PTL DEF MemSpec, MemStep

\* No frame is lost: each one in use is the kernel's, the code's, or under a
\* page of a task that lives (sys.c:81-87, 224-234; sched.c:48-85).
THEOREM NoFrameLost == MemSpec => []FramesAccounted
<1>1. SpaceInv => FramesAccounted
  <2> SUFFICES ASSUME SpaceInv, Harmless, NEW f \in Frame, f >= NUM_PAG_KERNEL,
                      phys_mem[f] = "USED_FRAME", f \notin CodeFrames
               PROVE  \E t \in UserTask : \E p \in OwnedAt(dir[t]) :
                        pagusr_table[dir[t]][p].frame = f
    BY DEF FramesAccounted, Harmless
  <2>1. PICK d \in Dir : \E p \in OwnedAt(d) : pagusr_table[d][p].frame = f
    BY DEF SpaceInv, FrameInv, Backed
  <2>2. PICK t \in UserTask : dir[t] = d
    BY <2>1 DEF SpaceInv, HeapInv, Unowned, Owners
  <2> QED
    BY <2>1, <2>2
<1> QED
  BY <1>1, SpaceInductive, PTL DEF MemSpec, MemStep

\* The data pages of a task that lives are mapped and stay on their frames,
\* as long as each fork finds a directory (sys.c:224-234; sched.c:68-85).
THEOREM DataNeverMoves == MemSpec => DataStays
<1> DEFINE Stays ==
      \A t \in UserTask :
        dir'[t] = dir[t] /\ "no_directory" \notin unguarded' =>
          \A p \in DataPages : /\ Present(pagusr_table[dir[t]][p])
                               /\ pagusr_table'[dir[t]][p] = pagusr_table[dir[t]][p]
<1>1. SpaceInv /\ MemStep => Stays
  BY DataKept, NotesGrow DEF SpaceInv, DataMapped, DirsKnown
<1>2. SpaceInv /\ MemStep => [Stays]_memvars
  BY <1>1
<1> HIDE DEF Stays
<1>3. MemSpec => [][Stays]_memvars
  BY <1>2, SpaceInductive, PTL DEF MemSpec, MemStep
<1> QED
  BY <1>3 DEF DataStays, Stays

\* And so do the pages of its heap that it keeps: the temporary mappings of
\* fork stay clear of them, and so do the others' exits (sys.c:100-122).
THEOREM HeapNeverMoves == MemSpec => HeapStays
<1> DEFINE Stays ==
      \A t \in UserTask :
        dir'[t] = dir[t] /\ unguarded' \subseteq {"no_frames"} =>
          \A p \in HeapPages(counter(t)) \cap HeapPages(counter(t)') :
            pagusr_table'[dir[t]][p] = pagusr_table[dir[t]][p]
<1>1. ASSUME SpaceInv, MemStep PROVE Stays
  <2> SUFFICES ASSUME NEW t \in UserTask, dir'[t] = dir[t], Harmless',
                      NEW p \in HeapPages(counter(t)) \cap HeapPages(counter(t)')
               PROVE  pagusr_table'[dir[t]][p] = pagusr_table[dir[t]][p]
    BY DEF Harmless
  <2>1. p \in Page /\ p >= PAG_LOG_INIT_HEAP
    BY <1>1, HeapArea, Layout DEF SpaceInv
  <2> QED
    BY <1>1, <2>1, HeapKept DEF SpaceInv
<1>2. SpaceInv /\ MemStep => [Stays]_memvars
  BY <1>1
<1> HIDE DEF Stays
<1>3. MemSpec => [][Stays]_memvars
  BY <1>2, SpaceInductive, PTL DEF MemSpec, MemStep
<1> QED
  BY <1>3 DEF HeapStays, Stays

=============================================================================

------------------------------- MODULE Memory -------------------------------
(***************************************************************************)
(* Physical frames, page directories and heaps: mm.c, the directory        *)
(* functions of sched.c, and what fork, create_thread, exit and dyn_mem    *)
(* do to them (sys.c).                                                     *)
(*                                                                         *)
(* A system call runs with interrupts disabled and is one step of the task *)
(* that makes it; any live task may be the one that runs.  A PCB is only   *)
(* its directory and its heap counter here, so which free one a fork takes *)
(* does not matter.                                                        *)
(*                                                                         *)
(* `unguarded' records the situations the code does not guard against, as  *)
(* they happen; the properties say which of them they do not survive.      *)
(***************************************************************************)
EXTENDS Integers, FiniteSets

CONSTANTS
  NR_TASKS,         \* PCBs, directories and heap counters
  TOTAL_PAGES,      \* frames of the machine
  LOGICAL_PAGES,    \* entries of a page table (TOTAL_PAGES in the code)
  NUM_PAG_KERNEL, NUM_PAG_DATA, NUM_PAG_CODE,
  Requests,         \* arguments of dyn_mem
  MaxHeap,          \* bound on a heap counter
  MaxOverdue,       \* bound on how far the references go below zero
  MemAdmitted       \* the unguarded situations the programs get into

MemSituations ==
  {"shared_counter",  \* dyn_mem moves a counter that another address space uses
   "counter_reset",   \* fork zeroes a counter that live tasks use
   "no_directory",    \* fork finds no directory
   "no_frames"}       \* fork finds no frames

ASSUME MemoryAssumption ==
  /\ NR_TASKS \in Nat /\ NR_TASKS >= 3
  /\ NUM_PAG_KERNEL \in Nat \ {0} /\ NUM_PAG_DATA \in Nat \ {0}
  /\ NUM_PAG_CODE \in Nat \ {0} /\ MaxHeap \in Nat
  /\ TOTAL_PAGES \in Nat /\ LOGICAL_PAGES \in Nat
  /\ TOTAL_PAGES >= NUM_PAG_KERNEL + 2 * (NUM_PAG_CODE + NUM_PAG_DATA)
  /\ LOGICAL_PAGES >= NUM_PAG_KERNEL + 2 * NUM_PAG_DATA + NUM_PAG_CODE + 2 * MaxHeap
  /\ Requests \subseteq Int \ {0} /\ MaxOverdue \in Nat
  /\ MemAdmitted \subseteq MemSituations

Task  == 0 .. NR_TASKS - 1
Dir   == 0 .. NR_TASKS - 1      \* positions of dir_pages and heap_zones
Frame == 0 .. TOTAL_PAGES - 1
Page  == 0 .. LOGICAL_PAGES - 1
Idle  == 0
task1 == 1
NoDir == -1

PAG_LOG_INIT_DATA == NUM_PAG_KERNEL
PAG_LOG_INIT_CODE == PAG_LOG_INIT_DATA + NUM_PAG_DATA
PAG_LOG_INIT_HEAP == PAG_LOG_INIT_CODE + NUM_PAG_CODE

KernelPages  == 0 .. NUM_PAG_KERNEL - 1
DataPages    == PAG_LOG_INIT_DATA .. PAG_LOG_INIT_CODE - 1
CodePages    == PAG_LOG_INIT_CODE .. PAG_LOG_INIT_HEAP - 1
HeapPages(n) == PAG_LOG_INIT_HEAP .. PAG_LOG_INIT_HEAP + n - 1

VARIABLES
  phys_mem,
  pagusr_table,
  dir_pages_num_references,
  heap_zones,
  dir,           \* position of dir_pages_baseAddr of a task, NoDir if it is free
  my_heap,       \* position of the heap counter of a task
  page_fault,    \* the kernel touched a page that is not mapped, and stopped
  unguarded      \* history: the unguarded situations so far

memvars == <<phys_mem, pagusr_table, dir_pages_num_references, heap_zones,
             dir, my_heap, page_fault, unguarded>>

----------------------------------------------------------------------------
(* Page tables.  The bits user, rw and present are one field, access.      *)

Entry == [frame : Frame, access : {"absent", "kernel", "user_ro", "user_rw"}]

Absent         == [frame |-> 0, access |-> "absent"]     \* entry = 0
UserPage(f)    == [frame |-> f, access |-> "user_rw"]    \* set_ss_pag
CodePage(f)    == [frame |-> f, access |-> "user_ro"]
KernelPage(f)  == [frame |-> f, access |-> "kernel"]
Present(e)     == e.access # "absent"

\* set_ss_pag or del_ss_pag for each page of new.
Updated(PT, new) == [p \in Page |-> IF p \in DOMAIN new THEN new[p] ELSE PT[p]]

Deleted(PT, pages) == [p \in Page |-> IF p \in pages THEN Absent ELSE PT[p]]

FramesOf(PT, pages) == {PT[p].frame : p \in pages}

----------------------------------------------------------------------------
(* Frames *)

\* The frames that alloc_frame may return: it looks at every other one.
FreeFrames(pm) ==
  {f \in Frame : /\ f >= NUM_PAG_KERNEL /\ (f - NUM_PAG_KERNEL) % 2 = 0
                 /\ pm[f] = "FREE_FRAME"}

\* What the (i+1)-th of a series of calls of alloc_frame returns.
IsGrant(pm, i, f) ==
  f \in FreeFrames(pm) /\ Cardinality({g \in FreeFrames(pm) : g < f}) = i

Grant(pm, i) == CHOOSE f \in Frame : IsGrant(pm, i, f)

CanGrant(pm, n) == \A i \in 0 .. n - 1 : \E f \in Frame : IsGrant(pm, i, f)

Grants(pm, n) == {Grant(pm, i) : i \in 0 .. n - 1}

Taken(pm, frames) == [f \in Frame |-> IF f \in frames THEN "USED_FRAME" ELSE pm[f]]

\* free_frame of each of the frames: it ignores those up to NUM_PAG_KERNEL,
\* and so the frame 0 of an absent entry.
Freed(pm, frames) ==
  [f \in Frame |-> IF f \in frames /\ f > NUM_PAG_KERNEL THEN "FREE_FRAME" ELSE pm[f]]

----------------------------------------------------------------------------
(* Tasks and directories *)

Live(t)   == dir[t] # NoDir
UserTask  == {t \in Task \ {Idle} : Live(t)}
FreePcb   == CHOOSE t \in Task : ~Live(t)
PcbIsFree == \E t \in Task : ~Live(t)

\* Mutation: a directory with one reference is taken for a free one.
FreeDirOne(d) == dir_pages_num_references[d] <= 1

FreeDir(d) == dir_pages_num_references[d] <= 0

FirstFreeDir(d) == FreeDir(d) /\ \A e \in Dir : FreeDir(e) => d <= e

\* allocate_DIR takes the first; when there is none the task keeps the one
\* that copy_data gave it.
NewDir(t) ==
  IF \E d \in Dir : FirstFreeDir(d) THEN CHOOSE d \in Dir : FirstFreeDir(d)
                                    ELSE dir[t]

SharesCounter(t) ==
  \E u \in Task : Live(u) /\ my_heap[u] = my_heap[t] /\ dir[u] # dir[t]

Note(situations) == unguarded' = unguarded \cup situations

----------------------------------------------------------------------------
(* init_mm takes directory 0 for the first PCB, which is init_idle's next  *)
(* and gets directory 1 there; init_task1 takes directory 2 and its pages. *)

KernelTable ==
  [p \in Page |-> IF p \in KernelPages \ {0} THEN KernelPage(p) ELSE Absent]

InitFrames ==
  [f \in Frame |-> IF f < NUM_PAG_KERNEL THEN "USED_FRAME" ELSE "FREE_FRAME"]

set_user_pages(PT) ==
  [p \in Page |->
     CASE p \in CodePages -> CodePage(Grant(InitFrames, p - PAG_LOG_INIT_CODE))
       [] p \in DataPages -> UserPage(Grant(InitFrames, NUM_PAG_CODE + p - PAG_LOG_INIT_DATA))
       [] OTHER           -> PT[p]]

MemInit ==
  /\ CanGrant(InitFrames, NUM_PAG_CODE + NUM_PAG_DATA)
  /\ phys_mem = Taken(InitFrames, Grants(InitFrames, NUM_PAG_CODE + NUM_PAG_DATA))
  /\ pagusr_table = [d \in Dir |-> IF d = 2 THEN set_user_pages(KernelTable)
                                            ELSE KernelTable]
  /\ dir_pages_num_references = [d \in Dir |-> IF d <= 2 THEN 1 ELSE 0]
  /\ heap_zones = [d \in Dir |-> 0]
  /\ dir        = [t \in Task |-> CASE t = Idle  -> 1
                                    [] t = task1 -> 2
                                    [] OTHER     -> NoDir]
  /\ my_heap    = [t \in Task |-> IF t = task1 THEN 2 ELSE NoDir]
  /\ page_fault = FALSE
  /\ unguarded  = {}

----------------------------------------------------------------------------
(* fork *)

\* What a fork finds out before it copies anything: the new directory, the
\* counters after allocate_heap, the pages of the heap.
ForkDir(t)   == NewDir(t)
ForkZones(t) == [heap_zones EXCEPT ![ForkDir(t)] = 0]
ForkHeap(t)  == ForkZones(t)[my_heap[t]]
ForkNeeds(t) == NUM_PAG_DATA + ForkHeap(t)

\* The first free directory may be the parent's own, when another fork that
\* got none has left its count too low.
ForkRefs(t) ==
  IF \E d \in Dir : FirstFreeDir(d)
  THEN [dir_pages_num_references EXCEPT ![ForkDir(t)] = @ + 1]
  ELSE dir_pages_num_references

ForkSituations(t) ==
  {s \in {"no_directory", "counter_reset"} :
     \/ s = "no_directory" /\ ForkDir(t) = dir[t]
     \/ /\ s = "counter_reset" /\ heap_zones[ForkDir(t)] # 0
        /\ \E u \in Task : Live(u) /\ my_heap[u] = ForkDir(t)}

\* The child's table: the parent's kernel and code pages, open to the user,
\* and new frames for its data and heap.
ForkTable(t) ==
  LET pareTP == pagusr_table[dir[t]]
      entry(p) ==
        CASE p \in KernelPages \cup CodePages -> UserPage(pareTP[p].frame)
          [] p \in DataPages -> UserPage(Grant(phys_mem, p - PAG_LOG_INIT_DATA))
          [] OTHER           -> UserPage(Grant(phys_mem, NUM_PAG_DATA + p - PAG_LOG_INIT_HEAP))
  IN Updated(pagusr_table[ForkDir(t)],
             [p \in KernelPages \cup DataPages \cup CodePages \cup HeapPages(ForkHeap(t))
                |-> entry(p)])

\* Mutation: the offset forgets the heap.
TempPagesNoHeap(t) == PAG_LOG_INIT_HEAP .. PAG_LOG_INIT_HEAP + NUM_PAG_DATA - 1

\* The pages of the parent that the child's frames are mapped at for the copy
\* and unmapped from after it: past the heap, as far as the counter tells.
TempPages(t) ==
  PAG_LOG_INIT_HEAP + ForkHeap(t) ..
  PAG_LOG_INIT_HEAP + NUM_PAG_DATA + 2 * ForkHeap(t) - 1

\* The tables after fork: the child's is filled first, and is the parent's
\* own when there was no directory left.
ForkTables(t) ==
  LET filled == [pagusr_table EXCEPT ![ForkDir(t)] = ForkTable(t)]
  IN [filled EXCEPT ![dir[t]] = Deleted(@, TempPages(t))]

\* The copy reads each page of the parent's data and heap.
CopyFaults(t) ==
  LET filled == [pagusr_table EXCEPT ![ForkDir(t)] = ForkTable(t)]
  IN \E p \in DataPages \cup HeapPages(ForkHeap(t)) : ~Present(filled[dir[t]][p])

Calls(t) == t \in UserTask /\ ~page_fault

Fork(t) ==
  /\ Calls(t) /\ PcbIsFree
  /\ CanGrant(phys_mem, ForkNeeds(t)) /\ ~CopyFaults(t)
  /\ phys_mem'     = Taken(phys_mem, Grants(phys_mem, ForkNeeds(t)))
  /\ pagusr_table' = ForkTables(t)
  /\ dir_pages_num_references' = ForkRefs(t)
  /\ heap_zones' = ForkZones(t)
  /\ dir'     = [dir EXCEPT ![FreePcb] = ForkDir(t)]
  /\ my_heap' = [my_heap EXCEPT ![FreePcb] = my_heap[t]]
  /\ Note(ForkSituations(t))
  /\ UNCHANGED page_fault

\* The machine stops in the middle of the copy; what it leaves is not looked
\* at any more.
ForkPageFault(t) ==
  /\ Calls(t) /\ PcbIsFree
  /\ CanGrant(phys_mem, ForkNeeds(t)) /\ CopyFaults(t)
  /\ page_fault' = TRUE
  /\ Note(ForkSituations(t))
  /\ UNCHANGED <<phys_mem, pagusr_table, dir_pages_num_references, heap_zones,
                 dir, my_heap>>

\* Not enough frames: those taken are freed, and the directory is not.
ForkNoFrames(t) ==
  /\ Calls(t) /\ PcbIsFree
  /\ ~CanGrant(phys_mem, ForkNeeds(t))
  /\ dir_pages_num_references' = ForkRefs(t)
  /\ heap_zones' = ForkZones(t)
  /\ Note(ForkSituations(t) \cup {"no_frames"})
  /\ UNCHANGED <<phys_mem, pagusr_table, dir, my_heap, page_fault>>

----------------------------------------------------------------------------
(* create_thread and exit *)

CreateThread(t) ==
  /\ Calls(t) /\ PcbIsFree
  /\ dir_pages_num_references' = [dir_pages_num_references EXCEPT ![dir[t]] = @ + 1]
  /\ dir'     = [dir EXCEPT ![FreePcb] = dir[t]]
  /\ my_heap' = [my_heap EXCEPT ![FreePcb] = my_heap[t]]
  /\ UNCHANGED <<phys_mem, pagusr_table, heap_zones, page_fault, unguarded>>

\* The kernel writes the parameter and a return address below the stack that it
\* is given, after a check of the word at it only, which lets the first page of
\* the heap pass, mapped or not.
CreateThreadPageFault(t) ==
  /\ Calls(t) /\ PcbIsFree
  /\ \E p \in DataPages \cup CodePages \cup {PAG_LOG_INIT_HEAP} :
       ~Present(pagusr_table[dir[t]][p])
  /\ page_fault' = TRUE
  /\ UNCHANGED <<phys_mem, pagusr_table, dir_pages_num_references, heap_zones,
                 dir, my_heap, unguarded>>

\* Mutation: the heap is forgotten.
OwnPagesData(t) == DataPages

\* The pages that the last thread of an address space gives back.
OwnPages(t) == DataPages \cup HeapPages(heap_zones[my_heap[t]])

\* sub_DIR_ref, and the pages if that was the last reference.  The pointer to
\* the counter stays in the free PCB, where nobody reads it.
Exit(t) ==
  /\ Calls(t)
  /\ LET d == dir[t]
     IN /\ dir_pages_num_references' = [dir_pages_num_references EXCEPT ![d] = @ - 1]
        /\ IF dir_pages_num_references[d] - 1 <= 0
           THEN /\ phys_mem' = Freed(phys_mem, FramesOf(pagusr_table[d], OwnPages(t)))
                /\ pagusr_table' = [pagusr_table EXCEPT ![d] = Deleted(@, OwnPages(t))]
           ELSE UNCHANGED <<phys_mem, pagusr_table>>
  /\ dir'     = [dir EXCEPT ![t] = NoDir]
  /\ my_heap' = [my_heap EXCEPT ![t] = NoDir]
  /\ UNCHANGED <<heap_zones, page_fault, unguarded>>

----------------------------------------------------------------------------
(* dyn_mem *)

counter(t) == heap_zones[my_heap[t]]

CounterNote(t) == Note(IF SharesCounter(t) THEN {"shared_counter"} ELSE {})

GrowPages(t, n) == PAG_LOG_INIT_HEAP + counter(t) .. PAG_LOG_INIT_HEAP + counter(t) + n - 1

DynMemGrow(t, n) ==
  /\ Calls(t) /\ n > 0
  /\ CanGrant(phys_mem, n)
  /\ counter(t) + n <= MaxHeap
  /\ phys_mem' = Taken(phys_mem, Grants(phys_mem, n))
  /\ pagusr_table' =
       [pagusr_table EXCEPT ![dir[t]] =
          Updated(@, [p \in GrowPages(t, n) |->
                        UserPage(Grant(phys_mem, p - PAG_LOG_INIT_HEAP - counter(t)))])]
  /\ heap_zones' = [heap_zones EXCEPT ![my_heap[t]] = @ + n]
  /\ CounterNote(t)
  /\ UNCHANGED <<dir_pages_num_references, dir, my_heap, page_fault>>

\* Mutation: the frames are freed again, and stay mapped.
DynMemNoFramesMapped(t, n) ==
  /\ Calls(t) /\ n > 0
  /\ ~CanGrant(phys_mem, n)
  /\ pagusr_table' =
       [pagusr_table EXCEPT ![dir[t]] =
          Updated(@, [p \in GrowPages(t, Cardinality(FreeFrames(phys_mem))) |->
                        UserPage(Grant(phys_mem, p - PAG_LOG_INIT_HEAP - counter(t)))])]
  /\ CounterNote(t)
  /\ UNCHANGED <<phys_mem, dir_pages_num_references, heap_zones, dir, my_heap,
                 page_fault>>

\* Every frame that is left was taken and mapped before the failing call, and
\* is freed and unmapped again.
DynMemNoFrames(t, n) ==
  /\ Calls(t) /\ n > 0
  /\ ~CanGrant(phys_mem, n)
  /\ pagusr_table' =
       [pagusr_table EXCEPT ![dir[t]] =
          Deleted(@, GrowPages(t, Cardinality(FreeFrames(phys_mem))))]
  /\ CounterNote(t)
  /\ UNCHANGED <<phys_mem, dir_pages_num_references, heap_zones, dir, my_heap,
                 page_fault>>

ShrinkPages(t, n) == PAG_LOG_INIT_HEAP + counter(t) - n .. PAG_LOG_INIT_HEAP + counter(t) - 1

\* Mutation: the frames are freed and stay mapped.
DynMemShrinkMapped(t, n) ==
  /\ Calls(t) /\ n > 0 /\ counter(t) >= n
  /\ phys_mem' = Freed(phys_mem, FramesOf(pagusr_table[dir[t]], ShrinkPages(t, n)))
  /\ heap_zones' = [heap_zones EXCEPT ![my_heap[t]] = @ - n]
  /\ CounterNote(t)
  /\ UNCHANGED <<pagusr_table, dir_pages_num_references, dir, my_heap, page_fault>>

\* dyn_mem(-n); a heap with fewer pages is left alone.
DynMemShrink(t, n) ==
  /\ Calls(t) /\ n > 0 /\ counter(t) >= n
  /\ phys_mem' = Freed(phys_mem, FramesOf(pagusr_table[dir[t]], ShrinkPages(t, n)))
  /\ pagusr_table' = [pagusr_table EXCEPT ![dir[t]] = Deleted(@, ShrinkPages(t, n))]
  /\ heap_zones' = [heap_zones EXCEPT ![my_heap[t]] = @ - n]
  /\ CounterNote(t)
  /\ UNCHANGED <<dir_pages_num_references, dir, my_heap, page_fault>>

----------------------------------------------------------------------------
\* The idle task calls nothing, and a page fault stops the machine.
Halted == (page_fault \/ UserTask = {}) /\ UNCHANGED memvars

MemNext ==
  \/ \E t \in Task :
       \/ Fork(t)
       \/ ForkPageFault(t)
       \/ ForkNoFrames(t)
       \/ CreateThread(t)
       \/ CreateThreadPageFault(t)
       \/ Exit(t)
       \/ \E n \in Requests : DynMemGrow(t, n) \/ DynMemNoFrames(t, n) \/ DynMemShrink(t, -n)
  \/ Halted

\* Without a directory, references are counted down for ever.
Bounded == \A d \in Dir : dir_pages_num_references'[d] >= -MaxOverdue

MemSpec ==
  MemInit /\ [][MemNext /\ Bounded /\ unguarded' \subseteq MemAdmitted]_memvars

(***************************************************************************)
(*                              PROPERTIES                                 *)
(***************************************************************************)

MemTypeOK ==
  /\ phys_mem \in [Frame -> {"FREE_FRAME", "USED_FRAME"}]
  /\ pagusr_table \in [Dir -> [Page -> Entry]]
  /\ dir_pages_num_references \in [Dir -> Int]
  /\ heap_zones \in [Dir -> 0 .. MaxHeap]
  /\ dir \in [Task -> Dir \cup {NoDir}]
  /\ my_heap \in [Task -> Dir \cup {NoDir}]
  /\ page_fault \in BOOLEAN
  /\ unguarded \subseteq MemAdmitted

\* The pages that fork, exit and dyn_mem give frames of their own to.
OwnedAt(d) == {p \in Page \ (KernelPages \cup CodePages) : Present(pagusr_table[d][p])}

\* The frames under the code, which forks share.
CodeFrames == {pagusr_table[2][p].frame : p \in CodePages}

\* No two pages of data or heap, of one address space or of two, are on one
\* frame, and none is on a frame that alloc_frame may hand out again, on one
\* of the kernel's or on one of the code's.  Not even a shared counter, a lost
\* directory or an unmapped heap page breaks it (sys.c:77-122, 224-234,
\* 388-418).
FramesDisjoint ==
  \A d, e \in Dir : \A p \in OwnedAt(d), q \in OwnedAt(e) :
    LET f == pagusr_table[d][p].frame
    IN /\ f = pagusr_table[e][q].frame => d = e /\ p = q
       /\ f >= NUM_PAG_KERNEL
       /\ f \notin CodeFrames
       /\ phys_mem[f] = "USED_FRAME"

\* Nothing leaks: each frame in use is the kernel's, the code's, or under a
\* page of a task that lives, whatever threads and forks came and went
\* (sched.c:48-85; sys.c:81-87, 224-234).
FramesAccounted ==
  unguarded \subseteq {"no_frames"} =>
    \A f \in Frame :
      f >= NUM_PAG_KERNEL /\ phys_mem[f] = "USED_FRAME" /\ f \notin CodeFrames =>
        \E t \in UserTask : \E p \in OwnedAt(dir[t]) : pagusr_table[dir[t]][p].frame = f

\* The counter tells which pages of the heap are mapped, in every address
\* space that uses it.  dyn_mem in a family of forks breaks it, for they all
\* use the counter of the first (sys.c:75).
HeapMapped ==
  unguarded \subseteq {"no_frames"} =>
    \A t \in UserTask : \A p \in Page :
      p >= PAG_LOG_INIT_HEAP =>
        (Present(pagusr_table[dir[t]][p]) <=> p \in HeapPages(counter(t)))

\* What a task has in its data pages stays where it is as long as the task
\* lives: no call, its own or another's, gives them another frame, whatever
\* happens to the heaps (sys.c:224-234; sched.c:68-85).
DataStays ==
  [][\A t \in UserTask :
       dir'[t] = dir[t] /\ "no_directory" \notin unguarded' =>
         \A p \in DataPages : /\ Present(pagusr_table[dir[t]][p])
                              /\ pagusr_table'[dir[t]][p] = pagusr_table[dir[t]][p]]_memvars

\* And so does its heap, up to what dyn_mem gives back: the temporary mappings
\* of fork stay clear of it, and nobody else's exit takes it away.
HeapStays ==
  [][\A t \in UserTask :
       dir'[t] = dir[t] /\ unguarded' \subseteq {"no_frames"} =>
         \A p \in HeapPages(counter(t)) \cap HeapPages(counter(t)') :
           pagusr_table'[dir[t]][p] = pagusr_table[dir[t]][p]]_memvars

=============================================================================

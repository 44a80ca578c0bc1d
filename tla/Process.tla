------------------------------ MODULE Process ------------------------------
(***************************************************************************)
(* The life of a task: fork, create_thread, exit, block, unblock and       *)
(* wait_thread (sys.c) over the scheduler of module Sched.                 *)
(*                                                                         *)
(* The kernel runs with interrupts disabled (interrupt gates and           *)
(* sysenter), so a system call is one step up to the point where it gives  *)
(* the CPU away; only the loop of sys_exit is a sequence of steps.         *)
(* Returns with an error that change nothing are stuttering steps.         *)
(*                                                                         *)
(* Left out: the address spaces (directories, frames, heap) and `pare',    *)
(* which the code writes and never reads.  Whether a fork finds its frames *)
(* is a choice of the environment (ForkNoFrames).                          *)
(***************************************************************************)
EXTENDS Sched

CONSTANTS
  FirstPid,     \* initial value of pidGlobal (1000 in the code)
  MaxForks,     \* bound: tasks created in a behaviour
  MaxPending    \* bound: pending_unblocks of a task

ASSUME PidAssumption   == FirstPid \in Nat /\ FirstPid >= 2
ASSUME BoundAssumption == MaxForks \in Nat /\ MaxPending \in Nat

VARIABLES
  pidGlobal,
  fills,              \* children of a task, linked by their parentAnchor
  waitList,           \* tasks in wait_thread for a task, by their waitAnchor
  pending_unblocks,
  heads,              \* what the bytes of the PCB's waitList head are
  exiting,            \* current is in the waitList loop of sys_exit
  page_fault,         \* page_fault_routine_2 has stopped the machine
  unguarded           \* history: situations met that the code does not guard

lists == <<fills, waitList, heads>>
vars  == <<sched, pidGlobal, fills, waitList, pending_unblocks, heads, exiting,
           page_fault, unguarded>>

\* A head is all zeroes until the PCB is first used, a copy of another
\* task's head after a fork that found no frames, and its own otherwise.
HeadKinds == {"zero", "own", "copied"}

\* The situations recorded in `unguarded'.
Situations == {"root_exit",        \* task1 calls exit
               "wait_on_free",     \* wait_thread finds a PCB of the freequeue
               "unblock_waiter",   \* unblock of a child in wait_thread or semWait
               "no_frames",        \* fork runs out of frames
               "missing_page",     \* fork copies or create_thread writes such a page
               "negative_value",   \* semCreate with a negative value
               "signal_dying"}     \* semSignal in the middle of a semDestroy

Running     == sched.sound /\ ~page_fault
InUserMode  == Running /\ ~exiting
InSyscall   == InUserMode /\ current # Idle

AnchorLinked(t) == \E u \in Task : Contains(waitList[u], t)

NoteIf(situation, cond) ==
  unguarded' = IF cond THEN unguarded \cup {situation} ELSE unguarded

----------------------------------------------------------------------------
Init ==
  /\ SchedInit
  /\ pidGlobal        = FirstPid
  /\ fills            = [t \in Task |-> {}]
  /\ waitList         = [t \in Task |-> <<>>]
  /\ pending_unblocks = [t \in Task |-> 0]
  /\ heads            = [t \in Task |-> IF t \in {Idle, task1} THEN "own" ELSE "zero"]
  /\ exiting          = FALSE
  /\ page_fault       = FALSE
  /\ unguarded        = {}

----------------------------------------------------------------------------
(* fork and create_thread.  copy_data overwrites the whole PCB, with the   *)
(* anchors it may be linked by.                                            *)

\* Mutation: pidGlobal is read and not incremented.
SpawnSamePid(c) ==
  LET taken == [sched EXCEPT !.queue["freequeue"] = Tail(@),
                             !.PID[c]             = pidGlobal,
                             !.current_state[c]   = sched.current_state[current]]
  IN /\ sched'            = Update(taken, c, "readyqueue")
     /\ fills'            = [fills EXCEPT ![current] = @ \cup {c}, ![c] = {}]
     /\ heads'            = [heads EXCEPT ![c] = "own"]
     /\ UNCHANGED <<pidGlobal, waitList, pending_unblocks, exiting, page_fault, unguarded>>

\* Mutation: the child keeps the copy of its parent's waitList head.
SpawnCopiedHead(c) ==
  LET taken == [sched EXCEPT !.queue["freequeue"] = Tail(@),
                             !.PID[c]             = pidGlobal,
                             !.current_state[c]   = sched.current_state[current]]
  IN /\ sched'            = Update(taken, c, "readyqueue")
     /\ pidGlobal'        = pidGlobal + 1
     /\ fills'            = [fills EXCEPT ![current] = @ \cup {c}, ![c] = {}]
     /\ heads'            = [heads EXCEPT ![c] = "copied"]
     /\ pending_unblocks' = [pending_unblocks EXCEPT ![c] = 0]
     /\ UNCHANGED <<waitList, exiting, page_fault, unguarded>>

\* The PCB leaves the freequeue and gets a copy of its creator's.
PcbTaken(c) == [sched EXCEPT !.queue["freequeue"] = Tail(@),
                             !.PID[c]             = pidGlobal,
                             !.current_state[c]   = sched.current_state[current],
                             !.sound              = @ /\ ~AnchorLinked(c)]

PcbFilled(c) ==
  /\ pidGlobal'        = pidGlobal + 1
  /\ fills'            = [fills EXCEPT ![current] = @ \cup {c}, ![c] = {}]
  /\ waitList'         = [waitList EXCEPT ![c] = <<>>]
  /\ heads'            = [heads EXCEPT ![c] = "own"]
  /\ pending_unblocks' = [pending_unblocks EXCEPT ![c] = 0]

Spawn(c) ==
  /\ sched' = Update(PcbTaken(c), c, "readyqueue")
  /\ PcbFilled(c)
  /\ UNCHANGED <<exiting, page_fault, unguarded>>

Fork ==
  /\ InSyscall
  /\ FreeQueue # <<>>
  /\ pidGlobal < FirstPid + MaxForks
  /\ Spawn(Head(FreeQueue))

\* create_thread with a function and a stack that access_ok accepts.
CreateThread ==
  /\ InSyscall
  /\ FreeQueue # <<>>
  /\ pidGlobal < FirstPid + MaxForks
  /\ Spawn(Head(FreeQueue))

\* access_ok also accepts a stack on the first page of a heap, there or not,
\* and does not look at the two words below the stack, which create_thread
\* writes before the thread is ready.
CreateThreadPageFault ==
  /\ InSyscall
  /\ FreeQueue # <<>>
  /\ pidGlobal < FirstPid + MaxForks
  /\ sched' = PcbTaken(Head(FreeQueue))
  /\ PcbFilled(Head(FreeQueue))
  /\ page_fault' = TRUE
  /\ NoteIf("missing_page", TRUE)
  /\ UNCHANGED exiting

\* The PCB goes back to the freequeue with what copy_data left in it.
ForkNoFrames ==
  /\ InSyscall
  /\ FreeQueue # <<>>
  /\ LET c == Head(FreeQueue)
     IN /\ sched' = [sched EXCEPT !.queue["freequeue"] = Append(Tail(@), c),
                                  !.PID[c]             = sched.PID[current],
                                  !.current_state[c]   = sched.current_state[current],
                                  !.sound              = @ /\ ~AnchorLinked(c)]
        /\ waitList' = [waitList EXCEPT ![c] = <<>>]
        /\ heads'    = [heads EXCEPT ![c] = "copied"]
  /\ NoteIf("no_frames", TRUE)
  /\ UNCHANGED <<pidGlobal, fills, pending_unblocks, exiting, page_fault>>

\* A page of the heap that the counter promises is not there to be copied
\* (module Memory): the PCB is in no queue yet.
ForkPageFault ==
  /\ InSyscall
  /\ FreeQueue # <<>>
  /\ LET c == Head(FreeQueue)
     IN /\ sched' = [sched EXCEPT !.queue["freequeue"] = Tail(@),
                                  !.PID[c]             = sched.PID[current],
                                  !.current_state[c]   = sched.current_state[current],
                                  !.sound              = @ /\ ~AnchorLinked(c)]
        /\ waitList' = [waitList EXCEPT ![c] = <<>>]
        /\ heads'    = [heads EXCEPT ![c] = "copied"]
  /\ page_fault' = TRUE
  /\ NoteIf("missing_page", TRUE)
  /\ UNCHANGED <<pidGlobal, fills, pending_unblocks, exiting>>

----------------------------------------------------------------------------
(* block and unblock *)

\* Mutation: pending_unblocks is compared with < 0.
BlockBelowZero ==
  /\ InSyscall
  /\ pending_unblocks[current] >= 0
  /\ pending_unblocks' = [pending_unblocks EXCEPT ![current] = @ - 1]
  /\ UNCHANGED <<sched, pidGlobal, lists, exiting, page_fault, unguarded>>

\* Mutation: block sleeps without a look at pending_unblocks.
BlockAlways ==
  /\ InSyscall
  /\ sched' = SchedNext(Update(sched, current, "blocked"))
  /\ UNCHANGED <<pidGlobal, lists, pending_unblocks, exiting, page_fault, unguarded>>

Block ==
  /\ InSyscall
  /\ IF pending_unblocks[current] <= 0
     THEN /\ sched' = SchedNext(Update(sched, current, "blocked"))
          /\ UNCHANGED pending_unblocks
     ELSE /\ pending_unblocks' = [pending_unblocks EXCEPT ![current] = @ - 1]
          /\ UNCHANGED sched
  /\ UNCHANGED <<pidGlobal, lists, exiting, page_fault, unguarded>>

\* Mutation: the pid is looked up in task[] and not among the children.
UnblockAnybody(pid) ==
  /\ InSyscall
  /\ \E t \in Task :
       /\ sched.PID[t] = pid
       /\ sched.current_state[t] = "ST_BLOCKED"
       /\ sched' = SchedNext(Update(sched, t, "readyqueue"))
  /\ UNCHANGED <<pidGlobal, lists, pending_unblocks, exiting, page_fault, unguarded>>

Unblock(pid) ==
  /\ InSyscall
  /\ \E fill \in fills[current] :
       /\ sched.PID[fill] = pid
       /\ IF sched.current_state[fill] = "ST_BLOCKED"
          THEN /\ sched' = SchedNext(Update(sched, fill, "readyqueue"))
               /\ UNCHANGED pending_unblocks
               /\ NoteIf("unblock_waiter", AnchorLinked(fill))
          ELSE /\ sched' = SchedNext(sched)
               /\ pending_unblocks[fill] < MaxPending
               /\ pending_unblocks' = [pending_unblocks EXCEPT ![fill] = @ + 1]
               /\ UNCHANGED unguarded
  /\ UNCHANGED <<pidGlobal, lists, exiting, page_fault>>

\* unblock of a pid that is no child's returns -1, but yields all the same.
UnblockNobody ==
  /\ InSyscall
  /\ sched' = SchedNext(sched)
  /\ UNCHANGED <<pidGlobal, lists, pending_unblocks, exiting, page_fault, unguarded>>

----------------------------------------------------------------------------
(* wait_thread takes the first PCB of task[] with the pid, whatever its    *)
(* state is.  Appending to a head of zeroes writes through a NULL pointer: *)
(* a page fault, unless the address space has page 0 (fork maps it).       *)

FirstWith(pid) ==
  CHOOSE t \in Task : /\ sched.PID[t] = pid
                      /\ \A u \in Task : sched.PID[u] = pid => t <= u

WaitThread(pid) ==
  /\ InSyscall
  /\ \E t \in Task : sched.PID[t] = pid
  /\ LET bt == FirstWith(pid)
     IN /\ NoteIf("wait_on_free", Contains(FreeQueue, bt))
        /\ \/ /\ heads[bt] = "zero"
              /\ waitList[bt] = <<>>
              /\ page_fault' = TRUE
              /\ UNCHANGED <<sched, waitList>>
           \/ /\ waitList' = [waitList EXCEPT ![bt] = Append(@, current)]
              /\ LET anchored == [sched EXCEPT !.sound = /\ @
                                                         /\ ~AnchorLinked(current)
                                                         /\ heads[bt] # "copied"]
                 IN sched' = SchedNext(Update(anchored, current, "blocked"))
              /\ UNCHANGED page_fault
  /\ UNCHANGED <<pidGlobal, fills, pending_unblocks, heads, exiting>>

----------------------------------------------------------------------------
(* exit.  The children go to the idle task, the waiters to the ready       *)
(* queue, the PCB to the freequeue.  The anchor of task1 was never         *)
(* initialised: unlinking it is a page fault.                              *)

\* Mutation: the children of the task that exits are nobody's.
ExitOrphans ==
  /\ InSyscall
  /\ current # task1
  /\ sched'   = [sched EXCEPT !.PID[current] = -1]
  /\ fills'   = [p \in Task |-> IF p = current THEN {} ELSE fills[p] \ {current}]
  /\ exiting' = TRUE
  /\ UNCHANGED <<pidGlobal, waitList, pending_unblocks, heads, page_fault, unguarded>>

Exit ==
  /\ InSyscall
  /\ IF current = task1
     THEN /\ page_fault' = TRUE
          /\ NoteIf("root_exit", TRUE)
          /\ UNCHANGED <<sched, fills, exiting>>
     ELSE /\ sched'   = [sched EXCEPT !.PID[current] = -1]
          /\ fills'   = [p \in Task |->
                           CASE p = current -> {}
                             [] p = Idle    -> (fills[Idle] \cup fills[current]) \ {current}
                             [] OTHER       -> fills[p] \ {current}]
          /\ exiting' = TRUE
          /\ UNCHANGED <<page_fault, unguarded>>
  /\ UNCHANGED <<pidGlobal, waitList, pending_unblocks, heads>>

ExitWake ==
  /\ Running /\ exiting
  /\ waitList[current] # <<>>
  /\ sched'    = Update(sched, Head(waitList[current]), "readyqueue")
  /\ waitList' = [waitList EXCEPT ![current] = Tail(@)]
  /\ UNCHANGED <<pidGlobal, fills, pending_unblocks, heads, exiting, page_fault,
                 unguarded>>

\* Mutation: an if where the loop over the waiters has a while.
ExitDoneEarly ==
  /\ Running /\ exiting
  /\ sched'   = SchedNext(Update(sched, current, "freequeue"))
  /\ exiting' = FALSE
  /\ UNCHANGED <<pidGlobal, lists, pending_unblocks, page_fault, unguarded>>

ExitDone ==
  /\ Running /\ exiting
  /\ waitList[current] = <<>>
  /\ sched'   = SchedNext(Update(sched, current, "freequeue"))
  /\ exiting' = FALSE
  /\ UNCHANGED <<pidGlobal, lists, pending_unblocks, page_fault, unguarded>>

----------------------------------------------------------------------------
\* A clock interrupt finds the CPU in user mode or in the idle task.
ClockInterrupt ==
  /\ InUserMode
  /\ sched' = Clock(sched)
  /\ UNCHANGED <<pidGlobal, lists, pending_unblocks, exiting, page_fault, unguarded>>

\* page_fault_routine_2 loops for ever with interrupts disabled; after a list
\* is broken nothing is known of the kernel, and the model stops as well.
Halted ==
  /\ ~Running
  /\ UNCHANGED vars

Pids == {-1, 0, 1} \cup FirstPid .. (FirstPid + MaxForks - 1)

Next ==
  \/ Fork
  \/ CreateThread
  \/ CreateThreadPageFault
  \/ ForkPageFault
  \/ ForkNoFrames
  \/ Block
  \/ \E pid \in Pids : Unblock(pid)
  \/ UnblockNobody
  \/ \E pid \in Pids : WaitThread(pid)
  \/ Exit
  \/ ExitWake
  \/ ExitDone
  \/ ClockInterrupt
  \/ Halted

(***************************************************************************)
(* The interrupt controller keeps a clock interrupt that arrives while     *)
(* interrupts are off and delivers it when they are on again: strong       *)
(* fairness.  The kernel itself does not stop in the middle of sys_exit.   *)
(* Nothing is assumed of the programs.                                     *)
(***************************************************************************)
Fairness ==
  /\ SF_vars(ClockInterrupt)
  /\ WF_vars(ExitWake)
  /\ WF_vars(ExitDone)

Spec == Init /\ [][Next]_vars /\ Fairness

(***************************************************************************)
(*                              PROPERTIES                                 *)
(***************************************************************************)

TypeOK ==
  /\ sched \in SchedType
  /\ pidGlobal \in FirstPid .. (FirstPid + MaxForks)
  /\ fills \in [Task -> SUBSET Task]
  /\ waitList \in [Task -> Seq(Task)]
  /\ pending_unblocks \in [Task -> 0 .. MaxPending]
  /\ heads \in [Task -> HeadKinds]
  /\ exiting \in BOOLEAN
  /\ page_fault \in BOOLEAN
  /\ unguarded \subseteq Situations

FailedFork(t) == heads[t] = "copied"

Free(t) == Contains(FreeQueue, t)

\* Used by a task: neither in the freequeue nor the idle task's.
Live(t) == t # Idle /\ ~Free(t) /\ (t = current => ~exiting)

----------------------------------------------------------------------------
\* The queue a PCB is in is the one its current_state says, except for the
\* PCB of a failed fork, a copy of a running task's.
StateSaysQueue ==
  \A n \in QueueNames : \A t \in Task :
    Contains(sched.queue[n], t) =>
      \/ sched.current_state[t] = StateOf[n]
      \/ n = "freequeue" /\ FailedFork(t) /\ sched.current_state[t] = "ST_RUN"

\* Every PCB but the running one's and the idle task's is in a queue.  (A task
\* that was unblocked out of a wait for itself enters the freequeue in the
\* loop of sys_exit, and again at its end, which breaks the list.)
NoneLost ==
  /\ \A t \in Task \ {Idle, current} : Linked(sched, t)
  /\ ~Linked(sched, Idle)
  /\ ~exiting => /\ ~Linked(sched, current)
                 /\ sched.current_state[current] = "ST_RUN"

\* The scheduler never loses, duplicates or misplaces a task, whatever the
\* programs call (update_process_state_rr, sched_next_rr and their callers).
Placement == Running => NodesDistinct(sched.queue) /\ StateSaysQueue /\ NoneLost

\* No two tasks in use have the same PID: sched_next_rr compares PIDs to
\* decide whether it switches, unblock and wait_thread look tasks up by PID.
UniquePids ==
  Running => \A t, u \in Task :
    Live(t) /\ Live(u) /\ sched.PID[t] = sched.PID[u] => t = u

\* Every task but task1 can be unblocked by exactly one task, which is its
\* creator or, once the creator has exited, the idle task (sys_exit,
\* sys.c:240-248): no orphan, no child in two lists, no dead child.
OneParent ==
  Running => \A t \in Task :
    LET parents == {p \in Task : t \in fills[p]}
    IN IF Live(t) /\ t # task1
       THEN \E p \in Task : parents = {p} /\ (p = Idle \/ Live(p))
       ELSE parents = {}

\* No unblock is lost: a task that sleeps in block has none pending
\* (sys_block and sys_unblock, sys.c:261-265 and 296-299).  A waiter on a free
\* PCB is forgotten when a fork takes the PCB, and then looks like a sleeper.
NoLostUnblock ==
  Running /\ "wait_on_free" \notin unguarded => \A t \in Task :
    /\ sched.current_state[t] = "ST_BLOCKED"
    /\ ~AnchorLinked(t)
    => pending_unblocks[t] = 0

\* A task is in a waitList exactly while it sleeps in wait_thread, and what
\* it waits for has not exited: sys_exit leaves nobody behind.  Only programs
\* that make wait_thread find a free PCB, or that unblock a child out of
\* wait_thread, break it.
WaitersConsistent ==
  Running /\ unguarded \cap {"wait_on_free", "unblock_waiter"} = {} =>
    \A u \in Task : \A i \in DOMAIN waitList[u] :
      /\ sched.current_state[waitList[u][i]] = "ST_BLOCKED"
      /\ Live(u) \/ u = Idle \/ (u = current /\ exiting)
      /\ \A v \in Task : \A j \in DOMAIN waitList[v] :
           waitList[v][j] = waitList[u][i] => u = v /\ i = j

\* The kernel breaks its lists or faults only after one of the situations
\* that the code does not guard against.
FaultsExplained == unguarded = {} => Running

\* A sleeping task is woken by its parent's unblock or by the exit of the task
\* it waits for, never by a third party (sys_unblock looks among the children
\* of current only, sys_exit in the waitList of current only).
WakeCause ==
  [][\A t \in Task :
       sched.current_state[t] = "ST_BLOCKED" /\ sched'.current_state[t] # "ST_BLOCKED" =>
         t \in fills[current] \/ (exiting /\ Contains(waitList[current], t))]_vars

\* wait_thread returns only when the thread it waits for has exited (the
\* message user.c prints after wait_thread, "ha terminado").
WaitUntilExit ==
  [][\A t, u \in Task :
       Contains(waitList[u], t) /\ sched'.current_state[t] # "ST_BLOCKED"
       => sched.PID[u] = -1]_vars

\* No starvation: a ready task gets the CPU, whatever the others do.
ReadyRuns ==
  \A t \in Task \ {Idle} :
    Contains(ReadyQueue, t) ~> (current = t \/ ~Running)

----------------------------------------------------------------------------
\* Under programs that keep clear of the situations the code does not guard
\* against, the kernel implements the round robin of sched.c: a task enters the
\* queue at the tail, the CPU goes to the head, and it always goes on.
RR == INSTANCE RoundRobin WITH running <- current, runq <- ReadyQueue

ImplementsRoundRobin == RR!Spec

=============================================================================

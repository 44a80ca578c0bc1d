----------------------------- MODULE Semaphores ----------------------------
(***************************************************************************)
(* The semaphores of sys.c over the tasks of module Process.               *)
(*                                                                         *)
(* semDestroy, and sys_exit through it, gives the CPU away once for every  *)
(* waiter it wakes: other tasks run between two rounds of its loop, with   *)
(* the semaphore half destroyed.  `cont' says where in the kernel a task   *)
(* goes on when it next gets the CPU.                                      *)
(*                                                                         *)
(* A semaphore is named by its slot: ids are never given twice, so an id   *)
(* either names the semaphore it was given to or is refused.               *)
(***************************************************************************)
EXTENDS Process

CONSTANTS
  NUM_SEMS,       \* slots of semaphores[]
  InitialValues,  \* values the programs pass to semCreate
  MaxValue,       \* bound: value of a semaphore
  Admitted        \* the unguarded situations the programs get into

ASSUME SemAssumption ==
  /\ NUM_SEMS \in Nat \ {0}
  /\ InitialValues \subseteq Int
  /\ MaxValue \in Nat
  /\ Admitted \subseteq Situations

Slot == 1 .. NUM_SEMS

VARIABLES semaphores, cont

semvars == <<semaphores, cont>>
allvars == <<vars, semvars>>

SemType ==
  [value : Int, free : BOOLEAN, creatorPID : Int, blockedThreads : Seq(Task)]

\* user: in a program, or about to return to it.
\* sem_wait, destroyed: asleep in semWait, woken by the semDestroy.
\* destroy, exit: in the loops of semDestroy and of sys_exit.
Ops == {"user", "sem_wait", "destroyed", "destroy", "exit"}

ContType == [op : Ops, slot : 0 .. NUM_SEMS]

User == [op |-> "user", slot |-> 0]

At(op)    == cont[current].op = op
SlotOf(t) == cont[t].slot

SemLinked(t) == \E i \in Slot : Contains(semaphores[i].blockedThreads, t)

SemInit ==
  /\ Init
  /\ semaphores = [i \in Slot |-> [value |-> 0, free |-> TRUE, creatorPID |-> 0,
                                   blockedThreads |-> <<>>]]
  /\ cont = [t \in Task |-> User]

----------------------------------------------------------------------------
(* semCreate takes the first free slot. *)

SemSyscall == InSyscall /\ At("user")

SemCreate(v) ==
  /\ SemSyscall
  /\ \E i \in Slot :
       /\ semaphores[i].free
       /\ \A j \in Slot : semaphores[j].free => i <= j
       /\ semaphores' = [semaphores EXCEPT
                           ![i] = [value |-> v, free |-> FALSE,
                                   creatorPID |-> sched.PID[current],
                                   blockedThreads |-> <<>>]]
  /\ NoteIf("negative_value", v < 0)
  /\ UNCHANGED <<sched, pidGlobal, lists, pending_unblocks, exiting, page_fault, cont>>

\* Mutation: the last permit is not given.
SemWaitTooSoon(i) ==
  /\ SemSyscall
  /\ ~semaphores[i].free
  /\ semaphores[i].value - 1 = 0
  /\ semaphores' = [semaphores EXCEPT ![i].value = @ - 1,
                                      ![i].blockedThreads = Append(@, current)]
  /\ sched' = SchedNext(Update(sched, current, "blocked"))
  /\ cont' = [cont EXCEPT ![current] = [op |-> "sem_wait", slot |-> i]]
  /\ UNCHANGED <<pidGlobal, lists, pending_unblocks, exiting, page_fault, unguarded>>

\* Mutation: list_add where the code has list_add_tail.
SemWaitAtHead(i) ==
  /\ SemSyscall
  /\ ~semaphores[i].free
  /\ semaphores[i].value - 1 < 0
  /\ semaphores[i].value - 1 >= -MaxValue - NR_TASKS
  /\ semaphores' = [semaphores EXCEPT ![i].value = @ - 1,
                                      ![i].blockedThreads = <<current>> \o @]
  /\ sched' = SchedNext(Update(sched, current, "blocked"))
  /\ cont' = [cont EXCEPT ![current] = [op |-> "sem_wait", slot |-> i]]
  /\ UNCHANGED <<pidGlobal, lists, pending_unblocks, exiting, page_fault, unguarded>>

SemWait(i) ==
  /\ SemSyscall
  /\ ~semaphores[i].free
  /\ IF semaphores[i].value - 1 < 0
     THEN /\ semaphores' = [semaphores EXCEPT
                              ![i].value = @ - 1,
                              ![i].blockedThreads = Append(@, current)]
          /\ LET linked == [sched EXCEPT !.sound = @ /\ ~SemLinked(current)]
             IN sched' = SchedNext(Update(linked, current, "blocked"))
          /\ cont' = [cont EXCEPT ![current] = [op |-> "sem_wait", slot |-> i]]
     ELSE /\ semaphores' = [semaphores EXCEPT ![i].value = @ - 1]
          /\ UNCHANGED <<sched, cont>>
  /\ semaphores'[i].value >= -MaxValue - NR_TASKS
  /\ UNCHANGED <<pidGlobal, lists, pending_unblocks, exiting, page_fault, unguarded>>

\* A waiter that gets the CPU back returns creatorPID.
SemWaitReturn ==
  /\ InUserMode
  /\ At("sem_wait") \/ At("destroyed")
  /\ cont' = [cont EXCEPT ![current] = User]
  /\ UNCHANGED <<vars, semaphores>>

----------------------------------------------------------------------------
(* semSignal takes the first waiter off the list without looking whether   *)
(* there is one: list_first of an empty list is the head itself.           *)

Dying(i) == \E t \in Task : cont[t].op \in {"destroy", "exit"} /\ SlotOf(t) = i

SemSignal(i) ==
  /\ SemSyscall
  /\ ~semaphores[i].free
  /\ semaphores[i].value < MaxValue
  /\ LET waiters == semaphores[i].blockedThreads
     IN IF semaphores[i].value + 1 > 0
        THEN /\ semaphores' = [semaphores EXCEPT ![i].value = @ + 1]
             /\ UNCHANGED <<sched, unguarded>>
        ELSE IF waiters # <<>>
        THEN /\ semaphores' = [semaphores EXCEPT ![i].value = @ + 1,
                                                 ![i].blockedThreads = Tail(@)]
             /\ sched' = SchedNext(Update(sched, Head(waiters), "readyqueue"))
             /\ UNCHANGED unguarded
        ELSE /\ sched' = [sched EXCEPT !.sound = FALSE]
             /\ NoteIf("signal_dying", Dying(i))
             /\ UNCHANGED semaphores
  /\ UNCHANGED <<pidGlobal, lists, pending_unblocks, exiting, page_fault, cont>>

----------------------------------------------------------------------------
(* semDestroy, by the creator only. *)

Mine(i) == ~semaphores[i].free /\ semaphores[i].creatorPID = sched.PID[current]

\* Mutation: anybody may destroy a semaphore.
SemDestroyAny(i) ==
  /\ SemSyscall
  /\ ~semaphores[i].free
  /\ cont' = [cont EXCEPT ![current] = [op |-> "destroy", slot |-> i]]
  /\ UNCHANGED <<vars, semaphores>>

SemDestroy(i) ==
  /\ SemSyscall
  /\ Mine(i)
  /\ cont' = [cont EXCEPT ![current] = [op |-> "destroy", slot |-> i]]
  /\ UNCHANGED <<vars, semaphores>>

\* Mutation: creatorPID keeps its value.
DestroyRoundUntold ==
  /\ InUserMode
  /\ At("destroy") \/ At("exit")
  /\ SlotOf(current) # 0
  /\ LET i       == SlotOf(current)
         waiters == semaphores[i].blockedThreads
     IN /\ waiters # <<>>
        /\ semaphores' = [semaphores EXCEPT ![i].blockedThreads = Tail(@)]
        /\ sched' = SchedNext(Update(sched, Head(waiters), "readyqueue"))
        /\ cont' = IF cont[Head(waiters)].op = "sem_wait"
                   THEN [cont EXCEPT ![Head(waiters)].op = "destroyed"] ELSE cont
  /\ UNCHANGED <<pidGlobal, lists, pending_unblocks, exiting, page_fault, unguarded>>

\* One round of the loop; the task goes on with the next when it runs again.
DestroyRound ==
  /\ InUserMode
  /\ At("destroy") \/ At("exit")
  /\ SlotOf(current) # 0
  /\ LET i       == SlotOf(current)
         waiters == semaphores[i].blockedThreads
     IN /\ waiters # <<>>
        /\ semaphores' = [semaphores EXCEPT ![i].creatorPID = -1,
                                            ![i].blockedThreads = Tail(@)]
        /\ sched' = SchedNext(Update(sched, Head(waiters), "readyqueue"))
        /\ cont' = IF cont[Head(waiters)].op = "sem_wait"
                   THEN [cont EXCEPT ![Head(waiters)].op = "destroyed"] ELSE cont
  /\ UNCHANGED <<pidGlobal, lists, pending_unblocks, exiting, page_fault, unguarded>>

\* Mutation: an if where the loop over the waiters has a while.
DestroyEndEarly ==
  /\ InUserMode
  /\ At("destroy") \/ At("exit")
  /\ SlotOf(current) # 0
  /\ semaphores' = [semaphores EXCEPT ![SlotOf(current)].free = TRUE]
  /\ cont' = [cont EXCEPT ![current] = IF At("exit") THEN [@ EXCEPT !.slot = 0]
                                                     ELSE User]
  /\ UNCHANGED vars

DestroyEnd ==
  /\ InUserMode
  /\ At("destroy") \/ At("exit")
  /\ SlotOf(current) # 0
  /\ semaphores[SlotOf(current)].blockedThreads = <<>>
  /\ semaphores' = [semaphores EXCEPT ![SlotOf(current)].free = TRUE]
  /\ cont' = [cont EXCEPT ![current] = IF At("exit") THEN [@ EXCEPT !.slot = 0]
                                                     ELSE User]
  /\ UNCHANGED vars

----------------------------------------------------------------------------
(* sys_exit destroys the semaphores of the task, slot by slot, and then    *)
(* goes on as module Process says.                                         *)

SemExit ==
  /\ SemSyscall
  /\ current = task1 => "root_exit" \in Admitted
  /\ cont' = [cont EXCEPT ![current] = [op |-> "exit", slot |-> 0]]
  /\ UNCHANGED <<vars, semaphores>>

ExitDestroy ==
  /\ InUserMode
  /\ At("exit") /\ SlotOf(current) = 0
  /\ \E i \in Slot :
       /\ Mine(i)
       /\ \A j \in Slot : Mine(j) => i <= j
       /\ cont' = [cont EXCEPT ![current].slot = i]
  /\ UNCHANGED <<vars, semaphores>>

\* Mutation: the semaphores of the task stay.
ExitTaskLeaves ==
  /\ At("exit") /\ SlotOf(current) = 0
  /\ Exit
  /\ cont' = [cont EXCEPT ![current] = User]
  /\ UNCHANGED semaphores

ExitTask ==
  /\ At("exit") /\ SlotOf(current) = 0
  /\ \A i \in Slot : ~Mine(i)
  /\ Exit
  /\ cont' = [cont EXCEPT ![current] = User]
  /\ UNCHANGED semaphores

----------------------------------------------------------------------------
(* The other system calls and the clock.  The semList anchors of a PCB     *)
(* are lost like its waitAnchor when a fork overwrites it, and an unblock  *)
(* takes a child out of semWait like out of wait_thread.                   *)

SemSpawn ==
  /\ At("user")
  /\ IF FreeQueue # <<>> /\ SemLinked(Head(FreeQueue))
     THEN /\ InSyscall
          /\ sched' = [sched EXCEPT !.sound = FALSE]
          /\ UNCHANGED <<pidGlobal, lists, pending_unblocks, exiting, page_fault,
                         unguarded>>
     ELSE \/ Fork \/ ForkNoFrames \/ ForkPageFault
          \/ CreateThread \/ CreateThreadPageFault
  /\ UNCHANGED semvars

SemUnblock(pid) ==
  /\ SemSyscall
  /\ IF \E fill \in fills[current] : /\ sched.PID[fill] = pid
                                     /\ sched.current_state[fill] = "ST_BLOCKED"
                                     /\ SemLinked(fill)
     THEN \E fill \in fills[current] :
            /\ sched.PID[fill] = pid
            /\ sched' = SchedNext(Update(sched, fill, "readyqueue"))
            /\ NoteIf("unblock_waiter", TRUE)
            /\ UNCHANGED <<pidGlobal, lists, pending_unblocks, exiting, page_fault>>
     ELSE Unblock(pid)
  /\ UNCHANGED semvars

OtherCall ==
  /\ At("user")
  /\ Block \/ UnblockNobody \/ (\E pid \in Pids : WaitThread(pid)) \/ ClockInterrupt
  /\ UNCHANGED semvars

ExitLoop == (ExitWake \/ ExitDone) /\ UNCHANGED semvars

\* What the kernel does on its own, with interrupts disabled.
KernelStep ==
  \/ SemWaitReturn
  \/ DestroyRound
  \/ DestroyEnd
  \/ ExitDestroy
  \/ ExitTask
  \/ ExitLoop

SemNext ==
  \/ \E v \in InitialValues : SemCreate(v)
  \/ \E i \in Slot : SemWait(i)
  \/ \E i \in Slot : SemSignal(i)
  \/ \E i \in Slot : SemDestroy(i)
  \/ SemExit
  \/ SemSpawn
  \/ \E pid \in Pids : SemUnblock(pid)
  \/ OtherCall
  \/ KernelStep
  \/ Halted /\ UNCHANGED semvars

SemFairness ==
  /\ SF_allvars(At("user") /\ ClockInterrupt /\ UNCHANGED semvars)
  /\ WF_allvars(KernelStep)

SemSpec == SemInit /\ [][SemNext /\ unguarded' \subseteq Admitted]_allvars /\ SemFairness

(***************************************************************************)
(*                              PROPERTIES                                 *)
(***************************************************************************)

SemTypeOK ==
  /\ TypeOK
  /\ semaphores \in [Slot -> SemType]
  /\ cont \in [Task -> ContType]

\* A semaphore that nobody is destroying has as many waiters as its value is
\* below zero; a destroyed one has none; and on its list is exactly who sleeps
\* in semWait for it, so that a signal finds them all (sys.c:461-466, 487-494).
SemAccounting ==
  Running /\ unguarded \cap {"negative_value", "unblock_waiter", "wait_on_free"} = {} =>
    \A i \in Slot :
      LET s == semaphores[i] IN
      /\ s.free => s.blockedThreads = <<>>
      /\ ~s.free /\ ~Dying(i) =>
           Len(s.blockedThreads) = IF s.value < 0 THEN -s.value ELSE 0
      /\ \A t \in Task :
           Contains(s.blockedThreads, t) <=>
             sched.current_state[t] = "ST_BLOCKED" /\ cont[t] = [op |-> "sem_wait", slot |-> i]

\* A waiter of a destroyed semaphore is told so: creatorPID, which semWait
\* reads after it has slept (sys.c:467), is still the -1 that semDestroy left.
\* The slot cannot be taken by a semCreate in between, because the waiter is
\* ahead of the destroyer in the ready queue.
DestroyedTold ==
  Running /\ unguarded = {} =>
    \A t \in Task : cont[t].op = "destroyed" =>
      semaphores[SlotOf(t)].creatorPID = -1

\* A task that has exited leaves no semaphore behind, and none is half
\* destroyed for ever: each one in use has a living creator, or a task that
\* is destroying it (sys_exit, sys.c:219-222).
SemOwned ==
  Running /\ unguarded = {} =>
    \A i \in Slot : ~semaphores[i].free =>
      \/ Dying(i)
      \/ \E t \in Task : Live(t) /\ sched.PID[t] = semaphores[i].creatorPID

\* The lists survive the semaphore calls of programs that keep clear of the
\* other situations: the system calls are thread-safe (interrupt.c:84-85).
ThreadSafe == unguarded \subseteq {"signal_dying"} => Running

\* Two tasks are never destroying the same semaphore.
OneDestroyer ==
  Running /\ unguarded = {} =>
    \A t, u \in Task :
      /\ cont[t].op \in {"destroy", "exit"} /\ cont[u].op \in {"destroy", "exit"}
      /\ SlotOf(t) # 0 /\ SlotOf(t) = SlotOf(u)
      => t = u

\* A semaphore that is being destroyed lets each of its waiters go, even when
\* they and others keep coming back to wait on it.
WaitersFlushed ==
  \A t \in Task : \A i \in Slot :
    Dying(i) /\ Contains(semaphores[i].blockedThreads, t)
      ~> (~Contains(semaphores[i].blockedThreads, t) \/ ~Running)

StatusOf(i)  == IF semaphores[i].free THEN "none"
                ELSE IF Dying(i) THEN "dying" ELSE "live"
PermitsOf(i) == IF semaphores[i].free \/ semaphores[i].value < 0 THEN 0
                ELSE semaphores[i].value

\* A slot implements the FIFO semaphore, as long as the programs keep clear of
\* the unguarded situations: no waiter is overtaken, no permit is lost or made
\* up, and destruction frees every waiter.
FS == INSTANCE FifoSemaphore WITH status  <- StatusOf(1),
                                  permits <- PermitsOf(1),
                                  waiting <- semaphores[1].blockedThreads

ImplementsFifoSemaphore == FS!Spec

=============================================================================

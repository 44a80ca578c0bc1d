------------------------------- MODULE Sched -------------------------------
(***************************************************************************)
(* The process table and the round-robin scheduler of sched.c.             *)
(*                                                                         *)
(* The state of the scheduler is one record, `sched', so that a handler    *)
(* that calls update_process_state_rr and sched_next_rr several times is   *)
(* the composition of the operators Update and SchedNext below, in the     *)
(* order of the calls.                                                     *)
(*                                                                         *)
(* A kernel list is the sequence of the PCBs linked in it.  The kernel     *)
(* checks nothing before it links or unlinks a node; `sound' becomes FALSE *)
(* when it links a node that is linked already, or unlinks one that is     *)
(* not: from there on its lists are no sequences any more (list.c).        *)
(***************************************************************************)
EXTENDS Integers, SequencesExt

CONSTANTS
  NR_TASKS,               \* PCBs in task[], the idle task's included
  DEFAULT_QUANTUM_TICKS   \* clock ticks of a time slice

ASSUME NrTasksAssumption == NR_TASKS \in Nat /\ NR_TASKS >= 2
ASSUME QuantumAssumption == DEFAULT_QUANTUM_TICKS \in Nat \ {0}

Task  == 0 .. NR_TASKS - 1
Idle  == 0                      \* idle_task: the first PCB of the freequeue
task1 == 1                      \* the second one

QueueNames == {"readyqueue", "freequeue", "blocked", "read_blocked"}

States == {"ST_RUN", "ST_FREE", "ST_READY", "ST_BLOCKED", "ST_READBLOCKED"}

\* The state a PCB gets when it is appended to a queue.
StateOf == [readyqueue   |-> "ST_READY",
            freequeue    |-> "ST_FREE",
            blocked      |-> "ST_BLOCKED",
            read_blocked |-> "ST_READBLOCKED"]

SchedType ==
  [PID           : [Task -> Int],
   current_state : [Task -> States],
   queue         : [QueueNames -> Seq(Task)],
   current       : Task,
   tick_counter  : 0 .. DEFAULT_QUANTUM_TICKS,
   sound         : BOOLEAN]

VARIABLE sched

----------------------------------------------------------------------------
(* Lists *)

Linked(s, t) == \E n \in QueueNames : Contains(s.queue[n], t)

\* No node is in two places, of one queue or of two.
NodesDistinct(q) ==
  \A m, n \in QueueNames : \A i \in DOMAIN q[m], j \in DOMAIN q[n] :
    q[m][i] = q[n][j] => m = n /\ i = j

Appended(q, n, t) == [q EXCEPT ![n] = Append(@, t)]

Unlinked(q, t) == [n \in QueueNames |-> RemoveFirst(q[n], t)]

ReadyQueue == sched.queue["readyqueue"]
FreeQueue  == sched.queue["freequeue"]
current    == sched.current

----------------------------------------------------------------------------
(* update_process_state_rr.  Dispatch(s, t) is the call with dest = NULL,  *)
(* Update(s, t, dest) the call with a queue.  Only a PCB that is not       *)
(* running is unlinked first, and the idle task is never in a queue.       *)
(* Dispatch has no branch for a PID below 0: the kernel dispatches the     *)
(* idle task and tasks of the ready queue, whose PIDs are not.             *)

LeavesQueue(s, t) == s.PID[t] > 0 /\ s.current_state[t] # "ST_RUN"

\* The list operations that a call performs find the node as they need it.
NodeAsNeeded(s, t) == t = Idle \/ (LeavesQueue(s, t) <=> Linked(s, t))

\* Mutation: the new running task stays in its queue.
DispatchLinked(s, t) == [s EXCEPT !.current_state[t] = "ST_RUN"]

Dispatch(s, t) ==
  [s EXCEPT !.queue            = IF LeavesQueue(s, t) THEN Unlinked(@, t) ELSE @,
            !.current_state[t] = "ST_RUN",
            !.sound            = @ /\ NodeAsNeeded(s, t)]

Update(s, t, dest) ==
  LET into   == IF s.PID[t] < 0 THEN "freequeue" ELSE dest
      others == IF LeavesQueue(s, t) THEN Unlinked(s.queue, t) ELSE s.queue
  IN [s EXCEPT !.queue            = IF s.PID[t] = 0 THEN @
                                    ELSE Appended(others, into, t),
               !.current_state[t] = StateOf[into],
               !.sound            = @ /\ NodeAsNeeded(s, t)]

----------------------------------------------------------------------------
(* sched_next_rr.  The next task is chosen before the running one goes     *)
(* back to the ready queue: a task alone yields to the idle task.          *)

get_quantum(t) == IF t = Idle THEN 0 ELSE DEFAULT_QUANTUM_TICKS

\* Mutation: the last task of the ready queue.
NextTaskLast(s) == IF s.queue["readyqueue"] = <<>> THEN Idle
                                                   ELSE Last(s.queue["readyqueue"])

NextTask(s) == IF s.queue["readyqueue"] = <<>> THEN Idle
                                               ELSE Head(s.queue["readyqueue"])

SchedNext(s) ==
  LET nt       == NextTask(s)
      preempt  == IF s.current_state[s.current] = "ST_RUN"
                  THEN Update(s, s.current, "readyqueue") ELSE s
      dispatch == Dispatch(preempt, nt)
  IN [dispatch EXCEPT !.tick_counter = get_quantum(nt),
                      !.current      = IF s.PID[s.current] # s.PID[nt]
                                       THEN nt ELSE @]

----------------------------------------------------------------------------
(* init_sched puts every PCB in the freequeue; init_idle takes the first   *)
(* one off it and init_task1 the second, which main starts to run.         *)

SchedInit ==
  sched = [PID           |-> [t \in Task |-> CASE t = Idle  -> 0
                                               [] t = task1 -> 1
                                               [] OTHER     -> -1],
           current_state |-> [t \in Task |-> CASE t = Idle  -> "ST_READY"
                                               [] t = task1 -> "ST_RUN"
                                               [] OTHER     -> "ST_FREE"],
           queue         |-> [n \in QueueNames |->
                                IF n = "freequeue"
                                THEN [i \in 1 .. NR_TASKS - 2 |-> i + 1]
                                ELSE <<>>],
           current       |-> task1,
           tick_counter  |-> DEFAULT_QUANTUM_TICKS,
           sound         |-> TRUE]

\* Mutation: the tick counter is decremented, and nobody looks at it.
ClockWithoutSched(s) ==
  [s EXCEPT !.tick_counter = IF @ > 0 THEN @ - 1 ELSE 0]

\* clock_routine: update_sched_data_rr, then needs_sched_rr.
Clock(s) ==
  LET left   == IF s.tick_counter > 0 THEN s.tick_counter - 1 ELSE 0
      ticked == [s EXCEPT !.tick_counter = left]
  IN IF left = 0 THEN SchedNext(ticked) ELSE ticked

=============================================================================

--------------------------- MODULE KeyboardProofs ---------------------------
(***************************************************************************)
(* The process table survives read and the keyboard interrupt, which gives *)
(* the CPU to a task that is still linked in read_blocked.  The tasks that *)
(* wait there are the ones that are inside read, the first of them never   *)
(* sleeps on characters that are already there, and read and the interrupt *)
(* implement KeyStream: every reader gets the characters that were typed,  *)
(* in order and once.  For every number of tasks and size of the buffer.   *)
(***************************************************************************)
EXTENDS Keyboard, ProcessProofs

\* What a step of this module leaves alone when it only schedules.
Rest == <<pidGlobal, lists, pending_unblocks, exiting, page_fault, unguarded>>

LEMMA RestType ==
  ASSUME TypeOK, sched' \in SchedType, UNCHANGED Rest
  PROVE  TypeOK'
BY DEF TypeOK, Rest, lists

LEMMA ReadLoopSched ==
  ASSUME NEW s, NEW kb, NEW n, ReadLoop(s, kb, n)
  PROVE  sched' = SchedNext(s) \/ sched' = Dispatch(s, s.current)
BY DEF ReadLoop

LEMMA ReadLoopType ==
  ASSUME NEW s \in SchedType, sched' = SchedNext(s) \/ sched' = Dispatch(s, s.current)
  PROVE  sched' \in SchedType
<1>1. s.current \in Task
  BY DEF SchedType
<1>2. QED BY <1>1, SchedNextType, DispatchType

\* The reader s.current, with or without its node in read_blocked, takes its
\* characters or goes back to sleep.
LEMMA ReadLoopCore ==
  ASSUME NEW s, Table(s, Failed, {Idle, s.current}), s.current # Idle,
         s.PID[s.current] > 0, ~IsFree(s, s.current),
         s.current_state[s.current] = "ST_RUN" <=> ~Linked(s, s.current),
         \A t \in Task : s.PID[t] < pidGlobal,
         sched' = SchedNext(s) \/ sched' = Dispatch(s, s.current),
         UNCHANGED <<heads, pidGlobal>>, exiting' = FALSE
  PROVE  Core'
<1>1. CASE sched' = SchedNext(s)
  BY <1>1, YieldCore DEF MayYield
<1>2. CASE sched' = Dispatch(s, s.current)
  <2>1. s.current \in Task
    BY DEF Table, SchedType
  <2>2. /\ Table(sched', Failed, {Idle, s.current} \cup {s.current})
        /\ sched'.PID = s.PID /\ sched'.current = s.current
        /\ sched'.current_state[s.current] = "ST_RUN" /\ ~Linked(sched', s.current)
    BY <1>2, <2>1, DispatchTable
  <2>3. {Idle, s.current} \cup {s.current} = {Idle, s.current}
    OBVIOUS
  <2>4. Failed' = Failed
    BY DEF Failed
  <2>5. QED BY <2>2, <2>3, <2>4 DEF Core, CurrentFits, current
<1>3. QED BY <1>1, <1>2

----------------------------------------------------------------------------
(* The queue of the readers, as a sequence *)

RB == "read_blocked"

LEMMA RBIsQueue == RB \in QueueNames /\ \A s \in SchedType : s.queue[RB] \in Seq(Task)
BY DEF RB, QueueNames, SchedType

\* A call that moves another task leaves the readers where they are.
LEMMA UpdateReaders ==
  ASSUME NEW s \in SchedType, NEW t \in Task, NEW dest \in QueueNames,
         ~In(s, RB, t)
  PROVE  /\ dest # RB \/ ~(s.PID[t] > 0) => Update(s, t, dest).queue[RB] = s.queue[RB]
         /\ dest = RB /\ s.PID[t] > 0 =>
              Update(s, t, dest).queue[RB] = Append(s.queue[RB], t)
BY RBIsQueue, UpdateQueue DEF RB

LEMMA DispatchReaders ==
  ASSUME NEW s \in SchedType, NEW t \in Task, ~In(s, RB, t)
  PROVE  Dispatch(s, t).queue[RB] = s.queue[RB]
BY RBIsQueue, DispatchQueue

\* sched_next_rr gives the CPU to the idle task or to one of the ready queue.
LEMMA NextReaders ==
  ASSUME NEW s \in SchedType, NodesDistinct(s.queue), ~In(s, RB, Idle),
         s.current_state[s.current] = "ST_RUN" => ~In(s, RB, s.current)
  PROVE  SchedNext(s).queue[RB] = s.queue[RB]
<1> DEFINE nt == NextTask(s)
           p  == IF s.current_state[s.current] = "ST_RUN"
                 THEN Update(s, s.current, "readyqueue") ELSE s
           d  == Dispatch(p, nt)
<1>1. /\ s.current \in Task /\ nt \in Task /\ "readyqueue" \in QueueNames
      /\ "readyqueue" # RB /\ RB \in QueueNames
  BY SchedNextType, RBIsQueue DEF SchedType, QueueNames, RB
<1>2. ~In(s, RB, nt)
  <2>1. CASE s.queue["readyqueue"] = <<>>
    BY <2>1 DEF NextTask
  <2>2. CASE s.queue["readyqueue"] # <<>>
    <3>1. In(s, "readyqueue", nt)
      BY <1>1, <2>2, SchedTypeQueues, TailProperties DEF NextTask, In
    <3>2. QED BY <1>1, <3>1, InOneQueue
  <2>3. QED BY <2>1, <2>2
<1>3. p \in SchedType /\ p.queue[RB] = s.queue[RB]
  <2>1. CASE s.current_state[s.current] = "ST_RUN"
    <3>1. Update(s, s.current, "readyqueue") \in SchedType
      BY <1>1, UpdateType
    <3>2. Update(s, s.current, "readyqueue").queue[RB] = s.queue[RB]
      BY <1>1, <2>1, UpdateReaders
    <3>3. QED BY <2>1, <3>1, <3>2
  <2>2. CASE s.current_state[s.current] # "ST_RUN"
    BY <2>2
  <2>3. QED BY <2>1, <2>2
<1> HIDE DEF p, nt
<1>4. d \in SchedType /\ d.queue[RB] = s.queue[RB]
  BY <1>1, <1>2, <1>3, DispatchReaders, DispatchType DEF In
<1>5. SchedNext(s).queue = d.queue
  BY <1>4 DEF SchedNext, SchedType, p, nt
<1>6. QED BY <1>4, <1>5

LEMMA MoveReaders ==
  ASSUME NEW s, NEW F, NEW Out, Table(s, F, Out), Idle \in Out,
         NEW t \in Task, NEW dest \in QueueNames \ {RB}, NodeAsNeeded(s, t),
         dest # "freequeue" \/ s.PID[t] < 0,
         ~In(s, RB, t), ~In(s, RB, s.current)
  PROVE  SchedNext(Update(s, t, dest)).queue[RB] = s.queue[RB]
<1> DEFINE z == Update(s, t, dest)
<1>1. s \in SchedType /\ s.current \in Task /\ RB \in QueueNames
  BY RBIsQueue DEF Table, SchedType
<1>2. z \in SchedType /\ z.current = s.current /\ z.queue[RB] = s.queue[RB]
  <2>1. dest \in QueueNames /\ dest # RB
    OBVIOUS
  <2>2. z.queue[RB] = s.queue[RB]
    BY <1>1, <2>1, UpdateReaders
  <2>3. z \in SchedType /\ z.current = s.current
    BY <1>1, <2>1, UpdateKeeps
  <2>4. QED BY <2>2, <2>3
<1>3. Table(z, F, (Out \ {t}) \cup {Idle})
  BY UpdateTable
<1> HIDE DEF z
<1>4. NodesDistinct(z.queue) /\ ~In(z, RB, Idle)
  BY <1>1, <1>3, IdleInNoQueue DEF Table
<1>5. ~In(z, RB, z.current)
  BY <1>2 DEF In
<1>6. QED BY <1>2, <1>4, <1>5, NextReaders DEF z

----------------------------------------------------------------------------
(* The table in the middle of a read *)

\* The running task enters the queue of the readers or the ready queue.
LEMMA EnterTable ==
  ASSUME TypeOK, Core, ~exiting, current # Idle,
         NEW dest \in {"read_blocked", "readyqueue"}
  PROVE  LET z == Update(sched, current, dest)
         IN /\ Table(z, Failed, {Idle})
            /\ z.PID = sched.PID /\ z.current = current
            /\ z.current_state[current] # "ST_RUN"
            /\ \A n \in QueueNames : \A x \in Task :
                 In(z, n, x) <=> IF x = current THEN n = dest ELSE In(sched, n, x)
<1> DEFINE z == Update(sched, current, dest)
<1>1. /\ sched \in SchedType /\ current \in Task /\ sched.PID[current] > 0
      /\ NodeAsNeeded(sched, current) /\ sched.current = current
      /\ dest \in QueueNames /\ dest # "freequeue"
  BY SyscallFacts DEF current, QueueNames
<1>2. sched.PID[current] >= 0 /\ ~(sched.PID[current] < 0)
  BY <1>1 DEF SchedType
<1>3. /\ Table(z, Failed, ({Idle, current} \ {current}) \cup {Idle})
      /\ \A n \in QueueNames : \A x \in Task :
           In(z, n, x) <=> IF x = current THEN n = dest ELSE In(sched, n, x)
  <2>1. Table(sched, Failed, {Idle, current}) /\ Idle \in {Idle, current}
    BY DEF Core
  <2>2. QED BY <1>1, <1>2, <2>1, EnqueueTable
<1>4. ({Idle, current} \ {current}) \cup {Idle} = {Idle}
  OBVIOUS
<1>5. z.PID = sched.PID /\ z.current = current
  BY <1>1, UpdateFields
<1>6. z.current_state[current] # "ST_RUN"
  <2>1. z.current_state[current] = StateOf[dest]
    BY <1>1, <1>2, UpdateStates
  <2>2. QED BY <2>1 DEF StateOf
<1> HIDE DEF z
<1>7. QED BY <1>3, <1>4, <1>5, <1>6 DEF z

(***************************************************************************)
(* The table in the middle of sys_read, where the reader r has the CPU: q  *)
(* is the queue of the readers, which may still hold r.                    *)
(***************************************************************************)
Entered(s, r, q) ==
  /\ Table(s, Failed, {Idle, r}) /\ s.current = r /\ r \in Task /\ r # Idle
  /\ s.PID = sched.PID /\ s.PID[r] > 0 /\ ~IsFree(s, r)
  /\ s.current_state[r] = "ST_RUN" <=> ~Linked(s, r)
  /\ s.queue[RB] = q /\ ~Sleeps(s, r)
  /\ \A x \in Task : /\ Sleeps(s, x) <=> Sleeps(sched, x)
                     /\ IsFree(s, x) <=> IsFree(sched, x)

\* A task calls read, and lines up behind the other readers.
LEMMA ReadEnters ==
  ASSUME TypeOK, Core, ~exiting, current # Idle
  PROVE  Entered(Update(sched, current, "read_blocked"), current, Append(Readers, current))
<1> DEFINE z == Update(sched, current, "read_blocked")
<1>1. /\ sched \in SchedType /\ current \in Task /\ sched.PID[current] > 0
      /\ sched.current_state[current] = "ST_RUN" /\ ~Linked(sched, current)
      /\ "read_blocked" \in QueueNames /\ "freequeue" \in QueueNames
      /\ ~In(sched, RB, current) /\ ~IsFree(sched, current)
  BY SyscallFacts DEF QueueNames, Linked, In, IsFree, RB
<1>2. z \in SchedType
  BY <1>1, UpdateType
<1>3. /\ Table(z, Failed, {Idle}) /\ z.PID = sched.PID /\ z.current = current
      /\ z.current_state[current] # "ST_RUN"
      /\ \A m \in QueueNames : \A x \in Task :
           In(z, m, x) <=> IF x = current THEN m = "read_blocked" ELSE In(sched, m, x)
  BY EnterTable
<1>4. z.queue[RB] = Append(Readers, current)
  BY <1>1, UpdateReaders DEF RB, Readers
<1>5. \A x \in Task : Sleeps(z, x) <=> Sleeps(sched, x)
  <2>1. z.current_state[current] = StateOf["read_blocked"]
            \/ z.current_state[current] = StateOf["freequeue"]
    BY <1>1, UpdateStates
  <2>2. \A x \in Task : x # current => z.current_state[x] = sched.current_state[x]
    BY <1>1, UpdateStates
  <2>3. QED BY <1>1, <2>1, <2>2 DEF Sleeps, StateOf
<1> HIDE DEF z
<1>6. Linked(z, current) /\ ~IsFree(z, current)
  BY <1>1, <1>3 DEF Linked, In, IsFree
<1>7. Table(z, Failed, {Idle, current})
  BY <1>3, TableWiden
<1>8. \A x \in Task : IsFree(z, x) <=> IsFree(sched, x)
  BY <1>1, <1>3 DEF IsFree
<1>9. ~Sleeps(z, current)
  BY <1>1, <1>5 DEF Sleeps
<1>10. QED BY <1>1, <1>3, <1>4, <1>5, <1>6, <1>7, <1>8, <1>9 DEF Entered, z

Preempted == IF sched.current_state[current] = "ST_RUN"
             THEN Update(sched, current, "readyqueue") ELSE sched

\* A key: the running task goes back to the ready queue, if it is not the idle
\* task, and the first reader has the CPU while it is in read_blocked.
LEMMA KeyEnters ==
  ASSUME TypeOK, Core, ~exiting, Readers # <<>>
  PROVE  Entered([Preempted EXCEPT !.current = Head(Readers)], Head(Readers), Readers)
<1> DEFINE p == Preempted
           r == Head(Readers)
           z == [p EXCEPT !.current = r]
<1>1. /\ sched \in SchedType /\ current \in Task /\ sched.current = current
      /\ sched.current_state[current] = "ST_RUN" /\ Idle \in Task
      /\ "read_blocked" \in QueueNames /\ "readyqueue" \in QueueNames
      /\ "freequeue" \in QueueNames
  BY IdleIsTask DEF TypeOK, SchedType, current, QueueNames, Core, CurrentFits
<1>2. r \in Task /\ In(sched, "read_blocked", r)
  BY <1>1, SchedTypeQueues, TailProperties DEF Readers, In
<1>3. r # Idle /\ r # current
  <2>1. r # Idle
    BY <1>1, <1>2, IdleInNoQueue DEF Core
  <2>2. r # current
    BY <1>1, <1>2, <2>1, SyscallFacts DEF Linked, In
  <2>3. QED BY <2>1, <2>2
<1>4. p = Update(sched, current, "readyqueue")
  BY <1>1 DEF Preempted
<1>5. /\ Table(p, Failed, {Idle}) /\ p.PID = sched.PID
      /\ \A m \in QueueNames : \A x \in Task :
           In(p, m, x) <=> IF x = current /\ current # Idle THEN m = "readyqueue"
                                                           ELSE In(sched, m, x)
  <2>1. CASE current # Idle
    BY <1>1, <1>4, <2>1, EnterTable
  <2>2. CASE current = Idle
    <3>1. Table(sched, Failed, {Idle}) /\ sched.PID[Idle] = 0 /\ NodeAsNeeded(sched, Idle)
      BY <1>1, <2>2 DEF Core, Table, NodeAsNeeded
    <3>2. Idle \in {Idle} /\ "readyqueue" # "freequeue" /\ ~(sched.PID[Idle] < 0)
      BY <3>1
    <3>3. /\ Table(Update(sched, Idle, "readyqueue"), Failed, ({Idle} \ {Idle}) \cup {Idle})
          /\ \A m \in QueueNames : \A x \in Task :
               In(Update(sched, Idle, "readyqueue"), m, x)
                 <=> IF x = Idle /\ Idle # Idle THEN m = "readyqueue" ELSE In(sched, m, x)
      BY <1>1, <3>1, <3>2, UpdateTable
    <3>4. ({Idle} \ {Idle}) \cup {Idle} = {Idle}
      OBVIOUS
    <3>5. Update(sched, Idle, "readyqueue").PID = sched.PID
      BY <1>1, <3>1, UpdateFields
    <3>6. QED BY <1>4, <2>2, <3>3, <3>4, <3>5
  <2>3. QED BY <2>1, <2>2
<1>6. p.queue[RB] = Readers
  <2>1. ~In(sched, RB, current) /\ "readyqueue" # RB
    BY <1>1, SyscallFacts, IdleInNoQueue DEF Core, Linked, In, RB
  <2>2. QED BY <1>1, <1>4, <2>1, UpdateReaders DEF RB, Readers
<1>7. \A x \in Task : Sleeps(p, x) <=> Sleeps(sched, x)
  <2>1. p.current_state[current] = StateOf["readyqueue"]
            \/ p.current_state[current] = StateOf["freequeue"]
    BY <1>1, <1>4, UpdateStates
  <2>2. \A x \in Task : x # current => p.current_state[x] = sched.current_state[x]
    BY <1>1, <1>4, UpdateStates
  <2>3. QED BY <1>1, <2>1, <2>2 DEF Sleeps, StateOf
<1>8. \A x \in Task : IsFree(p, x) <=> IsFree(sched, x)
  <2>1. current # Idle => ~IsFree(sched, current)
    BY <1>1, SyscallFacts DEF IsFree, Linked, In
  <2>2. QED BY <1>1, <1>5, <2>1 DEF IsFree
<1>9. p \in SchedType
  BY <1>5 DEF Table
<1> HIDE DEF p, r
<1>10. /\ z \in SchedType /\ z.queue = p.queue /\ z.PID = p.PID
       /\ z.current_state = p.current_state /\ z.current = r
  BY <1>2, <1>9 DEF SchedType
<1> HIDE DEF z
<1>11. Table(z, Failed, {Idle, r}) /\ In(z, "read_blocked", r)
  <2>1. /\ Table(z, Failed, {Idle})
        /\ \A m \in QueueNames : \A x \in Task : In(z, m, x) <=> In(p, m, x)
    BY <1>5, <1>10, TableSame
  <2>2. {Idle} \subseteq {Idle, r}
    OBVIOUS
  <2>3. QED BY <1>1, <1>2, <1>3, <1>5, <2>1, <2>2, TableWiden
<1>12. Linked(z, r) /\ ~IsFree(z, r) /\ z.PID[r] > 0 /\ z.current_state[r] # "ST_RUN"
  <2>1. Linked(z, r)
    BY <1>1, <1>11 DEF Linked, In
  <2>2. ~IsFree(z, r)
    BY <1>1, <1>11, InOneQueue DEF IsFree, Table
  <2>3. z.PID[r] > 0
    BY <1>1, <1>2, <1>11 DEF Table, PidsAgree
  <2>4. z.current_state[r] # "ST_RUN"
    BY <1>1, <1>2, <1>11 DEF Table, StatesAgree, StateOf
  <2>5. QED BY <2>1, <2>2, <2>3, <2>4
<1>13. \A x \in Task : (Sleeps(z, x) <=> Sleeps(sched, x)) /\ (IsFree(z, x) <=> IsFree(sched, x))
  BY <1>7, <1>8, <1>10 DEF Sleeps, IsFree, In
<1>14. ~Sleeps(z, r)
  BY <1>1, <1>2, <1>11 DEF Sleeps, Table, StatesAgree, StateOf
<1>15. QED BY <1>2, <1>3, <1>5, <1>6, <1>10, <1>11, <1>12, <1>13, <1>14 DEF Entered, z, p, r

LEMMA ResumeEnters ==
  ASSUME TypeOK, Core, ~exiting, current # Idle
  PROVE  Entered(sched, current, Readers)
<1>1. /\ sched.current_state[current] = "ST_RUN" /\ ~Linked(sched, current)
      /\ sched.PID[current] > 0 /\ current \in Task /\ sched.current = current
      /\ "freequeue" \in QueueNames
  BY SyscallFacts DEF current, QueueNames
<1>2. ~IsFree(sched, current)
  BY <1>1 DEF IsFree, Linked, In
<1>3. QED BY <1>1, <1>2 DEF Core, Entered, Readers, RB, Sleeps

\* The reader takes its characters, or goes back to sleep.
LEMMA LeaveCore ==
  ASSUME TypeOK, Core, ~exiting, UNCHANGED Rest, NEW s, NEW r, NEW q, Entered(s, r, q),
         sched' = SchedNext(s) \/ sched' = Dispatch(s, r)
  PROVE  TypeOK' /\ Core' /\ exiting' = FALSE
<1>1. UNCHANGED <<heads, pidGlobal>> /\ exiting' = FALSE /\ s \in SchedType /\ s.current = r
  BY DEF Rest, lists, TypeOK, Entered, Table
<1>2. Core'
  BY <1>1, ReadLoopCore DEF Entered, Core
<1>3. TypeOK'
  BY <1>1, ReadLoopType, RestType
<1>4. QED BY <1>1, <1>2, <1>3

\* Neither puts another task to sleep or wakes one, or moves another reader.
LEMMA LeaveReaders ==
  ASSUME TypeOK, Core, NobodyWakesIdle, NEW s, NEW r, NEW q \in Seq(Task), Entered(s, r, q)
  PROVE  /\ SchedNext(s).queue[RB] = q
         /\ Dispatch(s, r).queue[RB] = RemoveFirst(q, r)
         /\ sched' = SchedNext(s) \/ sched' = Dispatch(s, r) =>
              /\ SameFree
              /\ \A x \in Task : Sleeps(sched', x) <=> Sleeps(sched, x)
<1>1. /\ s \in SchedType /\ NodesDistinct(s.queue) /\ s.current = r /\ r \in Task
      /\ RB \in QueueNames /\ "freequeue" \in QueueNames /\ Idle \in Task
      /\ s.queue[RB] = q /\ Table(s, Failed, {Idle, s.current})
  BY RBIsQueue, IdleIsTask DEF Entered, Table, QueueNames
<1>2. SchedNext(s).queue[RB] = q
  <2>1. ~In(s, RB, Idle) /\ (s.current_state[s.current] = "ST_RUN" => ~In(s, RB, s.current))
    BY <1>1, IdleInNoQueue DEF Entered, Linked, In
  <2>2. QED BY <1>1, <2>1, NextReaders
<1>3. Dispatch(s, r).queue[RB] = RemoveFirst(q, r)
  <2>1. CASE In(s, RB, r)
    <3>1. LeavesQueue(s, r)
      BY <1>1, <2>1 DEF Entered, LeavesQueue, Linked, In
    <3>2. Dispatch(s, r).queue = Unlinked(s.queue, r)
      BY <1>1, <3>1, DispatchType
    <3>3. Unlinked(s.queue, r)[RB] = RemoveFirst(s.queue[RB], r)
      BY <1>1 DEF Unlinked
    <3>4. QED BY <1>1, <3>2, <3>3
  <2>2. CASE ~In(s, RB, r)
    BY <1>1, <2>2, DispatchReaders, RemoveAbsent DEF In
  <2>3. QED BY <2>1, <2>2
<1>4. ASSUME sched' = SchedNext(s)
      PROVE  SameFree /\ \A x \in Task : Sleeps(sched', x) <=> Sleeps(sched, x)
  <2>1. \A x \in Task : IsFree(sched', x) <=> IsFree(s, x)
    <3>1. s.current # Idle =>
            /\ s.current_state[s.current] = "ST_RUN" <=> ~Linked(s, s.current)
            /\ ~Linked(s, s.current) => s.PID[s.current] > 0
            /\ IsFree(s, s.current) => s.PID[s.current] = -1
      BY <1>1 DEF Entered
    <3>2. QED BY <1>1, <1>4, <3>1, SchedNextTable
  <2>2. \A x \in Task : Sleeps(s, x) => Sleeps(sched', x)
    <3> SUFFICES ASSUME NEW x \in Task, Sleeps(s, x), x = NextTask(s) PROVE FALSE
      BY <1>1, <1>4, SchedNextStates DEF Sleeps
    <3>1. x # Idle
      BY <1>1 DEF Entered, NobodyWakesIdle, Sleeps
    <3>2. In(s, "readyqueue", x) /\ "readyqueue" \in QueueNames
      BY <1>1, <3>1, SchedTypeQueues, TailProperties DEF NextTask, In, QueueNames
    <3>3. s.current_state[x] = "ST_READY"
      BY <1>1, <3>2 DEF Table, StatesAgree, StateOf
    <3>4. QED BY <3>3 DEF Sleeps
  <2>3. \A x \in Task : ~Sleeps(s, x) => ~Sleeps(sched', x)
    BY <1>1, <1>4, SchedNextNoSleep DEF Sleeps
  <2>4. QED BY <2>1, <2>2, <2>3 DEF Entered, SameFree
<1>5. ASSUME sched' = Dispatch(s, r)
      PROVE  SameFree /\ \A x \in Task : Sleeps(sched', x) <=> Sleeps(sched, x)
  <2>1. \A x \in Task : IsFree(sched', x) <=> IsFree(s, x)
    <3>1. /\ ~IsFree(s, r) /\ s.PID[r] > 0
          /\ s.current_state[r] = "ST_RUN" <=> ~Linked(s, r)
      BY DEF Entered
    <3>2. Table(s, Failed, {Idle, s.current}) /\ r \in Task
      BY <1>1
    <3>3. \A n \in QueueNames : \A x \in Task :
            In(Dispatch(s, r), n, x) <=> In(s, n, x) /\ x # r
      BY <3>1, <3>2, DispatchTable
    <3>4. QED BY <1>1, <1>5, <3>1, <3>3 DEF IsFree
  <2>2. ~Sleeps(s, r)
    BY DEF Entered
  <2>3. \A x \in Task : Sleeps(sched', x) <=> Sleeps(s, x)
    <3>1. sched'.current_state = [s.current_state EXCEPT ![r] = "ST_RUN"]
      BY <1>1, <1>5, DispatchType
    <3>2. s.current_state \in [Task -> States]
      BY <1>1 DEF SchedType
    <3>3. QED BY <1>1, <2>2, <3>1, <3>2 DEF Sleeps
  <2>4. QED BY <2>1, <2>3 DEF Entered, SameFree
<1>6. QED BY <1>2, <1>3, <1>4, <1>5

LEMMA ReadStep ==
  ASSUME TypeOK, Running => Core, NEW n \in Sizes, Read(n)
  PROVE  TypeOK' /\ Core'
<1>1. Core /\ ~exiting /\ current # Idle /\ UNCHANGED Rest
  BY DEF Read, InSyscall, InUserMode, Rest
<1>2. Entered(Update(sched, current, "read_blocked"), current, Append(Readers, current))
  BY <1>1, ReadEnters
<1>3. \/ sched' = SchedNext(Update(sched, current, "read_blocked"))
      \/ sched' = Dispatch(Update(sched, current, "read_blocked"), current)
  BY <1>2, ReadLoopSched DEF Read, Entered
<1>4. QED BY <1>1, <1>2, <1>3, LeaveCore

LEMMA KeyPressStep ==
  ASSUME TypeOK, Running => Core, NEW c \in Char, KeyPress(c)
  PROVE  TypeOK' /\ Core'
<1>1. Core /\ ~exiting /\ UNCHANGED Rest /\ sched \in SchedType
  BY DEF KeyPress, InUserMode, Rest, TypeOK
<1>2. CASE Readers = <<>>
  <2>1. UNCHANGED sched /\ UNCHANGED <<heads, pidGlobal>> /\ exiting' = FALSE
    BY <1>1, <1>2 DEF KeyPress, Rest, lists, TypeOK
  <2>2. TypeOK'
    BY <1>1, <2>1, RestType
  <2>3. Core'
    BY <1>1, <2>1 DEF Core, Table, CurrentFits, Failed, current, StatesAgree,
                      PidsAgree, PidsUnique, IsFree, In, Linked
  <2>4. QED BY <2>2, <2>3
<1>3. CASE Readers # <<>>
  <2> DEFINE z == [Preempted EXCEPT !.current = Head(Readers)]
  <2>1. Entered(z, Head(Readers), Readers)
    BY <1>1, <1>3, KeyEnters
  <2>2. ReadLoop(z, Pushed(kb_buffer, c), maxchars[Head(Readers)])
    BY <1>3 DEF KeyPress, Preempted
  <2> HIDE DEF z
  <2>3. sched' = SchedNext(z) \/ sched' = Dispatch(z, Head(Readers))
    BY <2>1, <2>2, ReadLoopSched DEF Entered
  <2>4. QED BY <1>1, <2>1, <2>3, LeaveCore
<1>4. QED BY <1>2, <1>3

LEMMA ReadResumeStep ==
  ASSUME TypeOK, Running => Core, ReadResume, current # Idle
  PROVE  TypeOK' /\ Core'
<1>1. Core /\ ~exiting /\ UNCHANGED Rest
  BY DEF ReadResume, InUserMode, Rest
<1>2. sched' = SchedNext(sched) \/ sched' = Dispatch(sched, current)
  BY ReadLoopSched DEF ReadResume, current
<1>3. Entered(sched, current, Readers)
  BY <1>1, ResumeEnters
<1>4. QED BY <1>1, <1>2, <1>3, LeaveCore

----------------------------------------------------------------------------
(* Only a task that made the call is in a read: were the idle task one, a  *)
(* key would link its PCB, which ReadResume does not expect.               *)

ReadersAreTasks == maxchars \in [Task -> Int] /\ maxchars[Idle] = NoRead

KIInv == IInv /\ ReadersAreTasks

LEMMA ReadLoopReaders ==
  ASSUME ReadersAreTasks, NEW s, s.current # Idle, NEW kb, NEW n \in Int,
         ReadLoop(s, kb, n)
  PROVE  ReadersAreTasks'
BY IdleIsTask DEF ReadersAreTasks, ReadLoop, NoRead

LEMMA KInitInv == KInit => KIInv
<1>1. KInit => IInv
  BY TypeInit, CoreInit DEF KInit, IInv
<1>2. KInit => ReadersAreTasks
  BY IdleIsTask DEF KInit, ReadersAreTasks, NoRead
<1>3. QED BY <1>1, <1>2 DEF KIInv

LEMMA KNextInv ==
  ASSUME KIInv, [KNext]_allvars
  PROVE  KIInv'
<1>1. /\ TypeOK /\ (Running => Core) /\ ReadersAreTasks
      /\ \A n \in Sizes : n \in Int
  BY KeyboardAssumption DEF KIInv, IInv
<1>2. CASE ProcessStep \/ UNCHANGED allvars
  <2>1. [Next]_vars /\ UNCHANGED maxchars
    BY <1>2 DEF ProcessStep, allvars, kbvars
  <2>2. IInv'
    BY <1>1, <2>1, TypeNext, CoreNext DEF IInv
  <2>3. QED BY <1>1, <2>1, <2>2 DEF KIInv, ReadersAreTasks
<1>3. ASSUME NEW n \in Sizes, Read(n) PROVE KIInv'
  <2>1. TypeOK' /\ Core'
    BY <1>1, <1>3, ReadStep
  <2>2. ReadersAreTasks'
    <3> DEFINE z == Update(sched, current, "read_blocked")
    <3>1. current # Idle /\ sched \in SchedType /\ current \in Task
      BY <1>1, <1>3 DEF Read, InSyscall, TypeOK, SchedType, current
    <3>2. z.current = current
      BY <3>1, UpdateType DEF current, QueueNames
    <3>3. maxchars' = [maxchars EXCEPT ![current] = n] \/ ReadLoop(z, kb_buffer, n)
      BY <1>3 DEF Read
    <3> HIDE DEF z
    <3>4. CASE ReadLoop(z, kb_buffer, n)
      BY <1>1, <3>1, <3>2, <3>4, ReadLoopReaders
    <3>5. CASE maxchars' = [maxchars EXCEPT ![current] = n]
      BY <1>1, <3>1, <3>5, IdleIsTask DEF ReadersAreTasks
    <3>6. QED BY <3>3, <3>4, <3>5
  <2>3. QED BY <2>1, <2>2 DEF KIInv, IInv
<1>4. ASSUME NEW c \in Char, KeyPress(c) PROVE KIInv'
  <2>1. TypeOK' /\ Core'
    BY <1>1, <1>4, KeyPressStep
  <2>2. ReadersAreTasks'
    <3>1. CASE Readers = <<>>
      BY <1>1, <1>4, <3>1 DEF KeyPress, ReadersAreTasks
    <3>2. CASE Readers # <<>>
      <4> DEFINE r == Head(Readers)
      <4>1. r \in Task /\ r # Idle
        <5>1. Core /\ sched \in SchedType /\ "read_blocked" \in QueueNames
          BY <1>1, <1>4 DEF KeyPress, InUserMode, TypeOK, QueueNames
        <5>2. r \in Task /\ In(sched, "read_blocked", r)
          BY <3>2, <5>1, SchedTypeQueues, TailProperties DEF Readers, In
        <5>3. QED BY <5>1, <5>2, IdleInNoQueue DEF Core
      <4>2. PICK p : ReadLoop([p EXCEPT !.current = r], Pushed(kb_buffer, c), maxchars[r])
                     /\ [p EXCEPT !.current = r].current = r
        <5>1. sched \in SchedType /\ current \in Task /\ "readyqueue" \in QueueNames
          BY <1>1 DEF TypeOK, SchedType, current, QueueNames
        <5>2. Update(sched, current, "readyqueue") \in SchedType
          BY <5>1, UpdateType
        <5>3. \A p \in SchedType : [p EXCEPT !.current = r].current = r
          BY DEF SchedType
        <5>4. QED BY <1>4, <3>2, <5>1, <5>2, <5>3 DEF KeyPress
      <4>3. maxchars[r] \in Int
        BY <1>1, <4>1 DEF ReadersAreTasks
      <4> HIDE DEF r
      <4>4. QED BY <1>1, <4>1, <4>2, <4>3, ReadLoopReaders
    <3>3. QED BY <3>1, <3>2
  <2>3. QED BY <2>1, <2>2 DEF KIInv, IInv
<1>5. CASE ReadResume
  <2>1. current # Idle /\ current \in Task /\ sched.current = current
    BY <1>1, <1>5 DEF ReadResume, Reading, ReadersAreTasks, TypeOK, SchedType, current
  <2>2. TypeOK' /\ Core'
    BY <1>1, <1>5, <2>1, ReadResumeStep
  <2>3. ReadersAreTasks'
    <3>1. ReadLoop(sched, kb_buffer, maxchars[current]) /\ maxchars[current] \in Int
      BY <1>1, <1>5, <2>1 DEF ReadResume, ReadersAreTasks
    <3>2. QED BY <1>1, <2>1, <3>1, ReadLoopReaders
  <2>4. QED BY <2>2, <2>3 DEF KIInv, IInv
<1>6. QED
  BY <1>2, <1>3, <1>4, <1>5 DEF KNext, KeyAct

LEMMA KInductive == KSpec => []KIInv
<1>1. KInit => KIInv
  BY KInitInv
<1>2. KIInv /\ [KNext /\ unguarded' \subseteq Admitted]_allvars => KIInv'
  BY KNextInv
<1>3. QED
  BY <1>1, <1>2, PTL DEF KSpec

\* Wherever read and the keys take a task, its PCB stays in the one queue that
\* its state names, or is the running one (Process.Placement).
THEOREM KPlacementHolds == KSpec => []Placement
<1>1. KIInv => Placement
  BY CorePlacement DEF KIInv, IInv, Placement
<1>2. QED
  BY <1>1, KInductive, PTL

----------------------------------------------------------------------------
(* Types of the ring and of the reads *)

KTypes ==
  /\ kb_buffer \in Key_buffer
  /\ maxchars \in [Task -> Nat \cup {NoRead}]
  /\ delivered \in [task : Task, chars : Seq(Char \cup {"zero"})]

LEMMA Modulo ==
  ASSUME NEW a \in Int PROVE a % KB_BUFFER_SIZE \in Place
BY KeyboardAssumption DEF Place

LEMMA RingType ==
  ASSUME NEW kb \in Key_buffer
  PROVE  /\ \A c \in Char : Pushed(kb, c) \in Key_buffer
         /\ \A n \in Int : PoppedChars(kb, n) \in Key_buffer
         /\ \A n \in Nat \cup {NoRead} : FirstChars(kb, n) \in Seq(Char \cup {"zero"})
<1>1. ASSUME NEW c \in Char PROVE Pushed(kb, c) \in Key_buffer
  <2>1. (kb.head + 1) % KB_BUFFER_SIZE \in Place
    BY Modulo DEF Key_buffer, Place
  <2> QED
    BY <2>1 DEF Pushed, Key_buffer
<1>2. ASSUME NEW n \in Int PROVE PoppedChars(kb, n) \in Key_buffer
  <2>1. (kb.tail + n) % KB_BUFFER_SIZE \in Place
    <3>1. kb.tail + n \in Int
      BY DEF Key_buffer, Place
    <3>2. QED BY <3>1, Modulo
  <2>2. \A p \in Place : [kb EXCEPT !.tail = p] \in Key_buffer
    BY DEF Key_buffer
  <2>3. PoppedChars(kb, n) = [kb EXCEPT !.tail = (kb.tail + n) % KB_BUFFER_SIZE]
    BY DEF PoppedChars
  <2>4. QED BY <2>1, <2>2, <2>3
<1>3. ASSUME NEW n \in Nat \cup {NoRead} PROVE FirstChars(kb, n) \in Seq(Char \cup {"zero"})
  <2>1. \A i \in 1 .. n : kb.buffer[(kb.tail + i - 1) % KB_BUFFER_SIZE] \in Char \cup {"zero"}
    <3> SUFFICES ASSUME NEW i \in 1 .. n
                 PROVE  kb.buffer[(kb.tail + i - 1) % KB_BUFFER_SIZE] \in Char \cup {"zero"}
      OBVIOUS
    <3>1. kb.tail + i - 1 \in Int
      BY DEF Key_buffer, Place, NoRead
    <3>2. (kb.tail + i - 1) % KB_BUFFER_SIZE \in Place
      BY <3>1, Modulo
    <3> QED
      BY <3>2 DEF Key_buffer
  <2>2. CASE n \in Nat
    BY <2>1, <2>2 DEF FirstChars
  <2>3. CASE n = NoRead
    <3>1. 1 .. n = 1 .. 0
      BY <2>3 DEF NoRead
    <3> QED
      BY <3>1 DEF FirstChars
  <2> QED
    BY <2>2, <2>3
<1> QED
  BY <1>1, <1>2, <1>3

LEMMA ReadLoopTypes ==
  ASSUME KTypes, NEW s, s.current \in Task, NEW kb \in Key_buffer,
         NEW n \in Nat \cup {NoRead}, ReadLoop(s, kb, n)
  PROVE  KTypes'
<1>1. PoppedChars(kb, n) \in Key_buffer /\ FirstChars(kb, n) \in Seq(Char \cup {"zero"})
  BY RingType DEF NoRead
<1> QED
  BY <1>1 DEF KTypes, ReadLoop

LEMMA KTypesNext ==
  ASSUME KIInv, KTypes, [KNext]_allvars PROVE KTypes'
<1>1. sched \in SchedType /\ current \in Task
  BY DEF KIInv, IInv, TypeOK, SchedType, current
<1>2. CASE ProcessStep \/ UNCHANGED allvars
  BY <1>2 DEF ProcessStep, allvars, kbvars, KTypes
<1>3. ASSUME NEW n \in Sizes, Read(n) PROVE KTypes'
  <2> DEFINE z == Update(sched, current, "read_blocked")
  <2>1. z.current = current
    BY <1>1, UpdateType DEF current, QueueNames
  <2>2. n \in Nat /\ kb_buffer \in Key_buffer
    BY KeyboardAssumption DEF KTypes
  <2>3. \/ maxchars' = [maxchars EXCEPT ![current] = n] /\ UNCHANGED <<kb_buffer, delivered>>
        \/ ReadLoop(z, kb_buffer, n)
    BY <1>3 DEF Read
  <2> HIDE DEF z
  <2>4. CASE ReadLoop(z, kb_buffer, n)
    BY <1>1, <2>1, <2>2, <2>4, ReadLoopTypes
  <2>5. CASE maxchars' = [maxchars EXCEPT ![current] = n] /\ UNCHANGED <<kb_buffer, delivered>>
    BY <1>1, <2>2, <2>5 DEF KTypes
  <2> QED
    BY <2>3, <2>4, <2>5
<1>4. ASSUME NEW c \in Char, KeyPress(c) PROVE KTypes'
  <2>1. Pushed(kb_buffer, c) \in Key_buffer
    BY RingType DEF KTypes
  <2>2. CASE Readers = <<>>
    BY <1>4, <2>1, <2>2 DEF KeyPress, KTypes
  <2>3. CASE Readers # <<>>
    <3> DEFINE r == Head(Readers)
    <3>1. r \in Task
      BY <1>1, <2>3, SchedTypeQueues, TailProperties DEF Readers, QueueNames
    <3>2. PICK p : ReadLoop([p EXCEPT !.current = r], Pushed(kb_buffer, c), maxchars[r])
                   /\ [p EXCEPT !.current = r].current = r
      <4>1. "readyqueue" \in QueueNames
        BY DEF QueueNames
      <4>2. Update(sched, current, "readyqueue") \in SchedType
        BY <1>1, <4>1, UpdateType
      <4>3. \A p \in SchedType : [p EXCEPT !.current = r].current = r
        BY DEF SchedType
      <4> QED
        BY <1>1, <1>4, <2>3, <4>2, <4>3 DEF KeyPress
    <3>3. maxchars[r] \in Nat \cup {NoRead}
      BY <3>1 DEF KTypes
    <3> HIDE DEF r
    <3> QED
      BY <2>1, <3>1, <3>2, <3>3, ReadLoopTypes
  <2> QED
    BY <2>2, <2>3
<1>5. CASE ReadResume
  <2>1. ReadLoop(sched, kb_buffer, maxchars[current]) /\ sched.current = current
    BY <1>5 DEF ReadResume, current
  <2>2. maxchars[current] \in Nat \cup {NoRead} /\ kb_buffer \in Key_buffer
    BY <1>1 DEF KTypes
  <2> QED
    BY <1>1, <2>1, <2>2, ReadLoopTypes
<1> QED
  BY <1>2, <1>3, <1>4, <1>5 DEF KNext, KeyAct

\* The ring, the reads and their answers keep their types, whatever is typed
\* and read (interrupt.c:20-32, 130-158; sys.c:339-358).
THEOREM KTypeCorrect == KSpec => []KTypeOK
<1>1. KInit => KIInv /\ KTypes
  <2>1. KInit => KIInv
    BY KInitInv
  <2>2. KInit => KTypes
    <3> SUFFICES ASSUME KInit PROVE KTypes
      OBVIOUS
    <3>1. task1 \in Task /\ 0 \in Place
      BY NrTasksAssumption, KeyboardAssumption DEF task1, Task, Place
    <3> QED
      BY <3>1 DEF KInit, KTypes, Key_buffer
  <2> QED
    BY <2>1, <2>2
<1>2. KIInv /\ KTypes /\ [KNext /\ unguarded' \subseteq Admitted]_allvars => (KIInv /\ KTypes)'
  BY KNextInv, KTypesNext
<1>3. KIInv /\ KTypes => KTypeOK
  BY DEF KIInv, IInv, KTypes, KTypeOK
<1> QED
  BY <1>1, <1>2, <1>3, PTL DEF KSpec

----------------------------------------------------------------------------
(* Who reads *)

\* Who sleeps in blocked, or is in the middle of its exit, is no reader.
LEMMA NotReaders ==
  ASSUME TypeOK, Core
  PROVE  /\ ~In(sched, RB, Idle) /\ ~In(sched, RB, current)
         /\ \A x \in Task : Sleeps(sched, x) \/ IsFree(sched, x) => ~In(sched, RB, x)
<1>1. sched \in SchedType /\ current \in Task /\ RB \in QueueNames /\ "freequeue" \in QueueNames
  BY RBIsQueue DEF TypeOK, SchedType, current, QueueNames
<1>2. ~In(sched, RB, Idle)
  BY <1>1, IdleInNoQueue DEF Core
<1>3. ~In(sched, RB, current)
  <2> SUFFICES ASSUME In(sched, RB, current), current # Idle PROVE FALSE
    BY <1>2
  <2>1. sched.PID[current] > 0
    BY <1>1 DEF Core, Table, PidsAgree, RB
  <2>2. Linked(sched, current)
    BY <1>1 DEF Linked, In
  <2>3. QED BY <1>1, <2>1, <2>2 DEF Core, CurrentFits
<1>4. \A x \in Task : Sleeps(sched, x) => ~In(sched, RB, x)
  BY <1>1 DEF Core, Table, StatesAgree, StateOf, Sleeps, RB
<1>5. \A x \in Task : IsFree(sched, x) => ~In(sched, RB, x)
  BY <1>1, InOneQueue DEF Core, Table, IsFree, RB
<1>6. QED BY <1>2, <1>3, <1>4, <1>5

\* Nothing that the tasks do outside of read moves the readers, as long as
\* nobody is unblocked while a waitList still names it.
LEMMA ReadersStay ==
  ASSUME SleepInv, Running => Waiters, LeavesUnlinked, [Next]_vars,
         "unblock_waiter" \notin unguarded'
  PROVE  (Running' => Running) /\ "unblock_waiter" \notin unguarded /\ Readers' = Readers
<1>1. /\ TypeOK /\ NobodyWakesIdle /\ sched \in SchedType /\ current \in Task
      /\ (Running => Core /\ Waiters) /\ sched.current = current
      /\ RB \in QueueNames /\ "freequeue" \in QueueNames /\ "readyqueue" \in QueueNames \ {RB}
      /\ "blocked" \in QueueNames \ {RB} /\ "freequeue" # RB
      /\ "unblock_waiter" \notin unguarded
  BY RBIsQueue, UnguardedGrows DEF SleepInv, IInv, TypeOK, SchedType, current, QueueNames, RB
<1>2. CASE UNCHANGED vars \/ Halted
  BY <1>1, <1>2 DEF Halted, vars, Running, Readers
<1>3. ASSUME Running, sched'.queue[RB] = sched.queue[RB] PROVE Running /\ Readers' = Readers
  BY <1>3 DEF Readers, RB
<1>4. ASSUME Running, NEW s, SameTable(s, sched), sched' = SchedNext(s), ~exiting
      PROVE  sched'.queue[RB] = sched.queue[RB]
  BY <1>1, <1>4, NotReaders, NextReaders DEF SameTable, In, Core, Table
<1>5. ASSUME Running, NEW s, SameTable(s, sched), NEW t \in Task,
             NEW dest \in QueueNames \ {RB}, NodeAsNeeded(sched, t),
             dest # "freequeue" \/ sched.PID[t] < 0, ~In(sched, RB, t),
             sched' = SchedNext(Update(s, t, dest))
      PROVE  sched'.queue[RB] = sched.queue[RB]
  <2>1. Table(sched, Failed, {Idle, current}) /\ s \in SchedType
    BY <1>1, <1>5 DEF Core, SameTable
  <2>2. Table(s, Failed, {Idle, current}) /\ ~In(s, RB, s.current) /\ ~In(s, RB, t)
    BY <1>1, <1>5, <2>1, TableSame, NotReaders DEF SameTable, In
  <2>3. NodeAsNeeded(s, t) /\ (dest # "freequeue" \/ s.PID[t] < 0)
    BY <1>5 DEF SameTable, NodeAsNeeded, LeavesQueue, Linked
  <2>4. Idle \in {Idle, current}
    OBVIOUS
  <2>5. SchedNext(Update(s, t, dest)).queue[RB] = s.queue[RB]
    BY <2>2, <2>3, <2>4, MoveReaders
  <2>6. QED BY <1>5, <2>5 DEF SameTable
<1>6. CASE Fork \/ CreateThread
  <2> DEFINE c == Head(FreeQueue)
             taken == [sched EXCEPT !.queue["freequeue"] = Tail(@),
                                    !.PID[c]             = pidGlobal,
                                    !.current_state[c]   = sched.current_state[current],
                                    !.sound              = @ /\ ~AnchorLinked(c)]
  <2>1. /\ Running /\ Core /\ FreeQueue # <<>> /\ Spawn(c)
        /\ sched' = Update(taken, c, "readyqueue")
    BY <1>1, <1>6 DEF Fork, CreateThread, Spawn, PcbTaken, PcbFilled, InSyscall, InUserMode
  <2>2. c \in Task /\ IsFree(sched, c)
    BY <1>1, <2>1, SchedTypeQueues, TailProperties DEF FreeQueue, IsFree, In
  <2>3. ~In(sched, RB, c)
    BY <1>1, <2>1, <2>2, NotReaders
  <2>4. taken \in SchedType /\ taken.queue[RB] = sched.queue[RB]
    <3> DEFINE q == [sched.queue EXCEPT !["freequeue"] = Tail(@)]
               pp == [sched.PID EXCEPT ![c] = pidGlobal]
               k == [sched.current_state EXCEPT ![c] = sched.current_state[current]]
               ok == sched.sound /\ ~AnchorLinked(c)
    <3>1. Tail(sched.queue["freequeue"]) \in Seq(Task) /\ pidGlobal \in Int /\ ok \in BOOLEAN
      BY <1>1, <2>1, HeadTailProperties, PidAssumption, BoundAssumption
         DEF FreeQueue, SchedType, TypeOK, AnchorLinked
    <3>2. /\ q \in [QueueNames -> Seq(Task)] /\ pp \in [Task -> Int] /\ k \in [Task -> States]
          /\ q[RB] = sched.queue[RB]
      BY <1>1, <3>1 DEF SchedType
    <3>3. taken = [sched EXCEPT !.queue = q, !.PID = pp, !.current_state = k, !.sound = ok]
      BY <1>1 DEF SchedType
    <3> HIDE DEF q, pp, k, ok, taken
    <3>4. QED BY <1>1, <3>1, <3>2, <3>3 DEF SchedType
  <2> HIDE DEF c, taken
  <2>5. sched'.queue[RB] = taken.queue[RB]
    BY <1>1, <2>1, <2>2, <2>3, <2>4, UpdateReaders DEF In
  <2>6. QED BY <1>1, <1>3, <2>1, <2>4, <2>5
<1>7. CASE ForkNoFrames
  <2>1. Running /\ sched'.queue[RB] = sched.queue[RB]
    BY <1>1, <1>7 DEF ForkNoFrames, InSyscall, InUserMode, SchedType
  <2>2. QED BY <1>1, <1>3, <2>1
<1>8. CASE Block
  <2>1. Running /\ ~exiting /\ current # Idle
    BY <1>8 DEF Block, InSyscall, InUserMode
  <2>2. NodeAsNeeded(sched, current) /\ ~In(sched, RB, current) /\ SameTable(sched, sched)
    BY <1>1, <2>1, SyscallFacts, NotReaders, ItIsTheTable
  <2>3. CASE sched' = SchedNext(Update(sched, current, "blocked"))
    BY <1>1, <1>3, <1>5, <2>1, <2>2, <2>3
  <2>4. CASE UNCHANGED sched
    BY <1>1, <1>3, <2>1, <2>4
  <2>5. QED BY <1>8, <2>3, <2>4 DEF Block
<1>9. ASSUME NEW pid \in Pids, Unblock(pid) PROVE Running /\ Readers' = Readers
  <2>1. Running /\ ~exiting /\ current # Idle /\ fills[current] \subseteq Task
    BY <1>1, <1>9 DEF Unblock, InSyscall, InUserMode, TypeOK
  <2>2. PICK fill \in fills[current] :
          \/ sched' = SchedNext(sched)
          \/ Sleeps(sched, fill) /\ sched' = SchedNext(Update(sched, fill, "readyqueue"))
    BY <1>9 DEF Unblock, Sleeps
  <2>3. SameTable(sched, sched)
    BY <1>1, ItIsTheTable
  <2>4. CASE sched' = SchedNext(sched)
    BY <1>1, <1>3, <1>4, <2>1, <2>3, <2>4
  <2>5. CASE Sleeps(sched, fill) /\ sched' = SchedNext(Update(sched, fill, "readyqueue"))
    <3>1. fill \in Task /\ fill # current
      BY <1>1, <2>1, <2>2, <2>5, SyscallFacts DEF Sleeps
    <3>2. NodeAsNeeded(sched, fill) /\ ~In(sched, RB, fill)
      BY <1>1, <2>1, <2>5, <3>1, SleeperNeeded, NotReaders
    <3>3. QED BY <1>1, <1>3, <1>5, <2>1, <2>3, <2>5, <3>1, <3>2
  <2>6. QED BY <2>2, <2>4, <2>5
<1>10. CASE UnblockNobody
  BY <1>1, <1>3, <1>4, <1>10, ItIsTheTable DEF UnblockNobody, InSyscall, InUserMode
<1>11. ASSUME NEW pid \in Pids, WaitThread(pid) PROVE Running /\ Readers' = Readers
  <2> DEFINE ok == sched.sound /\ ~AnchorLinked(current) /\ heads[FirstWith(pid)] # "copied"
             s == [sched EXCEPT !.sound = ok]
  <2>1. Running /\ ~exiting /\ current # Idle
    BY <1>11 DEF WaitThread, InSyscall, InUserMode
  <2>2. ok \in BOOLEAN
    BY <1>1 DEF SchedType, AnchorLinked
  <2>3. sched' = sched \/ sched' = SchedNext(Update(s, current, "blocked"))
    BY <1>11 DEF WaitThread
  <2> HIDE DEF ok
  <2>4. SameTable(s, sched)
    BY <1>1, <2>2 DEF SameTable, SchedType
  <2> HIDE DEF s
  <2>5. NodeAsNeeded(sched, current) /\ ~In(sched, RB, current)
    BY <1>1, <2>1, SyscallFacts, NotReaders
  <2>6. QED BY <1>1, <1>3, <1>5, <2>1, <2>3, <2>4, <2>5
<1>12. CASE Exit
  <2>1. Running /\ sched'.queue[RB] = sched.queue[RB]
    BY <1>1, <1>12 DEF Exit, InSyscall, InUserMode, Running, SchedType
  <2>2. QED BY <1>1, <1>3, <2>1
<1>13. CASE ExitWake
  <2> DEFINE w == Head(waitList[current])
  <2>1. /\ Running /\ sched' = Update(sched, w, "readyqueue")
        /\ waitList[current] \in Seq(Task) /\ waitList[current] # <<>>
    BY <1>1, <1>13 DEF ExitWake, TypeOK
  <2>2. w \in Task /\ Contains(waitList[current], w)
    BY <2>1, HeadTailProperties DEF Contains
  <2> HIDE DEF w
  <2>3. Sleeps(sched, w)
    BY <1>1, <2>1, <2>2, AnchoredSleep DEF Waiters, AnchorLinked
  <2>4. ~In(sched, RB, w)
    BY <1>1, <2>1, <2>2, <2>3, NotReaders
  <2>5. sched'.queue[RB] = sched.queue[RB]
    BY <1>1, <2>1, <2>2, <2>4, UpdateReaders
  <2>6. QED BY <1>1, <1>3, <2>1, <2>5
<1>14. CASE ExitDone
  <2>1. Running /\ exiting /\ sched' = SchedNext(Update(sched, current, "freequeue"))
    BY <1>14 DEF ExitDone
  <2>2. NodeAsNeeded(sched, current)
    BY <1>1, <2>1 DEF LeavesUnlinked, NodeAsNeeded, LeavesQueue, Core, CurrentFits
  <2>3. sched.PID[current] < 0 /\ ~In(sched, RB, current) /\ SameTable(sched, sched)
    BY <1>1, <2>1, NotReaders, ItIsTheTable DEF Core, CurrentFits
  <2>4. QED BY <1>1, <1>3, <1>5, <2>1, <2>2, <2>3
<1>15. CASE ClockInterrupt
  <2> DEFINE left == IF sched.tick_counter > 0 THEN sched.tick_counter - 1 ELSE 0
             ticked == [sched EXCEPT !.tick_counter = left]
  <2>1. Running /\ ~exiting
    BY <1>15 DEF ClockInterrupt, InUserMode
  <2>2. left \in 0 .. DEFAULT_QUANTUM_TICKS
    BY <1>1, QuantumAssumption DEF SchedType
  <2>3. sched' = SchedNext(ticked) \/ sched' = ticked
    BY <1>15 DEF ClockInterrupt, Clock
  <2> HIDE DEF left
  <2>4. SameTable(ticked, sched)
    BY <1>1, <2>2 DEF SameTable, SchedType
  <2> HIDE DEF ticked
  <2>5. CASE sched' = SchedNext(ticked)
    BY <1>1, <1>3, <1>4, <2>1, <2>4, <2>5
  <2>6. CASE sched' = ticked
    BY <1>1, <1>3, <2>1, <2>4, <2>6 DEF SameTable
  <2>7. QED BY <2>3, <2>5, <2>6
<1>16. CASE CreateThreadPageFault \/ ForkPageFault
  <2>1. InSyscall /\ sched'.queue[RB] = sched.queue[RB]
    BY <1>1, <1>16, PageFaultStep, PageFaultSched DEF SchedType
  <2>2. QED BY <1>1, <1>3, <2>1 DEF InSyscall, InUserMode
<1>17. QED
  BY <1>1, <1>2, <1>6, <1>7, <1>8, <1>9, <1>10, <1>11, <1>12, <1>13, <1>14, <1>15, <1>16
     DEF Next

----------------------------------------------------------------------------
(* The ring *)

LEMMA ModOnce ==
  ASSUME NEW a \in Int, 0 <= a, a < KB_BUFFER_SIZE + KB_BUFFER_SIZE
  PROVE  a % KB_BUFFER_SIZE = IF a < KB_BUFFER_SIZE THEN a ELSE a - KB_BUFFER_SIZE
<1> DEFINE k == KB_BUFFER_SIZE
           q == a \div k
           r == a % k
<1>1. k \in Int /\ k >= 2
  BY KeyboardAssumption
<1>2. q \in Int /\ r \in Int /\ a = k * q + r /\ 0 <= r /\ r < k
  BY <1>1
<1> HIDE DEF q, r, k
<1>3. q >= 0
  BY <1>1, <1>2
<1>4. q < 2
  BY <1>1, <1>2 DEF k
<1>5. q = 0 \/ q = 1
  BY <1>2, <1>3, <1>4
<1>6. r = IF a < k THEN a ELSE a - k
  BY <1>1, <1>2, <1>5
<1>7. QED BY <1>6 DEF r, k

LEMMA RingSizes ==
  ASSUME NEW kb \in Key_buffer
  PROVE  /\ kb_buffer_size(kb) \in 0 .. KB_BUFFER_SIZE - 1
         /\ \A c \in Char : kb_buffer_size(Pushed(kb, c))
              = IF kb_buffer_size(kb) = KB_BUFFER_SIZE - 1 THEN 0 ELSE kb_buffer_size(kb) + 1
         /\ \A n \in 0 .. kb_buffer_size(kb) :
              kb_buffer_size(PoppedChars(kb, n)) = kb_buffer_size(kb) - n
<1>1. /\ KB_BUFFER_SIZE \in Int /\ KB_BUFFER_SIZE >= 2
      /\ kb.head \in Int /\ 0 <= kb.head /\ kb.head < KB_BUFFER_SIZE
      /\ kb.tail \in Int /\ 0 <= kb.tail /\ kb.tail < KB_BUFFER_SIZE
  BY KeyboardAssumption DEF Key_buffer, Place
<1>2. kb_buffer_size(kb) \in 0 .. KB_BUFFER_SIZE - 1
  BY <1>1 DEF kb_buffer_size
<1>3. ASSUME NEW c \in Char
      PROVE  kb_buffer_size(Pushed(kb, c))
               = IF kb_buffer_size(kb) = KB_BUFFER_SIZE - 1 THEN 0 ELSE kb_buffer_size(kb) + 1
  <2> DEFINE z == Pushed(kb, c)
             h == (kb.head + 1) % KB_BUFFER_SIZE
  <2>1. h = IF kb.head + 1 < KB_BUFFER_SIZE THEN kb.head + 1 ELSE 0
    BY <1>1, ModOnce
  <2>2. kb_buffer_size(kb) < KB_BUFFER_SIZE
    BY <1>1, <1>2
  <2>3. z.head = h /\ z.tail = kb.tail
    BY <2>2 DEF Pushed, Key_buffer
  <2> HIDE DEF z, h
  <2>4. kb_buffer_size(z) = IF kb_buffer_size(kb) = KB_BUFFER_SIZE - 1 THEN 0
                                                                       ELSE kb_buffer_size(kb) + 1
    BY <1>1, <2>1, <2>3 DEF kb_buffer_size
  <2>5. QED BY <2>4 DEF z
<1>4. ASSUME NEW n \in 0 .. kb_buffer_size(kb)
      PROVE  kb_buffer_size(PoppedChars(kb, n)) = kb_buffer_size(kb) - n
  <2> DEFINE z == PoppedChars(kb, n)
             t == (kb.tail + n) % KB_BUFFER_SIZE
  <2>1. n \in Int /\ 0 <= n /\ n <= kb_buffer_size(kb) /\ n < KB_BUFFER_SIZE
    BY <1>1, <1>2
  <2>2. t = IF kb.tail + n < KB_BUFFER_SIZE THEN kb.tail + n ELSE kb.tail + n - KB_BUFFER_SIZE
    BY <1>1, <2>1, ModOnce
  <2>3. z.tail = t /\ z.head = kb.head
    BY DEF PoppedChars, Key_buffer
  <2> HIDE DEF z, t
  <2>4. kb_buffer_size(z) = kb_buffer_size(kb) - n
    BY <1>1, <2>1, <2>2, <2>3 DEF kb_buffer_size
  <2>5. QED BY <2>4 DEF z
<1>5. QED BY <1>2, <1>3, <1>4

----------------------------------------------------------------------------
(* What read and a key do to the queue of the readers *)

LEMMA ReadersDistinct ==
  ASSUME TypeOK, Core
  PROVE  /\ Readers \in Seq(Task)
         /\ \A i, j \in 1 .. Len(Readers) : Readers[i] = Readers[j] => i = j
<1>1. RB \in QueueNames /\ Readers = sched.queue[RB] /\ Readers \in Seq(Task)
  BY RBIsQueue DEF TypeOK, Readers, RB
<1>2. DOMAIN Readers = 1 .. Len(Readers)
  BY <1>1, LenProperties
<1>3. QED BY <1>1, <1>2 DEF Core, Table, NodesDistinct

LEMMA RemoveHead ==
  ASSUME NEW q \in Seq(Task), q # <<>>, \A i, j \in 1 .. Len(q) : q[i] = q[j] => i = j
  PROVE  /\ RemoveFirst(q, Head(q)) = Tail(q)
         /\ Tail(q) \in Seq(Task) /\ Head(q) \in Task /\ Contains(q, Head(q))
         /\ \A t \in Task : Contains(Tail(q), t) <=> Contains(q, t) /\ t # Head(q)
<1> DEFINE h == Head(q)
           f == RemoveFirst(q, h)
           r == Tail(q)
<1>1. /\ Len(q) \in Nat /\ Len(q) >= 1 /\ h \in Task /\ h = q[1] /\ r \in Seq(Task)
      /\ Len(r) = Len(q) - 1 /\ \A i \in 1 .. Len(q) - 1 : r[i] = q[i + 1]
  BY HeadTailProperties, LenProperties, EmptySeq
<1>2. Contains(q, h)
  BY <1>1 DEF Contains
<1>3. f = r
  BY RemoveFirstHead
<1> HIDE DEF f, h, r
<1>4. \A t \in Task : Contains(r, t) <=> Contains(q, t) /\ t # h
  <2> SUFFICES ASSUME NEW t \in Task PROVE Contains(r, t) <=> Contains(q, t) /\ t # h
    OBVIOUS
  <2>1. ASSUME Contains(r, t) PROVE Contains(q, t) /\ t # h
    <3>1. PICK i \in 1 .. Len(r) : r[i] = t
      BY <2>1 DEF Contains
    <3>2. i + 1 \in 1 .. Len(q) /\ q[i + 1] = t /\ i + 1 # 1 /\ 1 \in 1 .. Len(q)
      BY <1>1, <3>1
    <3>3. QED BY <1>1, <3>2 DEF Contains
  <2>2. ASSUME Contains(q, t), t # h PROVE Contains(r, t)
    <3>1. PICK i \in 1 .. Len(q) : q[i] = t
      BY <2>2 DEF Contains
    <3>2. i - 1 \in 1 .. Len(r) /\ r[i - 1] = q[(i - 1) + 1] /\ (i - 1) + 1 = i
      BY <1>1, <2>2, <3>1
    <3>3. QED BY <3>1, <3>2 DEF Contains
  <2>3. QED BY <2>1, <2>2
<1>5. QED BY <1>1, <1>2, <1>3, <1>4 DEF f, h, r

LEMMA AppendOne ==
  ASSUME NEW q \in Seq(Task), NEW t \in Task
  PROVE  /\ Append(q, t) \in Seq(Task) /\ Append(q, t) # <<>>
         /\ Head(Append(q, t)) = IF q = <<>> THEN t ELSE Head(q)
         /\ \A x \in Task : Contains(Append(q, t), x) <=> Contains(q, x) \/ x = t
         /\ q = <<>> => RemoveFirst(Append(q, t), t) = <<>>
<1> DEFINE a == Append(q, t)
<1>1. /\ a \in Seq(Task) /\ Len(a) = Len(q) + 1 /\ Len(q) \in Nat
      /\ \A i \in 1 .. Len(q) : a[i] = q[i]
      /\ a[Len(q) + 1] = t
  BY AppendProperties, LenProperties
<1> HIDE DEF a
<1>2. a # <<>> /\ Head(a) = a[1]
  <2>1. Len(a) # 0
    BY <1>1
  <2>2. a # <<>>
    BY <1>1, <2>1, EmptySeq
  <2>3. QED BY <1>1, <2>2, HeadTailProperties
<1>3. Head(a) = IF q = <<>> THEN t ELSE Head(q)
  <2>1. CASE q = <<>>
    <3>1. Len(q) = 0
      BY <2>1, EmptySeq
    <3>2. QED BY <1>1, <1>2, <2>1, <3>1
  <2>2. CASE q # <<>>
    <3>1. Head(q) = q[1] /\ 1 \in 1 .. Len(q)
      BY <1>1, <2>2, HeadTailProperties, EmptySeq
    <3>2. QED BY <1>1, <1>2, <2>2, <3>1
  <2>3. QED BY <2>1, <2>2
<1>4. \A x \in Task : Contains(a, x) <=> Contains(q, x) \/ x = t
  BY <1>1 DEF Contains
<1>5. q = <<>> => RemoveFirst(a, t) = <<>>
  <2> SUFFICES ASSUME q = <<>> PROVE RemoveFirst(a, t) = <<>>
    OBVIOUS
  <2>1. Len(q) = 0
    BY EmptySeq
  <2>2. Len(a) = 1 /\ \A i, j \in 1 .. Len(a) : i = j
    BY <1>1, <2>1
  <2>3. RemoveFirst(a, t) = Tail(a)
    BY <1>1, <1>2, <1>3, <2>2, RemoveHead
  <2>4. Tail(a) \in Seq(Task) /\ Len(Tail(a)) = 0
    BY <1>1, <1>2, <2>2, HeadTailProperties
  <2>5. QED BY <2>3, <2>4, EmptySeq
<1>6. QED BY <1>1, <1>2, <1>3, <1>4, <1>5 DEF a

\* A call of read leaves the task in the queue, or serves it on the spot.
LinesUp(n) ==
  /\ Readers # <<>> \/ kb_buffer_size(kb_buffer) < n
  /\ Readers' = Append(Readers, current)
  /\ maxchars' = [maxchars EXCEPT ![current] = n]
  /\ UNCHANGED <<kb_buffer, delivered>>

ServedNow(n) ==
  /\ Readers = <<>> /\ ~(kb_buffer_size(kb_buffer) < n)
  /\ Readers' = <<>>
  /\ maxchars' = [maxchars EXCEPT ![current] = NoRead]
  /\ kb_buffer' = PoppedChars(kb_buffer, n)
  /\ delivered' = [task |-> current, chars |-> FirstChars(kb_buffer, n)]

\* A key finds no reader, or one for whom it is not the last, or serves one.
Kept(c) ==
  /\ Readers = <<>> \/ kb_buffer_size(Pushed(kb_buffer, c)) < maxchars[Head(Readers)]
  /\ Readers' = Readers
  /\ kb_buffer' = Pushed(kb_buffer, c)
  /\ UNCHANGED <<maxchars, delivered>>

ServedByKey(c) ==
  LET r == Head(Readers)
      n == maxchars[r]
      kb == Pushed(kb_buffer, c)
  IN /\ Readers # <<>> /\ ~(kb_buffer_size(kb) < n)
     /\ Readers' = Tail(Readers)
     /\ maxchars' = [maxchars EXCEPT ![r] = NoRead]
     /\ kb_buffer' = PoppedChars(kb, n)
     /\ delivered' = [task |-> r, chars |-> FirstChars(kb, n)]

\* None of them wakes a sleeper or sends one to sleep.
Quiet == SameFree /\ \A x \in Task : Sleeps(sched', x) <=> Sleeps(sched, x)

LEMMA ReadCases ==
  ASSUME TypeOK, Core, NobodyWakesIdle, maxchars \in [Task -> Int], NEW n \in Sizes, Read(n)
  PROVE  Quiet /\ (LinesUp(n) \/ ServedNow(n))
<1> DEFINE z == Update(sched, current, "read_blocked")
           q == Append(Readers, current)
<1>1. /\ ~exiting /\ current # Idle /\ current \in Task /\ Readers \in Seq(Task)
      /\ ~Contains(Readers, current)
  BY ReadersDistinct, NotReaders DEF Read, InSyscall, InUserMode, TypeOK, SchedType, current,
                                     In, Readers, RB
<1>2. Entered(z, current, q)
  BY <1>1, ReadEnters
<1>3. /\ q \in Seq(Task) /\ q # <<>>
      /\ Head(q) = IF Readers = <<>> THEN current ELSE Head(Readers)
      /\ Readers = <<>> => RemoveFirst(q, current) = <<>>
  BY <1>1, AppendOne
<1>4. z.queue["read_blocked"] = q /\ z.current = current /\ "read_blocked" \in QueueNames
  BY <1>2 DEF Entered, RB, QueueNames
<1>5. \/ /\ z.PID[Head(q)] # z.PID[current]
         /\ sched' = SchedNext(z) /\ maxchars' = [maxchars EXCEPT ![current] = n]
         /\ UNCHANGED <<kb_buffer, delivered>>
      \/ z.PID[Head(q)] = z.PID[current] /\ ReadLoop(z, kb_buffer, n)
  BY <1>4 DEF Read
<1> HIDE DEF z, q
<1>6. sched' = SchedNext(z) \/ sched' = Dispatch(z, current)
  BY <1>4, <1>5, ReadLoopSched
<1>7. /\ SchedNext(z).queue[RB] = q /\ Dispatch(z, current).queue[RB] = RemoveFirst(q, current)
      /\ Quiet
  BY <1>2, <1>3, <1>6, LeaveReaders DEF Quiet
<1>8. z.PID[Head(q)] = z.PID[current] => Readers = <<>>
  <2> SUFFICES ASSUME z.PID[Head(q)] = z.PID[current], Readers # <<>> PROVE FALSE
    OBVIOUS
  <2>1. Head(q) = Head(Readers) /\ Head(Readers) \in Task /\ Contains(Readers, Head(Readers))
    BY <1>1, <1>3, HeadTailProperties DEF Contains
  <2>2. IsFree(z, Head(q)) <=> IsFree(sched, Head(q))
    BY <1>2, <2>1 DEF Entered
  <2>3. ~IsFree(sched, Head(q))
    <3>1. In(sched, RB, Head(q))
      BY <2>1 DEF In, Readers, RB
    <3>2. QED BY <2>1, <3>1, NotReaders
  <2>4. Head(q) = current
    BY <1>1, <1>2, <2>1, <2>2, <2>3 DEF Entered, Table, PidsUnique
  <2>5. QED BY <1>1, <2>1, <2>4
<1>9. Readers' = sched'.queue[RB]
  BY DEF Readers, RB
<1>10. CASE z.PID[Head(q)] # z.PID[current]
  <2>1. Readers # <<>>
    BY <1>3, <1>10
  <2>2. QED BY <1>5, <1>7, <1>9, <1>10, <2>1 DEF LinesUp, q
<1>11. CASE z.PID[Head(q)] = z.PID[current]
  <2>1. ReadLoop(z, kb_buffer, n) /\ Readers = <<>>
    BY <1>5, <1>8, <1>11
  <2>2. CASE kb_buffer_size(kb_buffer) < n
    <3>1. /\ sched' = SchedNext(z) /\ kb_buffer' = kb_buffer /\ UNCHANGED delivered
          /\ maxchars' = [maxchars EXCEPT ![current] = n]
      BY <1>4, <2>1, <2>2 DEF ReadLoop
    <3>2. QED BY <1>7, <1>9, <2>2, <3>1 DEF LinesUp, q
  <2>3. CASE ~(kb_buffer_size(kb_buffer) < n)
    <3>1. /\ sched' = Dispatch(z, current) /\ kb_buffer' = PoppedChars(kb_buffer, n)
          /\ maxchars' = [maxchars EXCEPT ![current] = NoRead]
          /\ delivered' = [task |-> current, chars |-> FirstChars(kb_buffer, n)]
      BY <1>4, <2>1, <2>3 DEF ReadLoop
    <3>2. QED BY <1>3, <1>7, <1>9, <2>1, <2>3, <3>1 DEF ServedNow
  <2>4. QED BY <2>2, <2>3
<1>12. QED BY <1>10, <1>11

LEMMA KeyCases ==
  ASSUME TypeOK, Core, NobodyWakesIdle, maxchars \in [Task -> Int], NEW c \in Char, KeyPress(c)
  PROVE  Quiet /\ (Kept(c) \/ ServedByKey(c))
<1>1. ~exiting /\ Readers \in Seq(Task)
  BY ReadersDistinct DEF KeyPress, InUserMode
<1>2. CASE Readers = <<>>
  <2>1. UNCHANGED sched /\ kb_buffer' = Pushed(kb_buffer, c) /\ UNCHANGED <<maxchars, delivered>>
    BY <1>2 DEF KeyPress
  <2>2. QED BY <1>2, <2>1 DEF Quiet, SameFree, Sleeps, IsFree, In, Kept, Readers
<1>3. CASE Readers # <<>>
  <2> DEFINE r == Head(Readers)
             z == [Preempted EXCEPT !.current = r]
             kb == Pushed(kb_buffer, c)
  <2>1. Entered(z, r, Readers)
    BY <1>1, <1>3, KeyEnters
  <2>2. ReadLoop(z, kb, maxchars[r])
    BY <1>3 DEF KeyPress, Preempted
  <2>3. RemoveFirst(Readers, r) = Tail(Readers) /\ r \in Task
    BY <1>1, <1>3, ReadersDistinct, RemoveHead
  <2> HIDE DEF z, r, kb
  <2>4. z.current = r
    BY <2>1 DEF Entered
  <2>5. sched' = SchedNext(z) \/ sched' = Dispatch(z, r)
    BY <2>2, <2>4, ReadLoopSched
  <2>6. /\ SchedNext(z).queue[RB] = Readers /\ Dispatch(z, r).queue[RB] = Tail(Readers)
        /\ Quiet
    BY <1>1, <2>1, <2>3, <2>5, LeaveReaders DEF Quiet
  <2>7. Readers' = sched'.queue[RB]
    BY DEF Readers, RB
  <2>8. CASE kb_buffer_size(kb) < maxchars[r]
    <3>1. /\ sched' = SchedNext(z) /\ kb_buffer' = kb /\ UNCHANGED delivered
          /\ maxchars' = [maxchars EXCEPT ![r] = maxchars[r]]
      BY <2>2, <2>4, <2>8 DEF ReadLoop
    <3>2. maxchars' = maxchars
      BY <2>3, <3>1
    <3>3. QED BY <2>6, <2>7, <2>8, <3>1, <3>2 DEF Kept, r, kb
  <2>9. CASE ~(kb_buffer_size(kb) < maxchars[r])
    <3>1. /\ sched' = Dispatch(z, r) /\ kb_buffer' = PoppedChars(kb, maxchars[r])
          /\ maxchars' = [maxchars EXCEPT ![r] = NoRead]
          /\ delivered' = [task |-> r, chars |-> FirstChars(kb, maxchars[r])]
      BY <2>2, <2>4, <2>9 DEF ReadLoop
    <3>2. QED BY <1>3, <2>6, <2>7, <2>9, <3>1 DEF ServedByKey, r, kb
  <2>10. QED BY <2>8, <2>9
<1>4. QED BY <1>2, <1>3

----------------------------------------------------------------------------
(* The readers and their reads.  That the list and the reads agree needs   *)
(* the waiters: a task that an exit wakes must not be one that reads.      *)

Listed == \A t \in Task : Reading(t) <=> Contains(Readers, t)

Lacks == 0 \notin Sizes /\ Readers # <<>> =>
           kb_buffer_size(kb_buffer) < maxchars[Head(Readers)]

Asked == maxchars \in [Task -> Sizes \cup {NoRead}]

WaitingInv ==
  /\ KIInv /\ KTypes /\ Asked
  /\ NobodyWakesIdle /\ (Running => Waiters) /\ LeavesUnlinked

ReadInv ==
  /\ WaitingInv
  /\ Running /\ "unblock_waiter" \notin unguarded => Listed /\ Lacks

LEMMA QuietKeeps ==
  ASSUME TypeOK, NobodyWakesIdle, ~exiting, UNCHANGED Rest, Quiet
  PROVE  NobodyWakesIdle' /\ (Waiters => Waiters')
<1>1. /\ Idle \in Task /\ exiting' = FALSE /\ unguarded' = unguarded
      /\ waitList' = waitList /\ pending_unblocks' = pending_unblocks
  BY IdleIsTask DEF Rest, lists, TypeOK
<1>2. NobodyWakesIdle'
  BY <1>1 DEF NobodyWakesIdle, Quiet, Sleeps
<1>3. \A u \in Task : InUse(u) => InUse(u)'
  BY <1>1 DEF InUse, Quiet, SameFree
<1>4. Waiters => Waiters'
  BY <1>1, <1>3, WaitListsKept DEF Quiet
<1>5. QED BY <1>2, <1>4

\* A task that resumes its read without a key is not in the list.
LEMMA ResumeCases ==
  ASSUME TypeOK, Core, NobodyWakesIdle, ReadersAreTasks, Asked, ReadResume
  PROVE  Quiet /\ Asked' /\ ~Listed
<1>1. /\ ~exiting /\ current \in Task /\ current # Idle /\ sched.current = current
      /\ Readers \in Seq(Task) /\ maxchars[current] \in Sizes \cup {NoRead}
  BY ReadersDistinct DEF ReadResume, InUserMode, Reading, ReadersAreTasks, TypeOK, SchedType,
                         current, Asked
<1>2. Entered(sched, current, Readers) /\ ReadLoop(sched, kb_buffer, maxchars[current])
  BY <1>1, ResumeEnters DEF ReadResume
<1>3. Quiet
  BY <1>1, <1>2, ReadLoopSched, LeaveReaders DEF Quiet
<1>4. Asked'
  BY <1>1, <1>2 DEF ReadLoop, Asked
<1>5. ~Listed
  BY <1>1, NotReaders DEF ReadResume, Listed, In, Readers, RB
<1>6. QED BY <1>3, <1>4, <1>5

LEMMA ReadersAfterRead ==
  ASSUME TypeOK, Core, KTypes, Asked, Listed, NEW n \in Sizes, ~Reading(current),
         LinesUp(n) \/ ServedNow(n)
  PROVE  Listed' /\ (Lacks => Lacks')
<1>1. /\ current \in Task /\ Readers \in Seq(Task) /\ n \in Nat /\ NoRead \notin Nat
      /\ maxchars \in [Task -> Nat \cup {NoRead}]
  BY ReadersDistinct, KeyboardAssumption DEF TypeOK, SchedType, current, KTypes, NoRead
<1>2. CASE LinesUp(n)
  <2>1. /\ Readers' = Append(Readers, current) /\ maxchars' = [maxchars EXCEPT ![current] = n]
        /\ UNCHANGED kb_buffer /\ (Readers # <<>> \/ kb_buffer_size(kb_buffer) < n)
    BY <1>2 DEF LinesUp
  <2>2. /\ Head(Readers') = IF Readers = <<>> THEN current ELSE Head(Readers)
        /\ \A x \in Task : Contains(Readers', x) <=> Contains(Readers, x) \/ x = current
    BY <1>1, <2>1, AppendOne
  <2>3. Listed'
    BY <1>1, <2>1, <2>2 DEF Listed, Reading
  <2>4. ASSUME Lacks, 0 \notin Sizes PROVE kb_buffer_size(kb_buffer') < maxchars'[Head(Readers')]
    <3>1. CASE Readers = <<>>
      BY <1>1, <2>1, <2>2, <3>1
    <3>2. CASE Readers # <<>>
      <4>1. Head(Readers) \in Task /\ Contains(Readers, Head(Readers))
        BY <1>1, <3>2, HeadTailProperties DEF Contains
      <4>2. Head(Readers) # current
        BY <1>1, <4>1 DEF Listed
      <4>3. QED BY <1>1, <2>1, <2>2, <2>4, <3>2, <4>1, <4>2 DEF Lacks
    <3>3. QED BY <3>1, <3>2
  <2>5. QED BY <2>3, <2>4 DEF Lacks
<1>3. CASE ServedNow(n)
  <2>1. Readers' = Readers /\ Readers' = <<>> /\ maxchars' = [maxchars EXCEPT ![current] = NoRead]
    BY <1>3 DEF ServedNow
  <2>2. maxchars' = maxchars
    BY <1>1, <2>1 DEF Reading
  <2>3. QED BY <2>1, <2>2 DEF Listed, Lacks, Reading
<1>4. QED BY <1>2, <1>3

LEMMA ReadersAfterKey ==
  ASSUME TypeOK, Core, KTypes, Asked, Listed, NEW c \in Char, Kept(c) \/ ServedByKey(c)
  PROVE  Listed' /\ (Lacks => Lacks')
<1>1. /\ Readers \in Seq(Task) /\ NoRead \notin Nat /\ Sizes \subseteq Nat
      /\ maxchars \in [Task -> Sizes \cup {NoRead}] /\ kb_buffer \in Key_buffer
  BY ReadersDistinct, KeyboardAssumption DEF KTypes, NoRead, Asked
<1>2. CASE Kept(c)
  BY <1>2 DEF Kept, Listed, Lacks, Reading
<1>3. CASE ServedByKey(c)
  <2> DEFINE r == Head(Readers)
             n == maxchars[r]
             kb == Pushed(kb_buffer, c)
  <2>1. /\ Readers # <<>> /\ Readers' = Tail(Readers) /\ ~(kb_buffer_size(kb) < n)
        /\ maxchars' = [maxchars EXCEPT ![r] = NoRead] /\ kb_buffer' = PoppedChars(kb, n)
    BY <1>3 DEF ServedByKey
  <2>2. /\ Tail(Readers) \in Seq(Task) /\ r \in Task /\ Contains(Readers, r)
        /\ \A t \in Task : Contains(Tail(Readers), t) <=> Contains(Readers, t) /\ t # r
    BY <1>1, <2>1, ReadersDistinct, RemoveHead
  <2>3. n \in Sizes /\ n \in Nat
    BY <1>1, <2>2 DEF Listed, Reading
  <2>4. kb \in Key_buffer
    BY <1>1, RingType
  <2>5. /\ kb_buffer_size(kb_buffer) \in Nat /\ kb_buffer_size(kb) \in Nat
        /\ kb_buffer_size(kb) = 0 \/ kb_buffer_size(kb) = kb_buffer_size(kb_buffer) + 1
        /\ \A k \in 0 .. kb_buffer_size(kb) :
             kb_buffer_size(PoppedChars(kb, k)) = kb_buffer_size(kb) - k
    <3>1. \A a \in 0 .. KB_BUFFER_SIZE - 1 : a \in Nat
      BY KeyboardAssumption
    <3>2. QED BY <1>1, <2>4, <3>1, RingSizes
  <2> HIDE DEF r, n, kb
  <2>6. Listed'
    BY <1>1, <2>1, <2>2 DEF Listed, Reading
  <2>7. ASSUME Lacks, 0 \notin Sizes, Readers' # <<>>
        PROVE  kb_buffer_size(kb_buffer') < maxchars'[Head(Readers')]
    <3>1. kb_buffer_size(kb_buffer) < n
      BY <2>1, <2>7 DEF Lacks, r, n
    <3>2. kb_buffer_size(kb) = n
      BY <2>1, <2>3, <2>5, <2>7, <3>1
    <3>3. kb_buffer_size(kb_buffer') = 0
      BY <2>1, <2>3, <2>5, <3>2
    <3>4. Head(Readers') \in Task /\ Contains(Readers', Head(Readers'))
      <4>1. \A q \in Seq(Task) : q # <<>> => Head(q) \in Task /\ Contains(q, Head(q))
        BY HeadTailProperties DEF Contains
      <4>2. QED BY <2>1, <2>2, <2>7, <4>1
    <3>5. maxchars'[Head(Readers')] = maxchars[Head(Readers')] /\ Reading(Head(Readers'))
      BY <1>1, <2>1, <2>2, <3>4 DEF Listed
    <3>6. maxchars'[Head(Readers')] \in Nat /\ maxchars'[Head(Readers')] # 0
      BY <1>1, <2>7, <3>4, <3>5 DEF Reading
    <3>7. QED BY <3>3, <3>6
  <2>8. QED BY <2>6, <2>7 DEF Lacks
<1>4. QED BY <1>2, <1>3

LEMMA ReadInvInit == KInit => ReadInv
<1> SUFFICES ASSUME KInit PROVE ReadInv
  OBVIOUS
<1>1. /\ KIInv /\ Init /\ maxchars = [t \in Task |-> NoRead] /\ task1 \in Task
      /\ kb_buffer = [buffer |-> [p \in Place |-> "zero"], head |-> 0, tail |-> 0]
      /\ delivered = [task |-> task1, chars |-> <<>>]
      /\ SchedInit /\ exiting = FALSE
  BY KInitInv, NrTasksAssumption DEF KInit, task1, Task, Init
<1>2. KTypes
  <2>1. 0 \in Place
    BY KeyboardAssumption DEF Place
  <2>2. QED BY <1>1, <2>1 DEF KTypes, Key_buffer
<1>3. NobodyWakesIdle /\ Waiters /\ LeavesUnlinked /\ Asked
  BY <1>1, SleepInvInit, WaitersInit DEF SleepInv, LeavesUnlinked, Asked
<1>4. Readers = <<>>
  BY <1>1 DEF Readers, SchedInit, QueueNames
<1>5. Listed /\ Lacks
  BY <1>1, <1>4, NrTasksAssumption DEF Listed, Lacks, Reading, Contains
<1>6. QED BY <1>1, <1>2, <1>3, <1>5 DEF ReadInv, WaitingInv

LEMMA ReadInvNext ==
  ASSUME ReadInv, [KNext]_allvars
  PROVE  ReadInv'
<1>1. /\ KIInv' /\ KTypes' /\ SleepInv /\ TypeOK /\ NobodyWakesIdle /\ Asked /\ KTypes
      /\ maxchars \in [Task -> Int] /\ ReadersAreTasks /\ LeavesUnlinked
      /\ (Running => Core /\ Waiters)
      /\ (Running /\ "unblock_waiter" \notin unguarded => Listed /\ Lacks)
  BY KNextInv, KTypesNext DEF ReadInv, WaitingInv, KIInv, IInv, SleepInv, ReadersAreTasks
<1>2. CASE ProcessStep \/ UNCHANGED allvars
  <2>1. [Next]_vars /\ UNCHANGED <<kb_buffer, maxchars, delivered>>
    BY <1>2 DEF ProcessStep, allvars, kbvars
  <2>2. NobodyWakesIdle' /\ (Running' => Waiters') /\ LeavesUnlinked' /\ Asked'
    <3>1. NobodyWakesIdle' /\ LeavesUnlinked' /\ Asked'
      BY <1>1, <2>1, SleepInvNext, LeavesNext DEF SleepInv, Asked
    <3>2. Running' => Waiters'
      BY <1>1, <2>1, WaitersNext DEF WaitersStep
    <3>3. QED BY <3>1, <3>2
  <2>3. Running' /\ "unblock_waiter" \notin unguarded' => Listed' /\ Lacks'
    BY <1>1, <2>1, ReadersStay DEF Listed, Lacks, Reading
  <2>4. QED BY <1>1, <2>2, <2>3 DEF ReadInv, WaitingInv
<1>3. ASSUME Running, ~exiting, UNCHANGED Rest, Quiet, Asked',
             "unblock_waiter" \notin unguarded => Listed' /\ Lacks'
      PROVE  ReadInv'
  <2>1. NobodyWakesIdle' /\ Waiters' /\ unguarded' = unguarded /\ exiting' = FALSE
    BY <1>1, <1>3, QuietKeeps DEF Rest, TypeOK
  <2>2. QED BY <1>1, <1>3, <2>1 DEF ReadInv, WaitingInv, LeavesUnlinked
<1>4. ASSUME NEW n \in Sizes, Read(n) PROVE ReadInv'
  <2>1. Running /\ ~exiting /\ UNCHANGED Rest /\ ~Reading(current) /\ current \in Task
    BY <1>1, <1>4 DEF Read, InSyscall, InUserMode, Rest, TypeOK, SchedType, current
  <2>2. Quiet /\ (LinesUp(n) \/ ServedNow(n))
    BY <1>1, <1>4, <2>1, ReadCases
  <2>3. Asked'
    BY <1>1, <2>1, <2>2 DEF LinesUp, ServedNow, Asked
  <2>4. "unblock_waiter" \notin unguarded => Listed' /\ Lacks'
    BY <1>1, <2>1, <2>2, ReadersAfterRead
  <2>5. QED BY <1>3, <2>1, <2>2, <2>3, <2>4
<1>5. ASSUME NEW c \in Char, KeyPress(c) PROVE ReadInv'
  <2>1. Running /\ ~exiting /\ UNCHANGED Rest
    BY <1>5 DEF KeyPress, InUserMode, Rest
  <2>2. Quiet /\ (Kept(c) \/ ServedByKey(c))
    BY <1>1, <1>5, <2>1, KeyCases
  <2>3. Asked'
    BY <1>1, <2>2 DEF Kept, ServedByKey, Asked
  <2>4. "unblock_waiter" \notin unguarded => Listed' /\ Lacks'
    BY <1>1, <2>1, <2>2, ReadersAfterKey
  <2>5. QED BY <1>3, <2>1, <2>2, <2>3, <2>4
<1>6. CASE ReadResume
  <2>1. Running /\ ~exiting /\ UNCHANGED Rest
    BY <1>6 DEF ReadResume, InUserMode, Rest
  <2>2. Quiet /\ Asked' /\ ~Listed
    BY <1>1, <1>6, <2>1, ResumeCases
  <2>3. QED BY <1>1, <1>3, <2>1, <2>2
<1>7. QED BY <1>2, <1>4, <1>5, <1>6 DEF KNext, KeyAct

LEMMA ReadInductive == KSpec => []ReadInv
<1>1. ReadInv /\ [KNext /\ unguarded' \subseteq Admitted]_allvars => ReadInv'
  BY ReadInvNext
<1>2. QED
  BY <1>1, ReadInvInit, PTL DEF KSpec

\* The tasks in the middle of sys_read are the ones linked in read_blocked:
\* none waits for keys that will not wake it, and no key wakes one that does
\* not wait for it (Keyboard.ReadersListed).
THEOREM ReadersListedHolds == KSpec => []ReadersListed
<1>1. ReadInv => ReadersListed
  BY DEF ReadInv, Listed, ReadersListed
<1>2. QED
  BY <1>1, ReadInductive, PTL

\* Nobody sleeps in read_blocked on characters that the ring holds, whatever
\* its size and wherever it wraps (Keyboard.FirstReaderLacks).
THEOREM FirstReaderLacksHolds == KSpec => []FirstReaderLacks
<1>1. ReadInv => FirstReaderLacks
  BY DEF ReadInv, Lacks, FirstReaderLacks
<1>2. QED
  BY <1>1, ReadInductive, PTL

----------------------------------------------------------------------------
(* The ring as a stream of characters *)

\* Where the character i of the stream is.
Slot(kb, i) == (kb.tail + i - 1) % KB_BUFFER_SIZE

LEMMA SlotIs ==
  ASSUME NEW kb \in Key_buffer, NEW i \in 1 .. KB_BUFFER_SIZE
  PROVE  Slot(kb, i) = IF kb.tail + i - 1 < KB_BUFFER_SIZE THEN kb.tail + i - 1
                                                           ELSE kb.tail + i - 1 - KB_BUFFER_SIZE
<1>1. /\ KB_BUFFER_SIZE \in Int /\ kb.tail \in Int /\ 0 <= kb.tail /\ kb.tail < KB_BUFFER_SIZE
      /\ i \in Int /\ 1 <= i /\ i <= KB_BUFFER_SIZE
  BY KeyboardAssumption DEF Key_buffer, Place
<1> DEFINE a == kb.tail + i - 1
<1>2. a \in Int /\ 0 <= a /\ a < KB_BUFFER_SIZE + KB_BUFFER_SIZE
  BY <1>1
<1>3. a % KB_BUFFER_SIZE = IF a < KB_BUFFER_SIZE THEN a ELSE a - KB_BUFFER_SIZE
  <2> HIDE DEF a
  <2> QED BY <1>1, <1>2, ModOnce
<1>4. QED BY <1>1, <1>2, <1>3 DEF Slot

LEMMA FirstCharsSeq ==
  ASSUME NEW kb \in Key_buffer, NEW n \in Nat
  PROVE  /\ FirstChars(kb, n) \in Seq(Char \cup {"zero"}) /\ Len(FirstChars(kb, n)) = n
         /\ \A i \in 1 .. n : FirstChars(kb, n)[i] = kb.buffer[Slot(kb, i)]
<1> DEFINE f == FirstChars(kb, n)
<1>1. f \in Seq(Char \cup {"zero"})
  BY RingType
<1>2. DOMAIN f = 1 .. n /\ \A i \in 1 .. n : f[i] = kb.buffer[Slot(kb, i)]
  BY DEF FirstChars, Slot
<1> HIDE DEF f
<1>3. Len(f) = n
  BY <1>1, <1>2, LenProperties
<1>4. QED BY <1>1, <1>2, <1>3 DEF f

\* A character goes to the end of the stream, unless the ring is full.
LEMMA PushAppends ==
  ASSUME NEW kb \in Key_buffer, NEW c \in Char, kb_buffer_size(kb) < KB_BUFFER_SIZE - 1
  PROVE  FirstChars(Pushed(kb, c), kb_buffer_size(kb) + 1)
           = Append(FirstChars(kb, kb_buffer_size(kb)), c)
<1> DEFINE k == kb_buffer_size(kb)
           z == Pushed(kb, c)
           f == FirstChars(kb, k)
           g == FirstChars(z, k + 1)
           S == Char \cup {"zero"}
<1>1. /\ KB_BUFFER_SIZE \in Int /\ KB_BUFFER_SIZE >= 2
      /\ kb.head \in Int /\ 0 <= kb.head /\ kb.head < KB_BUFFER_SIZE
      /\ kb.tail \in Int /\ 0 <= kb.tail /\ kb.tail < KB_BUFFER_SIZE
  BY KeyboardAssumption DEF Key_buffer, Place
<1>2. k \in Nat /\ k < KB_BUFFER_SIZE - 1 /\ z \in Key_buffer /\ kb.head \in Place
      /\ kb.buffer \in [Place -> S]
  <2>1. \A a \in 0 .. KB_BUFFER_SIZE - 1 : a \in Nat
    BY <1>1
  <2>2. QED BY <2>1, RingSizes, RingType DEF Key_buffer
<1>3. z.tail = kb.tail /\ z.buffer = [kb.buffer EXCEPT ![kb.head] = c]
  BY <1>1, <1>2 DEF Pushed, Key_buffer
<1>4. \A i \in 1 .. k + 1 : i \in 1 .. KB_BUFFER_SIZE /\ Slot(z, i) = Slot(kb, i)
                            /\ Slot(kb, i) \in Place
  <2>1. \A i \in 1 .. k + 1 : i \in 1 .. KB_BUFFER_SIZE /\ kb.tail + i - 1 \in Int
    BY <1>1, <1>2
  <2>2. QED BY <1>3, <2>1, Modulo DEF Slot
<1>5. \A i \in 1 .. k + 1 : Slot(kb, i) = kb.head <=> i = k + 1
  <2> SUFFICES ASSUME NEW i \in 1 .. k + 1 PROVE Slot(kb, i) = kb.head <=> i = k + 1
    OBVIOUS
  <2>1. Slot(kb, i) = IF kb.tail + i - 1 < KB_BUFFER_SIZE THEN kb.tail + i - 1
                                                          ELSE kb.tail + i - 1 - KB_BUFFER_SIZE
    BY <1>4, SlotIs
  <2>2. k = IF kb.head >= kb.tail THEN kb.head - kb.tail
                                  ELSE KB_BUFFER_SIZE - kb.tail + kb.head
    BY DEF kb_buffer_size
  <2>3. i \in Int /\ 1 <= i /\ i <= k + 1
    BY <1>2
  <2> HIDE DEF k
  <2>4. QED BY <1>1, <1>2, <2>1, <2>2, <2>3
<1>6. /\ f \in Seq(S) /\ Len(f) = k
      /\ \A i \in 1 .. k : f[i] = kb.buffer[Slot(kb, i)]
  BY <1>2, FirstCharsSeq
<1>7. /\ g \in Seq(S) /\ Len(g) = k + 1
      /\ \A i \in 1 .. k + 1 : g[i] = z.buffer[Slot(z, i)]
  <2>1. k + 1 \in Nat
    BY <1>2
  <2>2. QED BY <1>2, <2>1, FirstCharsSeq
<1>8. c \in S
  OBVIOUS
<1> HIDE DEF k, z, f, g, S
<1>9. /\ Append(f, c) \in Seq(S) /\ Len(Append(f, c)) = k + 1
      /\ \A i \in 1 .. k : Append(f, c)[i] = f[i]
      /\ Append(f, c)[k + 1] = c
  BY <1>6, <1>8, AppendProperties
<1>10. \A i \in 1 .. k + 1 : g[i] = Append(f, c)[i]
  <2> SUFFICES ASSUME NEW i \in 1 .. k + 1 PROVE g[i] = Append(f, c)[i]
    OBVIOUS
  <2>1. i = k + 1 \/ i \in 1 .. k
    BY <1>2
  <2>2. g[i] = [kb.buffer EXCEPT ![kb.head] = c][Slot(kb, i)]
    BY <1>3, <1>4, <1>7
  <2>3. CASE i = k + 1
    BY <1>2, <1>4, <1>5, <1>9, <2>2, <2>3
  <2>4. CASE i \in 1 .. k
    <3>1. i # k + 1
      BY <1>2, <2>4
    <3>2. g[i] = kb.buffer[Slot(kb, i)]
      BY <1>2, <1>4, <1>5, <2>2, <3>1
    <3>3. QED BY <1>6, <1>9, <2>4, <3>2
  <2>5. QED BY <2>1, <2>3, <2>4
<1>11. g = Append(f, c)
  BY <1>7, <1>9, <1>10, SeqEqual
<1>12. QED BY <1>11 DEF k, z, f, g

LEMMA SubSeqIs ==
  ASSUME NEW S, NEW f \in Seq(S), NEW m \in Nat, NEW n \in Nat, m <= n, n <= Len(f)
  PROVE  /\ SubSeq(f, m + 1, n) \in Seq(S) /\ Len(SubSeq(f, m + 1, n)) = n - m
         /\ \A i \in 1 .. n - m : SubSeq(f, m + 1, n)[i] = f[i + m]
<1>1. /\ m + 1 \in Int /\ n \in Int /\ n - (m + 1) + 1 = n - m
      /\ (IF m + 1 <= n THEN n - m ELSE 0) = n - m
  OBVIOUS
<1>2. \A i \in m + 1 .. n : f[i] \in S
  BY ElementOfSeq
<1>3. /\ SubSeq(f, m + 1, n) \in Seq(S)
      /\ Len(SubSeq(f, m + 1, n)) = IF m + 1 <= n THEN n - (m + 1) + 1 ELSE 0
      /\ \A i \in 1 .. n - (m + 1) + 1 : SubSeq(f, m + 1, n)[i] = f[m + 1 + i - 1]
  BY <1>1, <1>2, SubSeqProperties
<1>4. \A i \in 1 .. n - m : m + 1 + i - 1 = i + m
  OBVIOUS
<1>5. QED BY <1>1, <1>3, <1>4

LEMMA PushMoves ==
  ASSUME NEW kb \in Key_buffer, NEW c \in Char
  PROVE  Pushed(kb, c).head # kb.head
<1>1. /\ KB_BUFFER_SIZE \in Int /\ KB_BUFFER_SIZE >= 2
      /\ kb.head \in Int /\ 0 <= kb.head /\ kb.head < KB_BUFFER_SIZE
  BY KeyboardAssumption DEF Key_buffer, Place
<1>2. kb_buffer_size(kb) < KB_BUFFER_SIZE
  <2>1. \A a \in 0 .. KB_BUFFER_SIZE - 1 : a < KB_BUFFER_SIZE
    BY <1>1
  <2>2. QED BY <2>1, RingSizes
<1>3. Pushed(kb, c).head = (kb.head + 1) % KB_BUFFER_SIZE
  BY <1>2 DEF Pushed, Key_buffer
<1>4. (kb.head + 1) % KB_BUFFER_SIZE = IF kb.head + 1 < KB_BUFFER_SIZE THEN kb.head + 1
                                       ELSE kb.head + 1 - KB_BUFFER_SIZE
  BY <1>1, ModOnce
<1>5. QED BY <1>1, <1>3, <1>4

\* The characters of a read are the first of the stream, which loses them.
LEMMA PopTakes ==
  ASSUME NEW kb \in Key_buffer, NEW n \in 0 .. kb_buffer_size(kb)
  PROVE  LET f == FirstChars(kb, kb_buffer_size(kb))
         IN /\ FirstChars(kb, n) = SubSeq(f, 1, n)
            /\ FirstChars(PoppedChars(kb, n), kb_buffer_size(kb) - n) = SubSeq(f, n + 1, Len(f))
<1> DEFINE k == kb_buffer_size(kb)
           z == PoppedChars(kb, n)
           f == FirstChars(kb, k)
           g == FirstChars(kb, n)
           h == FirstChars(z, k - n)
           S == Char \cup {"zero"}
<1>1. /\ KB_BUFFER_SIZE \in Int /\ KB_BUFFER_SIZE >= 2
      /\ kb.tail \in Int /\ 0 <= kb.tail /\ kb.tail < KB_BUFFER_SIZE
  BY KeyboardAssumption DEF Key_buffer, Place
<1>2. /\ k \in Nat /\ k < KB_BUFFER_SIZE /\ n \in Nat /\ n <= k /\ k - n \in Nat
      /\ z \in Key_buffer
  <2>1. \A a \in 0 .. KB_BUFFER_SIZE - 1 : a \in Nat /\ a < KB_BUFFER_SIZE
    BY <1>1
  <2>2. k \in Nat /\ k < KB_BUFFER_SIZE
    BY <2>1, RingSizes
  <2>3. n \in Nat /\ n <= k /\ k - n \in Nat
    BY <2>2
  <2>4. QED BY <2>2, <2>3, RingType
<1>3. z.buffer = kb.buffer /\ z.tail = (kb.tail + n) % KB_BUFFER_SIZE
  BY DEF PoppedChars, Key_buffer
<1>4. /\ f \in Seq(S) /\ Len(f) = k
      /\ \A i \in 1 .. k : f[i] = kb.buffer[Slot(kb, i)]
  BY <1>2, FirstCharsSeq
<1>5. /\ g \in Seq(S) /\ Len(g) = n
      /\ \A i \in 1 .. n : g[i] = kb.buffer[Slot(kb, i)]
  BY <1>2, FirstCharsSeq
<1>6. /\ h \in Seq(S) /\ Len(h) = k - n
      /\ \A i \in 1 .. k - n : h[i] = z.buffer[Slot(z, i)]
  BY <1>2, FirstCharsSeq
<1>7. \A i \in 1 .. k - n : Slot(z, i) = Slot(kb, i + n)
  <2> SUFFICES ASSUME NEW i \in 1 .. k - n PROVE Slot(z, i) = Slot(kb, i + n)
    OBVIOUS
  <2>1. /\ i \in Int /\ 1 <= i /\ i <= k - n
        /\ i \in 1 .. KB_BUFFER_SIZE /\ i + n \in 1 .. KB_BUFFER_SIZE
    BY <1>1, <1>2
  <2>2. z.tail = IF kb.tail + n < KB_BUFFER_SIZE THEN kb.tail + n ELSE kb.tail + n - KB_BUFFER_SIZE
    BY <1>1, <1>2, <1>3, ModOnce
  <2>3. /\ Slot(z, i) = IF z.tail + i - 1 < KB_BUFFER_SIZE THEN z.tail + i - 1
                                                           ELSE z.tail + i - 1 - KB_BUFFER_SIZE
        /\ Slot(kb, i + n) = IF kb.tail + (i + n) - 1 < KB_BUFFER_SIZE
                             THEN kb.tail + (i + n) - 1
                             ELSE kb.tail + (i + n) - 1 - KB_BUFFER_SIZE
    BY <1>2, <2>1, SlotIs
  <2> HIDE DEF k, z
  <2>4. QED BY <1>1, <1>2, <2>1, <2>2, <2>3
<1> HIDE DEF k, z, f, g, h, S
<1>8. g = SubSeq(f, 1, n)
  <2>1. SubSeq(f, 1, n) \in Seq(S) /\ Len(SubSeq(f, 1, n)) = n
        /\ \A i \in 1 .. n : SubSeq(f, 1, n)[i] = f[i]
    <3>1. 0 \in Nat /\ 0 <= n /\ 0 + 1 = 1 /\ n - 0 = n /\ \A i \in 1 .. n : i + 0 = i
      BY <1>2
    <3>2. /\ SubSeq(f, 0 + 1, n) \in Seq(S) /\ Len(SubSeq(f, 0 + 1, n)) = n - 0
          /\ \A i \in 1 .. n - 0 : SubSeq(f, 0 + 1, n)[i] = f[i + 0]
      BY <1>2, <1>4, <3>1, SubSeqIs
    <3>3. QED BY <3>1, <3>2
  <2>2. \A i \in 1 .. n : i \in 1 .. k
    BY <1>2
  <2>3. QED BY <1>4, <1>5, <2>1, <2>2, SeqEqual
<1>9. h = SubSeq(f, n + 1, Len(f))
  <2>1. /\ SubSeq(f, n + 1, k) \in Seq(S) /\ Len(SubSeq(f, n + 1, k)) = k - n
        /\ \A i \in 1 .. k - n : SubSeq(f, n + 1, k)[i] = f[i + n]
    BY <1>2, <1>4, SubSeqIs
  <2>2. \A i \in 1 .. k - n : i + n \in 1 .. k
    BY <1>2
  <2>3. \A i \in 1 .. k - n : h[i] = SubSeq(f, n + 1, k)[i]
    BY <1>3, <1>4, <1>6, <1>7, <2>1, <2>2
  <2>4. QED BY <1>4, <1>6, <2>1, <2>3, SeqEqual
<1>10. QED BY <1>8, <1>9 DEF k, z, f, g, h

\* The reads of a list of readers, as the abstract specification has them.
AskingOf(q, m) == [i \in DOMAIN q |-> [task |-> q[i], n |-> m[q[i]]]]

LEMMA AskingIs ==
  ASSUME NEW q \in Seq(Task), NEW m \in [Task -> Int]
  PROVE  /\ AskingOf(q, m) \in Seq([task : Task, n : Int])
         /\ Len(AskingOf(q, m)) = Len(q) /\ DOMAIN AskingOf(q, m) = 1 .. Len(q)
         /\ \A i \in 1 .. Len(q) : AskingOf(q, m)[i] = [task |-> q[i], n |-> m[q[i]]]
         /\ AskingOf(q, m) = <<>> <=> q = <<>>
<1> DEFINE a == AskingOf(q, m)
<1>1. DOMAIN q = 1 .. Len(q) /\ Len(q) \in Nat /\ \A i \in 1 .. Len(q) : q[i] \in Task
  BY LenProperties, ElementOfSeq
<1>2. /\ a = [i \in 1 .. Len(q) |-> [task |-> q[i], n |-> m[q[i]]]]
      /\ \A i \in 1 .. Len(q) : [task |-> q[i], n |-> m[q[i]]] \in [task : Task, n : Int]
  BY <1>1 DEF AskingOf
<1> HIDE DEF a
<1>3. a \in Seq([task : Task, n : Int]) /\ Len(a) = Len(q) /\ DOMAIN a = 1 .. Len(q)
  <2> DEFINE S == [task : Task, n : Int]
  <2>1. a \in [1 .. Len(q) -> S]
    BY <1>2
  <2> HIDE DEF S
  <2>2. a \in Seq(S)
    <3>1. [1 .. Len(q) -> S] \in {[1 .. n -> S] : n \in Nat}
      BY <1>1
    <3>2. QED BY <2>1, <3>1, SeqDef
  <2>3. DOMAIN a = 1 .. Len(q)
    BY <2>1
  <2>4. QED BY <1>1, <2>2, <2>3, LenProperties DEF S
<1>4. a = <<>> <=> q = <<>>
  BY <1>3, EmptySeq
<1>5. QED BY <1>2, <1>3, <1>4 DEF a

LEMMA AskingAppend ==
  ASSUME NEW q \in Seq(Task), NEW m \in [Task -> Int], NEW t \in Task, ~Contains(q, t),
         NEW n \in Int
  PROVE  AskingOf(Append(q, t), [m EXCEPT ![t] = n])
           = Append(AskingOf(q, m), [task |-> t, n |-> n])
<1> DEFINE p == Append(q, t)
           z == [m EXCEPT ![t] = n]
           e == [task |-> t, n |-> n]
           a == AskingOf(q, m)
           b == AskingOf(p, z)
           S == [task : Task, n : Int]
<1>1. /\ z \in [Task -> Int] /\ e \in S /\ z[t] = n
      /\ \A x \in Task : x # t => z[x] = m[x]
  OBVIOUS
<1>2. /\ p \in Seq(Task) /\ Len(p) = Len(q) + 1 /\ Len(q) \in Nat
      /\ \A i \in 1 .. Len(q) : p[i] = q[i]
      /\ p[Len(q) + 1] = t
  BY AppendProperties, LenProperties
<1>3. /\ a \in Seq(S) /\ Len(a) = Len(q)
      /\ \A i \in 1 .. Len(q) : a[i] = [task |-> q[i], n |-> m[q[i]]]
  BY AskingIs
<1> HIDE DEF z, p
<1>4. /\ b \in Seq(S) /\ Len(b) = Len(p)
      /\ \A i \in 1 .. Len(p) : b[i] = [task |-> p[i], n |-> z[p[i]]]
  BY <1>1, <1>2, AskingIs
<1> HIDE DEF a, b, e, S
<1>5. /\ Append(a, e) \in Seq(S) /\ Len(Append(a, e)) = Len(q) + 1
      /\ \A i \in 1 .. Len(q) : Append(a, e)[i] = a[i]
      /\ Append(a, e)[Len(q) + 1] = e
  BY <1>1, <1>3, AppendProperties
<1>6. \A i \in 1 .. Len(q) : q[i] \in Task /\ q[i] # t
  BY ElementOfSeq DEF Contains
<1>7. \A i \in 1 .. Len(q) + 1 : b[i] = Append(a, e)[i]
  <2> SUFFICES ASSUME NEW i \in 1 .. Len(q) + 1 PROVE b[i] = Append(a, e)[i]
    OBVIOUS
  <2>1. CASE i \in 1 .. Len(q)
    <3>1. b[i] = [task |-> p[i], n |-> z[p[i]]] /\ p[i] = q[i] /\ Append(a, e)[i] = a[i]
      BY <1>2, <1>4, <1>5, <2>1
    <3>2. z[q[i]] = m[q[i]]
      BY <1>1, <1>6, <2>1
    <3>3. QED BY <1>3, <2>1, <3>1, <3>2
  <2>2. CASE i = Len(q) + 1
    <3>1. b[i] = [task |-> p[i], n |-> z[p[i]]] /\ p[i] = t /\ Append(a, e)[i] = e
      BY <1>2, <1>4, <1>5, <2>2
    <3>2. QED BY <1>1, <3>1 DEF e
  <2>3. i \in 1 .. Len(q) \/ i = Len(q) + 1
    BY <1>2
  <2>4. QED BY <2>1, <2>2, <2>3
<1>8. b = Append(a, e)
  BY <1>2, <1>4, <1>5, <1>7, SeqEqual
<1>9. QED BY <1>8 DEF a, b, e, z, p

LEMMA AskingTail ==
  ASSUME NEW q \in Seq(Task), NEW m \in [Task -> Int], q # <<>>, NEW n \in Int,
         \A i, j \in 1 .. Len(q) : q[i] = q[j] => i = j
  PROVE  /\ Head(AskingOf(q, m)) = [task |-> Head(q), n |-> m[Head(q)]]
         /\ AskingOf(Tail(q), [m EXCEPT ![Head(q)] = n]) = Tail(AskingOf(q, m))
<1> DEFINE r == Head(q)
           p == Tail(q)
           z == [m EXCEPT ![r] = n]
           a == AskingOf(q, m)
           b == AskingOf(p, z)
           S == [task : Task, n : Int]
<1>1. /\ r \in Task /\ r = q[1] /\ Len(q) \in Nat /\ Len(q) >= 1
      /\ p \in Seq(Task) /\ Len(p) = Len(q) - 1
      /\ \A i \in 1 .. Len(q) - 1 : p[i] = q[i + 1]
  BY HeadTailProperties, LenProperties, EmptySeq
<1>2. /\ z \in [Task -> Int] /\ \A x \in Task : x # r => z[x] = m[x]
  BY <1>1
<1>3. /\ a \in Seq(S) /\ Len(a) = Len(q) /\ a # <<>>
      /\ \A i \in 1 .. Len(q) : a[i] = [task |-> q[i], n |-> m[q[i]]]
  BY AskingIs
<1> HIDE DEF z, r, p
<1>4. /\ b \in Seq(S) /\ Len(b) = Len(p)
      /\ \A i \in 1 .. Len(p) : b[i] = [task |-> p[i], n |-> z[p[i]]]
  BY <1>1, <1>2, AskingIs
<1> HIDE DEF a, b, S
<1>5. /\ Head(a) = a[1] /\ Tail(a) \in Seq(S) /\ Len(Tail(a)) = Len(q) - 1
      /\ \A i \in 1 .. Len(q) - 1 : Tail(a)[i] = a[i + 1]
  BY <1>3, HeadTailProperties
<1>6. \A i \in 1 .. Len(q) - 1 : b[i] = Tail(a)[i]
  <2> SUFFICES ASSUME NEW i \in 1 .. Len(q) - 1 PROVE b[i] = Tail(a)[i]
    OBVIOUS
  <2>1. i + 1 \in 1 .. Len(q) /\ i + 1 # 1 /\ 1 \in 1 .. Len(q)
    BY <1>1
  <2>2. q[i + 1] # r /\ q[i + 1] \in Task
    BY <1>1, <2>1, ElementOfSeq
  <2>3. z[q[i + 1]] = m[q[i + 1]]
    BY <1>2, <2>2
  <2>4. b[i] = [task |-> q[i + 1], n |-> z[q[i + 1]]]
    BY <1>1, <1>4
  <2>5. QED BY <1>3, <1>5, <2>1, <2>3, <2>4
<1>7. b = Tail(a)
  <2>1. Len(b) = Len(q) - 1
    BY <1>1, <1>4
  <2>2. Len(b) = Len(Tail(a)) /\ \A i \in 1 .. Len(b) : b[i] = Tail(a)[i]
    BY <1>5, <1>6, <2>1
  <2>3. b \in Seq(S) /\ Tail(a) \in Seq(S)
    BY <1>4, <1>5
  <2>4. QED BY <2>2, <2>3, SeqEqual
<1>8. Head(a) = [task |-> r, n |-> m[r]]
  <2>1. 1 \in 1 .. Len(q)
    BY <1>1
  <2>2. QED BY <1>1, <1>3, <1>5, <2>1
<1>9. QED BY <1>7, <1>8 DEF a, b, z, r, p

----------------------------------------------------------------------------
(* Read and the keyboard implement the stream of keys *)

Stream == FirstChars(kb_buffer, kb_buffer_size(kb_buffer))
Asking == AskingOf(Readers, maxchars)

LEMMA StreamIs ==
  ASSUME KTypes
  PROVE  /\ Len(Stream) = kb_buffer_size(kb_buffer)
         /\ kb_buffer_size(kb_buffer) \in Nat /\ kb_buffer_size(kb_buffer) <= KB_BUFFER_SIZE - 1
<1>1. \A a \in 0 .. KB_BUFFER_SIZE - 1 : a \in Nat /\ a <= KB_BUFFER_SIZE - 1
  BY KeyboardAssumption
<1>2. kb_buffer_size(kb_buffer) \in Nat /\ kb_buffer_size(kb_buffer) <= KB_BUFFER_SIZE - 1
  BY <1>1, RingSizes DEF KTypes
<1>3. QED BY <1>2, FirstCharsSeq DEF Stream, KTypes

\* A call of read, which is served on the spot if nobody waits.
LEMMA ReadAsks ==
  ASSUME TypeOK, Core, KTypes, Asked, Listed, NEW n \in Sizes, ~Reading(current),
         LinesUp(n) \/ ServedNow(n)
  PROVE  KS!Ask(current, n)
<1>1. /\ current \in Task /\ Readers \in Seq(Task) /\ n \in Nat /\ n \in Int
      /\ maxchars \in [Task -> Int] /\ kb_buffer \in Key_buffer
      /\ ~Contains(Readers, current)
  BY ReadersDistinct, KeyboardAssumption
     DEF TypeOK, SchedType, current, KTypes, NoRead, Listed
<1>2. /\ DOMAIN Asking = 1 .. Len(Readers) /\ (Asking = <<>> <=> Readers = <<>>)
      /\ \A i \in 1 .. Len(Readers) : Asking[i].task = Readers[i]
  <2>1. \A i \in 1 .. Len(Readers) :
          Asking[i] = [task |-> Readers[i], n |-> maxchars[Readers[i]]]
    BY <1>1, AskingIs DEF Asking
  <2>2. DOMAIN Asking = 1 .. Len(Readers) /\ (Asking = <<>> <=> Readers = <<>>)
    BY <1>1, AskingIs DEF Asking
  <2>3. QED BY <2>1, <2>2
<1>3. \A i \in DOMAIN Asking : Asking[i].task # current
  BY <1>1, <1>2 DEF Contains
<1>4. Len(Stream) = kb_buffer_size(kb_buffer) /\ kb_buffer_size(kb_buffer) \in Nat
  BY StreamIs
<1>5. CASE LinesUp(n)
  <2>1. ~(Asking = <<>> /\ n <= Len(Stream))
    BY <1>1, <1>2, <1>4, <1>5 DEF LinesUp
  <2>2. Asking' = Append(Asking, [task |-> current, n |-> n])
    BY <1>1, <1>5, AskingAppend DEF LinesUp, Asking
  <2>3. Stream' = Stream /\ delivered' = delivered
    BY <1>5 DEF LinesUp, Stream
  <2>4. QED BY <1>3, <2>1, <2>2, <2>3 DEF KS!Ask, Stream, Asking, AskingOf
<1>6. CASE ServedNow(n)
  <2>1. Asking = <<>> /\ n <= Len(Stream) /\ n \in 0 .. kb_buffer_size(kb_buffer)
    BY <1>1, <1>2, <1>4, <1>6 DEF ServedNow
  <2>2. kb_buffer_size(kb_buffer') = kb_buffer_size(kb_buffer) - n
    BY <1>1, <1>6, <2>1, RingSizes DEF ServedNow
  <2>3. Stream' = SubSeq(Stream, n + 1, Len(Stream))
    BY <1>1, <1>6, <2>1, <2>2, PopTakes DEF ServedNow, Stream
  <2>4. delivered' = [task |-> current, chars |-> SubSeq(Stream, 1, n)]
    BY <1>1, <1>6, <2>1, PopTakes DEF ServedNow, Stream
  <2>5. Asking' = Asking
    BY <1>6 DEF ServedNow, Asking, AskingOf
  <2>6. QED BY <1>3, <2>1, <2>3, <2>4, <2>5 DEF KS!Ask, KS!Serve, Stream, Asking, AskingOf
<1>7. QED BY <1>5, <1>6

\* A key that is typed, and goes to the first reader if it is its last.
LEMMA KeyTypes ==
  ASSUME TypeOK, Core, KTypes, Asked, Listed, NEW c \in Char, ~Full,
         Kept(c) \/ ServedByKey(c)
  PROVE  KS!Type(c)
<1> DEFINE kb == Pushed(kb_buffer, c)
           k  == kb_buffer_size(kb_buffer)
           typed == Append(Stream, c)
<1>1. /\ Readers \in Seq(Task) /\ maxchars \in [Task -> Int]
      /\ kb_buffer \in Key_buffer /\ kb \in Key_buffer
  BY ReadersDistinct, RingType DEF KTypes, NoRead
<1>2. Len(Stream) = k /\ k \in Nat /\ k < KB_BUFFER_SIZE - 1
  BY StreamIs, KeyboardAssumption DEF Full
<1>3. kb_buffer_size(kb) = k + 1 /\ FirstChars(kb, k + 1) = typed
  BY <1>1, <1>2, RingSizes, PushAppends DEF Stream, Full
<1>4. Len(typed) = k + 1
  BY <1>1, <1>2, <1>3, FirstCharsSeq
<1>5. /\ Asking = <<>> <=> Readers = <<>>
      /\ Readers # <<>> =>
           /\ Head(Asking) = [task |-> Head(Readers), n |-> maxchars[Head(Readers)]]
           /\ Head(Readers) \in Task /\ Contains(Readers, Head(Readers))
           /\ AskingOf(Tail(Readers), [maxchars EXCEPT ![Head(Readers)] = NoRead]) = Tail(Asking)
  <2>1. NoRead \in Int
    BY DEF NoRead
  <2>2. QED BY <1>1, <2>1, AskingIs, AskingTail, ReadersDistinct, RemoveHead DEF Asking
<1> HIDE DEF kb, k, typed
<1>6. CASE Kept(c)
  <2>1. kb_buffer' = kb /\ UNCHANGED delivered /\ Asking' = Asking
    BY <1>6 DEF Kept, kb, Asking, AskingOf
  <2>2. Stream' = typed
    BY <1>3, <2>1 DEF Stream
  <2>3. ~(Asking # <<>> /\ Head(Asking).n <= Len(typed))
    <3> SUFFICES ASSUME Asking # <<>> PROVE ~(Head(Asking).n <= Len(typed))
      OBVIOUS
    <3>1. Head(Asking).n = maxchars[Head(Readers)] /\ maxchars[Head(Readers)] \in Int
      BY <1>1, <1>5
    <3>2. k + 1 < maxchars[Head(Readers)]
      BY <1>3, <1>5, <1>6 DEF Kept, kb
    <3>3. QED BY <1>2, <1>4, <3>1, <3>2
  <2>4. QED BY <1>2, <2>1, <2>2, <2>3 DEF KS!Type, Stream, Asking, AskingOf, typed
<1>7. CASE ServedByKey(c)
  <2> DEFINE r == Head(Readers)
             n == maxchars[r]
  <2>1. /\ Readers # <<>> /\ Readers' = Tail(Readers) /\ ~(kb_buffer_size(kb) < n)
        /\ maxchars' = [maxchars EXCEPT ![r] = NoRead] /\ kb_buffer' = PoppedChars(kb, n)
        /\ delivered' = [task |-> r, chars |-> FirstChars(kb, n)]
    BY <1>7 DEF ServedByKey, kb
  <2>2. n \in Nat
    BY <1>5, <2>1, KeyboardAssumption DEF Listed, Reading, Asked
  <2>3. Asking # <<>> /\ Head(Asking).task = r /\ Head(Asking).n = n
    BY <1>5, <2>1
  <2>4. Asking' = Tail(Asking)
    BY <1>5, <2>1 DEF Asking
  <2> HIDE DEF r, n
  <2>5. n <= Len(typed) /\ n \in 0 .. kb_buffer_size(kb)
    BY <1>2, <1>3, <1>4, <2>1, <2>2
  <2>6. /\ FirstChars(kb, n) = SubSeq(typed, 1, n)
        /\ FirstChars(kb_buffer', kb_buffer_size(kb) - n) = SubSeq(typed, n + 1, Len(typed))
    BY <1>1, <1>3, <2>1, <2>5, PopTakes
  <2>7. kb_buffer_size(kb_buffer') = kb_buffer_size(kb) - n
    BY <1>1, <2>1, <2>5, RingSizes
  <2>8. Stream' = SubSeq(typed, n + 1, Len(typed))
    BY <2>6, <2>7 DEF Stream
  <2>9. delivered' = [task |-> r, chars |-> SubSeq(typed, 1, n)]
    BY <2>1, <2>6
  <2>10. QED
    BY <1>2, <2>3, <2>4, <2>5, <2>8, <2>9 DEF KS!Type, KS!Serve, Stream, Asking, AskingOf, typed
<1>8. QED BY <1>6, <1>7

LEMMA StreamInit == KInit => KS!Init
<1> SUFFICES ASSUME KInit PROVE KS!Init
  OBVIOUS
<1>1. /\ kb_buffer = [buffer |-> [p \in Place |-> "zero"], head |-> 0, tail |-> 0]
      /\ delivered = [task |-> task1, chars |-> <<>>] /\ task1 \in Task /\ SchedInit
  BY NrTasksAssumption DEF KInit, Init, task1, Task
<1>2. Readers = <<>>
  BY <1>1 DEF Readers, SchedInit, QueueNames
<1>3. kb_buffer_size(kb_buffer) = 0
  BY <1>1 DEF kb_buffer_size
<1>4. Stream = <<>>
  BY <1>3 DEF Stream, FirstChars
<1>5. Asking = <<>>
  BY <1>2 DEF Asking, AskingOf
<1>6. QED BY <1>1, <1>4, <1>5 DEF KS!Init, Stream, Asking, AskingOf

LEMMA StreamNext ==
  ASSUME ReadInv, [KNext]_allvars, Attended, "unblock_waiter" \notin unguarded',
         Sizes \subseteq 0 .. KB_BUFFER_SIZE - 1
  PROVE  [KS!Next]_(KS!ksvars)
<1>1. /\ SleepInv /\ TypeOK /\ NobodyWakesIdle /\ Asked /\ KTypes /\ LeavesUnlinked
      /\ maxchars \in [Task -> Int] /\ ReadersAreTasks /\ (Running => Core /\ Waiters)
      /\ (Running /\ "unblock_waiter" \notin unguarded => Listed)
  BY DEF ReadInv, WaitingInv, KIInv, IInv, SleepInv, ReadersAreTasks
<1>2. CASE ProcessStep \/ UNCHANGED allvars
  <2>1. [Next]_vars /\ UNCHANGED <<kb_buffer, maxchars, delivered>>
    BY <1>2 DEF ProcessStep, allvars, kbvars
  <2>2. Readers' = Readers
    BY <1>1, <2>1, ReadersStay
  <2>3. Stream' = Stream /\ Asking' = Asking /\ delivered' = delivered
    BY <2>1, <2>2 DEF Stream, Asking, AskingOf
  <2>4. QED BY <2>3 DEF KS!ksvars, Stream, Asking, AskingOf
<1>3. ASSUME NEW n \in Sizes, Read(n) PROVE KS!Next
  <2>1. /\ Running /\ ~Reading(current) /\ "unblock_waiter" \notin unguarded
        /\ current \in Task /\ n \in 0 .. KB_BUFFER_SIZE - 1
    BY <1>1, <1>3 DEF Read, InSyscall, InUserMode, TypeOK, SchedType, current
  <2>2. LinesUp(n) \/ ServedNow(n)
    BY <1>1, <1>3, <2>1, ReadCases
  <2>3. KS!Ask(current, n)
    BY <1>1, <2>1, <2>2, ReadAsks
  <2>4. QED BY <2>1, <2>3 DEF KS!Next
<1>4. ASSUME NEW c \in Char, KeyPress(c) PROVE KS!Next
  <2>1. Running /\ "unblock_waiter" \notin unguarded
    BY <1>4 DEF KeyPress, InUserMode
  <2>2. Kept(c) \/ ServedByKey(c)
    BY <1>1, <1>4, <2>1, KeyCases
  <2>3. kb_buffer'.head = Pushed(kb_buffer, c).head
    BY <1>1, <2>2, RingType DEF Kept, ServedByKey, PoppedChars, KTypes, Key_buffer
  <2>4. ~Full
    BY <1>1, <2>3, PushMoves DEF Attended, KTypes
  <2>5. KS!Type(c)
    BY <1>1, <2>1, <2>2, <2>4, KeyTypes
  <2>6. QED BY <2>5 DEF KS!Next
<1>5. CASE ReadResume
  <2>1. Running /\ "unblock_waiter" \notin unguarded
    BY <1>5 DEF ReadResume, InUserMode
  <2>2. QED BY <1>1, <1>5, <2>1, ResumeCases
<1>6. QED BY <1>2, <1>3, <1>4, <1>5 DEF KNext, KeyAct

\* Among programs that do not unblock a task which waits for another, and that
\* read less at a time than the ring holds, with nobody typing into a full
\* ring, every key goes to one read, in the order of typing and of the calls
\* (Keyboard.ImplementsKeyStream).
THEOREM KeyStreamImplemented ==
  ASSUME "unblock_waiter" \notin Admitted, Sizes \subseteq 0 .. KB_BUFFER_SIZE - 1
  PROVE  AttendedSpec => ImplementsKeyStream
<1> DEFINE Guarded == "unblock_waiter" \notin unguarded
           Step == KNext /\ unguarded' \subseteq Admitted /\ Attended
<1>1. KInit => ReadInv /\ Guarded
  BY ReadInvInit DEF KInit, Init
<1>2. ReadInv /\ Guarded /\ [Step]_allvars => (ReadInv /\ Guarded)'
  <2> SUFFICES ASSUME ReadInv, Guarded, [Step]_allvars PROVE ReadInv' /\ Guarded'
    OBVIOUS
  <2>1. ReadInv'
    BY ReadInvNext
  <2>2. Guarded'
    BY DEF allvars, vars
  <2>3. QED BY <2>1, <2>2
<1>3. ReadInv /\ Guarded /\ Guarded' /\ [Step]_allvars => [KS!Next]_(KS!ksvars)
  <2> SUFFICES ASSUME ReadInv, Guarded', [Step]_allvars PROVE [KS!Next]_(KS!ksvars)
    OBVIOUS
  <2>1. Attended
    BY DEF Attended, allvars, kbvars
  <2>2. QED BY <2>1, StreamNext
<1>4. KInit => KS!Init
  BY StreamInit
<1> HIDE DEF Guarded
<1>5. QED
  BY <1>1, <1>2, <1>3, <1>4, PTL DEF AttendedSpec, ImplementsKeyStream, KS!Spec, Step

=============================================================================

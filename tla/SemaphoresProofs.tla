------------------------- MODULE SemaphoresProofs -------------------------
(***************************************************************************)
(* The process table survives the semaphores: calls that wake tasks other  *)
(* than the caller's children, and a semDestroy and an exit that give the  *)
(* CPU away in the middle, for every number of tasks and of semaphores.    *)
(* A semaphore has one destroyer at most, an owner, and as many waiters as *)
(* its value tells; and it steps as the semaphore of FifoSemaphore.  The   *)
(* kernel under it steps as the one CPU and one queue of RoundRobin, and   *)
(* so a waiter of a destroyed semaphore runs in time to be told.           *)
(***************************************************************************)
EXTENDS Semaphores, ProcessProofs

SemTypes ==
  /\ semaphores \in [Slot -> SemType]
  /\ cont \in [Task -> ContType]

SIInv == IInv /\ SemTypes

\* What a semaphore call leaves alone when it only schedules.
Others == <<pidGlobal, lists, pending_unblocks, exiting, page_fault>>

LEMMA SchedOnlyType ==
  ASSUME TypeOK, sched' \in SchedType, UNCHANGED Others, unguarded' \subseteq Situations
  PROVE  TypeOK'
BY DEF TypeOK, Others, lists

LEMMA NoteType ==
  ASSUME TypeOK, NEW x \in Situations, NEW b, NoteIf(x, b)
  PROVE  unguarded' \subseteq Situations
BY DEF TypeOK, NoteIf

LEMMA WakeFields ==
  ASSUME sched \in SchedType, NEW w \in Task
  PROVE  LET z == Update(sched, w, "readyqueue")
         IN /\ z \in SchedType /\ z.PID = sched.PID /\ z.current = current
            /\ z.current_state = [sched.current_state EXCEPT
                 ![w] = StateOf[IF sched.PID[w] < 0 THEN "freequeue" ELSE "readyqueue"]]
            /\ z.sound => NodeAsNeeded(sched, w)
<1> DEFINE z == Update(sched, w, "readyqueue")
           st == [sched.current_state EXCEPT
                    ![w] = StateOf[IF sched.PID[w] < 0 THEN "freequeue" ELSE "readyqueue"]]
<1>1. "readyqueue" \in QueueNames /\ sched.current = current
  BY DEF QueueNames, current
<1>2. /\ z \in SchedType /\ z.PID = sched.PID /\ z.current = current
      /\ z.sound = (sched.sound /\ NodeAsNeeded(sched, w))
  BY <1>1, UpdateKeeps
<1>3. z.current_state = st
  BY <1>1, UpdateMoves
<1>4. QED BY <1>2, <1>3

\* A sleeper, or whatever task is on the list of a semaphore, is made ready and
\* the CPU given away; the task may be the caller itself.
LEMMA WakeCore ==
  ASSUME TypeOK, Core, ~exiting, NEW w \in Task,
         sched' = SchedNext(Update(sched, w, "readyqueue")),
         UNCHANGED <<heads, pidGlobal, exiting>>, sched'.sound
  PROVE  /\ Core'
         /\ \A t \in Task : IsFree(sched', t) => IsFree(sched, t) \/ sched.PID[t] < 0
<1> DEFINE z == Update(sched, w, "readyqueue")
<1> HIDE DEF z
<1>1. /\ sched \in SchedType /\ "readyqueue" \in QueueNames
      /\ "freequeue" \in QueueNames /\ "readyqueue" # "freequeue"
      /\ sched.current = current /\ current \in Task
  <2>1. sched \in SchedType
    BY DEF TypeOK
  <2>2. sched.current = current /\ current \in Task
    BY <2>1 DEF SchedType, current
  <2>3. QED BY <2>1, <2>2 DEF QueueNames
<1>2. /\ z \in SchedType /\ z.PID = sched.PID /\ z.current = current
      /\ z.current_state = [sched.current_state EXCEPT
           ![w] = StateOf[IF sched.PID[w] < 0 THEN "freequeue" ELSE "readyqueue"]]
  BY <1>1, WakeFields DEF z
<1>3. z.sound
  BY <1>2, SchedNextSound DEF z
<1>4. NodeAsNeeded(sched, w)
  BY <1>1, <1>3, WakeFields DEF z
<1>5. Table(sched, Failed, {Idle, current}) /\ Idle \in {Idle, current}
  BY DEF Core
<1>6. Table(z, Failed, {Idle, z.current})
  BY <1>1, <1>2, <1>4, <1>5, MoveTable DEF z
<1>7. \A n \in QueueNames : \A x \in Task :
          In(z, n, x) <=> IF x = w /\ w # Idle
                          THEN n = (IF sched.PID[w] < 0 THEN "freequeue" ELSE "readyqueue")
                          ELSE In(sched, n, x)
  BY <1>1, <1>4, <1>5, UpdateTable DEF z
<1>8. \A t \in Task : IsFree(z, t) => IsFree(sched, t) \/ sched.PID[t] < 0
  BY <1>1, <1>7 DEF IsFree
<1>9. CASE current = Idle
  <2>1. \A t \in Task : z.PID[t] < pidGlobal
    BY <1>2 DEF Core
  <2>2. sched' = SchedNext(z) /\ exiting' = FALSE
    BY DEF z, TypeOK
  <2>3. Core' /\ \A t \in Task : IsFree(sched', t) <=> IsFree(z, t)
    BY <1>2, <1>6, <1>9, <2>1, <2>2, YieldCore DEF MayYield
  <2>4. QED BY <1>8, <2>3
<1>10. CASE current # Idle
  <2>1. /\ sched.current_state[current] = "ST_RUN"
        /\ ~Linked(sched, current) /\ sched.PID[current] > 0
    BY <1>10, SyscallFacts
  <2>2. ~(sched.PID[current] < 0)
    BY <1>1, <2>1 DEF SchedType
  <2>3. z.current_state[current] = "ST_RUN" <=> ~Linked(z, current)
    <3>1. CASE w = current
      <4>1. In(z, "readyqueue", current)
        BY <1>1, <1>10, <2>2, <1>7, <3>1
      <4>2. z.current_state[current] = "ST_READY"
        BY <1>1, <1>2, <2>2, <3>1 DEF StateOf, SchedType
      <4>3. QED BY <1>1, <4>1, <4>2 DEF Linked, In
    <3>2. CASE w # current
      <4>1. z.current_state[current] = "ST_RUN"
        BY <1>1, <1>2, <2>1, <3>2 DEF SchedType
      <4>2. ~Linked(z, current)
        BY <1>1, <2>1, <1>7, <3>2 DEF Linked, In
      <4>3. QED BY <4>1, <4>2
    <3>3. QED BY <3>1, <3>2
  <2>4. ~IsFree(z, current)
    BY <1>1, <1>10, <2>1, <2>2, <1>7 DEF IsFree, Linked, In
  <2>5. z.PID[current] > 0 /\ \A t \in Task : z.PID[t] < pidGlobal
    BY <1>2, <2>1 DEF Core
  <2>6. sched' = SchedNext(z) /\ exiting' = FALSE
    BY DEF TypeOK, z
  <2>7. Core' /\ \A t \in Task : IsFree(sched', t) <=> IsFree(z, t)
    BY <1>2, <1>6, <2>3, <2>4, <2>5, <2>6, YieldCore DEF MayYield
  <2>8. QED BY <1>8, <2>7
<1>11. QED BY <1>9, <1>10

LEMMA WakeType ==
  ASSUME TypeOK, NEW w \in Task, sched' = SchedNext(Update(sched, w, "readyqueue"))
  PROVE  sched' \in SchedType
<1>1. sched \in SchedType /\ "readyqueue" \in QueueNames
  BY DEF TypeOK, QueueNames
<1>2. Update(sched, w, "readyqueue") \in SchedType
  BY <1>1, UpdateType
<1>3. QED BY <1>2, SchedNextType

\* A step that leaves the scheduler alone leaves the table right.
LEMMA SameCore ==
  ASSUME Core, UNCHANGED <<sched, pidGlobal, lists, exiting>>
  PROVE  Core'
BY DEF Core, Table, CurrentFits, Failed, current, StatesAgree, PidsAgree, PidsUnique,
       IsFree, In, Linked, lists

LEMMA SameInv ==
  ASSUME IInv, UNCHANGED vars
  PROVE  IInv'
BY TypeNext, CoreNext DEF IInv

\* A step that schedules one task, whose node the kernel finds as it needs it.
LEMMA WakeInv ==
  ASSUME IInv, InUserMode, NEW w \in Task,
         sched' = SchedNext(Update(sched, w, "readyqueue")),
         UNCHANGED Others, unguarded' \subseteq Situations
  PROVE  IInv'
<1>1. TypeOK /\ Core /\ ~exiting /\ UNCHANGED <<heads, pidGlobal, exiting>>
  BY DEF IInv, InUserMode, Others, lists
<1>2. TypeOK'
  BY <1>1, WakeType, SchedOnlyType
<1>3. Running' => Core'
  BY <1>1, WakeCore DEF Running
<1>4. QED BY <1>2, <1>3 DEF IInv

\* The lists are broken, and the kernel stops.
LEMMA BrokenInv ==
  ASSUME IInv, sched' = [sched EXCEPT !.sound = FALSE], UNCHANGED Others,
         unguarded' \subseteq Situations
  PROVE  IInv'
<1>1. sched' \in SchedType /\ ~sched'.sound
  BY DEF IInv, TypeOK, SchedType
<1>2. TypeOK'
  BY <1>1, SchedOnlyType DEF IInv
<1>3. QED BY <1>1, <1>2 DEF IInv, Running

\* A step of the calls that module Process models.
LEMMA ProcessInv ==
  ASSUME IInv, [Next]_vars
  PROVE  IInv'
BY TypeNext, CoreNext DEF IInv

----------------------------------------------------------------------------
(* The semaphores' own state *)

LEMMA SemTypesSame ==
  ASSUME SemTypes, UNCHANGED semvars
  PROVE  SemTypes'
BY DEF SemTypes, semvars

LEMMA GoOn ==
  ASSUME SemTypes, NEW t \in Task, NEW c \in ContType
  PROVE  [cont EXCEPT ![t] = c] \in [Task -> ContType]
BY DEF SemTypes

LEMMA OneSemaphore ==
  ASSUME SemTypes, NEW i \in Slot, NEW s \in SemType
  PROVE  [semaphores EXCEPT ![i] = s] \in [Slot -> SemType]
BY DEF SemTypes

LEMMA Semaphore ==
  ASSUME SemTypes, NEW i \in Slot
  PROVE  /\ semaphores[i] \in SemType
         /\ semaphores[i].value \in Int /\ semaphores[i].creatorPID \in Int
         /\ semaphores[i].free \in BOOLEAN
         /\ semaphores[i].blockedThreads \in Seq(Task)
BY DEF SemTypes, SemType

\* The changes that the calls make to a slot.
LEMMA SlotChanges ==
  ASSUME SemTypes, NEW i \in Slot, NEW v \in Int, NEW q \in Seq(Task), NEW f \in BOOLEAN
  PROVE  /\ [semaphores EXCEPT ![i].value = v] \in [Slot -> SemType]
         /\ [semaphores EXCEPT ![i].free = f] \in [Slot -> SemType]
         /\ [semaphores EXCEPT ![i].value = v, ![i].blockedThreads = q] \in [Slot -> SemType]
         /\ [semaphores EXCEPT ![i].creatorPID = v, ![i].blockedThreads = q]
              \in [Slot -> SemType]
<1>1. semaphores[i] \in SemType
  BY Semaphore
<1>2. /\ [semaphores[i] EXCEPT !.value = v] \in SemType
      /\ [semaphores[i] EXCEPT !.free = f] \in SemType
      /\ [semaphores[i] EXCEPT !.value = v, !.blockedThreads = q] \in SemType
      /\ [semaphores[i] EXCEPT !.creatorPID = v, !.blockedThreads = q] \in SemType
  BY <1>1 DEF SemType
<1>3. /\ [semaphores EXCEPT ![i].value = v]
           = [semaphores EXCEPT ![i] = [semaphores[i] EXCEPT !.value = v]]
      /\ [semaphores EXCEPT ![i].free = f]
           = [semaphores EXCEPT ![i] = [semaphores[i] EXCEPT !.free = f]]
      /\ [semaphores EXCEPT ![i].value = v, ![i].blockedThreads = q]
           = [semaphores EXCEPT
                ![i] = [semaphores[i] EXCEPT !.value = v, !.blockedThreads = q]]
      /\ [semaphores EXCEPT ![i].creatorPID = v, ![i].blockedThreads = q]
           = [semaphores EXCEPT
                ![i] = [semaphores[i] EXCEPT !.creatorPID = v, !.blockedThreads = q]]
  BY DEF SemTypes
<1>4. QED BY <1>2, <1>3, OneSemaphore

LEMMA UserType ==
  /\ User \in ContType
  /\ \A op \in Ops, i \in Slot : [op |-> op, slot |-> i] \in ContType
BY SemAssumption DEF User, ContType, Ops, Slot

----------------------------------------------------------------------------
(* The actions *)

LEMMA SemCreateInv ==
  ASSUME SIInv, NEW v \in InitialValues, SemCreate(v)
  PROVE  SIInv'
<1>1. v \in Int /\ IInv /\ SemTypes /\ current \in Task /\ sched.PID[current] \in Int
  BY SemAssumption DEF SIInv, IInv, TypeOK, SchedType, current
<1>2. PICK i \in Slot :
        semaphores' = [semaphores EXCEPT
                         ![i] = [value |-> v, free |-> FALSE,
                                 creatorPID |-> sched.PID[current],
                                 blockedThreads |-> <<>>]]
  BY DEF SemCreate
<1>3. [value |-> v, free |-> FALSE, creatorPID |-> sched.PID[current],
       blockedThreads |-> <<>>] \in SemType
  BY <1>1 DEF SemType
<1>4. SemTypes'
  BY <1>1, <1>2, <1>3, OneSemaphore DEF SemTypes, SemCreate
<1>5. IInv'
  <2>1. UNCHANGED <<sched, pidGlobal, lists, pending_unblocks, exiting, page_fault>>
    BY DEF SemCreate
  <2>2. unguarded' \subseteq Situations
    <3>1. "negative_value" \in Situations /\ TypeOK
      BY <1>1 DEF Situations, IInv
    <3>2. QED BY <3>1, NoteType DEF SemCreate
  <2>3. TypeOK'
    BY <1>1, <2>1, <2>2, SchedOnlyType DEF IInv, Others, TypeOK
  <2>4. Running' => Core'
    BY <1>1, <2>1, SameCore DEF IInv, Running
  <2>5. QED BY <2>3, <2>4 DEF IInv
<1>6. QED BY <1>4, <1>5 DEF SIInv

LEMMA SemWaitInv ==
  ASSUME SIInv, NEW i \in Slot, SemWait(i)
  PROVE  SIInv'
<1> DEFINE s == semaphores[i]
<1>1. /\ IInv /\ SemTypes /\ TypeOK /\ Core /\ ~exiting /\ current # Idle
      /\ UNCHANGED Others /\ UNCHANGED unguarded
      /\ sched \in SchedType /\ current \in Task
  BY DEF SIInv, IInv, SemWait, SemSyscall, InSyscall, InUserMode, Others, TypeOK,
         SchedType, current
<1>2. /\ s \in SemType /\ s.value \in Int /\ s.creatorPID \in Int /\ s.free \in BOOLEAN
      /\ s.blockedThreads \in Seq(Task)
  BY <1>1, Semaphore
<1>3. CASE s.value - 1 < 0
  <2> DEFINE ok == sched.sound /\ ~SemLinked(current)
  <2>1. /\ semaphores' = [semaphores EXCEPT ![i].value = @ - 1,
                                            ![i].blockedThreads = Append(@, current)]
        /\ sched' = SchedNext(Update([sched EXCEPT !.sound = ok], current, "blocked"))
        /\ cont' = [cont EXCEPT ![current] = [op |-> "sem_wait", slot |-> i]]
    BY <1>3 DEF SemWait
  <2>2. ok \in BOOLEAN
    BY <1>1 DEF SchedType, SemLinked
  <2>3. SemTypes'
    <3>1. Append(s.blockedThreads, current) \in Seq(Task) /\ s.value - 1 \in Int
      BY <1>1, <1>2
    <3>2. semaphores' \in [Slot -> SemType]
      BY <1>1, <2>1, <3>1, SlotChanges
    <3>3. "sem_wait" \in Ops
      BY DEF Ops
    <3>4. cont' \in [Task -> ContType]
      BY <1>1, <2>1, <3>3, UserType, GoOn
    <3>5. QED BY <3>2, <3>4 DEF SemTypes
  <2> HIDE DEF ok
  <2>4. sched' \in SchedType
    <3>1. [sched EXCEPT !.sound = ok] \in SchedType /\ "blocked" \in QueueNames
      BY <1>1, <2>2 DEF SchedType, QueueNames
    <3>2. Update([sched EXCEPT !.sound = ok], current, "blocked") \in SchedType
      BY <1>1, <3>1, UpdateType
    <3>3. QED BY <2>1, <3>2, SchedNextType
  <2>5. TypeOK'
    BY <1>1, <2>4, SchedOnlyType DEF TypeOK
  <2>6. UNCHANGED <<heads, pidGlobal, exiting>>
    BY <1>1 DEF Others, lists
  <2>7. Core'
    BY <1>1, <2>1, <2>2, <2>6, SleepCore
  <2>8. QED BY <2>3, <2>5, <2>7 DEF SIInv, IInv
<1>4. CASE ~(s.value - 1 < 0)
  <2>1. /\ semaphores' = [semaphores EXCEPT ![i].value = @ - 1]
        /\ UNCHANGED <<sched, cont>>
    BY <1>4 DEF SemWait
  <2>2. IInv'
    BY <1>1, <2>1, SameInv DEF Others, lists, vars
  <2>3. SemTypes'
    <3>1. s.value - 1 \in Int
      BY <1>2
    <3>2. semaphores' \in [Slot -> SemType]
      BY <1>1, <1>2, <2>1, <3>1, SlotChanges
    <3>3. QED BY <1>1, <2>1, <3>2 DEF SemTypes
  <2>4. QED BY <2>2, <2>3 DEF SIInv
<1>5. QED BY <1>3, <1>4

\* What the task woken by a round of a destruction is told.
LEMMA DestroyRoundInv ==
  ASSUME SIInv, DestroyRound
  PROVE  SIInv'
<1> DEFINE i == SlotOf(current)
           q == semaphores[i].blockedThreads
<1>1. /\ IInv /\ SemTypes /\ TypeOK /\ InUserMode /\ current \in Task
      /\ i \in 0 .. NUM_SEMS /\ i # 0
  BY DEF SIInv, IInv, DestroyRound, TypeOK, SchedType, current, SemTypes, ContType, SlotOf
<1>2. i \in Slot
  BY <1>1, SemAssumption DEF Slot
<1>3. /\ q # <<>>
      /\ semaphores' = [semaphores EXCEPT ![i].creatorPID = -1,
                                          ![i].blockedThreads = Tail(@)]
      /\ sched' = SchedNext(Update(sched, Head(q), "readyqueue"))
      /\ cont' = IF cont[Head(q)].op = "sem_wait"
                 THEN [cont EXCEPT ![Head(q)].op = "destroyed"] ELSE cont
      /\ UNCHANGED Others /\ UNCHANGED unguarded
  BY DEF DestroyRound, Others
<1>4. q \in Seq(Task)
  BY <1>1, <1>2, Semaphore
<1>5. Head(q) \in Task /\ Tail(q) \in Seq(Task)
  BY <1>3, <1>4, HeadTailProperties
<1>6. semaphores' \in [Slot -> SemType]
  <2>1. -1 \in Int
    OBVIOUS
  <2>2. [semaphores EXCEPT ![i].creatorPID = -1, ![i].blockedThreads = Tail(q)]
          \in [Slot -> SemType]
    BY <1>1, <1>2, <1>5, <2>1, SlotChanges
  <2>3. QED BY <1>3, <2>2
<1>7. cont' \in [Task -> ContType]
  BY <1>1, <1>3, <1>5 DEF SemTypes, ContType, Ops
<1> HIDE DEF q, i
<1>8. IInv'
  BY <1>1, <1>3, <1>5, WakeInv DEF TypeOK
<1>9. QED BY <1>6, <1>7, <1>8 DEF SIInv, SemTypes

LEMMA SemSignalInv ==
  ASSUME SIInv, NEW i \in Slot, SemSignal(i)
  PROVE  SIInv'
<1> DEFINE q == semaphores[i].blockedThreads
<1>1. /\ IInv /\ SemTypes /\ TypeOK /\ InUserMode /\ UNCHANGED Others /\ UNCHANGED cont
      /\ unguarded \subseteq Situations
  BY DEF SIInv, IInv, SemSignal, SemSyscall, InSyscall, TypeOK, Others
<1>2. q \in Seq(Task) /\ semaphores[i].value \in Int /\ semaphores[i].value + 1 \in Int
  BY <1>1, Semaphore
<1>3. CASE semaphores[i].value + 1 > 0
  <2>1. semaphores' = [semaphores EXCEPT ![i].value = @ + 1] /\ UNCHANGED <<sched, unguarded>>
    BY <1>3 DEF SemSignal
  <2>2. semaphores' \in [Slot -> SemType]
    BY <1>1, <1>2, <2>1, SlotChanges
  <2>3. IInv'
    BY <1>1, <2>1, SameInv DEF Others, lists, vars
  <2>4. QED BY <1>1, <2>2, <2>3 DEF SIInv, SemTypes
<1>4. CASE ~(semaphores[i].value + 1 > 0) /\ q # <<>>
  <2>1. /\ semaphores' = [semaphores EXCEPT ![i].value = @ + 1, ![i].blockedThreads = Tail(@)]
        /\ sched' = SchedNext(Update(sched, Head(q), "readyqueue"))
        /\ UNCHANGED unguarded
    BY <1>4 DEF SemSignal
  <2>2. Head(q) \in Task /\ Tail(q) \in Seq(Task)
    BY <1>2, <1>4, HeadTailProperties
  <2>3. semaphores' \in [Slot -> SemType]
    BY <1>1, <1>2, <2>1, <2>2, SlotChanges
  <2> HIDE DEF q
  <2>4. IInv'
    BY <1>1, <2>1, <2>2, WakeInv
  <2>5. QED BY <1>1, <2>3, <2>4 DEF SIInv, SemTypes
<1>5. CASE ~(semaphores[i].value + 1 > 0) /\ q = <<>>
  <2>1. /\ sched' = [sched EXCEPT !.sound = FALSE]
        /\ NoteIf("signal_dying", Dying(i))
        /\ UNCHANGED semaphores
    BY <1>5 DEF SemSignal
  <2>2. unguarded' \subseteq Situations
    <3>1. "signal_dying" \in Situations
      BY DEF Situations
    <3>2. QED BY <1>1, <2>1, <3>1, NoteType
  <2>3. IInv'
    BY <1>1, <2>1, <2>2, BrokenInv
  <2>4. QED BY <1>1, <2>1, <2>3 DEF SIInv, SemTypes
<1>6. QED BY <1>3, <1>4, <1>5

\* fork, create_thread, unblock: the calls of module Process, or a broken list,
\* or a wake-up that module Process does not know.
LEMMA SemSpawnInv ==
  ASSUME SIInv, SemSpawn
  PROVE  SIInv'
<1>1. IInv /\ SemTypes /\ UNCHANGED semvars /\ TypeOK
  BY DEF SIInv, IInv, SemSpawn
<1>2. CASE FreeQueue # <<>> /\ SemLinked(Head(FreeQueue))
  <2>1. /\ sched' = [sched EXCEPT !.sound = FALSE] /\ UNCHANGED Others
        /\ unguarded' \subseteq Situations
    BY <1>1, <1>2 DEF SemSpawn, Others, TypeOK
  <2>2. QED BY <1>1, <2>1, BrokenInv, SemTypesSame DEF SIInv
<1>3. CASE ~(FreeQueue # <<>> /\ SemLinked(Head(FreeQueue)))
  <2>1. Next
    BY <1>3 DEF SemSpawn, Next
  <2>2. QED BY <1>1, <2>1, ProcessInv, SemTypesSame DEF SIInv
<1>4. QED BY <1>2, <1>3

LEMMA SemUnblockInv ==
  ASSUME SIInv, NEW pid \in Pids, SemUnblock(pid)
  PROVE  SIInv'
<1> DEFINE inSemaphore == \E fill \in fills[current] :
                            /\ sched.PID[fill] = pid
                            /\ sched.current_state[fill] = "ST_BLOCKED"
                            /\ SemLinked(fill)
<1>1. /\ IInv /\ SemTypes /\ UNCHANGED semvars /\ TypeOK /\ InUserMode
      /\ fills[current] \subseteq Task
  BY DEF SIInv, IInv, SemUnblock, SemSyscall, InSyscall, TypeOK, SchedType, current
<1>2. CASE inSemaphore
  <2>1. PICK fill \in fills[current] :
          /\ sched' = SchedNext(Update(sched, fill, "readyqueue"))
          /\ NoteIf("unblock_waiter", TRUE)
          /\ UNCHANGED Others
    BY <1>2 DEF SemUnblock, Others
  <2>2. unguarded' \subseteq Situations
    <3>1. "unblock_waiter" \in Situations
      BY DEF Situations
    <3>2. QED BY <1>1, <2>1, <3>1, NoteType
  <2>3. IInv'
    BY <1>1, <2>1, <2>2, WakeInv
  <2>4. QED BY <1>1, <2>3, SemTypesSame DEF SIInv
<1>3. CASE ~inSemaphore
  <2>1. Next
    BY <1>3 DEF SemUnblock, Next
  <2>2. QED BY <1>1, <2>1, ProcessInv, SemTypesSame DEF SIInv
<1>4. QED BY <1>2, <1>3

\* The steps that only move a task on in its call.
LEMMA MoveOnInv ==
  ASSUME SIInv, SemWaitReturn \/ (\E i \in Slot : SemDestroy(i)) \/ DestroyEnd
                  \/ SemExit \/ ExitDestroy
  PROVE  SIInv'
<1>1. IInv /\ SemTypes /\ current \in Task
  BY DEF SIInv, IInv, TypeOK, SchedType, current
<1>2. UNCHANGED vars
  BY DEF SemWaitReturn, SemDestroy, DestroyEnd, SemExit, ExitDestroy
<1>3. IInv'
  BY <1>1, <1>2, SameInv
<1>4. SemTypes'
  <2>1. CASE SemWaitReturn
    BY <1>1, <2>1, UserType, GoOn DEF SemWaitReturn, SemTypes
  <2>2. ASSUME NEW i \in Slot, SemDestroy(i) PROVE SemTypes'
    BY <1>1, <2>2, UserType, GoOn DEF SemDestroy, SemTypes, Ops
  <2>3. CASE DestroyEnd
    <3>1. SlotOf(current) \in Slot
      BY <1>1, <2>3, SemAssumption DEF DestroyEnd, SlotOf, SemTypes, ContType, Slot
    <3>2. semaphores' \in [Slot -> SemType]
      <4>1. TRUE \in BOOLEAN
        OBVIOUS
      <4>2. QED BY <1>1, <2>3, <3>1, <4>1, Semaphore, SlotChanges DEF DestroyEnd
    <3>3. cont' \in [Task -> ContType]
      BY <1>1, <2>3, UserType, SemAssumption DEF DestroyEnd, SemTypes, ContType
    <3>4. QED BY <3>2, <3>3 DEF SemTypes
  <2>4. CASE SemExit
    BY <1>1, <2>4, SemAssumption DEF SemExit, SemTypes, ContType, Ops
  <2>5. CASE ExitDestroy
    <3>1. PICK i \in Slot : cont' = [cont EXCEPT ![current].slot = i]
      BY <2>5 DEF ExitDestroy
    <3>2. i \in 0 .. NUM_SEMS /\ cont[current] \in ContType
      BY <1>1, SemAssumption DEF Slot, SemTypes
    <3>3. [cont[current] EXCEPT !.slot = i] \in ContType
      BY <3>2 DEF ContType
    <3>4. cont' = [cont EXCEPT ![current] = [cont[current] EXCEPT !.slot = i]]
      BY <3>1
    <3>5. cont' \in [Task -> ContType]
      BY <1>1, <3>3, <3>4, GoOn
    <3>6. QED BY <1>1, <2>5, <3>5 DEF ExitDestroy, SemTypes
  <2>6. QED BY <2>1, <2>2, <2>3, <2>4, <2>5
<1>5. QED BY <1>3, <1>4 DEF SIInv

\* The steps that are steps of module Process.
LEMMA ProcessStepInv ==
  ASSUME SIInv, ExitTask \/ ExitLoop \/ OtherCall \/ (Halted /\ UNCHANGED semvars)
                  \/ UNCHANGED allvars
  PROVE  SIInv'
<1>1. IInv /\ SemTypes /\ current \in Task
  BY DEF SIInv, IInv, TypeOK, SchedType, current
<1>2. [Next]_vars
  BY DEF ExitTask, ExitLoop, OtherCall, Next, allvars
<1>3. IInv'
  BY <1>1, <1>2, ProcessInv
<1>4. SemTypes'
  <2>1. CASE ExitTask
    BY <1>1, <2>1, UserType, GoOn DEF ExitTask, SemTypes
  <2>2. CASE ~ExitTask
    BY <1>1, <2>2, SemTypesSame DEF ExitLoop, OtherCall, allvars
  <2>3. QED BY <2>1, <2>2
<1>5. QED BY <1>3, <1>4 DEF SIInv

----------------------------------------------------------------------------

LEMMA SemInitInv == SemInit => SIInv
<1> SUFFICES ASSUME SemInit PROVE SIInv
  OBVIOUS
<1>1. IInv
  BY TypeInit, CoreInit DEF SemInit, IInv
<1>2. [value |-> 0, free |-> TRUE, creatorPID |-> 0, blockedThreads |-> <<>>] \in SemType
  BY DEF SemType
<1>3. SemTypes
  BY <1>2, UserType DEF SemInit, SemTypes
<1>4. QED BY <1>1, <1>3 DEF SIInv

LEMMA SemNextInv ==
  ASSUME SIInv, [SemNext]_allvars
  PROVE  SIInv'
BY SemCreateInv, SemWaitInv, SemSignalInv, SemSpawnInv, SemUnblockInv, DestroyRoundInv,
   MoveOnInv, ProcessStepInv DEF SemNext, KernelStep

LEMMA SemInductive == SemSpec => []SIInv
<1>1. SIInv /\ [SemNext /\ unguarded' \subseteq Admitted]_allvars => SIInv'
  BY SemNextInv
<1>2. QED BY <1>1, SemInitInv, PTL DEF SemSpec

\* The kernel's tables, the slots and the tasks' places in the semaphore calls
\* keep their types, for every number of slots and whatever semCreate is given.
THEOREM SemTypeCorrect == SemSpec => []SemTypeOK
<1>1. SIInv => SemTypeOK
  BY DEF SIInv, IInv, SemTypes, SemTypeOK
<1>2. QED BY <1>1, SemInductive, PTL

\* Whatever tasks wait for, signal and destroy, and wherever in the loops of
\* semDestroy and exit another one gets the CPU, every PCB stays in the one
\* place that its state names (Process.Placement).
THEOREM SemPlacementHolds == SemSpec => []Placement
<1>1. SIInv => Placement
  BY CorePlacement DEF SIInv, IInv, Placement
<1>2. QED BY <1>1, SemInductive, PTL

\* And no two tasks in use have the same PID, which is what semDestroy tells
\* the creator by (Process.UniquePids).
THEOREM SemUniquePidsHold == SemSpec => []UniquePids
<1>1. SIInv => UniquePids
  BY CoreUniquePids DEF SIInv, IInv, UniquePids
<1>2. QED BY <1>1, SemInductive, PTL

----------------------------------------------------------------------------
(* One destroyer.  A second task finds the creator of a semaphore under    *)
(* destruction to be -1, nobody's PID, because the destroyer writes that   *)
(* before it first gives the CPU away: until then it is the one running.   *)

Destroys(t, i) == cont[t].op \in {"destroy", "exit"} /\ SlotOf(t) = i

DInv ==
  /\ \A t \in Task : \A i \in Slot : Destroys(t, i) =>
       /\ ~semaphores[i].free
       /\ t = current \/ semaphores[i].creatorPID = -1
  /\ \A t, u \in Task : \A i \in Slot : Destroys(t, i) /\ Destroys(u, i) => t = u
  /\ exiting => At("user")

\* A step that adds no destroyer.
LEMMA NoNewDestroyer ==
  ASSUME DInv, NEW running, running = current', NEW isExiting, isExiting = exiting',
         \A t \in Task : \A i \in Slot : Destroys(t, i)' =>
           /\ Destroys(t, i)
           /\ semaphores'[i].free = semaphores[i].free
           /\ semaphores'[i].creatorPID \in {semaphores[i].creatorPID, -1},
         \/ running = current
         \/ \A i \in Slot : Destroys(current, i) => semaphores'[i].creatorPID = -1,
         isExiting => cont'[running].op = "user"
  PROVE  DInv'
BY DEF DInv, At

\* A task in its program calls something that schedules.
LEMMA CallDestroyer ==
  ASSUME SIInv, DInv, At("user"), ~exiting, ~exiting',
         \A t \in Task : cont'[t] = cont[t] \/ cont'[t].op \notin {"destroy", "exit"},
         \A i \in Slot : ~semaphores[i].free =>
           /\ semaphores'[i].free = semaphores[i].free
           /\ semaphores'[i].creatorPID = semaphores[i].creatorPID
  PROVE  DInv'
<1>1. \A i \in Slot : ~Destroys(current, i)
  BY DEF Destroys, At
<1>2. \A t \in Task : \A i \in Slot : Destroys(t, i)' =>
        /\ Destroys(t, i)
        /\ semaphores'[i].free = semaphores[i].free
        /\ semaphores'[i].creatorPID \in {semaphores[i].creatorPID, -1}
  BY DEF DInv, Destroys, SlotOf
<1>3. QED BY <1>1, <1>2, NoNewDestroyer

\* semWait and semSignal leave it as it is whose a semaphore is.
LEMMA SameOwner ==
  ASSUME SemTypes, current \in Task, NEW i \in Slot, SemWait(i) \/ SemSignal(i)
  PROVE  \A j \in Slot : /\ semaphores'[j].free = semaphores[j].free
                         /\ semaphores'[j].creatorPID = semaphores[j].creatorPID
<1>1. \/ UNCHANGED semaphores
      \/ \E v \in Int : semaphores' = [semaphores EXCEPT ![i].value = v]
      \/ \E v \in Int, q \in Seq(Task) :
           semaphores' = [semaphores EXCEPT ![i].value = v, ![i].blockedThreads = q]
  <2>1. /\ semaphores[i].value + 1 \in Int /\ semaphores[i].value - 1 \in Int
        /\ semaphores[i].blockedThreads \in Seq(Task)
    BY Semaphore
  <2>2. /\ Append(semaphores[i].blockedThreads, current) \in Seq(Task)
        /\ semaphores[i].blockedThreads # <<>> =>
             Tail(semaphores[i].blockedThreads) \in Seq(Task)
    BY <2>1, HeadTailProperties
  <2>3. CASE SemWait(i)
    BY <2>1, <2>2, <2>3 DEF SemWait
  <2>4. CASE SemSignal(i)
    BY <2>1, <2>2, <2>4 DEF SemSignal
  <2>5. QED BY <2>3, <2>4
<1>2. \A v, q :
        /\ [semaphores EXCEPT ![i].value = v][i].free = semaphores[i].free
        /\ [semaphores EXCEPT ![i].value = v][i].creatorPID = semaphores[i].creatorPID
        /\ LET both == [semaphores EXCEPT ![i].value = v, ![i].blockedThreads = q]
           IN both[i].free = semaphores[i].free
              /\ both[i].creatorPID = semaphores[i].creatorPID
  <2>1. semaphores[i] \in SemType
    BY Semaphore
  <2>2. QED BY <2>1 DEF SemTypes, SemType
<1>3. \A j \in Slot \ {i} : semaphores'[j] = semaphores[j]
  BY <1>1 DEF SemTypes
<1>4. /\ semaphores'[i].free = semaphores[i].free
      /\ semaphores'[i].creatorPID = semaphores[i].creatorPID
  <2>1. CASE UNCHANGED semaphores
    BY <2>1
  <2>2. ASSUME NEW v \in Int, semaphores' = [semaphores EXCEPT ![i].value = v]
        PROVE  /\ semaphores'[i].free = semaphores[i].free
               /\ semaphores'[i].creatorPID = semaphores[i].creatorPID
    BY <2>2, <1>2
  <2>3. ASSUME NEW v \in Int, NEW q \in Seq(Task),
               semaphores' = [semaphores EXCEPT ![i].value = v, ![i].blockedThreads = q]
        PROVE  /\ semaphores'[i].free = semaphores[i].free
               /\ semaphores'[i].creatorPID = semaphores[i].creatorPID
    BY <2>3, <1>2
  <2>4. QED BY <1>1, <2>1, <2>2, <2>3
<1>5. QED BY <1>3, <1>4

\* The calls that touch no semaphore.
LEMMA OtherCalls ==
  ASSUME SemSpawn \/ (\E pid \in Pids : SemUnblock(pid)) \/ OtherCall
  PROVE  InUserMode /\ At("user") /\ ~exiting /\ ~exiting' /\ UNCHANGED semvars
<1>1. InUserMode /\ At("user") /\ ~exiting /\ UNCHANGED semvars
  BY DEF SemSpawn, SemUnblock, OtherCall, SemSyscall, InSyscall, InUserMode,
     Fork, CreateThread, CreateThreadPageFault, ForkNoFrames, ForkPageFault, Block,
     UnblockNobody, WaitThread, ClockInterrupt
<1>2. SemSpawn => UNCHANGED exiting
  BY DEF SemSpawn, Fork, CreateThread, Spawn, CreateThreadPageFault, ForkNoFrames,
         ForkPageFault
<1>3. (\E pid \in Pids : SemUnblock(pid)) => UNCHANGED exiting
  BY DEF SemUnblock, Unblock
<1>4. OtherCall => UNCHANGED exiting
  BY DEF OtherCall, Block, UnblockNobody, WaitThread, ClockInterrupt
<1>5. QED BY <1>1, <1>2, <1>3, <1>4

LEMMA RoundDestroyer ==
  ASSUME SIInv, DInv, DestroyRound
  PROVE  DInv'
<1> DEFINE i == SlotOf(current)
           w == Head(semaphores[i].blockedThreads)
<1>1. /\ SemTypes /\ current \in Task /\ ~exiting /\ exiting' = FALSE
      /\ i \in 0 .. NUM_SEMS /\ i # 0
  BY DEF SIInv, IInv, DestroyRound, InUserMode, TypeOK, SchedType, current, SemTypes,
         ContType, SlotOf
<1>2. i \in Slot
  BY <1>1, SemAssumption DEF Slot
<1>3. /\ semaphores' = [semaphores EXCEPT ![i].creatorPID = -1,
                                          ![i].blockedThreads = Tail(@)]
      /\ \/ cont' = [cont EXCEPT ![w].op = "destroyed"]
         \/ cont' = cont
  BY DEF DestroyRound
<1> HIDE DEF w
<1>4. \A t \in Task : cont'[t] = cont[t] \/ cont'[t].op = "destroyed"
  BY <1>1, <1>3 DEF SemTypes, ContType
<1>5. /\ semaphores'[i].creatorPID = -1
      /\ \A j \in Slot : /\ semaphores'[j].free = semaphores[j].free
                         /\ semaphores'[j].creatorPID \in {semaphores[j].creatorPID, -1}
  BY <1>1, <1>2, <1>3 DEF SemTypes, SemType
<1>6. \A t \in Task : \A j \in Slot : Destroys(t, j)' => Destroys(t, j)
  BY <1>4 DEF Destroys, SlotOf
<1>7. \A j \in Slot : Destroys(current, j) => semaphores'[j].creatorPID = -1
  BY <1>5 DEF Destroys
<1>8. QED BY <1>1, <1>5, <1>6, <1>7, NoNewDestroyer

LEMMA EndDestroyer ==
  ASSUME SIInv, DInv, DestroyEnd
  PROVE  DInv'
<1> DEFINE i == SlotOf(current)
<1>1. /\ SemTypes /\ current \in Task /\ ~exiting /\ UNCHANGED vars
      /\ cont[current].op \in {"destroy", "exit"} /\ i \in Slot
      /\ semaphores' = [semaphores EXCEPT ![i].free = TRUE]
  BY SemAssumption DEF SIInv, IInv, DestroyEnd, InUserMode, TypeOK, SchedType, current,
         SemTypes, ContType, SlotOf, At, Slot
<1>2. /\ \A t \in Task \ {current} : cont'[t] = cont[t]
      /\ cont'[current].op \notin {"destroy", "exit"} \/ cont'[current].slot = 0
  <2>1. CASE At("exit")
    <3>1. cont' = [cont EXCEPT ![current] = [@ EXCEPT !.slot = 0]]
      BY <2>1 DEF DestroyEnd
    <3>2. QED BY <1>1, <3>1 DEF SemTypes, ContType
  <2>2. CASE ~At("exit")
    <3>1. cont' = [cont EXCEPT ![current] = User]
      BY <2>2 DEF DestroyEnd
    <3>2. QED BY <1>1, <3>1 DEF SemTypes, User
  <2>3. QED BY <2>1, <2>2
<1>3. ASSUME NEW t \in Task, NEW j \in Slot, Destroys(t, j)'
      PROVE  /\ Destroys(t, j)
             /\ semaphores'[j].free = semaphores[j].free
             /\ semaphores'[j].creatorPID \in {semaphores[j].creatorPID, -1}
  <2>1. t # current
    BY <1>2, <1>3, SemAssumption DEF Destroys, SlotOf, Slot
  <2>2. Destroys(t, j) /\ Destroys(current, i)
    BY <1>1, <1>2, <1>3, <2>1 DEF Destroys, SlotOf
  <2>3. j # i
    BY <1>1, <2>1, <2>2 DEF DInv
  <2>4. QED BY <1>1, <2>2, <2>3 DEF SemTypes
<1>4. current' = current /\ exiting' = FALSE
  BY <1>1 DEF vars, current, SIInv, IInv, TypeOK
<1>5. QED BY <1>3, <1>4, NoNewDestroyer

\* A destroyer begins: the semaphore is the caller's, and nobody else's prey.
LEMMA BeginDestroyer ==
  ASSUME SIInv, DInv, InUserMode, NEW i \in Slot, Mine(i),
         \A j \in Slot : ~Destroys(current, j),
         \A t \in Task \ {current} : cont'[t] = cont[t],
         cont'[current].slot = i, UNCHANGED <<vars, semaphores>>
  PROVE  DInv'
<1>1. Core /\ current \in Task /\ ~exiting /\ UNCHANGED <<current, exiting>>
  BY DEF SIInv, IInv, InUserMode, TypeOK, SchedType, current, vars
<1>2. sched.PID[current] # -1
  BY <1>1 DEF Core, CurrentFits, Table
<1>3. \A t \in Task : ~Destroys(t, i)
  BY <1>2 DEF DInv, Mine
<1>4. \A t \in Task : \A j \in Slot :
        Destroys(t, j)' => (t = current /\ j = i) \/ (t # current /\ Destroys(t, j))
  BY DEF Destroys, SlotOf
<1>5. ~semaphores[i].free
  BY DEF Mine
<1>6. QED BY <1>1, <1>3, <1>4, <1>5 DEF DInv

LEMMA InitDestroyer == SemInit => DInv
BY DEF SemInit, Init, DInv, Destroys, At, User

LEMMA NextDestroyer ==
  ASSUME SIInv, DInv, [SemNext]_allvars
  PROVE  DInv'
<1>0. SemTypes /\ TypeOK /\ current \in Task
  BY DEF SIInv, IInv, TypeOK, SchedType, current
<1>1. ASSUME NEW v \in InitialValues, SemCreate(v) PROVE DInv'
  <2>1. PICK i \in Slot :
          /\ semaphores[i].free
          /\ semaphores' = [semaphores EXCEPT
                              ![i] = [value |-> v, free |-> FALSE,
                                      creatorPID |-> sched.PID[current],
                                      blockedThreads |-> <<>>]]
    BY <1>1 DEF SemCreate
  <2>2. /\ At("user") /\ ~exiting /\ ~exiting' /\ UNCHANGED cont
    BY <1>0, <1>1 DEF SemCreate, SemSyscall, InSyscall, InUserMode, TypeOK
  <2>3. QED BY <1>0, <2>1, <2>2, CallDestroyer DEF SemTypes
<1>2. ASSUME NEW i \in Slot, SemWait(i) \/ SemSignal(i) PROVE DInv'
  <2>1. At("user") /\ ~exiting /\ ~exiting'
    BY <1>0, <1>2 DEF SemWait, SemSignal, SemSyscall, InSyscall, InUserMode, TypeOK
  <2>2. \A t \in Task : cont'[t] = cont[t] \/ cont'[t].op \notin {"destroy", "exit"}
    BY <1>0, <1>2 DEF SemWait, SemSignal, SemTypes
  <2>3. \A j \in Slot : /\ semaphores'[j].free = semaphores[j].free
                        /\ semaphores'[j].creatorPID = semaphores[j].creatorPID
    BY <1>0, <1>2, SameOwner
  <2>4. QED BY <2>1, <2>2, <2>3, CallDestroyer
<1>3. CASE SemSpawn \/ (\E pid \in Pids : SemUnblock(pid)) \/ OtherCall
  <2>1. At("user") /\ ~exiting /\ ~exiting' /\ UNCHANGED semvars
    BY <1>3, OtherCalls
  <2>2. QED BY <2>1, CallDestroyer DEF semvars
<1>4. CASE SemWaitReturn
  <2>1. \A i \in Slot : ~Destroys(current, i)
    BY <1>4 DEF SemWaitReturn, At, Destroys
  <2>2. \A t \in Task : cont'[t] = cont[t] \/ cont'[t].op \notin {"destroy", "exit"}
    BY <1>0, <1>4 DEF SemWaitReturn, SemTypes, User
  <2>3. UNCHANGED <<current, exiting, semaphores>> /\ ~exiting
    BY <1>4 DEF SemWaitReturn, vars, current, InUserMode
  <2>4. \A t \in Task : \A i \in Slot : Destroys(t, i)' => Destroys(t, i)
    BY <2>2 DEF Destroys, SlotOf
  <2>5. QED BY <2>3, <2>4, NoNewDestroyer
<1>5. CASE DestroyRound
  BY <1>5, RoundDestroyer
<1>6. CASE DestroyEnd
  BY <1>6, EndDestroyer
<1>7. ASSUME NEW i \in Slot, SemDestroy(i) PROVE DInv'
  <2>1. /\ InUserMode /\ Mine(i) /\ At("user") /\ UNCHANGED <<vars, semaphores>>
        /\ cont' = [cont EXCEPT ![current] = [op |-> "destroy", slot |-> i]]
    BY <1>7 DEF SemDestroy, SemSyscall, InSyscall
  <2>2. \A j \in Slot : ~Destroys(current, j)
    BY <2>1 DEF At, Destroys
  <2>3. cont'[current].slot = i /\ \A t \in Task \ {current} : cont'[t] = cont[t]
    BY <1>0, <2>1 DEF SemTypes
  <2>4. QED BY <2>1, <2>2, <2>3, BeginDestroyer
<1>8. CASE ExitDestroy
  <2>1. PICK i \in Slot : Mine(i) /\ cont' = [cont EXCEPT ![current].slot = i]
    BY <1>8 DEF ExitDestroy
  <2>2. InUserMode /\ SlotOf(current) = 0 /\ UNCHANGED <<vars, semaphores>>
    BY <1>8 DEF ExitDestroy
  <2>3. \A j \in Slot : ~Destroys(current, j)
    BY <2>2, SemAssumption DEF Destroys, Slot
  <2>4. cont'[current].slot = i /\ \A t \in Task \ {current} : cont'[t] = cont[t]
    BY <1>0, <2>1 DEF SemTypes, ContType
  <2>5. QED BY <2>1, <2>2, <2>3, <2>4, BeginDestroyer
<1>9. CASE SemExit
  <2>1. /\ cont' = [cont EXCEPT ![current] = [op |-> "exit", slot |-> 0]]
        /\ UNCHANGED <<current, exiting, semaphores>> /\ ~exiting
    BY <1>9 DEF SemExit, SemSyscall, InSyscall, InUserMode, vars, current
  <2>2. \A t \in Task : \A i \in Slot : Destroys(t, i)' => Destroys(t, i)
    BY <1>0, <2>1, SemAssumption DEF Destroys, SlotOf, SemTypes, Slot
  <2>3. QED BY <2>1, <2>2, NoNewDestroyer
<1>10. CASE ExitTask
  <2>1. /\ cont' = [cont EXCEPT ![current] = User] /\ UNCHANGED semaphores
        /\ current' = current
    BY <1>0, <1>10 DEF ExitTask, Exit, TypeOK, SchedType, current
  <2>2. \A t \in Task : \A i \in Slot : Destroys(t, i)' => Destroys(t, i)
    BY <1>0, <2>1 DEF Destroys, SlotOf, SemTypes, User
  <2>3. cont'[current].op = "user"
    BY <1>0, <2>1 DEF SemTypes, User
  <2>4. QED BY <2>1, <2>2, <2>3, NoNewDestroyer
<1>11. CASE ExitLoop
  <2>1. At("user") /\ UNCHANGED semvars
    BY <1>11 DEF ExitLoop, ExitWake, ExitDone, DInv
  <2>2. \A i \in Slot : ~Destroys(current, i)
    BY <2>1 DEF At, Destroys
  <2>3. \A t \in Task : \A i \in Slot : Destroys(t, i)' => Destroys(t, i)
    BY <2>1 DEF semvars, Destroys, SlotOf
  <2>4. exiting' => current' = current
    <3>1. CASE ExitWake
      <4>1. waitList[current] \in Seq(Task) /\ waitList[current] # <<>>
        BY <1>0, <3>1 DEF ExitWake, TypeOK
      <4>2. Head(waitList[current]) \in Task /\ sched \in SchedType
        BY <1>0, <4>1, HeadTailProperties DEF TypeOK
      <4>3. sched' = Update(sched, Head(waitList[current]), "readyqueue")
        BY <3>1 DEF ExitWake
      <4>4. sched'.current = sched.current
        BY <4>2, <4>3, WakeFields DEF current
      <4>5. QED BY <4>4 DEF current
    <3>2. CASE ExitDone
      BY <3>2 DEF ExitDone
    <3>3. QED BY <1>11, <3>1, <3>2 DEF ExitLoop
  <2>5. QED BY <2>1, <2>2, <2>3, <2>4, NoNewDestroyer DEF semvars, At
<1>12. CASE (Halted /\ UNCHANGED semvars) \/ UNCHANGED allvars
  BY <1>12 DEF Halted, allvars, vars, semvars, DInv, Destroys, SlotOf, At, current
<1>13. QED
  BY <1>1, <1>2, <1>3, <1>4, <1>5, <1>6, <1>7, <1>8, <1>9, <1>10, <1>11, <1>12
     DEF SemNext, KernelStep

\* Two tasks never destroy the same semaphore: the check of the creator comes
\* before the loop that yields, and the loop's first act makes it fail for
\* everybody (sys.c:513-531).
THEOREM OneDestroyerHolds == SemSpec => []OneDestroyer
<1>1. SIInv /\ DInv /\ [SemNext /\ unguarded' \subseteq Admitted]_allvars => DInv'
  BY NextDestroyer
<1>2. SIInv /\ DInv => OneDestroyer
  <2> SUFFICES ASSUME SIInv, DInv, NEW t \in Task, NEW u \in Task,
                      cont[t].op \in {"destroy", "exit"}, cont[u].op \in {"destroy", "exit"},
                      SlotOf(t) # 0, SlotOf(t) = SlotOf(u)
               PROVE  t = u
    BY DEF OneDestroyer
  <2>1. SlotOf(t) \in Slot
    BY SemAssumption DEF SIInv, SemTypes, ContType, SlotOf, Slot
  <2>2. QED BY <2>1 DEF DInv, Destroys
<1>3. QED BY <1>1, <1>2, InitDestroyer, SemInductive, PTL DEF SemSpec

----------------------------------------------------------------------------
(* SemOwned.  A task in use is one that is not in the freequeue and has a  *)
(* PID.  No call takes either from a task but its own exit, and that comes *)
(* after the loop of sys_exit over the semaphores of the task.             *)

Alive(t) == ~IsFree(sched, t) /\ sched.PID[t] > 0

StaysAlive(t) == Alive(t) => Alive(t)' /\ sched'.PID[t] = sched.PID[t]

LEMMA AliveIsLive ==
  ASSUME TypeOK, Core, NEW t \in Task, Alive(t)
  PROVE  Live(t)
<1>1. sched.PID[Idle] = 0 /\ (exiting => sched.PID[current] = -1)
  BY DEF Core, CurrentFits, Table
<1>2. QED BY <1>1, LiveIs DEF Alive

LEMMA CallerAlive ==
  ASSUME TypeOK, Core, InSyscall
  PROVE  current \in Task /\ Alive(current)
<1>1. current \in Task /\ ~Linked(sched, current) /\ sched.PID[current] > 0
  BY SyscallFacts DEF InSyscall, InUserMode
<1>2. QED BY <1>1 DEF Alive, IsFree, In, Linked, QueueNames

\* What update_process_state_rr and sched_next_rr do to the PIDs: nothing.
LEMMA MovePid ==
  ASSUME sched \in SchedType, NEW ok \in BOOLEAN, NEW t \in Task, NEW dest \in QueueNames
  PROVE  /\ SchedNext(Update([sched EXCEPT !.sound = ok], t, dest)).PID = sched.PID
         /\ SchedNext(Update(sched, t, dest)).PID = sched.PID
<1>1. [sched EXCEPT !.sound = ok] \in SchedType /\ [sched EXCEPT !.sound = ok].PID = sched.PID
  BY DEF SchedType
<1>2. /\ Update([sched EXCEPT !.sound = ok], t, dest) \in SchedType
      /\ Update([sched EXCEPT !.sound = ok], t, dest).PID = sched.PID
  BY <1>1, UpdateKeeps
<1>3. Update(sched, t, dest) \in SchedType /\ Update(sched, t, dest).PID = sched.PID
  BY UpdateKeeps
<1>4. QED BY <1>2, <1>3, SchedNextType

\* The steps that only move tasks between the queues.
LEMMA SchedulesOnly ==
  ASSUME TypeOK, Running',
         \/ Block
         \/ \E pid \in Pids : Unblock(pid) \/ WaitThread(pid)
         \/ UnblockNobody
         \/ ClockInterrupt
         \/ ExitWake
         \/ ExitDone
  PROVE  sched'.PID = sched.PID
<1>0. /\ sched \in SchedType /\ current \in Task /\ sched.sound \in BOOLEAN
      /\ \A n \in {"readyqueue", "blocked", "freequeue"} : n \in QueueNames
  BY DEF TypeOK, SchedType, current, QueueNames
<1>1. CASE Block
  BY <1>0, <1>1, MovePid DEF Block
<1>2. ASSUME NEW pid \in Pids, Unblock(pid) PROVE sched'.PID = sched.PID
  <2>1. PICK fill \in fills[current] :
          \/ sched' = SchedNext(Update(sched, fill, "readyqueue"))
          \/ sched' = SchedNext(sched)
    BY <1>2 DEF Unblock
  <2>2. fill \in Task
    BY <1>0 DEF TypeOK
  <2>3. CASE sched' = SchedNext(Update(sched, fill, "readyqueue"))
    BY <1>0, <2>2, <2>3, MovePid
  <2>4. CASE sched' = SchedNext(sched)
    BY <1>0, <2>4, SchedNextType
  <2>5. QED BY <2>1, <2>3, <2>4
<1>3. ASSUME NEW pid \in Pids, WaitThread(pid) PROVE sched'.PID = sched.PID
  <2> DEFINE ok == sched.sound /\ ~AnchorLinked(current) /\ heads[FirstWith(pid)] # "copied"
  <2>1. sched' = SchedNext(Update([sched EXCEPT !.sound = ok], current, "blocked"))
    BY <1>3 DEF WaitThread, Running
  <2>2. ok \in BOOLEAN
    BY <1>0 DEF AnchorLinked
  <2> HIDE DEF ok
  <2>3. QED BY <1>0, <2>1, <2>2, MovePid
<1>4. CASE UnblockNobody
  BY <1>0, <1>4, SchedNextType DEF UnblockNobody
<1>5. CASE ClockInterrupt
  <2> DEFINE left   == IF sched.tick_counter > 0 THEN sched.tick_counter - 1 ELSE 0
             ticked == [sched EXCEPT !.tick_counter = left]
  <2>1. sched' = SchedNext(ticked) \/ sched' = ticked
    BY <1>5 DEF ClockInterrupt, Clock
  <2>2. left \in 0 .. DEFAULT_QUANTUM_TICKS
    BY <1>0, QuantumAssumption DEF SchedType
  <2>3. ticked \in SchedType /\ ticked.PID = sched.PID
    BY <1>0, <2>2 DEF SchedType
  <2> HIDE DEF ticked
  <2>4. QED BY <2>1, <2>3, SchedNextType
<1>6. CASE ExitWake
  <2>1. Head(waitList[current]) \in Task
    BY <1>0, <1>6, HeadTailProperties DEF ExitWake, TypeOK
  <2>2. sched' = Update(sched, Head(waitList[current]), "readyqueue")
    BY <1>6 DEF ExitWake
  <2>3. QED BY <1>0, <2>1, <2>2, UpdateKeeps
<1>7. CASE ExitDone
  BY <1>0, <1>7, MovePid DEF ExitDone
<1>8. QED BY <1>1, <1>2, <1>3, <1>4, <1>5, <1>6, <1>7

LEMMA SameAlive ==
  ASSUME SameFree, sched'.PID = sched.PID, NEW t \in Task
  PROVE  StaysAlive(t)
BY DEF SameFree, StaysAlive, Alive

LEMMA WakeAlive ==
  ASSUME TypeOK, Core, ~exiting, NEW w \in Task,
         sched' = SchedNext(Update(sched, w, "readyqueue")),
         UNCHANGED Others, sched'.sound, NEW t \in Task
  PROVE  StaysAlive(t)
<1>1. \A x \in Task : IsFree(sched', x) => IsFree(sched, x) \/ sched.PID[x] < 0
  BY WakeCore DEF Others, lists
<1>2. sched'.PID = sched.PID
  <2>1. sched \in SchedType /\ "readyqueue" \in QueueNames /\ sched.sound \in BOOLEAN
    BY DEF TypeOK, QueueNames, SchedType
  <2>2. QED BY <2>1, MovePid
<1>3. sched.PID[t] \in Int
  BY DEF TypeOK, SchedType
<1>4. QED BY <1>1, <1>2, <1>3 DEF StaysAlive, Alive

\* A task goes to sleep in a call.
LEMMA SleepAlive ==
  ASSUME TypeOK, Core, InSyscall, NEW ok \in BOOLEAN,
         sched' = SchedNext(Update([sched EXCEPT !.sound = ok], current, "blocked")),
         UNCHANGED <<heads, pidGlobal, exiting>>, NEW t \in Task
  PROVE  StaysAlive(t)
<1>1. SameFree
  BY SleepCore DEF InSyscall, InUserMode
<1>2. sched'.PID = sched.PID
  <2>1. sched \in SchedType /\ current \in Task /\ "blocked" \in QueueNames
    BY DEF TypeOK, QueueNames, SchedType, current
  <2>2. QED BY <2>1, MovePid
<1>3. QED BY <1>1, <1>2, SameAlive

LEMMA SpawnAlive ==
  ASSUME TypeOK, Core, InSyscall, FreeQueue # <<>>, Spawn(Head(FreeQueue)), NEW t \in Task
  PROVE  StaysAlive(t)
<1> DEFINE c  == Head(FreeQueue)
           ok == sched.sound /\ ~AnchorLinked(c)
           q  == Tail(sched.queue["freequeue"])
           taken == WithPcb(sched, q, c, pidGlobal, sched.current_state[current], ok)
<1>1. /\ c \in Task /\ IsFree(sched, c)
      /\ \A x \in Task : IsFree(sched', x) <=> IsFree(sched, x) /\ x # c
  BY SpawnCore
<1>2. /\ sched \in SchedType /\ current \in Task /\ pidGlobal \in Int /\ ok \in BOOLEAN
      /\ "readyqueue" \in QueueNames /\ q \in Seq(Task)
      /\ sched.current_state[current] \in States
  <2>1. sched \in SchedType /\ current \in Task /\ pidGlobal \in Int
    BY PidAssumption, BoundAssumption DEF TypeOK, SchedType, current
  <2>2. sched.current_state[current] \in States /\ sched.sound \in BOOLEAN
    BY <2>1 DEF SchedType
  <2>3. "readyqueue" \in QueueNames /\ sched.queue["freequeue"] \in Seq(Task)
    BY <2>1 DEF SchedType, QueueNames
  <2>4. q \in Seq(Task)
    BY <2>3, HeadTailProperties DEF FreeQueue
  <2>5. ok \in BOOLEAN
    BY <2>2
  <2>6. QED BY <2>1, <2>2, <2>3, <2>4, <2>5
<1>3. sched' = Update(taken, c, "readyqueue")
  BY DEF Spawn, PcbTaken, PcbFilled, WithPcb
<1>4. taken \in SchedType /\ taken.PID = [sched.PID EXCEPT ![c] = pidGlobal]
  <2>1. taken \in SchedType
    BY <1>1, <1>2, WithPcbType
  <2>2. taken.PID = [sched.PID EXCEPT ![c] = pidGlobal]
    BY <1>1, <1>2 DEF WithPcb, SchedType
  <2>3. QED BY <2>1, <2>2
<1> HIDE DEF taken, c
<1>5. sched'.PID = [sched.PID EXCEPT ![c] = pidGlobal]
  BY <1>1, <1>2, <1>3, <1>4, UpdateKeeps
<1>6. t # c => sched'.PID[t] = sched.PID[t]
  BY <1>2, <1>5 DEF SchedType
<1>7. QED BY <1>1, <1>6 DEF StaysAlive, Alive

\* No step of module Process takes a task's PID or PCB, but its own exit.
LEMMA ProcessAlive ==
  ASSUME TypeOK, Core, Running', [Next]_vars, NEW t \in Task,
         exiting' /\ ~exiting => t # current
  PROVE  StaysAlive(t)
<1>0. sched \in SchedType /\ current \in Task /\ sched.current = current
  BY DEF TypeOK, SchedType, current
<1>1. CASE UNCHANGED vars \/ Halted
  BY <1>1 DEF Halted, vars, StaysAlive, Alive, IsFree, In
<1>2. CASE Fork \/ CreateThread
  BY <1>2, SpawnAlive DEF Fork, CreateThread
<1>3. CASE ForkNoFrames
  <2> DEFINE c == Head(FreeQueue)
  <2>1. SameFree
    BY <1>3, ForkNoFramesCore
  <2>2. IsFree(sched, c) /\ c \in Task
    <3>1. FreeQueue # <<>> /\ FreeQueue \in Seq(Task)
      BY <1>0, <1>3 DEF ForkNoFrames, FreeQueue, SchedType, QueueNames
    <3>2. Len(FreeQueue) >= 1 /\ FreeQueue[1] = c /\ c \in Task
      BY <3>1, HeadTailProperties
    <3>3. QED BY <3>1, <3>2 DEF IsFree, In, Contains, FreeQueue
  <2>3. sched'.PID = [sched.PID EXCEPT ![c] = sched.PID[current]]
    BY <1>0, <1>3 DEF ForkNoFrames, SchedType
  <2> HIDE DEF c
  <2>4. t # c => sched'.PID[t] = sched.PID[t]
    BY <1>0, <2>3 DEF SchedType
  <2>5. QED BY <2>1, <2>2, <2>4 DEF StaysAlive, Alive, SameFree
<1>4. CASE Block \/ (\E pid \in Pids : Unblock(pid) \/ WaitThread(pid)) \/ UnblockNobody
           \/ ClockInterrupt
  <2>1. ~exiting
    BY <1>4 DEF Block, Unblock, WaitThread, UnblockNobody, ClockInterrupt, InSyscall, InUserMode
  <2>2. SameFree
    BY <1>4, <2>1, SameFreeNext
  <2>3. sched'.PID = sched.PID
    BY <1>4, SchedulesOnly
  <2>4. QED BY <2>2, <2>3, SameAlive
<1>5. CASE Exit
  <2>1. /\ SameFree /\ sched' = [sched EXCEPT !.PID[current] = -1]
        /\ ~exiting /\ exiting'
    BY <1>5, ExitCore DEF Exit, Running, InSyscall, InUserMode
  <2>2. sched'.PID[t] = sched.PID[t]
    BY <1>0, <2>1 DEF SchedType
  <2>3. QED BY <2>1, <2>2 DEF StaysAlive, Alive, SameFree
<1>6. CASE ExitWake \/ ExitDone
  <2>1. sched.PID[current] = -1 /\ sched'.sound
    BY <1>6 DEF Core, CurrentFits, ExitWake, ExitDone, Running
  <2>2. \A x \in Task \ {current} : IsFree(sched', x) <=> IsFree(sched, x)
    BY <1>6, <2>1, ExitWakeCore, ExitDoneCore, ExitDoneNeeds
  <2>3. sched'.PID = sched.PID
    BY <1>6, SchedulesOnly
  <2>4. QED BY <2>1, <2>2, <2>3 DEF StaysAlive, Alive
<1>7. CASE CreateThreadPageFault \/ ForkPageFault
  BY <1>7, PageFaultStep
<1>8. QED BY <1>1, <1>2, <1>3, <1>4, <1>5, <1>6, <1>7 DEF Next

Owned ==
  \A i \in Slot : ~semaphores[i].free =>
    \/ \E t \in Task : Destroys(t, i)
    \/ \E t \in Task : Alive(t) /\ sched.PID[t] = semaphores[i].creatorPID

\* A step that takes no semaphore, and from none its owner or its destroyer.
LEMMA OwnedKept ==
  ASSUME Owned, \A t \in Task : StaysAlive(t),
         \A i \in Slot : ~semaphores'[i].free =>
           /\ ~semaphores[i].free
           /\ \/ semaphores'[i].creatorPID = semaphores[i].creatorPID
              \/ \E t \in Task : Destroys(t, i)
           /\ \A t \in Task : Destroys(t, i) => Destroys(t, i)'
  PROVE  Owned'
<1> SUFFICES ASSUME NEW i \in Slot, ~semaphores'[i].free
             PROVE  \/ \E t \in Task : Destroys(t, i)'
                    \/ \E t \in Task : Alive(t)' /\ sched'.PID[t] = semaphores'[i].creatorPID
  BY DEF Owned
<1>1. CASE \E t \in Task : Destroys(t, i)
  BY <1>1
<1>2. CASE ~ \E t \in Task : Destroys(t, i)
  BY <1>2 DEF Owned, StaysAlive
<1>3. QED BY <1>1, <1>2

\* A call of a task in its program, which is no destroyer.
LEMMA CallOwned ==
  ASSUME Owned, At("user"), \A t \in Task : StaysAlive(t),
         \A t \in Task \ {current} : cont'[t] = cont[t],
         \A i \in Slot : /\ semaphores'[i].free = semaphores[i].free
                         /\ semaphores'[i].creatorPID = semaphores[i].creatorPID
  PROVE  Owned'
<1>1. \A i \in Slot : ~Destroys(current, i)
  BY DEF Destroys, At
<1>2. \A t \in Task : \A i \in Slot : Destroys(t, i) => Destroys(t, i)'
  BY <1>1 DEF Destroys, SlotOf
<1>3. QED BY <1>2, OwnedKept

\* A step that changes nothing but where the running task is.
LEMMA GoOnOwned ==
  ASSUME Owned, UNCHANGED <<vars, semaphores>>, \A i \in Slot : ~Destroys(current, i),
         \A t \in Task \ {current} : cont'[t] = cont[t]
  PROVE  Owned'
<1>1. \A t \in Task : StaysAlive(t)
  BY DEF vars, StaysAlive, Alive, IsFree, In
<1>2. \A t \in Task : \A i \in Slot : Destroys(t, i) => Destroys(t, i)'
  BY DEF Destroys, SlotOf
<1>3. QED BY <1>1, <1>2, OwnedKept

\* A step of module Process that is not a task's exit.
LEMMA ProcessOwned ==
  ASSUME SIInv, Core, Owned, [Next]_vars, Running', exiting' => exiting,
         At("user"), UNCHANGED semvars
  PROVE  Owned'
<1>1. \A t \in Task : StaysAlive(t)
  BY ProcessAlive DEF SIInv, IInv
<1>2. QED BY <1>1, CallOwned DEF semvars

LEMMA CreateOwned ==
  ASSUME SIInv, Core, Owned, NEW v \in InitialValues, SemCreate(v)
  PROVE  Owned'
<1>1. PICK i \in Slot :
        semaphores' = [semaphores EXCEPT
                         ![i] = [value |-> v, free |-> FALSE,
                                 creatorPID |-> sched.PID[current],
                                 blockedThreads |-> <<>>]]
  BY DEF SemCreate
<1>2. UNCHANGED <<sched, cont>> /\ current \in Task /\ Alive(current)
  BY CallerAlive DEF SemCreate, SemSyscall, SIInv, IInv
<1>3. \A j \in Slot : IF j = i THEN semaphores'[j].creatorPID = sched.PID[current]
                               ELSE semaphores'[j] = semaphores[j]
  BY <1>1 DEF SIInv, SemTypes
<1>4. \A t \in Task : Alive(t)' <=> Alive(t)
  BY <1>2 DEF Alive, IsFree, In
<1>5. \A t \in Task : \A j \in Slot : Destroys(t, j) => Destroys(t, j)'
  BY <1>2 DEF Destroys, SlotOf
<1>6. QED BY <1>2, <1>3, <1>4, <1>5 DEF Owned

LEMMA RoundOwned ==
  ASSUME SIInv, Core, Owned, DestroyRound, sched'.sound
  PROVE  Owned'
<1> DEFINE i == SlotOf(current)
           w == Head(semaphores[i].blockedThreads)
<1>1. /\ SemTypes /\ TypeOK /\ current \in Task /\ ~exiting
      /\ i \in 0 .. NUM_SEMS /\ i # 0
  BY DEF SIInv, IInv, DestroyRound, InUserMode, TypeOK, SchedType, current, SemTypes,
         ContType, SlotOf
<1>2. i \in Slot /\ Destroys(current, i)
  BY <1>1, SemAssumption DEF Slot, DestroyRound, Destroys, At
<1>3. /\ semaphores' = [semaphores EXCEPT ![i].creatorPID = -1,
                                          ![i].blockedThreads = Tail(@)]
      /\ sched' = SchedNext(Update(sched, w, "readyqueue"))
      /\ cont' = IF cont[w].op = "sem_wait"
                 THEN [cont EXCEPT ![w].op = "destroyed"] ELSE cont
      /\ semaphores[i].blockedThreads # <<>> /\ UNCHANGED Others
  BY DEF DestroyRound, Others
<1>4. w \in Task
  <2>1. semaphores[i].blockedThreads \in Seq(Task)
    BY <1>1, <1>2, Semaphore
  <2>2. QED BY <1>3, <2>1, HeadTailProperties
<1> HIDE DEF w, i
<1>5. \A t \in Task : StaysAlive(t)
  BY <1>1, <1>3, <1>4, WakeAlive
<1>6. \A t \in Task : cont'[t] = cont[t] \/ cont[t].op = "sem_wait"
  BY <1>1, <1>3, <1>4 DEF SemTypes
<1>7. \A t \in Task : \A j \in Slot : Destroys(t, j) => Destroys(t, j)'
  BY <1>6 DEF Destroys, SlotOf
<1>8. \A j \in Slot : /\ semaphores'[j].free = semaphores[j].free
                      /\ j # i => semaphores'[j].creatorPID = semaphores[j].creatorPID
  BY <1>1, <1>2, <1>3 DEF SemTypes, SemType
<1>9. QED BY <1>1, <1>2, <1>5, <1>7, <1>8, OwnedKept

LEMMA EndOwned ==
  ASSUME SIInv, Owned, DestroyEnd
  PROVE  Owned'
<1> DEFINE i == SlotOf(current)
<1>1. /\ SemTypes /\ current \in Task /\ UNCHANGED vars /\ i \in Slot
      /\ semaphores' = [semaphores EXCEPT ![i].free = TRUE]
      /\ \A t \in Task \ {current} : cont'[t] = cont[t]
  BY SemAssumption DEF SIInv, IInv, DestroyEnd, TypeOK, SchedType, current, SemTypes,
         ContType, SlotOf, Slot
<1>2. \A t \in Task : StaysAlive(t)
  BY <1>1 DEF vars, StaysAlive, Alive, IsFree, In
<1>3. semaphores'[i].free = TRUE /\ \A j \in Slot \ {i} : semaphores'[j] = semaphores[j]
  BY <1>1 DEF SemTypes, SemType
<1>4. \A t \in Task : \A j \in Slot \ {i} : Destroys(t, j) => Destroys(t, j)'
  BY <1>1 DEF Destroys, SlotOf
<1>5. QED BY <1>2, <1>3, <1>4, OwnedKept

\* The task that goes is the creator of nothing.
LEMMA ExitOwned ==
  ASSUME SIInv, Core, Owned, ExitTask, Running'
  PROVE  Owned'
<1>1. /\ TypeOK /\ SemTypes /\ current \in Task /\ UNCHANGED semaphores
      /\ cont' = [cont EXCEPT ![current] = User] /\ SlotOf(current) = 0
      /\ \A i \in Slot : ~Mine(i)
  BY DEF ExitTask, SIInv, IInv, TypeOK, SchedType, current
<1>2. \A t \in Task \ {current} : StaysAlive(t)
  BY <1>1, ProcessAlive DEF ExitTask, Next
<1>3. \A t \in Task : \A i \in Slot : Destroys(t, i) => Destroys(t, i)'
  <2>1. \A i \in Slot : ~Destroys(current, i)
    BY <1>1, SemAssumption DEF Destroys, Slot
  <2>2. \A t \in Task \ {current} : cont'[t] = cont[t]
    BY <1>1 DEF SemTypes
  <2>3. QED BY <2>1, <2>2 DEF Destroys, SlotOf
<1>4. SUFFICES ASSUME NEW i \in Slot, ~semaphores[i].free,
                      NEW t \in Task, Alive(t), sched.PID[t] = semaphores[i].creatorPID
               PROVE  Alive(t)' /\ sched'.PID[t] = semaphores[i].creatorPID
  BY <1>1, <1>3 DEF Owned
<1>5. t # current
  BY <1>1, <1>4 DEF Mine
<1>6. QED BY <1>2, <1>4, <1>5 DEF StaysAlive

LEMMA InitOwned == SemInit => Owned
BY DEF SemInit, Owned

\* After a fault or a broken list there are no more steps.
LEMMA SemStepsRun ==
  ASSUME [SemNext]_allvars, ~Running
  PROVE  (Halted /\ UNCHANGED semvars) \/ UNCHANGED allvars
<1>1. ~InSyscall /\ ~InUserMode /\ ~SemSyscall
  BY DEF InSyscall, InUserMode, SemSyscall
<1>2. ~KernelStep
  BY <1>1 DEF KernelStep, SemWaitReturn, DestroyRound, DestroyEnd, ExitDestroy, ExitTask,
              Exit, ExitLoop, ExitWake, ExitDone
<1>3. ~SemSpawn /\ ~(\E pid \in Pids : SemUnblock(pid)) /\ ~OtherCall
  BY <1>1, OtherCalls
<1>4. QED
  BY <1>1, <1>2, <1>3 DEF SemNext, SemCreate, SemWait, SemSignal, SemDestroy, SemExit

LEMMA NextOwned ==
  ASSUME SIInv, DInv, Running => Owned, [SemNext]_allvars, Running'
  PROVE  Owned'
<1>0. SemTypes /\ TypeOK /\ current \in Task /\ sched'.sound
  BY DEF SIInv, IInv, TypeOK, SchedType, current, Running
<1>1. CASE (Halted /\ UNCHANGED semvars) \/ UNCHANGED allvars
  BY <1>1 DEF Halted, allvars, vars, semvars, Running, Owned, Destroys, SlotOf, Alive,
              IsFree, In
<1>2. CASE Running
  <2>1. Core /\ Owned
    BY <1>2 DEF SIInv, IInv
  <2>2. ASSUME NEW v \in InitialValues, SemCreate(v) PROVE Owned'
    BY <2>1, <2>2, CreateOwned
  <2>3. ASSUME NEW i \in Slot, SemWait(i) PROVE Owned'
    <3> DEFINE ok == sched.sound /\ ~SemLinked(current)
    <3>1. /\ InSyscall /\ At("user") /\ UNCHANGED Others
          /\ \A t \in Task \ {current} : cont'[t] = cont[t]
          /\ \/ sched' = SchedNext(Update([sched EXCEPT !.sound = ok], current, "blocked"))
             \/ UNCHANGED sched
      BY <1>0, <2>3 DEF SemWait, SemSyscall, Others, SemTypes
    <3>2. ok \in BOOLEAN
      BY <1>0 DEF TypeOK, SchedType, SemLinked
    <3> HIDE DEF ok
    <3>3. ASSUME NEW t \in Task PROVE StaysAlive(t)
      <4>1. CASE UNCHANGED sched
        BY <4>1 DEF StaysAlive, Alive, IsFree, In
      <4>2. CASE ~UNCHANGED sched
        BY <1>0, <2>1, <3>1, <3>2, <4>2, SleepAlive DEF Others, lists
      <4>3. QED BY <4>1, <4>2
    <3>4. QED BY <1>0, <2>1, <2>3, <3>1, <3>3, SameOwner, CallOwned
  <2>4. ASSUME NEW i \in Slot, SemSignal(i) PROVE Owned'
    <3> DEFINE q == semaphores[i].blockedThreads
    <3>1. ~exiting /\ At("user") /\ UNCHANGED Others /\ UNCHANGED cont
      BY <2>4 DEF SemSignal, SemSyscall, InSyscall, InUserMode, Others
    <3>2. \/ UNCHANGED sched
          \/ q # <<>> /\ sched' = SchedNext(Update(sched, Head(q), "readyqueue"))
          \/ sched' = [sched EXCEPT !.sound = FALSE]
      BY <2>4 DEF SemSignal
    <3>3. sched' # [sched EXCEPT !.sound = FALSE]
      BY <1>0 DEF TypeOK, SchedType
    <3>4. q # <<>> => Head(q) \in Task
      BY <1>0, Semaphore, HeadTailProperties
    <3> HIDE DEF q
    <3>5. ASSUME NEW t \in Task PROVE StaysAlive(t)
      <4>1. CASE UNCHANGED sched
        BY <4>1 DEF StaysAlive, Alive, IsFree, In
      <4>2. CASE ~UNCHANGED sched
        BY <1>0, <2>1, <3>1, <3>2, <3>3, <3>4, <4>2, WakeAlive
      <4>3. QED BY <4>1, <4>2
    <3>6. QED BY <1>0, <2>1, <2>4, <3>1, <3>5, SameOwner, CallOwned
  <2>5. CASE SemSpawn
    <3>1. [Next]_vars
      BY <1>0, <2>5 DEF SemSpawn, Next, TypeOK, SchedType
    <3>2. QED BY <2>1, <2>5, <3>1, OtherCalls, ProcessOwned
  <2>6. ASSUME NEW pid \in Pids, SemUnblock(pid) PROVE Owned'
    <3>1. \/ [Next]_vars
          \/ \E fill \in fills[current] :
               /\ UNCHANGED Others
               /\ sched' = SchedNext(Update(sched, fill, "readyqueue"))
      BY <2>6 DEF SemUnblock, Next, Others
    <3>2. CASE [Next]_vars
      BY <2>1, <2>6, <3>2, OtherCalls, ProcessOwned
    <3>3. ASSUME NEW fill \in fills[current], UNCHANGED Others,
                 sched' = SchedNext(Update(sched, fill, "readyqueue"))
          PROVE  Owned'
      <4>1. fill \in Task
        BY <1>0, <3>3 DEF TypeOK
      <4>2. \A t \in Task : StaysAlive(t)
        BY <1>0, <2>1, <2>6, <3>3, <4>1, OtherCalls, WakeAlive
      <4>3. QED BY <2>1, <2>6, <4>2, OtherCalls, CallOwned DEF semvars
    <3>4. QED BY <3>1, <3>2, <3>3
  <2>7. CASE OtherCall
    <3>1. [Next]_vars
      BY <2>7 DEF OtherCall, Next
    <3>2. QED BY <2>1, <2>7, <3>1, OtherCalls, ProcessOwned
  <2>8. ASSUME NEW i \in Slot, SemDestroy(i) PROVE Owned'
    BY <1>0, <2>1, <2>8, GoOnOwned DEF SemDestroy, SemSyscall, At, Destroys, SemTypes
  <2>9. CASE SemExit
    BY <1>0, <2>1, <2>9, GoOnOwned DEF SemExit, SemSyscall, At, Destroys, SemTypes
  <2>10. CASE SemWaitReturn
    BY <1>0, <2>1, <2>10, GoOnOwned DEF SemWaitReturn, At, Destroys, SemTypes
  <2>11. CASE ExitDestroy
    <3>1. \A j \in Slot : ~Destroys(current, j)
      BY <2>11, SemAssumption DEF ExitDestroy, Destroys, Slot
    <3>2. \A t \in Task \ {current} : cont'[t] = cont[t]
      BY <1>0, <2>11 DEF ExitDestroy, SemTypes
    <3>3. QED BY <2>1, <2>11, <3>1, <3>2, GoOnOwned DEF ExitDestroy
  <2>12. CASE DestroyRound
    BY <1>0, <2>1, <2>12, RoundOwned
  <2>13. CASE DestroyEnd
    BY <2>1, <2>13, EndOwned
  <2>14. CASE ExitTask
    BY <2>1, <2>14, ExitOwned
  <2>15. CASE ExitLoop
    <3>1. [Next]_vars /\ exiting /\ UNCHANGED semvars
      BY <2>15 DEF ExitLoop, ExitWake, ExitDone, Next
    <3>2. QED BY <2>1, <3>1, ProcessOwned DEF DInv
  <2>16. QED
    BY <1>1, <2>2, <2>3, <2>4, <2>5, <2>6, <2>7, <2>8, <2>9, <2>10, <2>11, <2>12, <2>13,
       <2>14, <2>15 DEF SemNext, KernelStep
<1>3. CASE ~Running
  BY <1>1, <1>3, SemStepsRun
<1>4. QED BY <1>2, <1>3

\* A task that exits leaves no semaphore behind and none is left half destroyed:
\* each one in use has a living creator, or a task that is destroying it,
\* however the loops of semDestroy and exit interleave (Semaphores.SemOwned).
THEOREM SemOwnedHolds == SemSpec => []SemOwned
<1> DEFINE OInv == SIInv /\ DInv /\ (Running => Owned)
<1>1. SemInit => OInv
  BY SemInitInv, InitDestroyer, InitOwned
<1>2. OInv /\ [SemNext /\ unguarded' \subseteq Admitted]_allvars => OInv'
  BY SemNextInv, NextDestroyer, NextOwned
<1>3. OInv => SemOwned
  <2> SUFFICES ASSUME SIInv, Running, Owned, NEW i \in Slot, ~semaphores[i].free
               PROVE  \/ Dying(i)
                      \/ \E t \in Task : Live(t) /\ sched.PID[t] = semaphores[i].creatorPID
    BY DEF SemOwned
  <2>1. TypeOK /\ Core
    BY DEF SIInv, IInv
  <2>2. CASE \E t \in Task : Destroys(t, i)
    BY <2>2 DEF Destroys, Dying
  <2>3. CASE \E t \in Task : Alive(t) /\ sched.PID[t] = semaphores[i].creatorPID
    BY <2>1, <2>3, AliveIsLive
  <2>4. QED BY <2>2, <2>3 DEF Owned
<1> HIDE DEF OInv
<1>4. QED BY <1>1, <1>2, <1>3, PTL DEF SemSpec

----------------------------------------------------------------------------
(* SemAccounting.  That exactly the sleepers of a slot are on its list     *)
(* takes, beside the slots themselves, that no task in a waitList is in    *)
(* semWait: the loop of sys_exit wakes it whatever it sleeps in.           *)

Clean == unguarded \cap {"negative_value", "unblock_waiter"} = {}

Waits(t, i) == Sleeps(sched, t) /\ cont[t] = [op |-> "sem_wait", slot |-> i]

Distinct(q) == \A a, b \in 1 .. Len(q) : q[a] = q[b] => a = b

SlotAccounts(i) ==
  LET s == semaphores[i] IN
  /\ s.free => s.blockedThreads = <<>>
  /\ ~s.free /\ ~Dying(i) =>
       Len(s.blockedThreads) = IF s.value < 0 THEN -s.value ELSE 0
  /\ Distinct(s.blockedThreads)
  /\ \A t \in Task : Contains(s.blockedThreads, t) <=> Waits(t, i)

Anchors == \A t \in Task : AnchorLinked(t) => cont[t].op = "user"

Accounts == Anchors /\ \A i \in Slot : SlotAccounts(i)

LEMMA EmptyList == /\ Len(<<>>) = 0 /\ Distinct(<<>>)
                   /\ \A t : ~Contains(<<>>, t)
BY DEF Distinct, Contains

LEMMA Enqueued ==
  ASSUME NEW q \in Seq(Task), NEW t \in Task, Distinct(q), ~Contains(q, t)
  PROVE  /\ Len(Append(q, t)) = Len(q) + 1
         /\ Distinct(Append(q, t))
         /\ \A x : Contains(Append(q, t), x) <=> Contains(q, x) \/ x = t
<1> DEFINE r == Append(q, t)
<1>1. /\ Len(q) \in Nat /\ Len(r) = Len(q) + 1
      /\ \A k \in 1 .. Len(q) : r[k] = q[k]
      /\ r[Len(q) + 1] = t
  BY AppendProperties, LenProperties
<1> HIDE DEF r
<1>2. Distinct(r)
  BY <1>1 DEF Distinct, Contains
<1>3. ASSUME NEW x PROVE Contains(r, x) <=> Contains(q, x) \/ x = t
  <2>1. Contains(r, x) => Contains(q, x) \/ x = t
    BY <1>1 DEF Contains
  <2>2. Contains(q, x) => Contains(r, x)
    BY <1>1 DEF Contains
  <2>3. x = t => Contains(r, x)
    <3>1. Len(q) + 1 \in 1 .. Len(r)
      BY <1>1
    <3>2. QED BY <1>1, <3>1 DEF Contains
  <2>4. QED BY <2>1, <2>2, <2>3
<1>4. QED BY <1>1, <1>2, <1>3 DEF r

LEMMA Dequeued ==
  ASSUME NEW q \in Seq(Task), q # <<>>, Distinct(q)
  PROVE  /\ Len(q) > 0 /\ Len(Tail(q)) = Len(q) - 1
         /\ Distinct(Tail(q))
         /\ Contains(q, Head(q))
         /\ \A x : Contains(Tail(q), x) <=> Contains(q, x) /\ x # Head(q)
<1> DEFINE r == Tail(q)
<1>1. /\ Len(q) \in Nat /\ Len(q) > 0 /\ Len(r) = Len(q) - 1
      /\ \A k \in 1 .. Len(r) : r[k] = q[k + 1]
      /\ Head(q) = q[1]
  BY HeadTailProperties, LenProperties, EmptySeq
<1> HIDE DEF r
<1>2. Distinct(r)
  BY <1>1 DEF Distinct
<1>3. Contains(q, Head(q))
  BY <1>1 DEF Contains
<1>4. ASSUME NEW x PROVE Contains(r, x) <=> Contains(q, x) /\ x # Head(q)
  <2>1. ASSUME NEW k \in 1 .. Len(r), r[k] = x PROVE Contains(q, x) /\ x # Head(q)
    <3>1. k + 1 \in 1 .. Len(q) /\ q[k + 1] = x /\ 1 \in 1 .. Len(q) /\ k + 1 # 1
      BY <1>1, <2>1
    <3>2. QED BY <1>1, <3>1 DEF Contains, Distinct
  <2>2. ASSUME NEW k \in 1 .. Len(q), q[k] = x, x # Head(q) PROVE Contains(r, x)
    <3>1. k - 1 \in 1 .. Len(r) /\ r[k - 1] = x
      BY <1>1, <2>2
    <3>2. QED BY <3>1 DEF Contains
  <2>3. QED BY <2>1, <2>2 DEF Contains
<1>5. QED BY <1>1, <1>2, <1>3, <1>4 DEF r

----------------------------------------------------------------------------
(* What the calls do to a slot *)

\* Nothing, but that it may be under destruction now.
LEMMA SlotKept ==
  ASSUME NEW i \in Slot, SlotAccounts(i), semaphores'[i] = semaphores[i],
         Dying(i) => Dying(i)',
         \A t \in Task : Waits(t, i)' <=> Waits(t, i)
  PROVE  SlotAccounts(i)'
BY DEF SlotAccounts

\* Its first waiter is woken, by a semSignal or by its destroyer.
LEMMA SlotWoken ==
  ASSUME NEW i \in Slot, SlotAccounts(i), SemTypes,
         NEW q, q = semaphores[i].blockedThreads, q # <<>>,
         semaphores'[i].blockedThreads = Tail(q),
         semaphores'[i].free = semaphores[i].free,
         ~Dying(i)' => /\ ~Dying(i) /\ semaphores[i].value < 0
                       /\ semaphores'[i].value = semaphores[i].value + 1,
         ~Sleeps(sched', Head(q)),
         \A t \in Task : t # Head(q) => (Waits(t, i)' <=> Waits(t, i))
  PROVE  SlotAccounts(i)'
<1>1. q \in Seq(Task) /\ semaphores[i].value \in Int
  BY Semaphore
<1>2. Distinct(q) /\ \A t \in Task : Contains(q, t) <=> Waits(t, i)
  BY DEF SlotAccounts
<1>3. /\ Len(q) > 0 /\ Len(Tail(q)) = Len(q) - 1 /\ Distinct(Tail(q)) /\ Contains(q, Head(q))
      /\ \A x : Contains(Tail(q), x) <=> Contains(q, x) /\ x # Head(q)
  BY <1>1, <1>2, Dequeued
<1>4. ~semaphores[i].free
  BY DEF SlotAccounts
<1>5. ~Waits(Head(q), i)'
  BY DEF Waits
<1>6. \A t \in Task : Contains(Tail(q), t) <=> Waits(t, i)'
  BY <1>2, <1>3, <1>5
<1>7. ~Dying(i)' => Len(Tail(q)) = IF semaphores'[i].value < 0 THEN -semaphores'[i].value ELSE 0
  BY <1>1, <1>3, <1>4 DEF SlotAccounts
<1>8. QED BY <1>3, <1>4, <1>6, <1>7 DEF SlotAccounts

----------------------------------------------------------------------------
(* Who sleeps after a step *)

LEMMA WakeSleeps ==
  ASSUME TypeOK, Core, NobodyWakesIdle, ~exiting', NEW w \in Task,
         sched' = SchedNext(Update(sched, w, "readyqueue"))
  PROVE  /\ ~Sleeps(sched', w) /\ NobodyWakesIdle'
         /\ \A x \in Task : x # w => (Sleeps(sched', x) <=> Sleeps(sched, x))
<1> DEFINE z == Update(sched, w, "readyqueue")
<1>1. /\ sched \in SchedType /\ "readyqueue" \in QueueNames /\ Idle \in Task
      /\ SameTable(sched, sched)
  BY ItIsTheTable, IdleIsTask DEF TypeOK, QueueNames
<1>2. ~Sleeps(sched', w)
  <2>1. z \in SchedType /\ z.current_state[w] # "ST_BLOCKED"
    <3>1. z \in SchedType
      BY <1>1, UpdateType
    <3>2. z.current_state[w] = StateOf[IF sched.PID[w] < 0 THEN "freequeue" ELSE "readyqueue"]
      BY <1>1, UpdateStates
    <3>3. QED BY <3>1, <3>2 DEF StateOf
  <2> HIDE DEF z
  <2>2. QED BY <2>1, SchedNextNoSleep DEF Sleeps, z
<1>3. NobodyWakesIdle'
  BY <1>1, MoveNoSleep DEF NobodyWakesIdle
<1>4. QED BY <1>1, <1>2, <1>3, MoveSame

\* semWait puts its caller to sleep.
LEMMA SleepSleeps ==
  ASSUME TypeOK, Core, NobodyWakesIdle, ~exiting, current # Idle, NEW ok \in BOOLEAN,
         sched' = SchedNext(Update([sched EXCEPT !.sound = ok], current, "blocked")),
         UNCHANGED <<heads, pidGlobal, exiting>>
  PROVE  /\ Sleeps(sched', current) /\ SameFree /\ NobodyWakesIdle'
         /\ \A x \in Task : x # current => (Sleeps(sched', x) <=> Sleeps(sched, x))
<1> DEFINE s == [sched EXCEPT !.sound = ok]
<1>1. current \in Task /\ Idle \in Task /\ "blocked" \in QueueNames /\ ~exiting'
  BY SyscallFacts, IdleIsTask DEF QueueNames
<1>2. SameFree /\ Sleeps(sched', current)
  BY SleepCore DEF Sleeps
<1>3. SameTable(s, sched) /\ sched' = SchedNext(Update(s, current, "blocked"))
  BY DEF SameTable, TypeOK, SchedType
<1> HIDE DEF s
<1>4. \A x \in Task : x # current => (Sleeps(sched', x) <=> Sleeps(sched, x))
  BY <1>1, <1>3, MoveSame
<1>5. NobodyWakesIdle'
  BY <1>1, <1>4 DEF NobodyWakesIdle, Sleeps
<1>6. QED BY <1>1, <1>2, <1>4, <1>5

\* A step of module Process, of which an unblock names a PID in P.
StepUnblocking(P) ==
  \/ Fork \/ CreateThread \/ ForkNoFrames
  \/ Block
  \/ \E pid \in P : Unblock(pid)
  \/ UnblockNobody
  \/ \E pid \in Pids : WaitThread(pid)
  \/ Exit
  \/ ExitWake
  \/ ExitDone
  \/ ClockInterrupt

\* It changes the sleep of its caller, of whom the loop of sys_exit wakes, and
\* of whom an unblock wakes, and of nobody else.
LEMMA ProcessSleeps ==
  ASSUME SleepInv, Core, NEW P \in SUBSET Pids, StepUnblocking(P), Running',
         NEW x \in Task, x # current, ~AnchorLinked(x),
         ~(x \in fills[current] /\ sched.PID[x] \in P /\ Sleeps(sched, x))
  PROVE  Sleeps(sched', x) <=> Sleeps(sched, x)
<1>1. /\ TypeOK /\ NobodyWakesIdle /\ SameTable(sched, sched)
      /\ sched \in SchedType /\ current \in Task /\ sched.current = current
      /\ waitList \in [Task -> Seq(Task)]
      /\ \A n \in {"readyqueue", "blocked", "freequeue"} : n \in QueueNames
  BY ItIsTheTable DEF SleepInv, IInv, TypeOK, SchedType, current, QueueNames
<1>2. CASE Fork \/ CreateThread \/ ForkNoFrames
  <2> DEFINE c == Head(FreeQueue)
  <2>1. c \in Task /\ ~Sleeps(sched, c) /\ FreeQueue # <<>>
    BY <1>1, <1>2, FreeSleepsNot DEF Sleeps, Fork, CreateThread, ForkNoFrames
  <2>2. CASE Fork \/ CreateThread
    <3>1. Spawn(c)
      BY <2>2 DEF Fork, CreateThread
    <3>2. CASE x = c
      BY <1>1, <2>1, <3>1, <3>2, SpawnStates DEF Sleeps
    <3>3. CASE x # c
      BY <1>1, <2>1, <3>1, <3>3, SpawnStates DEF Sleeps
    <3>4. QED BY <3>2, <3>3
  <2>3. CASE ForkNoFrames
    <3>1. \A u \in Task : sched'.current_state[u]
             = IF u = c THEN sched.current_state[current] ELSE sched.current_state[u]
      BY <1>1, <2>1, <2>3 DEF ForkNoFrames, SchedType
    <3>2. sched.current_state[current] = "ST_RUN"
      BY <2>3 DEF ForkNoFrames, InSyscall, InUserMode, Core, CurrentFits
    <3>3. QED BY <2>1, <3>1, <3>2 DEF Sleeps
  <2>4. QED BY <1>2, <2>2, <2>3
<1>3. CASE Block
  BY <1>1, <1>3, MoveSame DEF Block, Sleeps
<1>4. ASSUME NEW pid \in P, Unblock(pid) PROVE Sleeps(sched', x) <=> Sleeps(sched, x)
  <2>1. PICK fill \in fills[current] :
          /\ sched.PID[fill] = pid
          /\ IF Sleeps(sched, fill)
             THEN sched' = SchedNext(Update(sched, fill, "readyqueue"))
             ELSE sched' = SchedNext(sched)
    BY <1>4 DEF Unblock, Sleeps
  <2>2. fill \in Task
    BY <1>1 DEF TypeOK
  <2>3. CASE Sleeps(sched, fill)
    <3>1. x # fill
      BY <1>4, <2>1, <2>3
    <3>2. QED BY <1>1, <2>1, <2>2, <2>3, <3>1, MoveSame
  <2>4. CASE ~Sleeps(sched, fill)
    BY <1>1, <2>1, <2>4, NextSame
  <2>5. QED BY <2>3, <2>4
<1>5. CASE UnblockNobody
  BY <1>1, <1>5, NextSame DEF UnblockNobody
<1>6. ASSUME NEW pid \in Pids, WaitThread(pid) PROVE Sleeps(sched', x) <=> Sleeps(sched, x)
  <2> DEFINE ok == sched.sound /\ ~AnchorLinked(current) /\ heads[FirstWith(pid)] # "copied"
             s  == [sched EXCEPT !.sound = ok]
  <2>1. sched' = SchedNext(Update(s, current, "blocked"))
    BY <1>6 DEF WaitThread, Running
  <2>2. ok \in BOOLEAN
    BY <1>1 DEF SchedType, AnchorLinked
  <2>3. SameTable(s, sched)
    BY <1>1, <2>2 DEF SameTable, SchedType
  <2> HIDE DEF s, ok
  <2>4. QED BY <1>1, <2>1, <2>3, MoveSame
<1>7. CASE Exit
  <2>1. sched'.current_state = sched.current_state
    BY <1>1, <1>7 DEF Exit, SchedType
  <2>2. QED BY <2>1 DEF Sleeps
<1>8. CASE ExitWake
  <2> DEFINE w == Head(waitList[current])
  <2>1. /\ exiting /\ waitList[current] \in Seq(Task) /\ waitList[current] # <<>>
        /\ sched' = Update(sched, w, "readyqueue")
    BY <1>1, <1>8 DEF ExitWake
  <2>2. w \in Task /\ AnchorLinked(w)
    <3>1. Contains(waitList[current], w) /\ w \in Task
      <4>1. w \in Task /\ w = waitList[current][1] /\ 1 \in 1 .. Len(waitList[current])
        BY <2>1, HeadTailProperties, LenProperties, EmptySeq
      <4>2. QED BY <4>1 DEF Contains
    <3>2. QED BY <1>1, <3>1 DEF AnchorLinked
  <2> HIDE DEF w
  <2>3. x # w
    BY <2>1, <2>2
  <2>4. QED BY <1>1, <2>1, <2>2, <2>3, UpdateStates DEF Sleeps
<1>9. CASE ExitDone
  BY <1>1, <1>9, MoveSame DEF ExitDone
<1>10. CASE ClockInterrupt
  <2> DEFINE left == IF sched.tick_counter > 0 THEN sched.tick_counter - 1 ELSE 0
             ticked == [sched EXCEPT !.tick_counter = left]
  <2>1. left \in 0 .. DEFAULT_QUANTUM_TICKS
    BY <1>1, QuantumAssumption DEF SchedType
  <2>2. sched' = SchedNext(ticked) \/ sched' = ticked
    BY <1>10 DEF ClockInterrupt, Clock
  <2> HIDE DEF left
  <2>3. SameTable(ticked, sched)
    BY <1>1, <2>1 DEF SameTable, SchedType
  <2> HIDE DEF ticked
  <2>4. CASE sched' = ticked
    BY <2>3, <2>4 DEF SameTable, Sleeps
  <2>5. CASE sched' = SchedNext(ticked)
    BY <1>1, <2>3, <2>5, NextSame
  <2>6. QED BY <2>2, <2>4, <2>5
<1>11. QED BY <1>2, <1>3, <1>4, <1>5, <1>6, <1>7, <1>8, <1>9, <1>10 DEF StepUnblocking

----------------------------------------------------------------------------
(* The calls that touch no semaphore *)

LEMMA ListNews ==
  ASSUME NEW q \in Seq(Task), NEW t \in Task, NEW x
  PROVE  /\ Contains(Append(q, t), x) => Contains(q, x) \/ x = t
         /\ q # <<>> /\ Contains(Tail(q), x) => Contains(q, x)
<1>1. /\ Len(q) \in Nat /\ Len(Append(q, t)) = Len(q) + 1
      /\ \A k \in 1 .. Len(q) : Append(q, t)[k] = q[k]
      /\ Append(q, t)[Len(q) + 1] = t
  BY AppendProperties, LenProperties
<1>2. Contains(Append(q, t), x) => Contains(q, x) \/ x = t
  BY <1>1 DEF Contains
<1>3. ASSUME q # <<>>, NEW k \in 1 .. Len(Tail(q)), Tail(q)[k] = x
      PROVE  Contains(q, x)
  <2>1. k + 1 \in 1 .. Len(q) /\ q[k + 1] = x
    BY <1>1, <1>3, HeadTailProperties
  <2>2. QED BY <2>1 DEF Contains
<1>4. QED BY <1>2, <1>3 DEF Contains

\* Only its caller enters a waitList.
LEMMA AnchorsGrow ==
  ASSUME TypeOK, NEW P \in SUBSET Pids, StepUnblocking(P), Running',
         NEW x \in Task, x # current, AnchorLinked(x)'
  PROVE  AnchorLinked(x)
<1>1. PICK u \in Task : Contains(waitList'[u], x)
  BY DEF AnchorLinked
<1>2. waitList \in [Task -> Seq(Task)] /\ current \in Task
  BY DEF TypeOK, SchedType, current
<1>3. \/ waitList'[u] = waitList[u]
      \/ waitList'[u] = <<>>
      \/ waitList'[u] = Append(waitList[u], current)
      \/ waitList[u] # <<>> /\ waitList'[u] = Tail(waitList[u])
  <2>1. ASSUME NEW c, waitList' = [waitList EXCEPT ![c] = <<>>]
        PROVE  waitList'[u] = waitList[u] \/ waitList'[u] = <<>>
    BY <1>2, <2>1
  <2>2. Fork \/ CreateThread \/ ForkNoFrames => \E c : waitList' = [waitList EXCEPT ![c] = <<>>]
    BY DEF Fork, CreateThread, Spawn, PcbFilled, ForkNoFrames
  <2>3. ASSUME NEW pid \in Pids, WaitThread(pid)
        PROVE  waitList'[u] = waitList[u] \/ waitList'[u] = Append(waitList[u], current)
    BY <1>2, <2>3 DEF WaitThread, Running
  <2>4. ExitWake => \/ waitList'[u] = waitList[u]
                    \/ waitList[u] # <<>> /\ waitList'[u] = Tail(waitList[u])
    BY <1>2 DEF ExitWake
  <2>5. Block \/ (\E pid \in P : Unblock(pid)) \/ UnblockNobody \/ Exit \/ ExitDone
            \/ ClockInterrupt
          => UNCHANGED waitList
    BY DEF Block, Unblock, UnblockNobody, Exit, ExitDone, ClockInterrupt, lists
  <2>6. QED BY <2>1, <2>2, <2>3, <2>4, <2>5 DEF StepUnblocking
<1>4. Contains(waitList[u], x)
  <2>1. ~Contains(<<>>, x)
    BY EmptyList
  <2>2. QED BY <1>1, <1>2, <1>3, <2>1, ListNews
<1>5. QED BY <1>4 DEF AnchorLinked

LEMMA ProcessAccounts ==
  ASSUME SIInv, NobodyWakesIdle, Core, Accounts, cont[current].op = "user",
         NEW P \in SUBSET Pids, StepUnblocking(P), Running', UNCHANGED semvars,
         \A fill \in fills[current] :
           sched.PID[fill] \in P /\ Sleeps(sched, fill) => ~SemLinked(fill)
  PROVE  Accounts'
<1>1. /\ SleepInv /\ TypeOK /\ Anchors /\ (\A i \in Slot : SlotAccounts(i))
      /\ cont' = cont /\ semaphores' = semaphores
  BY DEF SIInv, IInv, SleepInv, Accounts, semvars
<1>2. ASSUME NEW x \in Task, NEW i \in Slot PROVE Waits(x, i)' <=> Waits(x, i)
  <2>1. cont[x].op = "user" => ~Waits(x, i) /\ ~Waits(x, i)'
    BY <1>1 DEF Waits
  <2>2. CASE x = current \/ AnchorLinked(x)
    BY <1>1, <2>1, <2>2 DEF Anchors
  <2>3. CASE x \in fills[current] /\ sched.PID[x] \in P /\ Sleeps(sched, x)
    <3>1. ~Waits(x, i)
      BY <1>1, <2>3 DEF SlotAccounts, SemLinked
    <3>2. QED BY <1>1, <2>3, <3>1 DEF Waits
  <2>4. CASE /\ x # current /\ ~AnchorLinked(x)
             /\ ~(x \in fills[current] /\ sched.PID[x] \in P /\ Sleeps(sched, x))
    <3>1. Sleeps(sched', x) <=> Sleeps(sched, x)
      BY <1>1, <2>4, ProcessSleeps
    <3>2. QED BY <1>1, <3>1 DEF Waits
  <2>5. QED BY <2>2, <2>3, <2>4
<1>3. ASSUME NEW i \in Slot PROVE SlotAccounts(i)'
  <2>1. Dying(i) => Dying(i)'
    BY <1>1 DEF Dying, SlotOf
  <2>2. QED BY <1>1, <1>2, <2>1, SlotKept
<1>4. Anchors'
  BY <1>1, AnchorsGrow DEF Anchors
<1>5. QED BY <1>3, <1>4 DEF Accounts

----------------------------------------------------------------------------
(* The semaphore calls *)

\* What a task that runs is not.
LEMMA RunningAwake ==
  ASSUME TypeOK, Core, Waiters, "unblock_waiter" \notin unguarded, ~exiting
  PROVE  current \in Task /\ ~Sleeps(sched, current) /\ ~AnchorLinked(current)
<1>1. current \in Task /\ ~Sleeps(sched, current)
  BY DEF TypeOK, SchedType, current, Core, CurrentFits, Sleeps
<1>2. QED BY <1>1, AnchoredSleep DEF Waiters

LEMMA GoOnWaits ==
  ASSUME SemTypes, Anchors, current \in Task, ~Sleeps(sched, current), ~AnchorLinked(current),
         NEW c, cont' = [cont EXCEPT ![current] = c],
         sched'.current_state = sched.current_state, UNCHANGED waitList
  PROVE  Anchors' /\ \A t \in Task, i \in Slot : Waits(t, i)' <=> Waits(t, i)
<1>1. \A t \in Task : t # current => cont'[t] = cont[t]
  BY DEF SemTypes
<1>2. Anchors'
  BY <1>1 DEF Anchors, AnchorLinked
<1>3. QED BY <1>1, <1>2 DEF Waits, Sleeps

\* The steps that only move a task on in its call, to the last of its exit.
LEMMA MoveOnAccounts ==
  ASSUME SIInv, Core, Waiters, Accounts, "unblock_waiter" \notin unguarded, Running',
         SemWaitReturn \/ (\E i \in Slot : SemDestroy(i)) \/ SemExit \/ ExitDestroy \/ ExitTask
  PROVE  Accounts'
<1>1. /\ SemTypes /\ TypeOK /\ Anchors /\ (\A i \in Slot : SlotAccounts(i))
      /\ current \in Task /\ ~Sleeps(sched, current) /\ ~AnchorLinked(current)
  <2>1. ~exiting
    BY DEF SemWaitReturn, SemDestroy, SemExit, ExitDestroy, ExitTask, Exit, SemSyscall,
           InSyscall, InUserMode
  <2>2. QED BY <2>1, RunningAwake DEF SIInv, IInv, Accounts
<1>2. /\ UNCHANGED waitList /\ semaphores' = semaphores
      /\ sched'.current_state = sched.current_state
  <2>1. CASE ExitTask
    <3>1. sched' = [sched EXCEPT !.PID[current] = -1]
      BY <2>1 DEF ExitTask, Exit, Running
    <3>2. sched'.current_state = sched.current_state
      BY <1>1, <3>1 DEF TypeOK, SchedType
    <3>3. QED BY <2>1, <3>2 DEF ExitTask, Exit
  <2>2. CASE ~ExitTask
    BY <2>2 DEF SemWaitReturn, SemDestroy, SemExit, ExitDestroy, vars, lists
  <2>3. QED BY <2>1, <2>2
<1>3. PICK c : /\ cont' = [cont EXCEPT ![current] = c]
               /\ \A i \in Slot : Destroys(current, i) => c.op \in {"destroy", "exit"} /\ c.slot = i
  <2>1. CASE SemWaitReturn
    BY <2>1 DEF SemWaitReturn, At, Destroys
  <2>2. ASSUME NEW i \in Slot, SemDestroy(i)
        PROVE  \E c : /\ cont' = [cont EXCEPT ![current] = c]
                      /\ \A j \in Slot : ~Destroys(current, j)
    BY <2>2 DEF SemDestroy, SemSyscall, At, Destroys
  <2>3. CASE SemExit
    BY <2>3 DEF SemExit, SemSyscall, At, Destroys
  <2>4. \A j \in Slot : j # 0
    BY SemAssumption DEF Slot
  <2>5. CASE ExitDestroy
    <3>1. PICK i \in Slot : cont' = [cont EXCEPT ![current] = [cont[current] EXCEPT !.slot = i]]
      BY <2>5 DEF ExitDestroy
    <3>2. \A j \in Slot : ~Destroys(current, j)
      BY <2>4, <2>5 DEF ExitDestroy, Destroys
    <3>3. QED BY <3>1, <3>2
  <2>6. CASE ExitTask
    BY <2>4, <2>6 DEF ExitTask, Destroys
  <2>7. QED BY <2>1, <2>2, <2>3, <2>5, <2>6
<1>4. Anchors' /\ \A t \in Task, i \in Slot : Waits(t, i)' <=> Waits(t, i)
  BY <1>1, <1>2, <1>3, GoOnWaits
<1>5. ASSUME NEW i \in Slot PROVE SlotAccounts(i)'
  <2>1. \A t \in Task : Destroys(t, i) => Destroys(t, i)'
    BY <1>1, <1>3 DEF Destroys, SlotOf, SemTypes
  <2>2. Dying(i) => Dying(i)'
    BY <2>1 DEF Dying, Destroys
  <2>3. QED BY <1>1, <1>2, <1>4, <2>2, SlotKept
<1>6. QED BY <1>4, <1>5 DEF Accounts

LEMMA EndAccounts ==
  ASSUME SIInv, Core, Waiters, Accounts, "unblock_waiter" \notin unguarded, DestroyEnd
  PROVE  Accounts'
<1> DEFINE c == IF At("exit") THEN [cont[current] EXCEPT !.slot = 0] ELSE User
<1>1. /\ SemTypes /\ TypeOK /\ Anchors /\ (\A i \in Slot : SlotAccounts(i))
      /\ current \in Task /\ ~Sleeps(sched, current) /\ ~AnchorLinked(current)
  BY RunningAwake DEF SIInv, IInv, Accounts, DestroyEnd, InUserMode
<1>2. PICK k \in Slot :
      /\ k = SlotOf(current) /\ semaphores[k].blockedThreads = <<>>
      /\ semaphores' = [semaphores EXCEPT ![k].free = TRUE]
      /\ cont' = [cont EXCEPT ![current] = c]
      /\ UNCHANGED vars
  <2>1. SlotOf(current) \in Slot
    BY <1>1, SemAssumption DEF DestroyEnd, SlotOf, SemTypes, ContType, Slot
  <2>2. QED BY <2>1 DEF DestroyEnd
<1> HIDE DEF c
<1>3. Anchors' /\ \A t \in Task, i \in Slot : Waits(t, i)' <=> Waits(t, i)
  BY <1>1, <1>2, GoOnWaits DEF vars, lists
<1>4. ASSUME NEW i \in Slot, i # k PROVE SlotAccounts(i)'
  <2>1. \A t \in Task : Destroys(t, i) => Destroys(t, i)'
    BY <1>1, <1>2, <1>4 DEF Destroys, SlotOf, SemTypes
  <2>2. Dying(i) => Dying(i)'
    BY <2>1 DEF Dying, Destroys
  <2>3. semaphores'[i] = semaphores[i]
    BY <1>2, <1>4 DEF SIInv, SemTypes
  <2>4. QED BY <1>1, <1>3, <2>2, <2>3, SlotKept
<1>5. SlotAccounts(k)'
  <2>1. semaphores'[k].free = TRUE /\ semaphores'[k].blockedThreads = <<>>
    BY <1>1, <1>2 DEF SemTypes, SemType
  <2>2. \A t \in Task : ~Waits(t, k)
    BY <1>1, <1>2, EmptyList DEF SlotAccounts
  <2>3. QED BY <1>2, <1>3, <2>1, <2>2, EmptyList DEF SlotAccounts
<1>6. QED BY <1>3, <1>4, <1>5 DEF Accounts

LEMMA CreateAccounts ==
  ASSUME SIInv, Accounts, NEW v \in InitialValues, SemCreate(v),
         "negative_value" \notin unguarded'
  PROVE  Accounts'
<1>1. /\ SemTypes /\ Anchors /\ (\A i \in Slot : SlotAccounts(i)) /\ v \in Int /\ ~(v < 0)
      /\ UNCHANGED <<sched, waitList, cont>>
  BY SemAssumption DEF SIInv, Accounts, SemCreate, NoteIf, lists
<1>2. PICK k \in Slot :
        /\ semaphores[k].free
        /\ semaphores' = [semaphores EXCEPT
                           ![k] = [value |-> v, free |-> FALSE,
                                   creatorPID |-> sched.PID[current],
                                   blockedThreads |-> <<>>]]
  BY DEF SemCreate
<1>3. Anchors' /\ \A t \in Task, i \in Slot : Waits(t, i)' <=> Waits(t, i)
  BY <1>1 DEF Anchors, AnchorLinked, Waits
<1>4. ASSUME NEW i \in Slot, i # k PROVE SlotAccounts(i)'
  <2>1. Dying(i) => Dying(i)'
    BY <1>1 DEF Dying, SlotOf
  <2>2. semaphores'[i] = semaphores[i]
    BY <1>1, <1>2, <1>4 DEF SemTypes
  <2>3. QED BY <1>1, <1>3, <2>1, <2>2, SlotKept
<1>5. SlotAccounts(k)'
  <2>1. semaphores'[k].value = v /\ semaphores'[k].blockedThreads = <<>>
        /\ semaphores'[k].free = FALSE
    BY <1>1, <1>2 DEF SemTypes
  <2>2. \A t \in Task : ~Waits(t, k)
    BY <1>1, <1>2, EmptyList DEF SlotAccounts
  <2>3. QED BY <1>1, <1>2, <1>3, <2>1, <2>2, EmptyList DEF SlotAccounts
<1>6. QED BY <1>3, <1>4, <1>5 DEF Accounts

\* semWait takes a permit, or puts its caller at the end of the list.
LEMMA WaitAccounts ==
  ASSUME SIInv, NobodyWakesIdle, Core, Waiters, Accounts, "unblock_waiter" \notin unguarded,
         NEW k \in Slot, SemWait(k)
  PROVE  Accounts' /\ Waiters'
<1> DEFINE v == semaphores[k].value
           q == semaphores[k].blockedThreads
           ok == sched.sound /\ ~SemLinked(current)
<1>1. /\ SemTypes /\ TypeOK /\ Anchors /\ (\A i \in Slot : SlotAccounts(i))
      /\ current \in Task /\ ~Sleeps(sched, current) /\ ~AnchorLinked(current)
      /\ ~exiting /\ current # Idle /\ cont[current].op = "user" /\ ~semaphores[k].free
      /\ UNCHANGED <<pidGlobal, waitList, heads, exiting, unguarded>>
  BY RunningAwake DEF SIInv, IInv, Accounts, SemWait, SemSyscall, InSyscall, InUserMode, At, lists
<1>2. semaphores[k] \in SemType /\ v \in Int /\ q \in Seq(Task) /\ Len(q) \in Nat
  BY <1>1, Semaphore, LenProperties
<1>3. Distinct(q) /\ \A t \in Task : Contains(q, t) <=> Waits(t, k)
  BY <1>1 DEF SlotAccounts
<1>4. CASE ~(v - 1 < 0)
  <2>1. /\ semaphores' = [semaphores EXCEPT ![k].value = v - 1]
        /\ UNCHANGED <<sched, cont>>
    BY <1>4 DEF SemWait
  <2>2. Anchors' /\ (\A t \in Task, i \in Slot : Waits(t, i)' <=> Waits(t, i))
        /\ \A i \in Slot : Dying(i)' <=> Dying(i)
    BY <1>1, <2>1 DEF Anchors, AnchorLinked, Waits, Dying, SlotOf
  <2>3. ASSUME NEW i \in Slot, i # k PROVE SlotAccounts(i)'
    <3>1. semaphores'[i] = semaphores[i]
      BY <1>1, <2>1, <2>3 DEF SemTypes
    <3>2. QED BY <1>1, <2>2, <3>1, SlotKept
  <2>4. SlotAccounts(k)'
    <3>1. /\ semaphores'[k].value = v - 1 /\ semaphores'[k].blockedThreads = q
          /\ semaphores'[k].free = semaphores[k].free
      BY <1>1, <1>2, <2>1 DEF SemTypes, SemType
    <3>2. ~Dying(k) => Len(q) = 0
      BY <1>1, <1>2, <1>4 DEF SlotAccounts
    <3>3. QED BY <1>1, <1>2, <1>3, <1>4, <2>2, <3>1, <3>2 DEF SlotAccounts
  <2>5. Waiters'
    BY <1>1, <2>1, WaitListsKept DEF InUse, current
  <2>6. QED BY <2>2, <2>3, <2>4, <2>5 DEF Accounts
<1>5. CASE v - 1 < 0
  <2>1. /\ semaphores' = [semaphores EXCEPT ![k].value = v - 1,
                                            ![k].blockedThreads = Append(q, current)]
        /\ sched' = SchedNext(Update([sched EXCEPT !.sound = ok], current, "blocked"))
        /\ cont' = [cont EXCEPT ![current] = [op |-> "sem_wait", slot |-> k]]
    BY <1>5 DEF SemWait
  <2>2. ok \in BOOLEAN
    BY <1>1 DEF TypeOK, SchedType, SemLinked
  <2> HIDE DEF ok
  <2>3. /\ Sleeps(sched', current) /\ SameFree
        /\ \A x \in Task : x # current => (Sleeps(sched', x) <=> Sleeps(sched, x))
    BY <1>1, <2>1, <2>2, SleepSleeps
  <2>4. /\ \A t \in Task : t # current => cont'[t] = cont[t]
        /\ cont'[current] = [op |-> "sem_wait", slot |-> k]
    BY <1>1, <2>1 DEF SemTypes
  <2>5. \A t \in Task, i \in Slot :
          Waits(t, i)' <=> IF t = current THEN i = k ELSE Waits(t, i)
    BY <2>3, <2>4 DEF Waits
  <2>6. Anchors'
    BY <1>1, <2>4 DEF Anchors, AnchorLinked
  <2>7. \A i \in Slot : Dying(i)' <=> Dying(i)
    BY <1>1, <2>4 DEF Dying, SlotOf
  <2>8. ASSUME NEW i \in Slot, i # k PROVE SlotAccounts(i)'
    <3>1. semaphores'[i] = semaphores[i]
      BY <1>1, <2>1, <2>8 DEF SemTypes
    <3>2. \A t \in Task : Waits(t, i)' <=> Waits(t, i)
      BY <1>1, <2>5, <2>8 DEF Waits
    <3>3. QED BY <1>1, <2>7, <3>1, <3>2, SlotKept
  <2>9. SlotAccounts(k)'
    <3>1. /\ semaphores'[k].value = v - 1 /\ semaphores'[k].free = semaphores[k].free
          /\ semaphores'[k].blockedThreads = Append(q, current)
      BY <1>1, <1>2, <2>1 DEF SemTypes, SemType
    <3>2. ~Contains(q, current)
      BY <1>1, <1>3 DEF Waits
    <3>3. /\ Len(Append(q, current)) = Len(q) + 1 /\ Distinct(Append(q, current))
          /\ \A x : Contains(Append(q, current), x) <=> Contains(q, x) \/ x = current
      BY <1>1, <1>2, <1>3, <3>2, Enqueued
    <3>4. \A t \in Task : Contains(Append(q, current), t) <=> Waits(t, k)'
      BY <1>3, <2>5, <3>2, <3>3
    <3>5. ~Dying(k) => Len(q) = -v
      BY <1>1, <1>2, <1>5 DEF SlotAccounts
    <3> HIDE DEF q
    <3>6. ~Dying(k)' => Len(Append(q, current)) = -(v - 1)
      BY <1>2, <2>7, <3>3, <3>5
    <3>7. QED BY <1>1, <1>2, <1>5, <3>1, <3>3, <3>4, <3>6 DEF SlotAccounts
  <2>10. Waiters'
    <3>1. \A u \in Task : InUse(u) => InUse(u)'
      BY <1>1, <2>3 DEF InUse, SameFree
    <3>2. \A x \in Task : AnchorLinked(x) /\ Sleeps(sched, x) => Sleeps(sched', x)
      BY <1>1, <2>3
    <3>3. QED BY <1>1, <3>1, <3>2, WaitListsKept
  <2>11. QED BY <2>6, <2>8, <2>9, <2>10 DEF Accounts
<1>6. QED BY <1>4, <1>5

\* A semSignal or a round of a semDestroy wakes the first waiter of a slot.
LEMMA WakeAccounts ==
  ASSUME SIInv, NobodyWakesIdle, Core, Waiters, Accounts, "unblock_waiter" \notin unguarded,
         ~exiting, UNCHANGED Others, UNCHANGED unguarded, sched'.sound,
         NEW k \in Slot, NEW q, q = semaphores[k].blockedThreads, q # <<>>,
         sched' = SchedNext(Update(sched, Head(q), "readyqueue")),
         semaphores'[k].blockedThreads = Tail(q),
         semaphores'[k].free = semaphores[k].free,
         \A i \in Slot : i # k => semaphores'[i] = semaphores[i],
         ~Dying(k)' => /\ ~Dying(k) /\ semaphores[k].value < 0
                       /\ semaphores'[k].value = semaphores[k].value + 1,
         \A t \in Task : t # Head(q) => cont'[t] = cont[t]
  PROVE  Accounts' /\ Waiters'
<1> DEFINE w == Head(q)
<1>1. /\ SemTypes /\ TypeOK /\ Anchors /\ (\A i \in Slot : SlotAccounts(i))
      /\ UNCHANGED <<pidGlobal, waitList, heads, exiting>>
      /\ sched \in SchedType /\ current \in Task
  BY DEF SIInv, IInv, Accounts, Others, lists, TypeOK, SchedType, current
<1>2. w \in Task /\ Waits(w, k)
  <2>1. q \in Seq(Task) /\ Distinct(q)
    BY <1>1, Semaphore DEF SlotAccounts
  <2>2. w \in Task /\ Contains(q, w)
    BY <2>1, Dequeued, HeadTailProperties
  <2>3. QED BY <1>1, <2>2 DEF SlotAccounts
<1> HIDE DEF w
<1>3. cont[w] = [op |-> "sem_wait", slot |-> k]
  BY <1>2 DEF Waits
<1>4. ~AnchorLinked(w)
  BY <1>1, <1>2, <1>3 DEF Anchors
<1>5. /\ ~Sleeps(sched', w)
      /\ \A x \in Task : x # w => (Sleeps(sched', x) <=> Sleeps(sched, x))
  BY <1>1, <1>2, WakeSleeps DEF w
<1>6. \A t \in Task, i \in Slot : t # w => (Waits(t, i)' <=> Waits(t, i))
  BY <1>5 DEF Waits, w
<1>7. \A i \in Slot : ~Waits(w, i)'
  BY <1>5 DEF Waits
<1>8. Anchors'
  BY <1>1, <1>4 DEF Anchors, AnchorLinked, w
<1>9. ASSUME NEW i \in Slot, i # k PROVE SlotAccounts(i)'
  <2>1. ~Waits(w, i)
    BY <1>3, <1>9 DEF Waits
  <2>2. \A t \in Task : Waits(t, i)' <=> Waits(t, i)
    BY <1>6, <1>7, <2>1
  <2>3. Dying(i) => Dying(i)'
    BY <1>3 DEF Dying, SlotOf, w
  <2>4. QED BY <1>1, <1>9, <2>2, <2>3, SlotKept
<1>10. SlotAccounts(k)'
  BY <1>1, <1>5, <1>6, SlotWoken DEF w
<1>11. Waiters'
  <2>1. \A u \in Task : sched.PID[u] < 0 => IsFree(sched, u)
    <3>1. \A u \in Task : /\ sched.PID[u] \in Int
                          /\ u \notin {Idle, current} => Linked(sched, u)
                          /\ \A n \in QueueNames :
                               In(sched, n, u) /\ n # "freequeue" => sched.PID[u] > 0
      BY <1>1 DEF Core, Table, PidsAgree, SchedType
    <3>2. sched.PID[Idle] = 0 /\ (current # Idle => sched.PID[current] > 0)
      BY DEF Core, Table, CurrentFits
    <3>3. QED BY <3>1, <3>2 DEF Linked, In, IsFree
  <2>2. \A u \in Task : IsFree(sched', u) => IsFree(sched, u) \/ sched.PID[u] < 0
    BY <1>1, <1>2, WakeCore DEF w
  <2>3. \A u \in Task : InUse(u) => InUse(u)'
    BY <1>1, <2>1, <2>2 DEF InUse
  <2>4. \A x \in Task : AnchorLinked(x) /\ Sleeps(sched, x) => Sleeps(sched', x)
    BY <1>4, <1>5
  <2>5. QED BY <1>1, <2>3, <2>4, WaitListsKept
<1>12. QED BY <1>8, <1>9, <1>10, <1>11 DEF Accounts

LEMMA SignalAccounts ==
  ASSUME SIInv, NobodyWakesIdle, Core, Waiters, Accounts, "unblock_waiter" \notin unguarded,
         NEW k \in Slot, SemSignal(k), Running'
  PROVE  Accounts' /\ Waiters'
<1> DEFINE v == semaphores[k].value
           q == semaphores[k].blockedThreads
<1>1. /\ SemTypes /\ TypeOK /\ Anchors /\ (\A i \in Slot : SlotAccounts(i))
      /\ ~exiting /\ UNCHANGED Others /\ UNCHANGED cont
      /\ UNCHANGED <<pidGlobal, waitList, heads, exiting>>
  BY DEF SIInv, IInv, Accounts, SemSignal, SemSyscall, InSyscall, InUserMode, Others, lists
<1>2. semaphores[k] \in SemType /\ v \in Int /\ q \in Seq(Task) /\ Len(q) \in Nat
  BY <1>1, Semaphore, LenProperties
<1>3. \A i \in Slot : Dying(i)' <=> Dying(i)
  BY <1>1 DEF Dying, SlotOf
<1>4. CASE v + 1 > 0
  <2>1. semaphores' = [semaphores EXCEPT ![k].value = v + 1] /\ UNCHANGED <<sched, unguarded>>
    BY <1>4 DEF SemSignal
  <2>2. Anchors' /\ \A t \in Task, i \in Slot : Waits(t, i)' <=> Waits(t, i)
    BY <1>1, <2>1 DEF Anchors, AnchorLinked, Waits
  <2>3. ASSUME NEW i \in Slot, i # k PROVE SlotAccounts(i)'
    <3>1. semaphores'[i] = semaphores[i]
      BY <1>1, <2>1, <2>3 DEF SemTypes
    <3>2. QED BY <1>1, <1>3, <2>2, <3>1, SlotKept
  <2>4. SlotAccounts(k)'
    <3>1. /\ semaphores'[k].value = v + 1 /\ semaphores'[k].blockedThreads = q
          /\ semaphores'[k].free = semaphores[k].free
      BY <1>1, <1>2, <2>1 DEF SemTypes, SemType
    <3>2. QED BY <1>1, <1>2, <1>3, <1>4, <2>2, <3>1 DEF SlotAccounts
  <2>5. Waiters'
    BY <1>1, <2>1, WaitListsKept DEF InUse, current, IsFree, In
  <2>6. QED BY <2>2, <2>3, <2>4, <2>5 DEF Accounts
<1>5. CASE ~(v + 1 > 0)
  <2>1. /\ q # <<>> /\ UNCHANGED unguarded
        /\ semaphores' = [semaphores EXCEPT ![k].value = v + 1, ![k].blockedThreads = Tail(q)]
        /\ sched' = SchedNext(Update(sched, Head(q), "readyqueue"))
    <3>1. sched'.sound
      BY DEF Running
    <3>2. sched' # [sched EXCEPT !.sound = FALSE]
      BY <1>1, <3>1 DEF TypeOK, SchedType
    <3>3. QED BY <1>5, <3>2 DEF SemSignal
  <2>2. /\ semaphores'[k].value = v + 1 /\ semaphores'[k].blockedThreads = Tail(q)
        /\ semaphores'[k].free = semaphores[k].free
        /\ \A i \in Slot : i # k => semaphores'[i] = semaphores[i]
    BY <1>1, <1>2, <2>1 DEF SemTypes, SemType
  <2>3. v < 0
    BY <1>2, <1>5
  <2>4. sched'.sound
    BY DEF Running
  <2> HIDE DEF q, v
  <2>5. QED BY <1>1, <1>3, <2>1, <2>2, <2>3, <2>4, WakeAccounts DEF q, v
<1>6. QED BY <1>4, <1>5

LEMMA DestroyedSlot ==
  ASSUME SemTypes, NEW t \in Task, SlotOf(t) # 0
  PROVE  SlotOf(t) \in Slot
<1>1. cont[t].slot \in 0 .. NUM_SEMS
  BY DEF SemTypes, ContType
<1>2. QED BY <1>1, SemAssumption DEF SlotOf, Slot

LEMMA RoundAccounts ==
  ASSUME SIInv, NobodyWakesIdle, Core, Waiters, Accounts, "unblock_waiter" \notin unguarded,
         DestroyRound, Running'
  PROVE  Accounts' /\ Waiters'
<1>1. /\ SemTypes /\ TypeOK /\ (\A i \in Slot : SlotAccounts(i)) /\ current \in Task
      /\ ~exiting /\ UNCHANGED Others /\ UNCHANGED unguarded /\ sched'.sound
      /\ cont[current].op \in {"destroy", "exit"}
  BY DEF SIInv, IInv, Accounts, DestroyRound, InUserMode, Others, Running, TypeOK, SchedType,
         current, At
<1>2. PICK k \in Slot : k = SlotOf(current)
  BY <1>1, DestroyedSlot DEF DestroyRound
<1> DEFINE q == semaphores[k].blockedThreads
<1>3. /\ q # <<>>
      /\ semaphores' = [semaphores EXCEPT ![k].creatorPID = -1,
                                          ![k].blockedThreads = Tail(q)]
      /\ sched' = SchedNext(Update(sched, Head(q), "readyqueue"))
      /\ \/ cont' = [cont EXCEPT ![Head(q)] = [cont[Head(q)] EXCEPT !.op = "destroyed"]]
         \/ cont' = cont
  BY <1>2 DEF DestroyRound
<1>4. q \in Seq(Task) /\ semaphores[k] \in SemType
  BY <1>1, Semaphore
<1>5. Head(q) \in Task /\ Waits(Head(q), k)
  <2>1. Distinct(q)
    BY <1>1 DEF SlotAccounts
  <2>2. Head(q) \in Task /\ Contains(q, Head(q))
    BY <1>3, <1>4, <2>1, Dequeued, HeadTailProperties
  <2>3. QED BY <1>1, <2>2 DEF SlotAccounts
<1>6. /\ semaphores'[k].blockedThreads = Tail(q)
      /\ semaphores'[k].free = semaphores[k].free
      /\ \A i \in Slot : i # k => semaphores'[i] = semaphores[i]
  BY <1>1, <1>3, <1>4 DEF SemTypes, SemType
<1> HIDE DEF q
<1>7. \A t \in Task : t # Head(q) => cont'[t] = cont[t]
  BY <1>1, <1>3 DEF SemTypes
<1>8. Dying(k)'
  <2>1. current # Head(q)
    BY <1>1, <1>5 DEF Waits
  <2>2. cont'[current] = cont[current]
    BY <1>1, <1>7, <2>1
  <2>3. QED BY <1>1, <1>2, <2>2 DEF Dying, SlotOf
<1>9. QED BY <1>1, <1>3, <1>6, <1>7, <1>8, WakeAccounts DEF q

\* The calls that touch no semaphore.
LEMMA OtherAccounts ==
  ASSUME SIInv, DInv, NobodyWakesIdle, Core, Waiters, Accounts, Running',
         SemSpawn \/ (\E pid \in Pids : SemUnblock(pid)) \/ OtherCall \/ ExitLoop,
         "unblock_waiter" \notin unguarded'
  PROVE  Accounts' /\ Waiters'
<1>1. SleepInv /\ TypeOK /\ UNCHANGED semvars /\ cont[current].op = "user" /\ sched'.sound
  BY DEF SIInv, IInv, SleepInv, SemSpawn, SemUnblock, OtherCall, ExitLoop, SemSyscall, At,
         DInv, ExitWake, ExitDone, Running
<1>2. ASSUME NEW P \in SUBSET Pids, StepUnblocking(P),
             \A fill \in fills[current] :
               sched.PID[fill] \in P /\ Sleeps(sched, fill) => ~SemLinked(fill)
      PROVE  Accounts' /\ Waiters'
  <2>1. [Next]_vars
    BY <1>2 DEF StepUnblocking, Next
  <2>2. Waiters'
    BY <1>1, <2>1, WaitersNext DEF WaitersStep
  <2>3. QED BY <1>1, <1>2, <2>2, ProcessAccounts
<1>3. ~(sched' = [sched EXCEPT !.sound = FALSE])
  BY <1>1 DEF TypeOK, SchedType
<1>4. CASE SemSpawn \/ OtherCall \/ ExitLoop
  <2>1. StepUnblocking({})
    BY <1>1, <1>3, <1>4, PageFaultStep DEF SemSpawn, OtherCall, ExitLoop, StepUnblocking
  <2>2. QED BY <1>2, <2>1
<1>5. ASSUME NEW pid \in Pids, SemUnblock(pid) PROVE Accounts' /\ Waiters'
  <2>1. /\ Unblock(pid)
        /\ \A fill \in fills[current] :
             sched.PID[fill] = pid /\ Sleeps(sched, fill) => ~SemLinked(fill)
    BY <1>5 DEF SemUnblock, NoteIf, Sleeps
  <2>2. StepUnblocking({pid})
    BY <2>1 DEF StepUnblocking
  <2>3. QED BY <1>2, <2>1, <2>2
<1>6. QED BY <1>4, <1>5

\* Neither the idle task nor one that exits sleeps, whoever is woken.
LEMMA SemAwakeNext ==
  ASSUME SIInv, NobodyWakesIdle, Running => Core, [SemNext]_allvars
  PROVE  NobodyWakesIdle'
<1>1. SleepInv /\ TypeOK /\ sched \in SchedType /\ Idle \in Task /\ current \in Task
  BY IdleIsTask DEF SIInv, IInv, SleepInv, TypeOK, SchedType, current
<1>2. CASE [Next]_vars
  BY <1>1, <1>2, SleepInvNext DEF SleepInv
<1>3. CASE \/ UNCHANGED <<sched, exiting>>
           \/ sched' = [sched EXCEPT !.sound = FALSE] /\ UNCHANGED exiting
  BY <1>1, <1>3 DEF NobodyWakesIdle, SchedType, current
<1>4. ASSUME Running, ~exiting, UNCHANGED exiting, NEW w \in Task,
             sched' = SchedNext(Update(sched, w, "readyqueue"))
      PROVE  NobodyWakesIdle'
  BY <1>1, <1>4, WakeSleeps
<1>5. ASSUME NEW i \in Slot, SemWait(i) PROVE NobodyWakesIdle'
  <2> DEFINE ok == sched.sound /\ ~SemLinked(current)
  <2>1. /\ Core /\ ~exiting /\ current # Idle /\ UNCHANGED <<heads, pidGlobal, exiting>>
        /\ \/ UNCHANGED sched
           \/ sched' = SchedNext(Update([sched EXCEPT !.sound = ok], current, "blocked"))
    BY <1>5 DEF SemWait, SemSyscall, InSyscall, InUserMode, lists
  <2>2. ok \in BOOLEAN
    BY <1>1 DEF SchedType, SemLinked
  <2> HIDE DEF ok
  <2>3. CASE UNCHANGED sched
    BY <1>3, <2>1, <2>3
  <2>4. CASE sched' = SchedNext(Update([sched EXCEPT !.sound = ok], current, "blocked"))
    BY <1>1, <2>1, <2>2, <2>4, SleepSleeps
  <2>5. QED BY <2>1, <2>3, <2>4
<1>6. ASSUME NEW i \in Slot, SemSignal(i) PROVE NobodyWakesIdle'
  <2> DEFINE q == semaphores[i].blockedThreads
  <2>1. /\ Running /\ ~exiting /\ UNCHANGED exiting
        /\ \/ UNCHANGED sched
           \/ sched' = [sched EXCEPT !.sound = FALSE]
           \/ q # <<>> /\ sched' = SchedNext(Update(sched, Head(q), "readyqueue"))
    BY <1>6 DEF SemSignal, SemSyscall, InSyscall, InUserMode
  <2>2. q # <<>> => Head(q) \in Task
    BY Semaphore, HeadTailProperties DEF SIInv
  <2> HIDE DEF q
  <2>3. QED BY <1>3, <1>4, <2>1, <2>2
<1>7. CASE DestroyRound
  <2>1. PICK i \in Slot : i = SlotOf(current)
    BY <1>1, <1>7, DestroyedSlot DEF SIInv, DestroyRound
  <2> DEFINE q == semaphores[i].blockedThreads
  <2>2. /\ Running /\ ~exiting /\ UNCHANGED exiting /\ q # <<>>
        /\ sched' = SchedNext(Update(sched, Head(q), "readyqueue"))
    BY <1>7, <2>1 DEF DestroyRound, InUserMode
  <2>3. Head(q) \in Task
    BY <2>2, Semaphore, HeadTailProperties DEF SIInv
  <2> HIDE DEF q
  <2>4. QED BY <1>4, <2>2, <2>3
<1>8. ASSUME NEW pid \in Pids, SemUnblock(pid) PROVE NobodyWakesIdle'
  <2>1. \/ Unblock(pid)
        \/ /\ Running /\ ~exiting /\ UNCHANGED exiting
           /\ \E fill \in fills[current] : sched' = SchedNext(Update(sched, fill, "readyqueue"))
    BY <1>8 DEF SemUnblock, SemSyscall, InSyscall, InUserMode
  <2>2. fills[current] \subseteq Task
    BY <1>1 DEF TypeOK
  <2>3. Unblock(pid) => [Next]_vars
    BY DEF Next
  <2>4. QED BY <1>2, <1>4, <2>1, <2>2, <2>3
<1>9. CASE SemSpawn
  BY <1>2, <1>3, <1>9 DEF SemSpawn, Next
<1>10. CASE ExitTask \/ ExitLoop \/ OtherCall \/ (Halted /\ UNCHANGED semvars) \/ UNCHANGED allvars
  BY <1>2, <1>10 DEF ExitTask, ExitLoop, OtherCall, Next, allvars
<1>11. CASE \/ \E v \in InitialValues : SemCreate(v)
            \/ \E i \in Slot : SemDestroy(i)
            \/ SemWaitReturn \/ DestroyEnd \/ SemExit \/ ExitDestroy
  BY <1>3, <1>11 DEF SemCreate, SemDestroy, SemWaitReturn, DestroyEnd, SemExit, ExitDestroy, vars
<1>12. QED BY <1>5, <1>6, <1>7, <1>8, <1>9, <1>10, <1>11 DEF SemNext, KernelStep

AInv ==
  /\ SIInv /\ DInv /\ NobodyWakesIdle
  /\ Running /\ Clean => Waiters /\ Accounts

\* No step forgets a situation.
LEMMA SemUnguardedGrows == [SemNext]_allvars => unguarded \subseteq unguarded'
<1> SUFFICES ASSUME [SemNext]_allvars PROVE unguarded \subseteq unguarded'
  OBVIOUS
<1>1. [Next]_vars => unguarded \subseteq unguarded'
  BY UnguardedGrows
<1>2. CASE SemSpawn \/ (\E pid \in Pids : SemUnblock(pid)) \/ OtherCall \/ ExitTask \/ ExitLoop
  BY <1>1, <1>2 DEF SemSpawn, SemUnblock, OtherCall, ExitTask, ExitLoop, Next, NoteIf
<1>3. CASE ~(SemSpawn \/ (\E pid \in Pids : SemUnblock(pid)) \/ OtherCall \/ ExitTask \/ ExitLoop)
  BY <1>3 DEF SemNext, KernelStep, SemCreate, SemWait, SemSignal, SemDestroy, SemExit,
     SemWaitReturn,
              DestroyRound, DestroyEnd, ExitDestroy, Halted, allvars, vars, NoteIf
<1>4. QED BY <1>2, <1>3

LEMMA InitAccounts == SemInit => AInv
<1> SUFFICES ASSUME SemInit PROVE AInv
  OBVIOUS
<1>1. SIInv /\ DInv /\ NobodyWakesIdle /\ Waiters
  BY SemInitInv, InitDestroyer, SleepInvInit, WaitersInit DEF SemInit, SleepInv
<1>2. \A t \in Task : cont[t].op = "user"
  BY DEF SemInit, User
<1>3. \A i \in Slot : semaphores[i].free /\ semaphores[i].blockedThreads = <<>>
  BY DEF SemInit
<1>4. Accounts
  BY <1>2, <1>3, EmptyList DEF Accounts, Anchors, SlotAccounts, Waits
<1>5. QED BY <1>1, <1>4 DEF AInv

LEMMA NextAccounts ==
  ASSUME AInv, [SemNext]_allvars
  PROVE  AInv'
<1>1. SIInv /\ DInv /\ NobodyWakesIdle /\ TypeOK /\ (Running => Core)
  BY DEF AInv, SIInv, IInv
<1>2. SIInv' /\ DInv' /\ NobodyWakesIdle'
  BY <1>1, SemNextInv, NextDestroyer, SemAwakeNext
<1>3. ASSUME Running', Clean' PROVE Waiters' /\ Accounts'
  <2>1. CASE (Halted /\ UNCHANGED semvars) \/ UNCHANGED allvars
    <3>1. UNCHANGED allvars /\ Running /\ Clean
      BY <1>3, <2>1 DEF Halted, allvars, vars, semvars, Running, Clean
    <3>2. Waiters /\ Accounts
      BY <3>1 DEF AInv
    <3>3. Waiters'
      BY <1>1, <3>1, <3>2, WaitListsKept DEF allvars, vars, lists, InUse, IsFree, In, current
    <3>4. Accounts'
      BY <3>1, <3>2 DEF allvars, vars, semvars, lists, Accounts, Anchors, AnchorLinked,
         SlotAccounts,
                        Waits, Dying, SlotOf
    <3>5. QED BY <3>3, <3>4
  <2>2. CASE Running
    <3>1. /\ Clean /\ Core /\ Waiters /\ Accounts
          /\ "unblock_waiter" \notin unguarded /\ "unblock_waiter" \notin unguarded'
          /\ "negative_value" \notin unguarded' /\ unguarded \subseteq unguarded'
      <4>1. unguarded \subseteq unguarded'
        BY SemUnguardedGrows
      <4>2. Clean
        BY <1>3, <4>1 DEF Clean
      <4>3. QED BY <1>1, <1>3, <2>2, <4>1, <4>2 DEF AInv, Clean
    <3>2. ASSUME UNCHANGED <<sched, waitList, exiting>> PROVE Waiters'
      BY <1>1, <3>1, <3>2, WaitListsKept DEF InUse, IsFree, In, current
    <3>3. ASSUME NEW v \in InitialValues, SemCreate(v) PROVE Waiters' /\ Accounts'
      BY <1>1, <3>1, <3>2, <3>3, CreateAccounts DEF SemCreate, lists
    <3>4. ASSUME NEW i \in Slot, SemWait(i) PROVE Waiters' /\ Accounts'
      BY <1>1, <3>1, <3>4, WaitAccounts
    <3>5. ASSUME NEW i \in Slot, SemSignal(i) PROVE Waiters' /\ Accounts'
      BY <1>1, <1>3, <3>1, <3>5, SignalAccounts
    <3>6. CASE DestroyRound
      BY <1>1, <1>3, <3>1, <3>6, RoundAccounts
    <3>7. CASE DestroyEnd
      BY <1>1, <3>1, <3>2, <3>7, EndAccounts DEF DestroyEnd, vars, lists
    <3>8. CASE SemWaitReturn \/ (\E i \in Slot : SemDestroy(i)) \/ SemExit \/ ExitDestroy
      <4>1. Accounts'
        BY <1>1, <1>3, <3>1, <3>8, MoveOnAccounts
      <4>2. UNCHANGED vars
        BY <3>8 DEF SemWaitReturn, SemDestroy, SemExit, ExitDestroy
      <4>3. QED BY <3>2, <4>1, <4>2 DEF vars, lists
    <3>9. CASE ExitTask
      <4>1. Accounts'
        BY <1>1, <1>3, <3>1, <3>9, MoveOnAccounts
      <4>2. [Next]_vars /\ SleepInv
        BY <1>1, <3>9 DEF ExitTask, Next, SIInv, SleepInv
      <4>3. QED BY <1>3, <3>1, <4>1, <4>2, WaitersNext DEF WaitersStep
    <3>10. CASE SemSpawn \/ (\E pid \in Pids : SemUnblock(pid)) \/ OtherCall \/ ExitLoop
      BY <1>1, <1>3, <3>1, <3>10, OtherAccounts
    <3>11. QED BY <2>1, <3>3, <3>4, <3>5, <3>6, <3>7, <3>8, <3>9, <3>10 DEF SemNext, KernelStep
  <2>3. QED BY <2>1, <2>2, SemStepsRun
<1>4. QED BY <1>2, <1>3 DEF AInv

LEMMA AccountsInductive == SemSpec => []AInv
<1>1. AInv /\ [SemNext /\ unguarded' \subseteq Admitted]_allvars => AInv'
  BY NextAccounts
<1>2. QED BY <1>1, InitAccounts, PTL DEF SemSpec

\* A semaphore has as many waiters as its value is below zero, and on its list
\* is exactly who sleeps in semWait for it, however the calls interleave with a
\* destruction, a fork, an unblock or an exit (Semaphores.SemAccounting).
THEOREM SemAccountingHolds == SemSpec => []SemAccounting
<1>1. AInv => SemAccounting
  <2> SUFFICES ASSUME AInv, Running, Clean, NEW i \in Slot
               PROVE  LET s == semaphores[i] IN
                      /\ s.free => s.blockedThreads = <<>>
                      /\ ~s.free /\ ~Dying(i) =>
                           Len(s.blockedThreads) = IF s.value < 0 THEN -s.value ELSE 0
                      /\ \A t \in Task :
                           Contains(s.blockedThreads, t) <=>
                             sched.current_state[t] = "ST_BLOCKED"
                             /\ cont[t] = [op |-> "sem_wait", slot |-> i]
    BY DEF SemAccounting, Clean
  <2>1. SlotAccounts(i)
    BY DEF AInv, Accounts
  <2>2. QED BY <2>1 DEF SlotAccounts, Waits, Sleeps
<1>2. QED BY <1>1, AccountsInductive, PTL

----------------------------------------------------------------------------
(* ImplementsFifoSemaphore, step by step.  What any step of the kernel does *)
(* to one slot is one of nine things.                                      *)

SameDestroyers(i) == \A t \in Task : Destroys(t, i)' <=> Destroys(t, i)

Becomes(i, value, free, list) ==
  /\ semaphores'[i].value = value
  /\ semaphores'[i].free = free
  /\ semaphores'[i].blockedThreads = list

SlotRests(i) ==
  /\ semaphores'[i] = semaphores[i]
  /\ SameDestroyers(i)
  /\ ~Destroys(current, i) \/ current' = current

SlotCreated(i) ==
  /\ semaphores[i].free
  /\ \E v \in Nat : Becomes(i, v, FALSE, <<>>)
  /\ SameDestroyers(i)

\* A task in its program waits for the semaphore or signals it.
SlotCalled(i) ==
  LET v == semaphores[i].value
      q == semaphores[i].blockedThreads
  IN /\ ~semaphores[i].free /\ ~Destroys(current, i) /\ SameDestroyers(i)
     /\ \/ v > 0  /\ Becomes(i, v - 1, FALSE, q)
        \/ v <= 0 /\ Becomes(i, v - 1, FALSE, Append(q, current))
        \/ v >= 0 /\ Becomes(i, v + 1, FALSE, q)
        \/ v < 0  /\ q # <<>> /\ Becomes(i, v + 1, FALSE, Tail(q))

DestructionBegins(i) ==
  /\ ~semaphores[i].free /\ semaphores'[i] = semaphores[i]
  /\ \A t \in Task : ~Destroys(t, i) /\ (Destroys(t, i)' <=> t = current)
  /\ current' = current

WaiterLetGo(i) ==
  LET q == semaphores[i].blockedThreads
  IN /\ Destroys(current, i) /\ SameDestroyers(i)
     /\ q # <<>> /\ Becomes(i, semaphores[i].value, FALSE, Tail(q))

DestructionEnds(i) ==
  /\ Destroys(current, i) /\ \A t \in Task : ~Destroys(t, i)'
  /\ semaphores[i].blockedThreads = <<>>
  /\ Becomes(i, semaphores[i].value, TRUE, <<>>)

SlotStep(i) ==
  \/ SlotRests(i) \/ SlotCreated(i) \/ SlotCalled(i)
  \/ DestructionBegins(i) \/ WaiterLetGo(i) \/ DestructionEnds(i)

\* A task that destroys nothing moves on in its call, or is moved on.
LEMMA NoDestroyerMoves ==
  ASSUME SemTypes, current \in Task, NEW i \in Slot,
         \A t \in Task : \/ cont'[t] = cont[t]
                         \/ ~Destroys(t, i) /\ ~Destroys(t, i)'
  PROVE  SameDestroyers(i)
BY DEF SameDestroyers, Destroys, SlotOf

LEMMA CallSteps ==
  ASSUME SIInv, DInv, NEW i \in Slot, NEW k \in Slot, SemWait(k) \/ SemSignal(k)
  PROVE  SlotStep(i)
<1> DEFINE v == semaphores[k].value
           q == semaphores[k].blockedThreads
<1>1. /\ SemTypes /\ current \in Task /\ cont[current].op = "user" /\ ~semaphores[k].free
  BY DEF SIInv, IInv, TypeOK, SchedType, current, SemWait, SemSignal, SemSyscall, At
<1>2. semaphores[k] \in SemType /\ v \in Int /\ q \in Seq(Task)
  BY <1>1, Semaphore
<1>3. ~Destroys(current, i)
  BY <1>1 DEF Destroys
<1>4. SameDestroyers(i)
  <2>1. \A t \in Task : cont'[t] = cont[t] \/ (t = current /\ cont'[t].op = "sem_wait")
    BY <1>1 DEF SemWait, SemSignal, SemTypes
  <2>2. QED BY <1>1, <1>3, <2>1, NoDestroyerMoves DEF Destroys
<1>5. \/ UNCHANGED semaphores
      \/ /\ v - 1 >= 0
         /\ semaphores' = [semaphores EXCEPT ![k].value = v - 1]
      \/ /\ v - 1 < 0
         /\ semaphores' = [semaphores EXCEPT ![k].value = v - 1,
                                             ![k].blockedThreads = Append(q, current)]
      \/ /\ v + 1 > 0
         /\ semaphores' = [semaphores EXCEPT ![k].value = v + 1]
      \/ /\ v + 1 <= 0 /\ q # <<>>
         /\ semaphores' = [semaphores EXCEPT ![k].value = v + 1,
                                             ![k].blockedThreads = Tail(q)]
  BY <1>2 DEF SemWait, SemSignal
<1>6. CASE UNCHANGED semaphores \/ i # k
  <2>1. semaphores'[i] = semaphores[i]
    BY <1>1, <1>5, <1>6 DEF SemTypes
  <2>2. QED BY <1>3, <1>4, <2>1 DEF SlotStep, SlotRests
<1>7. CASE ~UNCHANGED semaphores /\ i = k
  <2>1. ASSUME NEW x \in Int, semaphores' = [semaphores EXCEPT ![k].value = x]
        PROVE  Becomes(k, x, FALSE, q)
    BY <1>1, <1>2, <2>1 DEF Becomes, SemTypes, SemType
  <2>2. ASSUME NEW x \in Int, NEW y \in Seq(Task),
               semaphores' = [semaphores EXCEPT ![k].value = x, ![k].blockedThreads = y]
        PROVE  Becomes(k, x, FALSE, y)
    BY <1>1, <1>2, <2>2 DEF Becomes, SemTypes, SemType
  <2>3. /\ v - 1 \in Int /\ v + 1 \in Int /\ Append(q, current) \in Seq(Task)
        /\ q # <<>> => Tail(q) \in Seq(Task)
    BY <1>1, <1>2, HeadTailProperties
  <2>4. /\ v - 1 >= 0 => v > 0
        /\ v - 1 < 0 => v <= 0
        /\ v + 1 > 0 => v >= 0
        /\ v + 1 <= 0 => v < 0
    BY <1>2
  <2> HIDE DEF v, q
  <2>5. \/ v > 0  /\ Becomes(k, v - 1, FALSE, q)
        \/ v <= 0 /\ Becomes(k, v - 1, FALSE, Append(q, current))
        \/ v >= 0 /\ Becomes(k, v + 1, FALSE, q)
        \/ v < 0  /\ q # <<>> /\ Becomes(k, v + 1, FALSE, Tail(q))
    BY <1>5, <1>7, <2>1, <2>2, <2>3, <2>4, Zenon
  <2>6. QED BY <1>1, <1>3, <1>4, <1>7, <2>5 DEF SlotStep, SlotCalled, v, q
<1>8. QED BY <1>6, <1>7

LEMMA RoundSteps ==
  ASSUME SIInv, DInv, NEW i \in Slot, DestroyRound
  PROVE  SlotStep(i)
<1>1. SemTypes /\ current \in Task /\ cont[current].op \in {"destroy", "exit"}
  BY DEF SIInv, IInv, TypeOK, SchedType, current, DestroyRound, At
<1>2. PICK k \in Slot : k = SlotOf(current)
  BY <1>1, DestroyedSlot DEF DestroyRound
<1> DEFINE q == semaphores[k].blockedThreads
<1>3. /\ q # <<>> /\ Destroys(current, k) /\ ~semaphores[k].free
      /\ semaphores' = [semaphores EXCEPT ![k].creatorPID = -1,
                                          ![k].blockedThreads = Tail(q)]
      /\ \/ cont[Head(q)].op = "sem_wait"
            /\ cont' = [cont EXCEPT ![Head(q)] = [cont[Head(q)] EXCEPT !.op = "destroyed"]]
         \/ cont' = cont
  BY <1>1, <1>2 DEF DestroyRound, Destroys, DInv
<1>4. \A t \in Task : \/ cont'[t] = cont[t]
                      \/ cont[t].op = "sem_wait" /\ cont'[t].op = "destroyed"
  BY <1>1, <1>3 DEF SemTypes, ContType
<1>5. SameDestroyers(i)
  BY <1>1, <1>4, NoDestroyerMoves DEF Destroys
<1>6. CASE i = k
  <2>1. semaphores[k] \in SemType
    BY <1>1, Semaphore
  <2>2. Becomes(k, semaphores[k].value, FALSE, Tail(q))
    BY <1>1, <1>3, <2>1 DEF Becomes, SemTypes, SemType
  <2>3. QED BY <1>3, <1>5, <1>6, <2>2 DEF SlotStep, WaiterLetGo
<1>7. CASE i # k
  <2>1. semaphores'[i] = semaphores[i] /\ ~Destroys(current, i)
    BY <1>1, <1>2, <1>3, <1>7 DEF SemTypes, Destroys
  <2>2. QED BY <1>5, <2>1 DEF SlotStep, SlotRests
<1>8. QED BY <1>6, <1>7

LEMMA EndSteps ==
  ASSUME SIInv, DInv, NEW i \in Slot, DestroyEnd
  PROVE  SlotStep(i)
<1> DEFINE c == IF At("exit") THEN [cont[current] EXCEPT !.slot = 0] ELSE User
<1>1. /\ SemTypes /\ current \in Task /\ cont[current].op \in {"destroy", "exit"}
  BY DEF SIInv, IInv, TypeOK, SchedType, current, DestroyEnd, At
<1>2. PICK k \in Slot : k = SlotOf(current)
  BY <1>1, DestroyedSlot DEF DestroyEnd
<1>3. /\ semaphores[k].blockedThreads = <<>> /\ Destroys(current, k)
      /\ semaphores' = [semaphores EXCEPT ![k].free = TRUE]
      /\ cont' = [cont EXCEPT ![current] = c]
  BY <1>1, <1>2 DEF DestroyEnd, Destroys
<1>4. \A j \in Slot : j # 0
  BY SemAssumption DEF Slot
<1>5. c.slot = 0
  <2>1. cont[current] \in ContType
    BY <1>1 DEF SemTypes
  <2>2. QED BY <2>1 DEF ContType, User
<1> HIDE DEF c
<1>6. /\ cont'[current] = c
      /\ \A t \in Task : t # current => cont'[t] = cont[t]
  BY <1>1, <1>3 DEF SemTypes
<1>7. \A j \in Slot : ~Destroys(current, j)'
  <2>1. cont[current]' = c /\ current' = current
    BY <1>6 DEF DestroyEnd, vars, current
  <2>2. QED BY <1>4, <1>5, <2>1 DEF Destroys, SlotOf
<1>8. CASE i = k
  <2>1. Becomes(k, semaphores[k].value, TRUE, <<>>)
    <3>1. semaphores[k] \in SemType
      BY <1>1, Semaphore
    <3>2. QED BY <1>1, <1>3, <3>1 DEF Becomes, SemTypes, SemType
  <2>2. ASSUME NEW t \in Task PROVE ~Destroys(t, k)'
    <3>1. t # current => ~Destroys(t, k)
      BY <1>1, <1>3 DEF DInv
    <3>2. QED BY <1>4, <1>5, <1>6, <3>1 DEF Destroys, SlotOf
  <2>3. QED BY <1>3, <1>8, <2>1, <2>2 DEF SlotStep, DestructionEnds
<1>9. CASE i # k
  <2>1. semaphores'[i] = semaphores[i] /\ ~Destroys(current, i)
    BY <1>1, <1>2, <1>3, <1>9 DEF SemTypes, Destroys
  <2>2. SameDestroyers(i)
    BY <1>1, <1>4, <1>5, <1>6, <2>1, NoDestroyerMoves DEF Destroys, SlotOf
  <2>3. QED BY <2>1, <2>2 DEF SlotStep, SlotRests
<1>10. QED BY <1>8, <1>9

\* A task turns to the destruction of a semaphore of its own.
LEMMA BeginSteps ==
  ASSUME SIInv, DInv, InUserMode, NEW i \in Slot, NEW k \in Slot, Mine(k),
         \A j \in Slot : ~Destroys(current, j),
         NEW op \in {"destroy", "exit"},
         cont' = [cont EXCEPT ![current] = [op |-> op, slot |-> k]],
         UNCHANGED <<vars, semaphores>>
  PROVE  SlotStep(i)
<1>1. Core /\ SemTypes /\ current \in Task /\ current' = current
  BY DEF SIInv, IInv, InUserMode, TypeOK, SchedType, current, vars
<1>2. sched.PID[current] # -1
  BY <1>1 DEF Core, CurrentFits, Table, InUserMode
<1>3. ~semaphores[k].free /\ \A t \in Task : ~Destroys(t, k)
  BY <1>2 DEF DInv, Mine
<1>4. /\ cont'[current] = [op |-> op, slot |-> k]
      /\ \A t \in Task : t # current => cont'[t] = cont[t]
  BY <1>1 DEF SemTypes
<1>5. CASE i = k
  <2>1. \A t \in Task : Destroys(t, k)' <=> t = current
    BY <1>3, <1>4 DEF Destroys, SlotOf
  <2>2. QED BY <1>1, <1>3, <1>5, <2>1 DEF SlotStep, DestructionBegins
<1>6. CASE i # k
  <2>1. SameDestroyers(i)
    BY <1>1, <1>4, <1>6, NoDestroyerMoves DEF Destroys, SlotOf
  <2>2. QED BY <1>1, <2>1 DEF SlotStep, SlotRests
<1>7. QED BY <1>5, <1>6

LEMMA SlotSteps ==
  ASSUME SIInv, DInv, [SemNext]_allvars, "negative_value" \notin unguarded', NEW i \in Slot
  PROVE  SlotStep(i)
<1>1. SemTypes /\ current \in Task
  BY DEF SIInv, IInv, TypeOK, SchedType, current
<1>2. ASSUME semaphores' = semaphores, cont' = cont, ~Destroys(current, i) \/ UNCHANGED vars
      PROVE  SlotStep(i)
  BY <1>2 DEF SlotStep, SlotRests, SameDestroyers, Destroys, SlotOf, vars, current
<1>3. ASSUME NEW c, cont' = [cont EXCEPT ![current] = c], semaphores' = semaphores,
             ~Destroys(current, i), ~(c.op \in {"destroy", "exit"} /\ c.slot = i)
      PROVE  SlotStep(i)
  <2>1. \A t \in Task : cont'[t] = IF t = current THEN c ELSE cont[t]
    BY <1>1, <1>3 DEF SemTypes
  <2>2. SameDestroyers(i)
    BY <1>1, <1>3, <2>1, NoDestroyerMoves DEF Destroys, SlotOf
  <2>3. QED BY <1>3, <2>2 DEF SlotStep, SlotRests
<1>4. \A j \in Slot : j # 0
  BY SemAssumption DEF Slot
<1>5. At("user") \/ SlotOf(current) = 0 => \A j \in Slot : ~Destroys(current, j)
  BY <1>4 DEF At, Destroys
<1>6. ASSUME NEW v \in InitialValues, SemCreate(v) PROVE SlotStep(i)
  <2>1. /\ v \in Nat /\ UNCHANGED <<sched, cont>> /\ At("user")
    BY <1>6, SemAssumption DEF SemCreate, NoteIf, SemSyscall
  <2>2. PICK k \in Slot :
          /\ semaphores[k].free
          /\ semaphores' = [semaphores EXCEPT
                             ![k] = [value |-> v, free |-> FALSE,
                                     creatorPID |-> sched.PID[current],
                                     blockedThreads |-> <<>>]]
    BY <1>6 DEF SemCreate
  <2>3. SameDestroyers(i)
    BY <2>1 DEF SameDestroyers, Destroys, SlotOf
  <2>4. CASE i = k
    BY <1>1, <2>1, <2>2, <2>3, <2>4 DEF SlotStep, SlotCreated, Becomes, SemTypes
  <2>5. CASE i # k
    <3>1. semaphores'[i] = semaphores[i]
      BY <1>1, <2>2, <2>5 DEF SemTypes
    <3>2. QED BY <1>5, <2>1, <2>3, <3>1 DEF SlotStep, SlotRests
  <2>6. QED BY <2>4, <2>5
<1>7. ASSUME NEW k \in Slot, SemWait(k) \/ SemSignal(k) PROVE SlotStep(i)
  BY <1>7, CallSteps
<1>8. CASE SemSpawn \/ (\E pid \in Pids : SemUnblock(pid)) \/ OtherCall \/ ExitLoop
  <2>1. At("user") /\ UNCHANGED semvars
    BY <1>8, OtherCalls DEF ExitLoop, ExitWake, ExitDone, DInv
  <2>2. QED BY <1>2, <1>5, <2>1 DEF semvars
<1>9. CASE SemWaitReturn
  BY <1>3, <1>9 DEF SemWaitReturn, At, Destroys, User
<1>10. CASE SemExit
  BY <1>3, <1>4, <1>5, <1>10 DEF SemExit, SemSyscall
<1>11. CASE ExitTask
  BY <1>3, <1>5, <1>11 DEF ExitTask, User
<1>12. CASE DestroyRound
  BY <1>12, RoundSteps
<1>13. CASE DestroyEnd
  BY <1>13, EndSteps
<1>14. ASSUME NEW k \in Slot, SemDestroy(k) PROVE SlotStep(i)
  BY <1>5, <1>14, BeginSteps DEF SemDestroy, SemSyscall, InSyscall
<1>15. CASE ExitDestroy
  <2>1. PICK k \in Slot : Mine(k) /\ cont' = [cont EXCEPT ![current].slot = k]
    BY <1>15 DEF ExitDestroy
  <2>2. [cont[current] EXCEPT !.slot = k] = [op |-> "exit", slot |-> k]
    BY <1>1, <1>15 DEF ExitDestroy, At, SemTypes, ContType
  <2>3. cont' = [cont EXCEPT ![current] = [op |-> "exit", slot |-> k]]
    BY <2>1, <2>2
  <2>4. InUserMode /\ UNCHANGED <<vars, semaphores>> /\ SlotOf(current) = 0
    BY <1>15 DEF ExitDestroy
  <2>5. QED BY <1>5, <2>1, <2>3, <2>4, BeginSteps
<1>16. CASE (Halted /\ UNCHANGED semvars) \/ UNCHANGED allvars
  BY <1>2, <1>16 DEF Halted, allvars, semvars
<1>17. QED
  BY <1>6, <1>7, <1>8, <1>9, <1>10, <1>11, <1>12, <1>13, <1>14, <1>15, <1>16
     DEF SemNext, KernelStep

\* A semaphore under destruction has fewer waiters than its value is below
\* zero, or its destroyer has not given the CPU away yet.
Owes(i) ==
  LET v == semaphores[i].value
      q == semaphores[i].blockedThreads
  IN \A t \in Task : Destroys(t, i) =>
       \/ v + Len(q) < 0
       \/ t = current /\ Len(q) = IF v < 0 THEN -v ELSE 0

LEMMA OwesNext ==
  ASSUME SIInv, DInv, NEW i \in Slot, SlotAccounts(i), Owes(i), SlotStep(i)
  PROVE  Owes(i)'
<1> DEFINE v == semaphores[i].value
           q == semaphores[i].blockedThreads
<1>1. /\ v \in Int /\ q \in Seq(Task) /\ Len(q) \in Nat /\ current \in Task
      /\ Len(Append(q, current)) = Len(q) + 1
      /\ q # <<>> => Len(Tail(q)) = Len(q) - 1 /\ Len(q) > 0
  <2>1. v \in Int /\ q \in Seq(Task) /\ current \in Task
    BY Semaphore DEF SIInv, IInv, TypeOK, SchedType, current
  <2>2. QED BY <2>1, LenProperties, AppendProperties, HeadTailProperties, EmptySeq
<1>2. SUFFICES ASSUME NEW t \in Task, Destroys(t, i)'
               PROVE  \/ semaphores'[i].value + Len(semaphores'[i].blockedThreads) < 0
                      \/ /\ t = current'
                         /\ Len(semaphores'[i].blockedThreads)
                              = IF semaphores'[i].value < 0 THEN -semaphores'[i].value ELSE 0
  BY DEF Owes
<1>3. Destroys(t, i) => \/ v + Len(q) < 0
                        \/ t = current /\ Len(q) = IF v < 0 THEN -v ELSE 0
  BY DEF Owes
<1>4. CASE SlotRests(i)
  BY <1>1, <1>2, <1>3, <1>4 DEF SlotRests, SameDestroyers
<1>5. CASE SlotCreated(i)
  BY <1>2, <1>5 DEF SlotCreated, SameDestroyers, DInv
<1>6. CASE SlotCalled(i)
  <2>1. v + Len(q) < 0
    BY <1>2, <1>3, <1>6 DEF SlotCalled, SameDestroyers
  <2>2. \/ v > 0  /\ Becomes(i, v - 1, FALSE, q)
        \/ v <= 0 /\ Becomes(i, v - 1, FALSE, Append(q, current))
        \/ v >= 0 /\ Becomes(i, v + 1, FALSE, q)
        \/ v < 0  /\ q # <<>> /\ Becomes(i, v + 1, FALSE, Tail(q))
    BY <1>6 DEF SlotCalled
  <2> HIDE DEF v, q
  <2>3. v < 0
    BY <1>1, <2>1
  <2>4. \/ Becomes(i, v - 1, FALSE, Append(q, current))
        \/ q # <<>> /\ Becomes(i, v + 1, FALSE, Tail(q))
    <3>1. ~(v > 0) /\ ~(v >= 0)
      BY <1>1, <2>3
    <3>2. QED BY <2>2, <3>1, Zenon
  <2>5. QED BY <1>1, <2>1, <2>4 DEF Becomes
<1>7. CASE DestructionBegins(i)
  <2>1. ~Dying(i)
    BY <1>7 DEF DestructionBegins, Dying, Destroys
  <2>2. Len(q) = IF v < 0 THEN -v ELSE 0
    BY <1>7, <2>1 DEF DestructionBegins, SlotAccounts
  <2>3. QED BY <1>2, <1>7, <2>2 DEF DestructionBegins
<1>8. CASE WaiterLetGo(i)
  <2>1. Destroys(t, i) /\ q # <<>> /\ Becomes(i, v, FALSE, Tail(q))
    BY <1>2, <1>8 DEF WaiterLetGo, SameDestroyers
  <2> HIDE DEF v, q
  <2>2. QED BY <1>1, <1>3, <2>1 DEF Becomes
<1>9. CASE DestructionEnds(i)
  BY <1>2, <1>9 DEF DestructionEnds
<1>10. QED BY <1>4, <1>5, <1>6, <1>7, <1>8, <1>9 DEF SlotStep

\* Each of the nine is a step of the FIFO semaphore, or none.
LEMMA FifoStep ==
  ASSUME SIInv, DInv, SlotAccounts(1), Owes(1), SlotStep(1)
  PROVE  [FS!Next]_(FS!fsvars)
<1> DEFINE v == semaphores[1].value
           q == semaphores[1].blockedThreads
<1>1. /\ 1 \in Slot /\ current \in Task /\ v \in Int /\ q \in Seq(Task) /\ Len(q) \in Nat
      /\ semaphores[1].free \in BOOLEAN
      /\ q # <<>> <=> Len(q) # 0
  <2>1. 1 \in Slot /\ SemTypes /\ current \in Task
    BY SemAssumption DEF Slot, SIInv, IInv, TypeOK, SchedType, current
  <2>2. QED BY <2>1, Semaphore, LenProperties, EmptySeq
<1>2. /\ Dying(1) <=> \E t \in Task : Destroys(t, 1)
      /\ Dying(1)' <=> \E t \in Task : Destroys(t, 1)'
  BY DEF Dying, Destroys, SlotOf
<1>3. SameDestroyers(1) => (Dying(1)' <=> Dying(1))
  BY <1>2 DEF SameDestroyers
<1>4. Dying(1) => ~semaphores[1].free
  BY <1>1, <1>2 DEF DInv
<1>5. CASE SlotRests(1)
  BY <1>3, <1>5 DEF SlotRests, FS!fsvars, StatusOf, PermitsOf
<1>6. CASE SlotCreated(1)
  <2>1. ~Dying(1)' /\ q = <<>>
    BY <1>3, <1>4, <1>6 DEF SlotCreated, SlotAccounts
  <2>2. PICK x \in Nat : Becomes(1, x, FALSE, <<>>)
    BY <1>6 DEF SlotCreated
  <2>3. FS!Create
    BY <1>6, <2>1, <2>2 DEF SlotCreated, Becomes, FS!Create, StatusOf, PermitsOf
  <2>4. QED BY <2>3 DEF FS!Next
<1>7. CASE SlotCalled(1)
  <2>1. ~semaphores[1].free /\ (Dying(1)' <=> Dying(1))
    BY <1>3, <1>7 DEF SlotCalled
  <2>2. Dying(1) => v + Len(q) < 0
    BY <1>2, <1>7 DEF SlotCalled, Owes
  <2>3. ~Dying(1) => Len(q) = IF v < 0 THEN -v ELSE 0
    BY <2>1 DEF SlotAccounts
  <2>4. CASE v > 0 /\ Becomes(1, v - 1, FALSE, q)
    <3>1. FS!Acquire
      BY <1>1, <2>1, <2>2, <2>4 DEF Becomes, FS!Acquire, StatusOf, PermitsOf
    <3>2. QED BY <3>1 DEF FS!Next
  <2>5. CASE v <= 0 /\ Becomes(1, v - 1, FALSE, Append(q, current))
    <3>1. FS!Enqueue(current)
      BY <1>1, <2>1, <2>5 DEF Becomes, FS!Enqueue, StatusOf, PermitsOf
    <3>2. QED BY <1>1, <3>1 DEF FS!Next
  <2>6. CASE v >= 0 /\ Becomes(1, v + 1, FALSE, q)
    <3>1. ~Dying(1) /\ q = <<>>
      BY <1>1, <2>2, <2>3, <2>6
    <3>2. FS!Signal
      BY <1>1, <2>1, <2>6, <3>1 DEF Becomes, FS!Signal, StatusOf, PermitsOf
    <3>3. QED BY <3>2 DEF FS!Next
  <2>7. CASE v < 0 /\ q # <<>> /\ Becomes(1, v + 1, FALSE, Tail(q))
    <3>1. FS!Signal
      BY <1>1, <2>1, <2>7 DEF Becomes, FS!Signal, StatusOf, PermitsOf
    <3>2. QED BY <3>1 DEF FS!Next
  <2>8. QED BY <1>7, <2>4, <2>5, <2>6, <2>7 DEF SlotCalled
<1>8. CASE DestructionBegins(1)
  <2>1. ~Dying(1) /\ Dying(1)'
    BY <1>1, <1>2, <1>8 DEF DestructionBegins
  <2>2. FS!Destroy
    BY <1>8, <2>1 DEF DestructionBegins, FS!Destroy, StatusOf, PermitsOf
  <2>3. QED BY <2>2 DEF FS!Next
<1>9. CASE WaiterLetGo(1)
  <2>1. Dying(1) /\ Dying(1)'
    BY <1>1, <1>2, <1>3, <1>9 DEF WaiterLetGo
  <2>2. FS!LetGo
    BY <1>4, <1>9, <2>1 DEF WaiterLetGo, Becomes, FS!LetGo, StatusOf, PermitsOf
  <2>3. QED BY <2>2 DEF FS!Next
<1>10. CASE DestructionEnds(1)
  <2>1. Dying(1)
    BY <1>1, <1>2, <1>10 DEF DestructionEnds
  <2>2. FS!End
    BY <1>4, <1>10, <2>1 DEF DestructionEnds, Becomes, FS!End, StatusOf, PermitsOf
  <2>3. QED BY <2>2 DEF FS!Next
<1>11. QED BY <1>5, <1>6, <1>7, <1>8, <1>9, <1>10 DEF SlotStep

\* Among programs that give no semaphore a negative value and that do not
\* unblock a task out of a semWait, a slot does what a FIFO semaphore does and
\* nothing else: no waiter is overtaken, no permit is lost or made up, and what
\* begins to be destroyed is no more only when its last waiter has gone
\* (Semaphores.ImplementsFifoSemaphore, but for its fairness).
THEOREM StepsOfFifoSemaphore ==
  ASSUME Admitted \cap {"negative_value", "unblock_waiter"} = {}
  PROVE  SemSpec => FS!Init /\ [][FS!Next]_(FS!fsvars)
<1> DEFINE Step == SemNext /\ unguarded' \subseteq Admitted
           FInv == /\ AInv /\ unguarded \subseteq Admitted
                   /\ Running => \A i \in Slot : Owes(i)
<1>1. SemInit => FInv
  BY InitAccounts DEF SemInit, Init, Owes, Destroys, User
<1>2. ASSUME FInv, [Step]_allvars, Running
      PROVE  /\ SIInv /\ DInv
             /\ \A i \in Slot : SlotAccounts(i) /\ Owes(i) /\ SlotStep(i)
  <2>1. SIInv /\ DInv /\ Clean /\ (\A i \in Slot : SlotAccounts(i) /\ Owes(i))
    BY <1>2 DEF AInv, Accounts, Clean
  <2>2. "negative_value" \notin unguarded'
    BY <1>2 DEF allvars, vars
  <2>3. [SemNext]_allvars
    BY <1>2
  <2>4. QED BY <2>1, <2>2, <2>3, SlotSteps
<1>3. ASSUME FInv, [Step]_allvars, ~Running
      PROVE  UNCHANGED allvars
  BY <1>3, SemStepsRun DEF Halted, allvars, semvars
<1>4. FInv /\ [Step]_allvars => FInv'
  <2> SUFFICES ASSUME FInv, [Step]_allvars PROVE FInv'
    OBVIOUS
  <2>1. AInv'
    BY NextAccounts
  <2>2. unguarded' \subseteq Admitted
    BY DEF allvars, vars
  <2>3. ASSUME Running', NEW i \in Slot PROVE Owes(i)'
    <3>1. CASE Running
      BY <1>2, <3>1, OwesNext
    <3>2. CASE ~Running
      BY <1>3, <2>3, <3>2 DEF allvars, vars, Running
    <3>3. QED BY <3>1, <3>2
  <2>4. QED BY <2>1, <2>2, <2>3
<1>5. FInv /\ [Step]_allvars => [FS!Next]_(FS!fsvars)
  <2> SUFFICES ASSUME FInv, [Step]_allvars PROVE [FS!Next]_(FS!fsvars)
    OBVIOUS
  <2>1. 1 \in Slot
    BY SemAssumption DEF Slot
  <2>2. CASE Running
    BY <1>2, <2>1, <2>2, FifoStep
  <2>3. CASE ~Running
    BY <1>3, <2>3 DEF allvars, semvars, FS!fsvars, StatusOf, PermitsOf, Dying, SlotOf
  <2>4. QED BY <2>2, <2>3
<1>6. SemInit => FS!Init
  <2>1. 1 \in Slot
    BY SemAssumption DEF Slot
  <2>2. QED BY <2>1 DEF SemInit, FS!Init, StatusOf, PermitsOf
<1> HIDE DEF FInv
<1>7. QED BY <1>1, <1>4, <1>5, <1>6, PTL DEF SemSpec, Step

----------------------------------------------------------------------------
(* The round robin.  The semaphores move tasks in and out of the ready     *)
(* queue as the calls of Process do, as long as who is on a list sleeps.   *)

RInv ==
  /\ AInv
  /\ cont[Idle].op = "user"
  /\ Clean => LeavesUnlinked

LEMMA CleanBefore ==
  ASSUME AInv, [SemNext]_allvars, Clean'
  PROVE  /\ Clean /\ "unblock_waiter" \notin unguarded /\ "unblock_waiter" \notin unguarded'
         /\ SleepInv /\ TypeOK /\ NobodyWakesIdle /\ (Running => Core /\ Waiters /\ Accounts)
BY SemUnguardedGrows DEF Clean, AInv, SIInv, IInv, SleepInv

\* The first of a list sleeps.
LEMMA FirstSleeps ==
  ASSUME SIInv, Accounts, NEW k \in Slot, semaphores[k].blockedThreads # <<>>
  PROVE  LET w == Head(semaphores[k].blockedThreads)
         IN w \in Task /\ Waits(w, k)
<1> DEFINE q == semaphores[k].blockedThreads
<1>1. q \in Seq(Task) /\ Distinct(q) /\ SlotAccounts(k)
  BY Semaphore DEF SIInv, Accounts, SlotAccounts
<1>2. Head(q) \in Task /\ Contains(q, Head(q))
  BY <1>1, Dequeued, HeadTailProperties
<1>3. QED BY <1>1, <1>2 DEF SlotAccounts

\* What the semaphores do to the CPU and the ready queue.
LEMMA CallRound ==
  ASSUME RInv, Running, Clean, NEW k \in Slot, SemWait(k) \/ SemSignal(k)
  PROVE  [RR!Next]_(RR!rrvars)
<1>1. /\ TypeOK /\ Core /\ NobodyWakesIdle /\ Accounts /\ SIInv /\ sched \in SchedType
      /\ ~exiting /\ current # Idle
  BY DEF RInv, AInv, SIInv, IInv, TypeOK, SemWait, SemSignal, SemSyscall, InSyscall, InUserMode
<1>2. CASE UNCHANGED sched \/ sched' = [sched EXCEPT !.sound = FALSE]
  <2>1. sched'.queue = sched.queue /\ sched'.current = sched.current
    BY <1>1, <1>2 DEF SchedType
  <2>2. QED BY <2>1, NoRound DEF current, ReadyQueue
<1>3. CASE SemWait(k)
  <2> DEFINE ok == sched.sound /\ ~SemLinked(current)
             s  == [sched EXCEPT !.sound = ok]
  <2>1. CASE sched' = SchedNext(Update(s, current, "blocked"))
    <3>1. ok \in BOOLEAN
      BY <1>1 DEF SchedType, SemLinked
    <3> HIDE DEF ok
    <3>2. SameTable(s, sched)
      BY <1>1, <3>1 DEF SameTable, SchedType
    <3> HIDE DEF s
    <3>3. RR!Yield(ReadyQueue, FALSE)
      BY <1>1, <2>1, <3>2, SleepRound
    <3>4. QED BY <3>3 DEF RR!Next
  <2>2. QED BY <1>2, <1>3, <2>1 DEF SemWait
<1>4. CASE SemSignal(k)
  <2> DEFINE q == semaphores[k].blockedThreads
  <2>1. CASE q # <<>> /\ sched' = SchedNext(Update(sched, Head(q), "readyqueue"))
    <3>1. Head(q) \in Task /\ Sleeps(sched, Head(q))
      BY <1>1, <2>1, FirstSleeps DEF Waits
    <3> HIDE DEF q
    <3>2. RR!AdmitAndYield(Head(q))
      BY <1>1, <2>1, <3>1, WakeRound
    <3>3. QED BY <3>1, <3>2 DEF RR!Next
  <2>2. QED BY <1>2, <1>4, <2>1 DEF SemSignal
<1>5. QED BY <1>3, <1>4

\* A round of a destruction lets the first waiter in, and the destroyer goes
\* behind it.
LEMMA DestroyRoundRound ==
  ASSUME RInv, Running, Clean, DestroyRound
  PROVE  \E k \in Slot : \E w \in Task :
           /\ k = SlotOf(current) /\ Waits(w, k)
           /\ semaphores[k].blockedThreads # <<>> /\ w = Head(semaphores[k].blockedThreads)
           /\ RR!AdmitAndYield(w)
<1>1. /\ TypeOK /\ Core /\ NobodyWakesIdle /\ Accounts /\ SIInv /\ SemTypes
      /\ ~exiting /\ current # Idle /\ current \in Task
  BY DEF RInv, AInv, SIInv, IInv, DestroyRound, InUserMode, At, TypeOK, SchedType, current
<1>2. PICK k \in Slot : k = SlotOf(current)
  BY <1>1, DestroyedSlot DEF DestroyRound
<1> DEFINE q == semaphores[k].blockedThreads
<1>3. q # <<>> /\ sched' = SchedNext(Update(sched, Head(q), "readyqueue"))
  BY <1>2 DEF DestroyRound
<1>4. Head(q) \in Task /\ Waits(Head(q), k)
  BY <1>1, <1>3, FirstSleeps
<1> HIDE DEF q
<1>5. RR!AdmitAndYield(Head(q))
  BY <1>1, <1>3, <1>4, WakeRound DEF Waits
<1>6. QED BY <1>2, <1>3, <1>4, <1>5 DEF q

LEMMA SemRound ==
  ASSUME RInv, [SemNext]_allvars, Clean'
  PROVE  [RR!Next]_(RR!rrvars)
<1>1. /\ Clean /\ SleepInv /\ TypeOK /\ (Running => Core /\ Waiters) /\ LeavesUnlinked
      /\ "unblock_waiter" \notin unguarded'
  BY CleanBefore DEF RInv
<1>2. CASE [Next]_vars
  BY <1>1, <1>2, StepsRound
<1>3. CASE sched' = [sched EXCEPT !.sound = FALSE]
  <2>1. sched'.queue = sched.queue /\ sched'.current = sched.current
    BY <1>1, <1>3 DEF TypeOK, SchedType
  <2>2. QED BY <2>1, NoRound DEF current, ReadyQueue
<1>4. CASE UNCHANGED sched
  BY <1>4, NoRound DEF current, ReadyQueue
<1>5. ASSUME NEW i \in Slot, SemWait(i) \/ SemSignal(i) PROVE [RR!Next]_(RR!rrvars)
  <2>1. Running
    BY <1>5 DEF SemWait, SemSignal, SemSyscall, InSyscall, InUserMode
  <2>2. QED BY <1>1, <1>5, <2>1, CallRound
<1>6. CASE DestroyRound
  <2>1. Running
    BY <1>6 DEF DestroyRound, InUserMode
  <2>2. PICK w \in Task : RR!AdmitAndYield(w)
    BY <1>1, <1>6, <2>1, DestroyRoundRound
  <2>3. QED BY <2>2 DEF RR!Next
<1>7. CASE SemSpawn \/ (\E pid \in Pids : SemUnblock(pid)) \/ OtherCall \/ ExitTask \/ ExitLoop
  <2>1. [Next]_vars \/ sched' = [sched EXCEPT !.sound = FALSE]
    BY <1>1, <1>7 DEF SemSpawn, SemUnblock, OtherCall, ExitTask, ExitLoop, Next, NoteIf
  <2>2. QED BY <1>2, <1>3, <2>1
<1>8. CASE \/ \E v \in InitialValues : SemCreate(v)
           \/ \E i \in Slot : SemDestroy(i)
           \/ SemWaitReturn \/ DestroyEnd \/ SemExit \/ ExitDestroy
  BY <1>4, <1>8 DEF SemCreate, SemDestroy, SemWaitReturn, DestroyEnd, SemExit, ExitDestroy, vars
<1>9. CASE (Halted /\ UNCHANGED semvars) \/ UNCHANGED allvars
  BY <1>4, <1>9 DEF Halted, allvars, vars
<1>10. QED BY <1>5, <1>6, <1>7, <1>8, <1>9 DEF SemNext, KernelStep

LEMMA RoundNext ==
  ASSUME RInv, [SemNext]_allvars
  PROVE  RInv'
<1>1. AInv /\ AInv' /\ SIInv
  BY NextAccounts DEF RInv, AInv
<1>2. cont'[Idle].op = "user"
  <2>1. cont \in [Task -> ContType] /\ Idle \in Task /\ cont[Idle].op = "user"
    BY <1>1, IdleIsTask DEF RInv, SIInv, SemTypes
  <2>2. CASE UNCHANGED cont
    BY <2>1, <2>2
  <2>3. CASE current # Idle /\ \E c : cont' = [cont EXCEPT ![current] = c]
    BY <2>1, <2>3
  <2>4. CASE cont' = [cont EXCEPT ![current] = User]
    BY <2>1, <2>4 DEF User
  <2>5. CASE DestroyRound
    BY <2>1, <2>5 DEF DestroyRound
  <2>6. CASE DestroyEnd \/ ExitDestroy
    <3>1. current # Idle
      BY <2>1, <2>6 DEF DestroyEnd, ExitDestroy, At
    <3>2. \A t \in Task : t # current => cont'[t] = cont[t]
      BY <2>1, <2>6 DEF DestroyEnd, ExitDestroy
    <3>3. QED BY <2>1, <3>1, <3>2
  <2>7. ASSUME NEW i \in Slot, SemWait(i) \/ SemSignal(i) \/ SemDestroy(i)
        PROVE  cont'[Idle].op = "user"
    <3>1. current # Idle
      BY <2>7 DEF SemWait, SemSignal, SemDestroy, SemSyscall, InSyscall
    <3>2. QED BY <2>2, <2>3, <2>7, <3>1 DEF SemWait, SemSignal, SemDestroy
  <2>8. CASE SemExit
    BY <2>3, <2>8 DEF SemExit, SemSyscall, InSyscall
  <2>9. CASE SemWaitReturn \/ ExitTask
    BY <2>4, <2>9 DEF SemWaitReturn, ExitTask
  <2>10. CASE \/ \E v \in InitialValues : SemCreate(v)
              \/ SemSpawn \/ (\E pid \in Pids : SemUnblock(pid)) \/ OtherCall \/ ExitLoop
              \/ (Halted /\ UNCHANGED semvars) \/ UNCHANGED allvars
    BY <2>2, <2>10 DEF SemCreate, SemSpawn, SemUnblock, OtherCall, ExitLoop, semvars, allvars
  <2>11. QED BY <2>5, <2>6, <2>7, <2>8, <2>9, <2>10 DEF SemNext, KernelStep
<1>3. ASSUME Clean' PROVE LeavesUnlinked'
  <2>1. /\ SleepInv /\ (Running => Waiters) /\ LeavesUnlinked
        /\ "unblock_waiter" \notin unguarded /\ "unblock_waiter" \notin unguarded'
    BY <1>1, <1>3, CleanBefore DEF RInv
  <2>2. CASE [Next]_vars
    BY <2>1, <2>2, LeavesNext
  <2>3. CASE ~exiting'
    BY <2>3 DEF LeavesUnlinked
  <2>4. CASE sched' = [sched EXCEPT !.sound = FALSE]
    <3>1. ~Running'
      BY <1>1, <2>4 DEF Running, SIInv, IInv, TypeOK, SchedType
    <3>2. QED BY <3>1 DEF LeavesUnlinked
  <2>5. CASE \/ \E v \in InitialValues : SemCreate(v)
             \/ \E i \in Slot : SemWait(i) \/ SemSignal(i)
             \/ DestroyRound
    BY <2>3, <2>5 DEF SemCreate, SemWait, SemSignal, DestroyRound, SemSyscall, InSyscall,
                      InUserMode
  <2>6. CASE SemSpawn \/ (\E pid \in Pids : SemUnblock(pid)) \/ OtherCall \/ ExitTask \/ ExitLoop
    <3>1. [Next]_vars \/ sched' = [sched EXCEPT !.sound = FALSE]
      BY <2>1, <2>6 DEF SemSpawn, SemUnblock, OtherCall, ExitTask, ExitLoop, Next, NoteIf
    <3>2. QED BY <2>2, <2>4, <3>1
  <2>7. CASE \/ \E i \in Slot : SemDestroy(i)
             \/ SemWaitReturn \/ DestroyEnd \/ SemExit \/ ExitDestroy
             \/ (Halted /\ UNCHANGED semvars) \/ UNCHANGED allvars
    BY <2>2, <2>7 DEF SemDestroy, SemWaitReturn, DestroyEnd, SemExit, ExitDestroy, Halted, allvars
  <2>8. QED BY <2>5, <2>6, <2>7 DEF SemNext, KernelStep
<1>4. QED BY <1>1, <1>2, <1>3 DEF RInv

LEMMA InitRound == SemInit => RInv
<1> SUFFICES ASSUME SemInit PROVE RInv
  OBVIOUS
<1>1. cont[Idle].op = "user" /\ ~exiting
  BY IdleIsTask DEF SemInit, User, Init
<1>2. QED BY <1>1, InitAccounts DEF RInv, LeavesUnlinked

\* Among programs that give no semaphore a negative value and that do not
\* unblock a task out of a semWait or a wait_thread, sched.c is a round robin:
\* a task enters the ready queue at the tail and once, the CPU goes to the head,
\* and who gives it away goes to the tail or leaves, in the middle of
\* semDestroy and of sys_exit too (Process.ImplementsRoundRobin, but for its
\* fairness).
THEOREM StepsOfRoundRobin ==
  ASSUME Admitted \cap {"negative_value", "unblock_waiter"} = {}
  PROVE  SemSpec => RR!Init /\ [][RR!Next]_(RR!rrvars)
<1> DEFINE Step == SemNext /\ unguarded' \subseteq Admitted
           SInv == RInv /\ unguarded \subseteq Admitted
<1>1. SemInit => SInv
  BY InitRound DEF SemInit, Init
<1>2. SInv /\ [Step]_allvars => SInv'
  BY RoundNext DEF allvars, vars
<1>3. SInv /\ [Step]_allvars => [RR!Next]_(RR!rrvars)
  <2> SUFFICES ASSUME SInv, [Step]_allvars PROVE [RR!Next]_(RR!rrvars)
    OBVIOUS
  <2>1. unguarded' \subseteq Admitted
    BY DEF allvars, vars
  <2>2. RInv /\ Clean' /\ [SemNext]_allvars
    BY <2>1 DEF Clean
  <2>3. QED BY <2>2, SemRound
<1>4. SemInit => RR!Init
  <2> SUFFICES ASSUME SemInit PROVE RR!Init
    OBVIOUS
  <2>1. current = task1 /\ ReadyQueue = <<>>
    BY DEF SemInit, Init, SchedInit, current, ReadyQueue, QueueNames
  <2>2. task1 \in Task /\ task1 # Idle
    BY NrTasksAssumption DEF Task, task1, Idle
  <2>3. QED BY <2>1, <2>2 DEF RR!Init
<1> HIDE DEF SInv
<1>5. QED BY <1>1, <1>2, <1>3, <1>4, PTL DEF SemSpec, Step

----------------------------------------------------------------------------
(* DestroyedTold.  A waiter that a semDestroy has let go runs before its   *)
(* destroyer does again, and until then the semaphore is neither free nor  *)
(* anybody's: the round robin decides what semWait returns.                *)

\* t has the CPU before u.
Ahead(t, u) ==
  \/ t = current /\ \E j \in DOMAIN ReadyQueue : ReadyQueue[j] = u
  \/ \E i, j \in DOMAIN ReadyQueue : i < j /\ ReadyQueue[i] = t /\ ReadyQueue[j] = u

Told ==
  \A t \in Task : cont[t].op = "destroyed" =>
    /\ semaphores[SlotOf(t)].creatorPID = -1 /\ SlotOf(t) \in Slot
    /\ \E u \in Task : Destroys(u, SlotOf(t)) /\ Ahead(t, u)

\* What is ahead in a queue that hands out the CPU stays ahead.
LEMMA HandedOut ==
  ASSUME NEW q \in Seq(Task), NEW stays \in BOOLEAN, RR!Yield(q, stays), current \in Task,
         NEW i \in DOMAIN q, NEW j \in 1 .. Len(q), i < j
  PROVE  Ahead(q[i], q[j])'
<1> DEFINE back == RR!Requeued(stays)
<1>1. /\ i \in 1 .. Len(q) /\ Len(q) \in Nat /\ q # <<>> /\ j - 1 \in 1 .. Len(q) - 1
      /\ Tail(q) \in Seq(Task) /\ Len(Tail(q)) = Len(q) - 1
      /\ \A k \in 1 .. Len(q) - 1 : Tail(q)[k] = q[k + 1]
      /\ Head(q) = q[1]
  BY LenProperties, EmptySeq, HeadTailProperties
<1>2. back \in Seq(Task)
  BY DEF RR!Requeued
<1>3. current' = q[1] /\ ReadyQueue' = Tail(q) \o back
  BY <1>1 DEF RR!Yield
<1> HIDE DEF back
<1>4. \A k \in 2 .. Len(q) : k - 1 \in DOMAIN ReadyQueue' /\ ReadyQueue'[k - 1] = q[k]
  BY <1>1, <1>2, <1>3, ConcatProperties
<1>5. j \in 2 .. Len(q) /\ ReadyQueue'[j - 1] = q[j] /\ j - 1 \in DOMAIN ReadyQueue'
  BY <1>1, <1>4
<1>6. CASE i = 1
  BY <1>3, <1>5, <1>6 DEF Ahead
<1>7. CASE i # 1
  <2>1. i \in 2 .. Len(q) /\ i - 1 < j - 1
    BY <1>1, <1>7
  <2>2. i - 1 \in DOMAIN ReadyQueue' /\ ReadyQueue'[i - 1] = q[i]
    BY <1>4, <2>1
  <2>3. QED BY <1>5, <2>1, <2>2 DEF Ahead
<1>8. QED BY <1>6, <1>7

\* Whoever does not run stays ahead of those it is ahead of.
LEMMA AheadKept ==
  ASSUME ReadyQueue \in Seq(Task), current \in Task, [RR!Next]_(RR!rrvars),
         NEW t, NEW u, Ahead(t, u), t # current
  PROVE  Ahead(t, u)'
<1>1. PICK q \in Seq(Task) : q = ReadyQueue
  OBVIOUS
<1>2. PICK i, j \in DOMAIN q : i < j /\ q[i] = t /\ q[j] = u
  BY <1>1 DEF Ahead
<1>3. i \in 1 .. Len(q) /\ j \in 1 .. Len(q)
  BY LenProperties
<1>4. CASE UNCHANGED RR!rrvars
  BY <1>4 DEF RR!rrvars, Ahead
<1>5. \A c \in Task : /\ Append(q, c) \in Seq(Task) /\ i \in DOMAIN Append(q, c)
                      /\ j \in DOMAIN Append(q, c) /\ j \in 1 .. Len(Append(q, c))
                      /\ Append(q, c)[i] = t /\ Append(q, c)[j] = u
  BY <1>2, <1>3, AppendProperties
<1>6. ASSUME NEW c \in Task, RR!Admit(c) PROVE Ahead(t, u)'
  <2>1. ReadyQueue' = Append(q, c)
    BY <1>1, <1>6 DEF RR!Admit
  <2>2. QED BY <1>2, <1>5, <2>1 DEF Ahead
<1>7. ASSUME NEW c \in Task, RR!AdmitAndYield(c) PROVE Ahead(t, u)'
  <2>1. PICK b \in Seq(Task) : b = Append(q, c)
    BY <1>5
  <2>2. RR!Yield(b, TRUE)
    BY <1>1, <1>7, <2>1 DEF RR!AdmitAndYield
  <2>3. i \in DOMAIN b /\ j \in 1 .. Len(b) /\ b[i] = t /\ b[j] = u
    BY <1>5, <2>1
  <2>4. QED BY <1>2, <2>2, <2>3, HandedOut
<1>8. ASSUME NEW stays \in BOOLEAN, RR!Yield(ReadyQueue, stays) PROVE Ahead(t, u)'
  <2>1. RR!Yield(q, stays)
    BY <1>1, <1>8
  <2>2. QED BY <1>2, <1>3, <2>1, HandedOut
<1>9. QED BY <1>4, <1>6, <1>7, <1>8 DEF RR!Next

\* Who is let in goes ahead of who lets it in.
LEMMA LetInAhead ==
  ASSUME ReadyQueue \in Seq(Task), NEW u \in Task, u = current, u # Idle,
         NEW w \in Task, RR!AdmitAndYield(w)
  PROVE  Ahead(w, u)'
<1>1. PICK q \in Seq(Task) : q = Append(ReadyQueue, w)
  BY AppendProperties
<1>2. PICK n \in Nat : n = Len(q)
  BY <1>1, LenProperties
<1>3. q # <<>> /\ n >= 1 /\ q[n] = w
  BY <1>1, <1>2, AppendProperties, LenProperties
<1>4. /\ Tail(q) \in Seq(Task) /\ Len(Tail(q)) = n - 1 /\ Head(q) = q[1]
      /\ n # 1 => Tail(q)[n - 1] = w
  BY <1>2, <1>3, HeadTailProperties
<1>5. current' = Head(q) /\ ReadyQueue' = Append(Tail(q), u)
  <2>1. RR!Yield(q, TRUE)
    BY <1>1 DEF RR!AdmitAndYield
  <2>2. current' = Head(q) /\ ReadyQueue' = Tail(q) \o <<u>>
    BY <1>3, <2>1 DEF RR!Yield, RR!Requeued
  <2>3. QED BY <1>4, <2>2, AppendIsConcat
<1>6. /\ n \in DOMAIN ReadyQueue' /\ ReadyQueue'[n] = u
      /\ n # 1 => n - 1 \in DOMAIN ReadyQueue' /\ ReadyQueue'[n - 1] = w
  BY <1>2, <1>3, <1>4, <1>5, AppendProperties
<1>7. CASE n = 1
  BY <1>3, <1>4, <1>5, <1>6, <1>7 DEF Ahead
<1>8. CASE n # 1
  BY <1>2, <1>6, <1>8 DEF Ahead
<1>9. QED BY <1>7, <1>8

\* All steps but a round of semDestroy: nobody is let go, and a task that has
\* been only returns from its semWait.
LEMMA NobodyLetGo ==
  ASSUME SIInv, DInv, Running, [SemNext]_allvars, ~DestroyRound
  PROVE  /\ \A t \in Task : /\ t # current => cont'[t] = cont[t]
                            /\ cont'[t].op = "destroyed" =>
                                 /\ cont'[t] = cont[t]
                                 /\ t = current => UNCHANGED sched
         /\ \A i \in Slot : ~semaphores[i].free =>
              semaphores'[i].creatorPID = semaphores[i].creatorPID
<1>1. /\ SemTypes /\ current \in Task /\ (exiting => At("user"))
      /\ cont \in [Task -> ContType]
  BY DEF SIInv, IInv, TypeOK, SchedType, current, SemTypes, DInv
<1> DEFINE Same == \A i \in Slot : ~semaphores[i].free =>
                     semaphores'[i].creatorPID = semaphores[i].creatorPID
           Moves == \A t \in Task : /\ t # current => cont'[t] = cont[t]
                                    /\ cont'[t].op = "destroyed" =>
                                         /\ cont'[t] = cont[t]
                                         /\ t = current => UNCHANGED sched
<1>2. ASSUME NEW i \in Slot, SemWait(i) \/ SemSignal(i) PROVE Same /\ Moves
  <2>1. Same
    BY <1>1, <1>2, SameOwner
  <2>2. Moves
    BY <1>1, <1>2 DEF SemWait, SemSignal, SemSyscall, At
  <2>3. QED BY <2>1, <2>2
<1>3. ASSUME NEW v \in InitialValues, SemCreate(v) PROVE Same /\ Moves
  BY <1>1, <1>3 DEF SemCreate, SemTypes
<1>4. CASE \/ SemSpawn \/ (\E pid \in Pids : SemUnblock(pid)) \/ OtherCall \/ ExitLoop
  BY <1>1, <1>4 DEF SemSpawn, SemUnblock, OtherCall, ExitLoop, SemSyscall, At, ExitWake, ExitDone,
                    semvars
<1>5. CASE \/ \E i \in Slot : SemDestroy(i)
           \/ SemWaitReturn \/ SemExit
  BY <1>1, <1>5 DEF SemDestroy, SemWaitReturn, SemExit, SemSyscall, At, User
<1>6. CASE ExitTask
  BY <1>1, <1>6 DEF ExitTask, User
<1>7. CASE ExitDestroy
  <2>1. /\ UNCHANGED semaphores /\ cont[current].op = "exit"
        /\ \E i \in Slot : cont' = [cont EXCEPT ![current].slot = i]
    BY <1>7 DEF ExitDestroy, At
  <2>2. cont[current] \in ContType
    BY <1>1
  <2>3. cont'[current].op = "exit" /\ \A t \in Task : t # current => cont'[t] = cont[t]
    BY <1>1, <2>1, <2>2 DEF ContType
  <2>4. QED BY <2>1, <2>3
<1>8. CASE DestroyEnd
  <2>1. /\ cont[current].op \in {"destroy", "exit"}
        /\ semaphores' = [semaphores EXCEPT ![SlotOf(current)].free = TRUE]
        /\ cont' = [cont EXCEPT ![current] = IF At("exit") THEN [@ EXCEPT !.slot = 0] ELSE User]
    BY <1>8 DEF DestroyEnd, At
  <2>2. cont[current] \in ContType
    BY <1>1
  <2>3. cont'[current].op # "destroyed" /\ \A t \in Task : t # current => cont'[t] = cont[t]
    BY <1>1, <2>1, <2>2 DEF ContType, At, User
  <2>4. \A i \in Slot : semaphores'[i].creatorPID = semaphores[i].creatorPID
    BY <1>1, <2>1 DEF SemTypes, SemType
  <2>5. QED BY <2>3, <2>4
<1>9. CASE (Halted /\ UNCHANGED semvars) \/ UNCHANGED allvars
  BY <1>9 DEF Halted, allvars, vars, semvars
<1>10. QED
  BY <1>2, <1>3, <1>4, <1>5, <1>6, <1>7, <1>8, <1>9 DEF SemNext, KernelStep

\* Who is ahead of a task is ahead of one that does not run.
LEMMA BehindWaits ==
  ASSUME TypeOK, Core, exiting => ~Linked(sched, current), NEW t, NEW u, Ahead(t, u)
  PROVE  u # current
<1>1. /\ RQ \in QueueNames /\ sched \in SchedType /\ ReadyQueue \in Seq(Task)
      /\ ReadyQueue = sched.queue[RQ]
  BY RQIsQueue DEF TypeOK, ReadyQueue, RQ
<1>2. In(sched, RQ, u)
  <2>1. \E j \in DOMAIN ReadyQueue : ReadyQueue[j] = u
    BY DEF Ahead
  <2>2. QED BY <1>1, <2>1, LenProperties DEF In, Contains
<1>3. ~In(sched, RQ, current)
  <2>1. current = Idle => ~In(sched, RQ, current)
    BY <1>1, IdleInNoQueue DEF Core
  <2>2. current # Idle => ~Linked(sched, current)
    BY DEF Core, CurrentFits
  <2>3. QED BY <1>1, <2>1, <2>2 DEF Linked, In
<1>4. QED BY <1>2, <1>3

LEMMA ToldNext ==
  ASSUME RInv, Running => Told, [SemNext]_allvars, Clean', Running'
  PROVE  Told'
<1>1. /\ Clean /\ SIInv /\ DInv /\ TypeOK /\ SemTypes /\ LeavesUnlinked
      /\ "unblock_waiter" \notin unguarded
  BY CleanBefore DEF RInv, AInv, SIInv
<1>2. CASE UNCHANGED allvars
  BY <1>2 DEF allvars, vars, semvars, Running, Told, Ahead, Destroys, SlotOf, current, ReadyQueue
<1>3. CASE ~UNCHANGED allvars
  <2>1. Running /\ Told /\ Core /\ (exiting => ~Linked(sched, current))
    <3>1. Running
      BY <1>3, SemStepsRun DEF Halted, allvars
    <3>2. QED BY <1>1, <3>1 DEF SIInv, IInv, LeavesUnlinked
  <2>2. [RR!Next]_(RR!rrvars) /\ ReadyQueue \in Seq(Task) /\ current \in Task
    BY <1>1, SemRound, RQIsQueue DEF TypeOK, SchedType, current, ReadyQueue, RQ
  <2>3. \A t, u : Ahead(t, u) => u # current /\ (t # current => Ahead(t, u)')
    BY <1>1, <2>1, <2>2, BehindWaits, AheadKept
  <2>4. CASE ~DestroyRound
    <3>1. SUFFICES ASSUME NEW t \in Task, cont'[t].op = "destroyed"
                   PROVE  /\ semaphores'[SlotOf(t)'].creatorPID = -1 /\ SlotOf(t)' \in Slot
                          /\ \E u \in Task : Destroys(u, SlotOf(t))' /\ Ahead(t, u)'
      BY DEF Told
    <3>2. cont'[t] = cont[t] /\ (t = current => UNCHANGED sched)
      BY <1>1, <2>1, <2>4, <3>1, NobodyLetGo
    <3>3. SlotOf(t)' = SlotOf(t) /\ cont[t].op = "destroyed"
      BY <3>1, <3>2 DEF SlotOf
    <3>4. SlotOf(t) \in Slot /\ semaphores[SlotOf(t)].creatorPID = -1
      BY <2>1, <3>3 DEF Told
    <3>5. PICK u \in Task : Destroys(u, SlotOf(t)) /\ Ahead(t, u)
      BY <2>1, <3>3 DEF Told
    <3>6. u # current
      BY <2>3, <3>5
    <3>7. Destroys(u, SlotOf(t))'
      <4>1. cont'[u] = cont[u]
        BY <1>1, <2>1, <2>4, <3>6, NobodyLetGo
      <4>2. QED BY <3>3, <3>5, <4>1 DEF Destroys, SlotOf
    <3>8. semaphores'[SlotOf(t)].creatorPID = -1
      <4>1. ~semaphores[SlotOf(t)].free
        BY <1>1, <3>4, <3>5 DEF DInv
      <4>2. QED BY <1>1, <2>1, <2>4, <3>4, <4>1, NobodyLetGo
    <3>9. Ahead(t, u)'
      <4>1. CASE t = current
        BY <3>2, <3>5, <4>1 DEF Ahead, current, ReadyQueue
      <4>2. CASE t # current
        BY <2>3, <3>5, <4>2
      <4>3. QED BY <4>1, <4>2
    <3>10. QED BY <3>3, <3>4, <3>7, <3>8, <3>9
  <2>5. CASE DestroyRound
    <3>1. PICK k \in Slot, w \in Task :
            /\ k = SlotOf(current) /\ Waits(w, k)
            /\ semaphores[k].blockedThreads # <<>> /\ w = Head(semaphores[k].blockedThreads)
            /\ RR!AdmitAndYield(w)
      BY <1>1, <2>1, <2>5, DestroyRoundRound
    <3>2. /\ cont[w] = [op |-> "sem_wait", slot |-> k]
          /\ cont[current].op \in {"destroy", "exit"}
          /\ cont' = [cont EXCEPT ![w].op = "destroyed"]
          /\ semaphores' = [semaphores EXCEPT ![k].creatorPID = -1,
                                              ![k].blockedThreads = Tail(@)]
      <4>1. cont[w] = [op |-> "sem_wait", slot |-> k] /\ cont[w].op = "sem_wait"
        BY <3>1 DEF Waits
      <4>2. cont[current].op \in {"destroy", "exit"}
        BY <2>5 DEF DestroyRound, At
      <4>3. cont' = [cont EXCEPT ![w].op = "destroyed"]
        BY <2>5, <3>1, <4>1 DEF DestroyRound
      <4>4. semaphores' = [semaphores EXCEPT ![k].creatorPID = -1,
                                             ![k].blockedThreads = Tail(@)]
        BY <2>5, <3>1 DEF DestroyRound
      <4>5. QED BY <4>1, <4>2, <4>3, <4>4
    <3>3. /\ \A t \in Task : t # w => cont'[t] = cont[t]
          /\ cont'[w] = [op |-> "destroyed", slot |-> k] /\ current # w
      BY <1>1, <3>2 DEF SemTypes
    <3>4. \A i \in Slot : semaphores'[i].creatorPID = IF i = k THEN -1 ELSE semaphores[i].creatorPID
      BY <1>1, <3>2 DEF SemTypes, SemType
    <3>5. \A u \in Task, i \in Slot : Destroys(u, i) => Destroys(u, i)'
      <4>1. \A i \in Slot : ~Destroys(w, i)
        BY <3>2 DEF Destroys
      <4>2. QED BY <3>3, <4>1 DEF Destroys, SlotOf
    <3>6. SUFFICES ASSUME NEW t \in Task, cont'[t].op = "destroyed"
                   PROVE  /\ semaphores'[SlotOf(t)'].creatorPID = -1 /\ SlotOf(t)' \in Slot
                          /\ \E u \in Task : Destroys(u, SlotOf(t))' /\ Ahead(t, u)'
      BY DEF Told
    <3>7. CASE t = w
      <4>1. SlotOf(t)' = k
        BY <3>3, <3>7 DEF SlotOf
      <4>2. PICK u \in Task : u = current
        BY <2>2
      <4>3. Destroys(u, k)'
        BY <3>1, <3>2, <3>5, <4>2 DEF Destroys
      <4>4. u # Idle
        BY <3>2, <4>2 DEF RInv
      <4>5. Ahead(t, u)'
        BY <2>2, <3>1, <3>7, <4>2, <4>4, LetInAhead
      <4>6. Destroys(u, SlotOf(t))'
        BY <4>1, <4>3 DEF Destroys, SlotOf
      <4>7. QED BY <3>4, <4>1, <4>5, <4>6
    <3>8. CASE t # w
      <4>1. cont'[t] = cont[t] /\ SlotOf(t)' = SlotOf(t) /\ cont[t].op = "destroyed" /\ t # current
        BY <3>2, <3>3, <3>6, <3>8 DEF SlotOf
      <4>2. SlotOf(t) \in Slot /\ semaphores[SlotOf(t)].creatorPID = -1
        BY <2>1, <4>1 DEF Told
      <4>3. PICK u \in Task : Destroys(u, SlotOf(t)) /\ Ahead(t, u)
        BY <2>1, <4>1 DEF Told
      <4>4. Ahead(t, u)'
        BY <2>3, <4>1, <4>3
      <4>5. Destroys(u, SlotOf(t))'
        <5>1. u # w
          BY <3>2, <4>3 DEF Destroys
        <5>2. QED BY <3>3, <4>1, <4>3, <5>1 DEF Destroys, SlotOf
      <4>6. QED BY <3>4, <4>1, <4>2, <4>4, <4>5
    <3>9. QED BY <3>7, <3>8
  <2>6. QED BY <2>4, <2>5
<1>4. QED BY <1>2, <1>3

\* A waiter of a destroyed semaphore reads creatorPID only after it has slept,
\* when semDestroy may have gone on and the slot may be another's; it still
\* finds the -1 that tells it, because it runs before its destroyer does again
\* (Semaphores.DestroyedTold).
THEOREM DestroyedToldHolds == SemSpec => []DestroyedTold
<1> DEFINE TInv == RInv /\ (Running /\ Clean => Told)
<1>1. SemInit => TInv
  BY InitRound DEF SemInit, User, Told
<1>2. TInv /\ [SemNext /\ unguarded' \subseteq Admitted]_allvars => TInv'
  <2> SUFFICES ASSUME TInv, [SemNext]_allvars PROVE TInv'
    OBVIOUS
  <2>1. Clean' => Clean
    BY CleanBefore DEF RInv
  <2>2. QED BY <2>1, RoundNext, ToldNext
<1>3. TInv => DestroyedTold
  BY DEF Told, DestroyedTold, Clean
<1> HIDE DEF TInv
<1>4. QED BY <1>1, <1>2, <1>3, PTL DEF SemSpec

=============================================================================

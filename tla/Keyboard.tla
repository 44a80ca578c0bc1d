------------------------------ MODULE Keyboard ------------------------------
(***************************************************************************)
(* sys_read (sys.c) and the keyboard interrupt (interrupt.c) over the      *)
(* tasks of module Process.                                                *)
(*                                                                         *)
(* A key gives the CPU to the first reader by task_switch alone: for the   *)
(* rest of the step the reader runs in state ST_READBLOCKED and linked in  *)
(* read_blocked, until it has its characters or calls sched_next_rr.       *)
(*                                                                         *)
(* A key is the character that char_map has for it ('C' if it has none);   *)
(* releases and scan codes above 63 change nothing.                        *)
(***************************************************************************)
EXTENDS Process

CONSTANTS
  KB_BUFFER_SIZE,
  Char,           \* characters of the keys
  Sizes,          \* values of maxchars that the programs pass to read
  Admitted        \* the unguarded situations the programs get into

ASSUME KeyboardAssumption ==
  /\ KB_BUFFER_SIZE \in Nat /\ KB_BUFFER_SIZE >= 2
  /\ Sizes \subseteq Nat
  /\ Admitted \subseteq Situations

VARIABLES
  kb_buffer,
  maxchars,       \* of the read that a task is in
  delivered       \* history: the last answer of sys_read, and whose it is

kbvars  == <<kb_buffer, maxchars, delivered>>
allvars == <<vars, kbvars>>

Place == 0 .. KB_BUFFER_SIZE - 1

\* The buffer is zeroes at first.
Key_buffer == [buffer : [Place -> Char \cup {"zero"}], head : Place, tail : Place]

Readers == sched.queue["read_blocked"]

NoRead     == -1
Reading(t) == maxchars[t] # NoRead

----------------------------------------------------------------------------
(* The ring buffer *)

kb_buffer_size(kb) ==
  IF kb.head >= kb.tail THEN kb.head - kb.tail
                        ELSE KB_BUFFER_SIZE - kb.tail + kb.head

\* kb_buffer_push, behind the test of keyboard_routine.
Pushed(kb, c) ==
  IF kb_buffer_size(kb) < KB_BUFFER_SIZE
  THEN [kb EXCEPT !.buffer[kb.head] = c, !.head = (@ + 1) % KB_BUFFER_SIZE]
  ELSE kb

\* The characters that n calls of kb_buffer_pop return, and the buffer then.
FirstChars(kb, n) ==
  [i \in 1 .. n |-> kb.buffer[(kb.tail + i - 1) % KB_BUFFER_SIZE]]

PoppedChars(kb, n) == [kb EXCEPT !.tail = (@ + n) % KB_BUFFER_SIZE]

KInit ==
  /\ Init
  /\ kb_buffer = [buffer |-> [p \in Place |-> "zero"], head |-> 0, tail |-> 0]
  /\ maxchars  = [t \in Task |-> NoRead]
  /\ delivered = [task |-> task1, chars |-> <<>>]

----------------------------------------------------------------------------
(* The second half of sys_read, in the state s with the reader running:    *)
(* either it takes its characters and returns, or it gives the CPU away,   *)
(* and comes back here when a key resumes it.                              *)

\* Mutation: <= where the loop has <.
ReadLoopOneMore(s, kb, n) ==
  IF kb_buffer_size(kb) <= n
  THEN /\ sched'     = SchedNext(s)
       /\ kb_buffer' = kb
       /\ maxchars'  = [maxchars EXCEPT ![s.current] = n]
       /\ UNCHANGED delivered
  ELSE /\ sched'     = Dispatch(s, s.current)
       /\ kb_buffer' = PoppedChars(kb, n)
       /\ maxchars'  = [maxchars EXCEPT ![s.current] = NoRead]
       /\ delivered' = [task |-> s.current, chars |-> FirstChars(kb, n)]

\* Mutation: the reader returns without the last update_process_state_rr.
ReadLoopStays(s, kb, n) ==
  IF kb_buffer_size(kb) < n
  THEN /\ sched'     = SchedNext(s)
       /\ kb_buffer' = kb
       /\ maxchars'  = [maxchars EXCEPT ![s.current] = n]
       /\ UNCHANGED delivered
  ELSE /\ sched'     = s
       /\ kb_buffer' = PoppedChars(kb, n)
       /\ maxchars'  = [maxchars EXCEPT ![s.current] = NoRead]
       /\ delivered' = [task |-> s.current, chars |-> FirstChars(kb, n)]

ReadLoop(s, kb, n) ==
  IF kb_buffer_size(kb) < n
  THEN /\ sched'     = SchedNext(s)
       /\ kb_buffer' = kb
       /\ maxchars'  = [maxchars EXCEPT ![s.current] = n]
       /\ UNCHANGED delivered
  ELSE /\ sched'     = Dispatch(s, s.current)
       /\ kb_buffer' = PoppedChars(kb, n)
       /\ maxchars'  = [maxchars EXCEPT ![s.current] = NoRead]
       /\ delivered' = [task |-> s.current, chars |-> FirstChars(kb, n)]

\* Mutation: a reader does not look whether others are ahead of it.
ReadBarges(n) ==
  /\ InSyscall /\ ~Reading(current)
  /\ ReadLoop(Update(sched, current, "read_blocked"), kb_buffer, n)
  /\ UNCHANGED <<pidGlobal, lists, pending_unblocks, exiting, page_fault, unguarded>>

Read(n) ==
  /\ InSyscall /\ ~Reading(current)
  /\ LET entered == Update(sched, current, "read_blocked")
         first   == Head(entered.queue["read_blocked"])
     IN IF entered.PID[first] # entered.PID[current]
        THEN /\ sched'    = SchedNext(entered)
             /\ maxchars' = [maxchars EXCEPT ![current] = n]
             /\ UNCHANGED <<kb_buffer, delivered>>
        ELSE ReadLoop(entered, kb_buffer, n)
  /\ UNCHANGED <<pidGlobal, lists, pending_unblocks, exiting, page_fault, unguarded>>

\* A reader may come back without a key: the exit of a task it was unblocked
\* out of a wait_thread for puts it in the ready queue (sys.c:250-253).
ReadResume ==
  /\ InUserMode /\ Reading(current)
  /\ ReadLoop(sched, kb_buffer, maxchars[current])
  /\ UNCHANGED <<pidGlobal, lists, pending_unblocks, exiting, page_fault, unguarded>>

\* Mutation: nobody is resumed.
KeyPressUnheard(c) ==
  /\ InUserMode /\ ~Reading(current)
  /\ kb_buffer' = Pushed(kb_buffer, c)
  /\ UNCHANGED <<vars, maxchars, delivered>>

\* Mutation: the task that the key interrupts is put in no queue.
KeyPressDrops(c) ==
  /\ InUserMode /\ ~Reading(current)
  /\ IF Readers = <<>>
     THEN /\ kb_buffer' = Pushed(kb_buffer, c)
          /\ UNCHANGED <<sched, maxchars, delivered>>
     ELSE ReadLoop([sched EXCEPT !.current = Head(Readers)],
                   Pushed(kb_buffer, c), maxchars[Head(Readers)])
  /\ UNCHANGED <<pidGlobal, lists, pending_unblocks, exiting, page_fault, unguarded>>

KeyPress(c) ==
  /\ InUserMode /\ ~Reading(current)
  /\ IF Readers = <<>>
     THEN /\ kb_buffer' = Pushed(kb_buffer, c)
          /\ UNCHANGED <<sched, maxchars, delivered>>
     ELSE LET preempted == IF sched.current_state[current] = "ST_RUN"
                           THEN Update(sched, current, "readyqueue") ELSE sched
          IN ReadLoop([preempted EXCEPT !.current = Head(Readers)],
                      Pushed(kb_buffer, c), maxchars[Head(Readers)])
  /\ UNCHANGED <<pidGlobal, lists, pending_unblocks, exiting, page_fault, unguarded>>

KeyAct == \E c \in Char : KeyPress(c)

ProcessStep == Next /\ (Reading(current) => ~Running) /\ UNCHANGED kbvars

KNext ==
  \/ ProcessStep
  \/ \E n \in Sizes : Read(n)
  \/ KeyAct
  \/ ReadResume

KFairness ==
  /\ SF_allvars(ClockInterrupt /\ ~Reading(current) /\ UNCHANGED kbvars)
  /\ WF_allvars(ReadResume \/ ((ExitWake \/ ExitDone) /\ UNCHANGED kbvars))

KSpec == KInit /\ [][KNext /\ unguarded' \subseteq Admitted]_allvars /\ KFairness

(***************************************************************************)
(*                              PROPERTIES                                 *)
(***************************************************************************)

KTypeOK ==
  /\ TypeOK
  /\ kb_buffer \in Key_buffer
  /\ maxchars \in [Task -> Nat \cup {NoRead}]
  /\ delivered \in [task : Task, chars : Seq(Char \cup {"zero"})]

\* Nobody sleeps on characters that are there: the first reader lacks some,
\* even if it was behind others when it called read (sys.c:343-347), and even
\* if the buffer went round.  A read of no characters breaks it, which behind
\* others takes the key from the reader behind it, and so does a first reader
\* that comes back without a key.
FirstReaderLacks ==
  Running /\ 0 \notin Sizes /\ "unblock_waiter" \notin unguarded /\ Readers # <<>> =>
    kb_buffer_size(kb_buffer) < maxchars[Head(Readers)]

\* Who sleeps in read_blocked is in sys_read, and who is in sys_read sleeps
\* there, until a waiter list that it never left gives it the CPU.
ReadersListed ==
  Running /\ "unblock_waiter" \notin unguarded =>
    \A t \in Task : Reading(t) <=> Contains(Readers, t)

Full == kb_buffer_size(kb_buffer) = KB_BUFFER_SIZE - 1

\* A read of fewer characters than the buffer has places returns as long as
\* keys are typed, whoever else reads, or once the buffer is full
\* (sys.c:343-361, interrupt.c:130-153).
ReadReturns ==
  []<><<KeyAct>>_allvars \/ <>[]Full =>
    \A t \in Task : Contains(Readers, t) ~> ~Contains(Readers, t)

----------------------------------------------------------------------------
(* The behaviours in which nobody types into a full buffer: it would seem  *)
(* empty then, and all its characters be lost.                             *)

Attended == kb_buffer'.head # kb_buffer.head => ~Full

AttendedSpec ==
  KInit /\ [][KNext /\ unguarded' \subseteq Admitted /\ Attended]_allvars /\ KFairness

\* Read and the keyboard implement the stream of keys: none is lost, doubled
\* or out of order, and the readers are served in their order.
KS == INSTANCE KeyStream WITH
        Reader   <- Task,
        Capacity <- KB_BUFFER_SIZE - 1,
        stream   <- FirstChars(kb_buffer, kb_buffer_size(kb_buffer)),
        asking   <- [i \in DOMAIN Readers |->
                       [task |-> Readers[i], n |-> maxchars[Readers[i]]]]

ImplementsKeyStream == KS!Spec

=============================================================================

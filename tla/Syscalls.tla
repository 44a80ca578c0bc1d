------------------------------ MODULE Syscalls ------------------------------
(***************************************************************************)
(* A system call from end to end: the wrapper in the program (wrappers.S), *)
(* the entry and the table (entry.S, sys_call_table.S), the checks of the  *)
(* pointers and the copies (utils.c), the calls on the console, and errno. *)
(*                                                                         *)
(* The threads are those of one program: they share its pages and its      *)
(* errno.  The kernel runs with interrupts off, and a call is one step of  *)
(* it, but for a read, which sleeps in the middle.  The wrapper runs with  *)
(* interrupts on: what it does after the call is further steps.            *)
(***************************************************************************)
EXTENDS Console, FiniteSets

CONSTANTS
  Thread,
  PAGE_SIZE,
  USER_FIRST_PAGE, NUM_PAG_DATA, NUM_PAG_CODE,
  MaxHeap,        \* bound on the heap of the program, in pages
  Buffers,        \* <<address, size>> of the buffers that the program names
  Chars,          \* what is in them
  Paints          \* <<foreground, background>> that the program asks for

ASSUME SyscallsAssumption ==
  /\ PAGE_SIZE \in Nat \ {0} /\ USER_FIRST_PAGE \in Nat \ {0}
  /\ NUM_PAG_DATA \in Nat \ {0} /\ NUM_PAG_CODE \in Nat \ {0} /\ MaxHeap \in Nat
  /\ Buffers \subseteq Nat \X Int /\ Paints \subseteq Int \X Int

VARIABLES
  pc,         \* "user"; "asleep" in read; "checking": back in the wrapper
              \* with a negative value; "failed": the program has the -1
  eax,        \* the value the call returned, as long as the wrapper has it
  buffer,     \* what it was called with, while it is asleep or has failed
  errno,
  heap,       \* pages of the heap
  halted,     \* "no", or how the machine stopped
  own,        \* history: the error of the thread's last failing call
  disturbed   \* history: another thread has written errno since

procvars == <<pc, eax, buffer, errno, heap, own, disturbed>>
sysvars  == <<convars, procvars, halted>>

EBADF  == 9
ENOMEM == 12
EFAULT == 14
EINVAL == 22
ENOSYS == 38

----------------------------------------------------------------------------
(* The entry: numbers, table and wrappers *)

sys_call_table ==
  [n \in 0 .. 20 |->
     CASE n = 1  -> "sys_exit"       [] n = 2  -> "sys_fork"
       [] n = 4  -> "sys_write"      [] n = 5  -> "sys_block"
       [] n = 6  -> "sys_unblock"    [] n = 7  -> "sys_read"
       [] n = 8  -> "sys_gotoxy"     [] n = 9  -> "sys_set_color"
       [] n = 10 -> "sys_gettime"    [] n = 11 -> "sys_create_thread"
       [] n = 12 -> "sys_wait_thread" [] n = 13 -> "sys_dyn_mem"
       [] n = 14 -> "sys_semCreate"  [] n = 15 -> "sys_semWait"
       [] n = 16 -> "sys_semSignal"  [] n = 17 -> "sys_semDestroy"
       [] n = 20 -> "sys_getpid"     [] OTHER  -> "sys_ni_syscall"]

MAX_SYSCALL == Cardinality(DOMAIN sys_call_table)

\* Where call n goes; the entry after the last of the table is whatever follows
\* the table in memory.
Routine(n) ==
  IF n < 0 \/ n > MAX_SYSCALL THEN "err"
  ELSE IF n = MAX_SYSCALL THEN "wild" ELSE sys_call_table[n]

Running  == halted = "no"
Calls(t) == Running /\ pc[t] = "user"
Call(t, n, routine) == Calls(t) /\ Routine(n) = routine

\* The wrapper gives a value that is not negative to the program as it is.
Returns == UNCHANGED <<pc, eax, errno, own, disturbed>>

Fails(t, error) ==
  /\ pc'  = [pc EXCEPT ![t] = "checking"]
  /\ eax' = [eax EXCEPT ![t] = -error]
  /\ own' = [own EXCEPT ![t] = error]
  /\ UNCHANGED <<errno, disturbed>>

\* Mutation: the value is not negated.
StoreNegative(t) ==
  /\ Running /\ pc[t] = "checking"
  /\ errno' = eax[t]
  /\ pc'    = [pc EXCEPT ![t] = "failed"]
  /\ eax'   = [eax EXCEPT ![t] = 0]
  /\ disturbed' = [u \in Thread |-> u # t /\ (disturbed[u] \/ pc[u] = "failed")]
  /\ Quiet
  /\ UNCHANGED <<buffer, heap, halted, own>>

\* errno = -eax, and -1 for the program.
Store(t) ==
  /\ Running /\ pc[t] = "checking"
  /\ errno' = -eax[t]
  /\ pc'    = [pc EXCEPT ![t] = "failed"]
  /\ eax'   = [eax EXCEPT ![t] = 0]
  /\ disturbed' = [u \in Thread |-> u # t /\ (disturbed[u] \/ pc[u] = "failed")]
  /\ Quiet
  /\ UNCHANGED <<buffer, heap, halted, own>>

Letter == CHOOSE c \in Chars : c # "\n"

\* perror: the program looks at errno, and writes a message.
perror(t) ==
  /\ Running /\ pc[t] = "failed"
  /\ pc'  = [pc EXCEPT ![t] = "user"]
  /\ own' = [own EXCEPT ![t] = 0]
  /\ disturbed' = [disturbed EXCEPT ![t] = FALSE]
  /\ buffer' = [buffer EXCEPT ![t] = <<0, 0>>]
  /\ Puts(Copied(<<Letter, "\n">>))
  /\ UNCHANGED <<eax, errno, heap, halted>>

----------------------------------------------------------------------------
(* Pointers of the program *)

PageOf(a)   == a \div PAGE_SIZE
HeapPage    == USER_FIRST_PAGE + NUM_PAG_DATA + NUM_PAG_CODE
Bytes(b)    == b[1] .. b[1] + b[2] - 1
Mapped(a)   == PageOf(a) \in USER_FIRST_PAGE .. HeapPage + heap - 1
AllMapped(b) == \A a \in Bytes(b) : Mapped(a)

\* Mutation: the address after the buffer must be in the pages, too.
access_ok_strict(type, b) ==
  PageOf(b[1]) >= USER_FIRST_PAGE
    /\ PageOf(b[1] + b[2]) < USER_FIRST_PAGE + NUM_PAG_CODE + NUM_PAG_DATA

\* Mutation: another page is let through.
access_ok_wide(type, b) ==
  PageOf(b[1]) >= USER_FIRST_PAGE
    /\ PageOf(b[1] + b[2]) <= USER_FIRST_PAGE + NUM_PAG_CODE + NUM_PAG_DATA + 1

\* The case of VERIFY_WRITE falls through to the other; the page that the
\* address after the buffer lies in may be the one after the code's.
access_ok(type, b) ==
  \/ /\ type = "VERIFY_WRITE"
     /\ PageOf(b[1]) >= USER_FIRST_PAGE
     /\ PageOf(b[1] + b[2]) <= USER_FIRST_PAGE + NUM_PAG_DATA
  \/ /\ PageOf(b[1]) >= USER_FIRST_PAGE
     /\ PageOf(b[1] + b[2]) <= USER_FIRST_PAGE + NUM_PAG_CODE + NUM_PAG_DATA

Names(t, b) == buffer' = [buffer EXCEPT ![t] = b]

\* page_fault_routine_2 prints a message, and does not return.
PageFault(printed) ==
  halted' = "page fault" /\ Puts(printed \o <<"\n", Letter, "\n">>)

----------------------------------------------------------------------------
(* write *)

WriteError(b) ==
  IF b[1] = 0 THEN EFAULT
  ELSE IF b[2] <= 0 THEN EINVAL
  ELSE IF ~access_ok("VERIFY_READ", b) THEN EFAULT ELSE 0

\* check_fd: the console is the only file.
WriteBadFile(t) ==
  /\ Call(t, 4, "sys_write")
  /\ Fails(t, EBADF) /\ Quiet
  /\ UNCHANGED <<buffer, heap, halted>>

WriteFails(t, b) ==
  /\ Call(t, 4, "sys_write") /\ WriteError(b) # 0
  /\ Fails(t, WriteError(b)) /\ Names(t, b) /\ Quiet
  /\ UNCHANGED <<heap, halted>>

Write(t, b, string) ==
  /\ Call(t, 4, "sys_write") /\ WriteError(b) = 0
  /\ AllMapped(b)
  /\ Puts(Copied(string)) /\ Returns
  /\ UNCHANGED <<buffer, heap, halted>>

\* The pieces before the one that faults are on the screen.
WriteFault(t, b, string) ==
  LET good == Cardinality({a \in Bytes(b) : Mapped(a)})
  IN /\ Call(t, 4, "sys_write") /\ WriteError(b) = 0
     /\ ~AllMapped(b)
     /\ PageFault(SubSeq(string, 1, good - (good % WRITE_AUX_BUFF_MAX_SIZE)))
     /\ Returns /\ Names(t, b)
     /\ UNCHANGED heap

----------------------------------------------------------------------------
(* read: the buffer is checked before the thread sleeps, and written to     *)
(* after it.                                                               *)

ReadError(b) ==
  IF b[1] = 0 THEN EFAULT
  ELSE IF b[2] < 0 THEN EINVAL
  ELSE IF ~access_ok("VERIFY_WRITE", b) THEN EFAULT ELSE 0

ReadFails(t, b) ==
  /\ Call(t, 7, "sys_read") /\ ReadError(b) # 0
  /\ Fails(t, ReadError(b)) /\ Names(t, b) /\ Quiet
  /\ UNCHANGED <<heap, halted>>

ReadSleeps(t, b) ==
  /\ Call(t, 7, "sys_read") /\ ReadError(b) = 0
  /\ pc' = [pc EXCEPT ![t] = "asleep"]
  /\ Names(t, b) /\ Quiet
  /\ UNCHANGED <<eax, errno, own, disturbed, heap, halted>>

ReadReturns(t) ==
  /\ Running /\ pc[t] = "asleep" /\ AllMapped(buffer[t])
  /\ pc' = [pc EXCEPT ![t] = "user"]
  /\ Names(t, <<0, 0>>) /\ Quiet
  /\ UNCHANGED <<eax, errno, own, disturbed, heap, halted>>

ReadFault(t) ==
  /\ Running /\ pc[t] = "asleep" /\ ~AllMapped(buffer[t])
  /\ PageFault(<<>>)
  /\ UNCHANGED procvars

----------------------------------------------------------------------------
(* The other calls *)

Gotoxy(t, novaX, novaY) ==
  /\ Call(t, 8, "sys_gotoxy") /\ GotoXY(novaX, novaY) /\ Returns
  /\ UNCHANGED <<buffer, heap, halted>>

GotoxyFails(t, novaX, novaY) ==
  /\ Call(t, 8, "sys_gotoxy") /\ ~OnScreen(novaX, novaY)
  /\ Fails(t, EINVAL) /\ Quiet
  /\ UNCHANGED <<buffer, heap, halted>>

Set_color(t, fg, bg) ==
  /\ Call(t, 9, "sys_set_color") /\ SetColour(fg, bg) /\ Returns
  /\ UNCHANGED <<buffer, heap, halted>>

Set_colorFails(t, fg, bg) ==
  /\ Call(t, 9, "sys_set_color") /\ ~(IsColour(fg) /\ IsColour(bg))
  /\ Fails(t, EINVAL) /\ Quiet
  /\ UNCHANGED <<buffer, heap, halted>>

\* One page more, or one less.
DynMem(t, n) ==
  /\ Call(t, 13, "sys_dyn_mem") /\ heap + n \in 0 .. MaxHeap
  /\ heap' = heap + n
  /\ Returns /\ Quiet
  /\ UNCHANGED <<buffer, halted>>

\* Frames may run out at any time, for others take them.
DynMemFails(t, n) ==
  /\ Call(t, 13, "sys_dyn_mem")
  /\ \/ n > 0 /\ Fails(t, ENOMEM)
     \/ heap + n < 0 /\ Fails(t, EINVAL)
  /\ Quiet
  /\ UNCHANGED <<buffer, heap, halted>>

\* The calls that Process and Semaphores model, as far as errno goes: -1 is
\* what those on semaphores return for one that is not there.
OtherFails(t) ==
  /\ \E n \in {2, 5, 6, 11, 12, 14, 15, 16, 17} :
       Calls(t) /\ Routine(n) \notin {"err", "wild", "sys_ni_syscall"}
  /\ Fails(t, 1) /\ Quiet
  /\ UNCHANGED <<buffer, heap, halted>>

\* A number that no wrapper uses, with int 0x80: -ENOSYS, or the unknown.
RawCall(t, n) ==
  /\ Calls(t)
  /\ \/ Routine(n) \in {"err", "sys_ni_syscall"} /\ UNCHANGED halted
     \/ Routine(n) = "wild" /\ halted' = "wild"
  /\ Quiet
  /\ UNCHANGED procvars

----------------------------------------------------------------------------
SysInit ==
  /\ ConsoleInit
  /\ pc = [t \in Thread |-> "user"] /\ eax = [t \in Thread |-> 0]
  /\ buffer = [t \in Thread |-> <<0, 0>>]
  /\ errno = 0 /\ heap = 0 /\ halted = "no"
  /\ own = [t \in Thread |-> 0] /\ disturbed = [t \in Thread |-> FALSE]

Halted == ~Running /\ UNCHANGED sysvars

SysNext ==
  \/ \E t \in Thread :
       \/ Store(t) \/ perror(t)
       \/ WriteBadFile(t)
       \/ \E b \in Buffers :
            \/ WriteFails(t, b)
            \/ \E string \in [1 .. b[2] -> Chars] : Write(t, b, string) \/ WriteFault(t, b, string)
            \/ ReadFails(t, b) \/ ReadSleeps(t, b)
       \/ ReadReturns(t) \/ ReadFault(t)
       \/ \E i \in 0 .. NUM_COLUMNS, j \in 0 .. NUM_ROWS : Gotoxy(t, i, j) \/ GotoxyFails(t, i, j)
       \/ \E c \in Paints : Set_color(t, c[1], c[2]) \/ Set_colorFails(t, c[1], c[2])
       \/ \E n \in {-1, 1} : DynMem(t, n) \/ DynMemFails(t, n)
       \/ OtherFails(t)
       \/ \E n \in {-1, 0, MAX_SYSCALL, MAX_SYSCALL + 1} : RawCall(t, n)
  \/ Halted

SysSpec == SysInit /\ [][SysNext]_sysvars

(***************************************************************************)
(*                              PROPERTIES                                 *)
(***************************************************************************)

SysTypeOK ==
  /\ pc \in [Thread -> {"user", "asleep", "checking", "failed"}]
  /\ eax \in [Thread -> Int] /\ own \in [Thread -> Nat] /\ errno \in Nat
  /\ buffer \in [Thread -> Nat \X Int]
  /\ heap \in 0 .. MaxHeap /\ halted \in {"no", "page fault", "wild"}
  /\ disturbed \in [Thread -> BOOLEAN]

\* A thread that is told -1 finds the error of its own call in errno, unless
\* another thread of the program failed before it looked: they all store
\* theirs in the one errno (wrappers.S:37; libc.c:12, 50-69).
ErrnoIsOwn ==
  \A t \in Thread : pc[t] = "failed" /\ ~disturbed[t] => errno = own[t]

\* The kernel touches an unmapped page only for a buffer that ends in the first
\* page of a heap that is empty, when it was never there or when another thread
\* gave it back while the reader slept (utils.c:65-86; sys.c:339-358).
FaultsOnlyInHeap ==
  halted = "page fault" =>
    heap = 0 /\ \E t \in Thread : \E a \in Bytes(buffer[t]) : PageOf(a) = HeapPage

\* Nobody is told EFAULT for a buffer that lies in the data and code of the
\* program, up to its last byte (utils.c:65-86).
RefusedOnlyOutside ==
  \A t \in Thread :
    pc[t] \in {"checking", "failed"} /\ own[t] = EFAULT =>
      \E a \in {buffer[t][1]} \cup Bytes(buffer[t]) :
        PageOf(a) \notin USER_FIRST_PAGE .. HeapPage - 1

\* The console is a terminal: the cursor never leaves the screen, whatever
\* program moves it, and strings appear whole, in the order of the calls and in
\* the colours that were set, unless one of those was a colour too many
\* (io.c:28-47; sys.c:309-330, 366-381).
Texts   == UNION {[1 .. n -> Chars] : n \in UNION {0 .. b[2] : b \in Buffers}}
Strings == Texts \cup {<<Letter, "\n">>}
             \cup {s \o <<"\n", Letter, "\n">> : s \in Texts \cup {<<>>}}

T == INSTANCE Terminal WITH
       Columns <- NUM_COLUMNS,
       Rows    <- NUM_ROWS,
       Strings <- Strings,
       Colours <- 0 .. NUM_COLOURS - 1,
       pos     <- y * NUM_COLUMNS + x,
       colours <- <<foreground, background>>,
       garish  <- foreground = NUM_COLOURS \/ background = NUM_COLOURS

ImplementsTerminal == T!Spec

=============================================================================

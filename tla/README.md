# ZeOS (SO2, Joan i Erik): a verification project

A small i386 kernel (about 3 000 lines of C and assembler) with processes,
threads that share an address space, a round-robin scheduler, semaphores, a
blocking `read` from the keyboard, a heap, and a game that runs in user mode on
top of them.  The TLA+ modules beside this file model the kernel from its
source; line numbers below are those of the files in `src/`.

## 1. The system

| part | code | state it keeps | operations | talks to |
|---|---|---|---|---|
| process table and scheduler | `sched.c`, `include/sched.h` | `task[]`, `readyqueue`, `freequeue`, `blocked`, `read_blocked`, `tick_counter`, the running task (the stack pointer) | `init_*`, `update_process_state_rr`, `sched_next_rr`, `update_sched_data_rr` | called by every blocking system call and by the clock |
| task life | `sys.c:56-305` | `pidGlobal`; per PCB `fills`/`parentAnchor`, `waitList`/`waitAnchor`, `pending_unblocks` | `fork`, `create_thread`, `exit`, `block`, `unblock`, `wait_thread` | scheduler, memory, semaphores (exit) |
| semaphores | `sys.c:424-536` | `semaphores[]`: value, free, creatorPID, blockedThreads; the ids | `semCreate`, `semWait`, `semSignal`, `semDestroy` | scheduler; `exit` calls semDestroy |
| interrupts | `interrupt.c` | `zeos_tick`, `kb_buffer` | `clock_routine`, `keyboard_routine`, `page_fault_routine_2` | scheduler; the keyboard wakes readers |
| read | `sys.c:334-362` | `read_blocked`, `kb_buffer` | `read` | keyboard, scheduler, user copies |
| memory | `mm.c`, `sched.c:48-97`, `sys.c:383-422` | `phys_mem[]`, `dir_pages[]`, reference counts, `heap_zones[]` | `alloc_frame`, `free_frame`, `allocate_DIR`, `set_ss_pag`, `dyn_mem` | fork, create_thread, exit |
| lists | `list.c`, `include/list.h` | the pointers in the PCBs | `INIT_LIST_HEAD`, `list_add_tail`, `list_del`, `list_for_each_safe` | everybody |
| user heap | `libc.c:71-172` | headers and footers of blocks | `malloc`, `free` | `dyn_mem` |
| user copies, checks | `utils.c` | none | `access_ok`, `copy_data`, ... | system calls with pointers |
| console | `io.c`, `devices.c`, `sys.c:309-381` | cursor, colours, screen | `write`, `gotoxy`, `set_color` | |
| system call entry | `entry.S`, `sys_call_table.S`, `wrappers.S` | `errno` | dispatch by number, return | user mode to kernel |
| boot | `bootsect.S`, `system.c`, `hardware.c` | descriptor tables | `main` | |
| programs | `user.c` | the game's world | tests of the calls; the game's threads | the system calls |
| build tool | `build.c` | | host program | |

**Concurrency.**  There is one CPU.  Every way into the kernel (int 0x80, which
is an interrupt gate, `sysenter`, the clock, the keyboard) runs with interrupts
disabled, so a system call is atomic *up to the point where it gives the CPU
away* (`task_switch` inside `sched_next_rr`).  What makes the kernel hard are
the calls that go on after that point: `semDestroy` and `exit` loop around it,
`semWait` and `wait_thread` read state after it, the keyboard interrupt
switches without the scheduler's knowledge; and the lists, which are intrusive
and unchecked: a `list_del` of a node that is in no list, or a second
`list_add_tail`, breaks the kernel silently, long before something is seen.
Nothing is persisted and no message is sent, so there are no crash or delivery
hazards.  User programs are preempted anywhere, so their own shared data (the
game's world, `errno`) is exposed at every instruction.

**What makes each part correct.**
* Scheduler: every PCB is in exactly one place, that of its state; FIFO order;
  no ready task starves; PIDs tell tasks apart.
* Task life: exactly one task can unblock another; no unblock is lost; a task
  sleeps in `wait_thread` until its target exits, and no longer; exit leaves
  nobody behind.
* Semaphores: the value counts the permits or the waiters; FIFO; destruction
  frees every waiter and tells it; nothing outlives its owner.
* read: no character lost, duplicated or out of order; a reader whose
  characters are there is woken.
* Memory: a frame belongs to one page of one address space; what is allocated
  is freed; nothing a task has moves or vanishes by another's call.
* User heap: blocks tile the heap; what is given is not touched; everything
  goes back when nothing is held.
* System calls: a thread learns its own error; the kernel faults on no pointer
  that it checked, and refuses no good one; the screen shows what was written.
* Game: the player and the shots stay on the map, and once the game is over
  no more than the key awaited then is handled with what was freed.

## 2. Modules

| module | models | checked by | proved in |
|---|---|---|---|
| `Sched` | `sched.c` (queues, states, the switch), the queues of `list.c`, `clock_routine` | through the modules below | `ProcessProofs` |
| `ListHeads` | `list.c`, `include/list.h` with their pointers, and the loops of `sys.c:245-253` and `293-302` | `lists` | `ListHeadsProofs` |
| `RoundRobin` | abstract: one CPU and one queue | `semaphores` | |
| `Process` | `sys.c:56-305`, the process table's side | `process*` | `ProcessProofs` |
| `FifoSemaphore` | abstract: one semaphore | `semaphores` | |
| `Semaphores` | `sys.c:424-536`, `sys.c:219-222`; EXTENDS `Process`, whose actions it composes with its own | `semaphores*` | `SemaphoresProofs` |
| `MCSemaphores` | constants for TLC | `semaphores_irregular` | |
| `KeyStream` | abstract: the characters typed, and who asks for them | `keyboard_stream` | |
| `Keyboard` | `sys.c:334-362`, `interrupt.c:18-38` and `130-153`; EXTENDS `Process` | `keyboard*` | `KeyboardProofs` |
| `Memory` | `mm.c`, `sched.c:48-97`, the memory side of `fork`, `create_thread`, `exit`, and `dyn_mem` | `memory` | `MemoryProofs` |
| `MCMemory` | constants for TLC | `memory` | |
| `Allocator` | abstract: regions that a program holds | `malloc` | |
| `Malloc` | `libc.c:71-172` | `malloc` | `MallocProofs` |
| `Terminal` | abstract: a cursor, text and colours | `syscalls` | |
| `Console` | `io.c`, `sys.c:309-330` and `366-381` | through `Syscalls` | `SyscallsProofs` |
| `Syscalls` | wrappers, entry, table, `utils.c`, `errno`; EXTENDS `Console` | `syscalls` | `SyscallsProofs` |
| `MCSyscalls` | constants for TLC | `syscalls` | |
| `Game` | `user.c:520-598` and `1036-1287` | `game` | `GameProofs` |

### The process table: Sched and Process

`Sched` has no actions of its own.  Its state is one record, `sched`
(PID and current_state of every PCB, the four queues, the running task, the
tick counter), and its operators take such a record and return the next one:
`Update(s, t, dest)` is `update_process_state_rr(t, dest)`, `Dispatch(s, t)`
the call with NULL, `SchedNext(s)` is `sched_next_rr()`, `Clock(s)` is
`clock_routine()`.  A handler that calls two of them is their composition, in
the order of the calls: `sys_block` is `SchedNext(Update(sched, current,
"blocked"))`.

A PCB is its index in `task[]`: 0 is the idle task's, 1 is task1's.  A queue is
the sequence of the PCBs linked in it.  `sched.sound` is a ghost: it becomes
FALSE when the code links a node that is linked, or unlinks one that is not.
From there on the C pointers form no lists any more, and the model stops
(`Halted`), as it does after a page fault, where the kernel loops for ever
with interrupts disabled.  `Running` says that neither has happened.

`Process` has one action per system call.  `fills` and `waitList` are the two
lists of a PCB; `heads` says what the bytes of its waitList head are: `zero`
in a PCB never used (appending writes through NULL: a page fault, or, in an
address space made by fork, where page 0 is mapped, a silent write), `copied`
after a fork that found no frames (`copy_data` has overwritten the PCB), `own`
otherwise.  The loop of `sys_exit` over the waiters is the actions `ExitWake`
and `ExitDone`, with `exiting` between them; nothing else runs meanwhile.
Calls that return an error and change nothing are stuttering steps.

`create_thread` and `fork` may fault half-way (`CreateThreadPageFault`,
`ForkPageFault`): whether the page is there is the business of `Memory`, and for
`Process` a choice.  The first writes two words below the stack it was given,
after a check of the word at it only; the second copies pages that the heap
counter promises.  The buffers of `read` and `write`, which are checked as a
whole, are in `Syscalls`.

`unguarded` is a history variable.  It records seven situations that programs
can get into and that the code does not guard against; the properties that
such programs can break name, in their hypotheses, exactly the ones that break
them:

| situation | where | what happens |
|---|---|---|
| `root_exit` | `sys.c:240` | task1 calls exit; its parentAnchor is unlinked through NULL |
| `wait_on_free` | `sys.c:273` | `wait_thread` finds a free PCB; the waiter is forgotten |
| `unblock_waiter` | `sys.c:296` | a child is unblocked out of `wait_thread` or `semWait`, and stays linked there |
| `no_frames` | `sys.c:85` | a failed fork leaves the parent's PID and list heads in a free PCB |
| `negative_value` | `sys.c:429` | `semCreate(-1)`: a signal finds no waiter |
| `signal_dying` | `sys.c:489` | a signal between two rounds of a `semDestroy` finds no waiter |
| `missing_page` | `sys.c:196`, `sys.c:111` | `create_thread` writes below a stack, or `fork` copies a page, where no page is |

### The lists

`ListHeads` is the level below.  `next` and `prev` are the two pointers of every
`list_head`, a node in a PCB or the head of a list; the operations are those of
`list.c`.  `lists` is the history of the calls as sequences, which is what
the other modules take a list for, and `ready` the heads that are the head of a
ring.  The callers keep one rule: what they link is in no list and goes to a list
in order, and what they unlink is in one.  `sched.sound` and the properties of
`Process` and `Semaphores` watch that rule; `ListHeads` says what follows from
it.  A loop is a step for each node (`Step`), with the two cursors `pos` and
`n` of `list_for_each_safe`, and between two steps its body may make calls on other
lists, as `update_process_state_rr` in the loop over the waiters does.  `Adopt`
is the loop of `sys_exit` over the children, which links a node in the idle task's
list while its old neighbours still point to it: afterwards the old head is
in order no more, until `InitHead` makes it the list of the PCB's next owner.
`todo` is a history variable, the nodes that the loop has yet to meet.
One write to pointers is not a step of `ListHeads`: `copy_data` in `fork` and
`create_thread` overwrites all anchors and heads of the new PCB with its
parent's (`sys.c:69`, `sys.c:174`).  The PCB's `list` has just been unlinked and
its other anchors were before its task exited, so no other node points to what is
overwritten, and each is linked, and its heads made, before anything reads them;
the cases in which that is not so (an anchor that is still linked in a waitList, a
fork that fails before it makes the heads) are those that `Process` follows with
`sound` and `heads`.

### Semaphores

`Semaphores` adds `semaphores` (the slots) and `cont`, which says where in the
kernel a task goes on when it next gets the CPU: that is how `semDestroy` is
interleaved, one `DestroyRound` for each waiter with a yield in it.  A
semaphore is named by its slot: `semIDglobal` never gives an id twice, and a
call with an id that is no longer in a slot returns an error.  `semDestroy`
returns -1 whether it succeeds or not (`sys.c:530`); return values other than
`semWait`'s are left out.

### read and the keyboard

`Keyboard` adds the ring `kb_buffer`, and `maxchars`, which says what read a
task is in (`NoRead` if none).  `ReadLoop` is the part of `sys_read` from its
`while` on: the reader takes its characters and returns, or gives the CPU away.
It is entered from the call itself (`Read`), from the interrupt (`KeyPress`),
which puts the running task back and resumes the first reader *within the same
action*, since interrupts stay off until the reader returns to user mode or
calls `sched_next_rr`; and, rarely, from the scheduler (`ReadResume`): a reader
that had been unblocked out of a `wait_thread` is still in the waitList of its
target, whose exit makes it ready.  The actions of `Process` are taken by tasks
that are in no read (`ProcessStep`).  A key is the character that `char_map`
gives it; the copy to the user's buffer is `delivered`, a history variable.
`Keyboard` is composed with `Process`, not with `Semaphores`: a task in a
semaphore's list is, for read, one that sleeps in `blocked`.

### Memory

`phys_mem`, `pagusr_table` (a function from directories to page tables, whose
three bits are one field `access`), `dir_pages_num_references` and
`heap_zones` are the arrays of the code.  A task is only its directory `dir`
and its heap counter `my_heap`; any live task may make the next call, so every
schedule is covered.  `Grant(pm, i)` is what the `i+1`st of a series of calls
of `alloc_frame` returns: the first free frame among every other one, as the
loop that advances by 2 finds it (`mm.c`).  `Freed` ignores the frames up to
`NUM_PAG_KERNEL`, as `free_frame` does.  `Fork` fills the child's table, maps
its frames past the parent's heap and unmaps them again, all from the counter
that `allocate_heap` has just zeroed or not; `ForkPageFault` is the copy that
reads a page which is not there, and `CreateThreadPageFault` the write below a
stack to one.  `ForkRefs` is the count of `allocate_DIR`, which takes the first
directory that the counts say nobody uses, and counts one user more even if that is
the parent's own, as it may be after a fork without a directory.  `unguarded` records four situations:
`shared_counter` (`sys.c:75`: the child's `my_heap` is the parent's, so that
`dyn_mem` in one moves the counter of both), `counter_reset` (a fork takes a
directory whose counter live tasks use), `no_directory` (`sched.c:73`: the
child runs in the parent's address space), `no_frames` (the directory is not
given back).

### The user heap

`Malloc` models the heap byte by byte, because that is what the code depends
on: a block is known only by the two ints of its header and of its footer, which lie
among the program's data, and since `malloc` counts in bytes and aligns nothing
(`libc.c:98`), at any address.  A byte is one of the four of an int that the
allocator wrote, or `JunkByte`; an int is known (`IntAt`) if its four bytes are
those of one, and `Junk` if a program wrote there or two headers overlap.  (Two
headers that overlap may happen to make up an int that is right; that
is one of the outcomes that `Junk` stands for.)  Where the code uses `Junk` as a size,
the model stops with `stopped = "lost"`: anything may follow.  An is_free of `Junk`
may be zero or not, so that `free` both takes the pointer and refuses it.  The program
may fill what it holds (`Fill`) and free again what it has freed (`Free`,
`FreeRefused`), as long as the place of its is_free is in no block that was given
since.  Three history variables say what went before: `cut` (the shrink at the end of
`free` updates the header of the last block and not its footer,
`libc.c:159-169`), `unaligned` (a request was not for whole ints), and `twice`
(`free` took a pointer that was freed before).

### System calls and the console

`Console` holds the cursor, the colours, and what the last step put on the
screen; `printc` folds over the string, `Copied` is the loop of `sys_write`
that copies the string in pieces.  The bits that a colour of 16 leaves in the
screen's word are computed (`Attribute`).  In `Syscalls` a thread is in the
program, asleep in read, back in its wrapper with a negative value (`Store` is
the wrapper's write to `errno`, with interrupts on), or holds the -1 it was
told; `perror` ends that.  `Routine(n)` is the dispatch with its `jg`.
`access_ok` compares pages as the code does, its fall-through included, and a
copy faults when a byte of the buffer is not mapped.  The calls modelled in
other modules appear here as `OtherFails`, for what they do to `errno`.

### The game

The variables of `Game` are those of `user.c` (`player`, `enemigo`, `muerto`,
`proyectiles`, `semChanges`, `gameThreadMuerto`), and `gamePc`, `shot` and
`keyPc` say where the threads are.  Each read or write of shared data that
another thread may come between is a step of its own: a shot's move, the test
of the wall, the test of the enemies, the player's step, its check, the reset
of its state.  A shot is fired in two steps: `KeyAim` writes its x from the player's,
and `KeyFire` its y, its direction and that it is `activo`; the player may move
in between.  Drawing is the game thread's alone and left out.  The map is its formula (`Wall`), the one of `creaMapa`, with
the dimensions as constants.  A cell outside the array holds anything
(`ShotWall`).

## 3. Runs

| run | question | bounds | result |
|---|---|---|---|
| `process` | Are the tables right, whatever is called in whatever order? | 4 PCBs, 3 forks, quantum 2, 1 pending unblock | holds |
| `process_wait` | Does `wait_thread` return only after the exit? | 2 forks | **violated** |
| `semaphores` | Accounting, the answer after a destruction, every waiter let go; is a slot a FIFO semaphore, and the kernel under it a round robin, with its progress? | 4 PCBs, 2 forks, 1 semaphore, values 0 and 1 | holds, 0.2 million states |
| `semaphores_irregular` | Does exit destroy all of several semaphores, one task at a time; do the lists break only after one of the seven situations? | 3 PCBs, 2 forks, 2 semaphores, values -1 and 0 | holds, 0.6 million states |
| `semaphores_race` | Are the semaphore calls thread-safe? | 1 semaphore, value 0 | **violated** |
| `keyboard` | Does nobody sleep on characters that are there, is a reader listed exactly while it reads, and does the table stay right over the direct switch of the interrupt? | 4 PCBs, 2 forks, ring of 3, reads of 1 and 2, `unblock_waiter` admitted | holds, 2.7 million states |
| `keyboard_stream` | Are the characters given out once, in order, to the readers in their order; does a read return while keys are typed, and does the CPU still go round? | 3 PCBs, 2 forks, two characters, reads of 1 and 2, no typing into a full ring | holds |
| `memory` | Does no frame have two owners, none leak, and what a task has stay? | 4 PCBs and directories, 10 frames, heaps of 2 pages, all four situations | holds, 0.3 million states |
| `malloc` | Do blocks, headers and footers stay right, and is it an allocator? | 3 pages of 32 bytes, requests of 4, 14 and 24 bytes | holds, 5 thousand states |
| `syscalls` | Whose errno is it, what does the check of a buffer let through, is the console a terminal? | 2 threads, screen of 3 by 2, 2 colours, pages of 2 bytes | holds |
| `lists` | Are the pointers of a list the ring of its nodes, and does a loop meet them all while its body changes them? | 3 nodes, 3 lists | holds, 64 thousand states |
| `game` | Do player and shots stay on the map, and how many keys come late? | map of 7 by 12, 1 shot, 1 signal | holds, 7.3 million states |

**Bounds.**  Four PCBs are the idle task, task1 and two more: a parent, a child
and a bystander, or a destroyer and two waiters; more tasks only lengthen the
queues.  Three forks in `process` are more than there are free PCBs, so that a PCB
is used again after an exit; two suffice where that does not matter.  The
quantum is 2 where a tick that does not reschedule makes a difference and 1
elsewhere.  One pending unblock tells a lost one from a kept one; the
`keyboard` runs go without, since a pending unblock only makes a later `block`
return at once.  A value of -1 is the first negative one.  `FirstPid` is 2:
only that PIDs are above 1 matters.  `MaxValue` bounds signals, and, with
`NR_TASKS`, the depth below zero that a semaphore under destruction reaches
when waiters come back.  A ring of 3 places holds 2 characters, so that it
fills, wraps round and, in `keyboard`, is typed over; reads of 1 and 2 are one
that leaves characters behind and one that needs all the room there is.
`Admitted` is the set of the situations that a run lets programs get into; the
runs of `Process` admit them all, and in `keyboard` `unblock_waiter` is the one
that touches read.

In `memory`, directories 0, 1 and 2 are taken at boot, so the fourth PCB gives
one fork with a directory of its own and, once the first task has gone, one
that takes over a counter, and the next one without.  Ten frames, of which
`alloc_frame` hands out every other one, are the code's, two address spaces'
data, and fewer for heaps than the programs ask for: frames run out.  The page
table has room for the temporary mappings of the largest heap (`MemoryAssumption`).
`MaxOverdue` bounds a count that without a directory is decremented for ever.
In `malloc`, with pages of 32 bytes, a request of 4 takes 20 with its header and
footer, and leaves a remainder too small to be a block; one of 14 takes 30, which is
no whole number of ints, and fits a page, or splits two that were joined so that the
new header lies across an old one; one of 24 takes 40 and needs two pages.  Three
pages let the heap grow, shrink and fail.  In `syscalls`, `BorderBuffers` has a buffer at each
border of the data, the code and the heap, NULL and wrong sizes; the pieces of
`write` are 2 characters and a buffer 3, so that there is a rest.  The two
threads are symmetric: no definition tells them apart, and the run has no
liveness property.  The map of `game` has the shape of the real one (border,
two steps at the bottom), smaller bodies and a patrol of 1; `MaxSignals` is
only a saturation (the game thread asks whether there is a signal), and
`MaxAstray` stops shots that left the map.

`keyboard_stream`, with two readers at a time and a PCB used again, leaves more
of them to the theorem.  Its behaviours are those in which nobody types into a full
ring; that is why `ReadReturns` also asks for an answer when the ring stays full.  It
leaves out only what happens while nobody waits, for a ring is not full while
somebody lacks characters (`FirstReaderLacks`), and what it leads to, an empty
ring, is reached without.

In `lists`, three lists are the one that a loop runs along, the one that it fills and a
bystander; a node has two others as neighbours, or the head and one, or the
head twice.

CHECK_DEADLOCK is on everywhere: there is always a system call or a tick, and
a stopped machine is a stuttering `Halted`.

**Fairness.**  `SF(ClockInterrupt)`: the timer ticks for ever, and the
interrupt controller holds a tick that comes while interrupts are off until
they are on again; so a tick that is possible again and again is taken.
`WF(ExitWake)`, `WF(ExitDone)`, `WF(KernelStep)`, `WF(ReadResume)`: the kernel
does not stop in the middle of a call, since nothing else can run.  Nothing is
assumed of the programs: they may spin for ever, which is why `ReadyRuns` needs
the clock.  Nothing is assumed of whoever types either: `ReadReturns` is stated
for behaviours in which keys are pressed again and again or the ring stays full.  `Memory`, `Malloc`,
`ListHeads`, `Syscalls` and `Game` state safety only and assume no fairness; the game need
not end, for a player may stand still for ever.

**The two violations.**
* `process_wait`: task1 forks A and B; B calls `wait_thread(A)`; task1 calls
  `unblock(B)`.  B is in state ST_BLOCKED (`sys.c:296`), so it is made ready
  and returns from `wait_thread` although A lives.  It stays linked in A's
  waitList: when A exits, B is unlinked and requeued once more (which is why
  `WaitersConsistent` excludes `unblock_waiter`).
  The test at `user.c:434-435` takes the return to mean that the thread has
  finished.
* `semaphores_race`: the creator destroys a semaphore with a waiter; the first
  round empties the list and yields with `value` still negative; another task
  signals: the new value is not above 0, `list_first` of the empty list is the
  head itself, and the page it lies in is treated as a PCB.  The comment at
  `interrupt.c:84-85` counts on interrupt gates to make the calls thread-safe;
  they do not, where a call yields in its middle.

**Seen while modelling, without a document that says otherwise.**
* `libc.c:159-169`: after a shrink the last block may be left without a footer;
  within seven legal calls `free` takes what the program wrote for a size.
* `libc.c:98`: `malloc` aligns nothing.  With A, B and C of `malloc(8)`, `free(A)`,
  `free(B)` and `malloc(6)`, the header of what remains of A and B is written across the
  one of B, whose is_free its upper bytes clear: a second `free(B)` is accepted,
  with a size mixed from two headers, and writes a footer far outside the heap.  If
  all requests are for whole ints, a second `free` is refused as long as the place is
  not given again (`DoubleFreeRefused`); `LostForCause` says that there is
  no third way to go astray.
* `sys.c:194-198`: `create_thread` writes two words below the stack, and only the word
  at the stack was checked; `access_ok` also accepts a stack at the start of
  an empty heap.  The kernel faults with the PCB taken and in no queue
  (`CreateThreadPageFault`).
* `libc.c`: `malloc` does not look at the result of `dyn_mem`; without frames it
  writes a header on an unmapped page (`MallocFault`).
* `utils.c:65-86`: the case VERIFY_WRITE of `access_ok` falls through into
  VERIFY_READ, so that `read` may be given a buffer in the code; it also lets
  through a buffer whose end is on the first page of the heap, mapped or not,
  and refuses the rest of the heap with EFAULT.
* `entry.S:133`: `jg` lets call number 21 through, one past the table.
* `sys.c:375-381`: `set_color` takes colour 16, whose bit runs into the
  background.
* `sys.c:339`: the buffer of a read is checked before the sleep only.
* `mm.c:68`: fork leaves the child's page 0 and the kernel's pages open to the
  user.
* `mm.c:244`: `free_frame` ignores frame `NUM_PAG_KERNEL`; it is always task1's
  first code page, which is never freed, so nothing comes of it
  (`FramesAccounted`).
* `user.c:584`: `exit_thread;` has no parentheses: after the game the keyboard
  thread spins, and holds its PCB for ever.
* `interrupt.c:132`: `is_break` shifts by 6: codes from 64 on count as releases.

## 4. Properties, and what they are about

*Process.*  `Placement` (every PCB in one place, that of its state),
`UniquePids`, `OneParent` (no orphan, no child in two lists, no dead child),
`NoLostUnblock`, `WaitersConsistent` (in a waitList exactly while asleep in
`wait_thread`, for a target that has not exited), `WakeCause` (only the
parent or the target of the wait wakes a sleeper), `FaultsExplained` (the lists
break, or the kernel faults, only after one of the seven situations).

*Lists.*  `ListsAreRings` (the pointers, in both directions, are the sequence),
`LoopMeetsAll` (a loop goes through the nodes that were there when it began, in
order, to its end).  `AnswersRight` (`list_empty`, `list_first` and `list_is_last`
look at one pointer and are right) and `UnlinkedIsNull` (what was unlinked points
into no list) follow from the same invariant and are left to the proof.

*Semaphores.*  `SemAccounting` (as many waiters as the value is below zero, and
on the list exactly those asleep for it), `DestroyedTold` (a waiter of a destroyed
semaphore gets -1 even though it reads the slot after it has slept),
`SemOwned` (a semaphore in use has a living owner or a destroyer),
`OneDestroyer`, `WaitersFlushed` (liveness), `ImplementsFifoSemaphore`
(refinement: no waiter overtaken, no permit lost or made up),
`ImplementsRoundRobin` (refinement: the kernel is one CPU and one queue, the
tick's progress included).  The FIFO refinement is stated for slot 1 with one
semaphore; in the code the slots share nothing but the scheduler.

*Keyboard.*  `FirstReaderLacks` (the first reader lacks some character: no
lost wake-up), `ReadersListed` (in `read_blocked` exactly while in `sys_read`),
`ReadReturns` and `ReadyRuns` (liveness), `ImplementsKeyStream` (refinement: no
character lost, doubled or out of order, the readers served in their order).  The
`Placement` of `Process` is checked here again, for the interrupt's switch leaves the
table wrong within its step, and every way out of `sys_read` must put it right.
The hypotheses name what breaks them.  A read of no characters that finds
others waiting goes to sleep, is woken by a key, takes nothing, and leaves the
reader behind it asleep with the key's character in the ring; only the next key
helps.  A reader unblocked earlier out of a `wait_thread` (`unblock_waiter`)
leaves `read_blocked` without a key, and one that comes back to sleep goes
behind the others.  And a key typed into a full ring (254 characters) makes it
seem empty, because `kb_buffer_size() < KB_BUFFER_SIZE` is always true: all are
lost, which is why the refinement is of `AttendedSpec`.

*Memory.*  `FramesDisjoint` holds in all four situations; `FramesAccounted`
(no leak) and `HeapMapped` (the counter tells what is mapped) hold as long as no
counter is shared and a directory is found; `DataStays` and `HeapStays` are action
properties: no call, its own or another's, changes what a living task has.

*Malloc.*  `BlocksTile` and `FreesJoined` speak of heaps that no shrink has left
without a footer and in which no pointer was taken twice; `DoubleFreeRefused` says
that none is while all requests are for whole ints; `LostForCause` that nothing else
leads the allocator astray; `ImplementsAllocator` is the refinement.

*Syscalls.*  `ErrnoIsOwn`, `FaultsOnlyInHeap` and `RefusedOnlyOutside` (the two
sides of `access_ok`), and the refinement `ImplementsTerminal`, which covers the
cursor's bounds, the wrap, the pieces of `write` and the colours.

*Game.*  `PlayerOnFloor`, `ShotsOnMap` (unless a shot was fired between the
player's step and the check of it, `offFloor`), `OneLateKey`.

The type invariants of the modules that stand over `Process`, and of those beside it,
are theorems only.

Each property that a run checks has a mutant: the operators commented "Mutation" stand before
the definition they vary, a missing list operation, an `if` for a `while`, a
`list_add` for a `list_add_tail`, a footer that is not written, a comparison
that is off by one.

## 5. Proofs

All theorems hold for every value of the constants that the named assumptions
of the modules allow.  None of the unguarded situations is excluded, but where
`KeyStreamImplemented`, `StepsOfFifoSemaphore` and `StepsOfRoundRobin` say so.

| theorem | states | in |
|---|---|---|
| `TypeCorrect`, `PlacementHolds`, `UniquePidsHold`, `WakeCauseHolds` | `Spec` has `TypeOK`, `Placement`, `UniquePids`, `WakeCause` | `ProcessProofs` |
| `OneParentHolds`, `WaitersConsistentHolds`, `NoLostUnblockHolds`, `FaultsExplainedHolds` | `Spec` has `OneParent`, `WaitersConsistent`, `NoLostUnblock`, `FaultsExplained` | `ProcessProofs` |
| `SemTypeCorrect`, `SemPlacementHolds`, `SemUniquePidsHold`, `OneDestroyerHolds` | `SemSpec` has `SemTypeOK`, `Placement`, `UniquePids`, `OneDestroyer` | `SemaphoresProofs` |
| `SemOwnedHolds`, `SemAccountingHolds`, `DestroyedToldHolds` | `SemSpec` has `SemOwned`, `SemAccounting`, `DestroyedTold` | `SemaphoresProofs` |
| `StepsOfFifoSemaphore` | `SemSpec` starts and steps as `FifoSemaphore` (`ImplementsFifoSemaphore` without its fairness), if `negative_value` and `unblock_waiter` are not admitted | `SemaphoresProofs` |
| `StepsOfRoundRobin` | `SemSpec` starts and steps as `RoundRobin` (`ImplementsRoundRobin` without its fairness), on the same condition | `SemaphoresProofs` |
| `KTypeCorrect`, `KPlacementHolds`, `ReadersListedHolds`, `FirstReaderLacksHolds` | `KSpec` has `KTypeOK`, `Placement`, `ReadersListed`, `FirstReaderLacks` | `KeyboardProofs` |
| `KeyStreamImplemented` | `AttendedSpec` implements `KeyStream`, if `unblock_waiter` is not admitted and no read asks for more than the ring holds | `KeyboardProofs` |
| `MemTypeCorrect`, `FramesNeverShared` | `MemSpec` has `MemTypeOK`, `FramesDisjoint` | `MemoryProofs` |
| `HeapsMapped`, `NoFrameLost`, `DataNeverMoves`, `HeapNeverMoves` | `MemSpec` has `HeapMapped`, `FramesAccounted`, `DataStays`, `HeapStays` | `MemoryProofs` |
| `BlocksTileHolds`, `FreesJoinedHolds`, `DoubleFreeRefusedHolds`, `LostForCauseHolds` | `HeapSpec` has `BlocksTile`, `FreesJoined`, `DoubleFreeRefused`, `LostForCause` | `MallocProofs` |
| `AllocatorImplemented` | `HeapSpec` implements `Allocator` | `MallocProofs` |
| `SysTypeCorrect`, `ErrnoStaysOwn`, `FaultsAtHeap`, `RefusedIsOutside` | `SysSpec` has `SysTypeOK`, `ErrnoIsOwn`, `FaultsOnlyInHeap`, `RefusedOnlyOutside` | `SyscallsProofs` |
| `TerminalImplemented` | `SysSpec` implements `Terminal` | `SyscallsProofs` |
| `ListsAreRingsHolds`, `AnswersRightHolds`, `LoopMeetsAllHolds`, `UnlinkedIsNullHolds` | `ListSpec` has `ListsAreRings`, `AnswersRight`, `LoopMeetsAll`, `UnlinkedIsNull` | `ListHeadsProofs` |
| `GameTypeCorrect`, `PlayerStaysOnFloor`, `ShotsStayOnMap`, `OneKeyIsLate`, `EnemiesKeepPatrol` | `GameSpec` has the three properties of its run, `GameTypeOK` and `EnemiesPatrol` | `GameProofs` |

**The process table.**  `TypeOK` is inductive by itself.  `Placement` is not: what
`update_process_state_rr` does depends on the PID (below 0: to the freequeue;
0: nowhere) and on the state (ST_RUN: no `list_del`), so that the queues stay
right only if PIDs and states agree with them.  The invariant is
`IInv == TypeOK /\ (Running => Core)`, where `Core` says

1. `Table(sched, Failed, {Idle, current})`: no node is in two places; the
   states and the PIDs agree with the queues (the PCBs of failed forks, which
   carry a copy of their parent's, excepted); PIDs of PCBs that are not free
   are distinct; everybody but the idle and the running task is in a queue;
2. every PID is below `pidGlobal`, which is what makes the next one new;
3. `CurrentFits`: the running task is in no queue and in state ST_RUN, or in
   the middle of its exit, with PID -1.

`UniquePids` is not inductive either: it needs 2, and that a dying task's -1
is the only one outside the freequeue.

The layers: the first part of `ProcessProofs` proves what `RemoveFirst`, `Append`
and `Tail` do to queues whose nodes are distinct, and that `Update` (`UpdateTable`)
and `SchedNext` (`SchedNextTable`) keep a table well-formed, given that the
node is as the call needs it (`NodeAsNeeded`), and that `SchedNext` always
finds it so; the second has one lemma per action: `SpawnCore`,
`ForkNoFramesCore`, `SleepCore` (block, wait_thread), `StayCore` (calls that
yield), `UnblockCore`, `ExitCore`, `ExitWakeCore`, `ExitDoneCore`, `ClockCore`.

`WakeCause` is an action property.  Whoever `sched_next_rr` takes the CPU from
or gives it to is not in ST_BLOCKED, so that only the nodes that a call names
itself can wake; the invariant is `IInv` and that neither the idle nor the
running task is in ST_BLOCKED.

**Families and waiters.**  Three more invariants stand on `IInv`, each as long as
the kernel runs:

- `Family`: a child is in use, and in one list only, that of a task in use or of
  the idle task; every task in use but `task1` is in one.  For the step it also
  needs that `task1` never dies, by `sys_exit`'s test on its PID, and that the
  running task is still in its parent's list until the loop over `waitList`
  is through.
- `Waiters`: who is linked in a waitList sleeps and is linked once; a waitList
  that is not empty is *attended*, its PCB being in use or that of the task in
  the middle of its exit, which will empty it; and who sleeps outside of
  them has no unblock pending.  `WaitersConsistent` without the second part is
  not inductive: a PCB whose waitList outlived it would be handed to a fork, which
  resets the list and forgets who is on it.  This is what `wait_on_free` does.
- `Faultless`: as long as no unguarded situation was met, nothing faulted, no
  PCB in use has list heads that are copied or zero, and the task in the middle of
  its exit is in no queue.

`FaultsExplained` is proved of `Process`; the run checks it with semaphores on
top, where the list of situations is longer.

**The lists.**  `Ring(nx, pv, h, s)` says that two functions are the pointers of
the ring of `h` through the nodes of `s`.  Two lemmas are about rings of any
length: `RingGrows`, an entry put after any place, and `RingShrinks`, one taken
out of any place; `PutPointers` and `TakePointers` add that all other anchors
keep their pointers, so that the other lists stay what they were
(`OtherRing`), because no node is in two (`Apart`).  `ListsAreRings` by itself is not
inductive: in the loop over the children the list is no ring.  `Inv` says what is
left of it (`Chain`): every node that the loop has yet to meet still points to the
next, and the last to the head, though the way back is lost with the first node that
was linked elsewhere.  `Advanced` shows that this carries the loop to its end if
the body leaves the next pointers of those nodes alone; `Cursors` says that
`n` was read before they could change, and which nodes are left; `Emptied` that
what was taken from its owner is empty or under such a loop.

**Semaphores.**  `SIInv == IInv /\ SemTypes`.  A signal or a round of a
destruction wakes whoever is first on the list, perhaps the caller itself
(`unblock_waiter` makes that possible): `WakeCore` proves the table right for
any such task.  `OneDestroyer` needs `DInv`: a task that destroys slot `i` is
running, or has already written -1 as the creator, a PID that nobody who calls
`semDestroy` has; that is why the write before the first yield is enough.

`SemOwned` adds that no call but its own exit takes the PID of a task in use or
puts it in the freequeue (`StaysAlive`), and that the exit comes to that only after
its loop over the slots (`ExitOwned`).

`SemAccounting` is proved with `AInv`, which says of every slot (`SlotAccounts`)
that its list has no task twice and is exactly who sleeps in `semWait` for it, and
that its length is what the value is below zero unless the slot is being
destroyed.  By itself this is not inductive: the loop of `sys_exit` wakes whoever is
in a waitList, whatever it sleeps in.  So `AInv` carries `Waiters`, from `Process`,
and `Anchors` (who is in a waitList is in no semaphore call), and the two need
each other: a signal wakes the first on a list, who must be in no waitList for
`Waiters` to survive.  `ProcessSleeps` says whose sleep a step of `Process` changes
at all: its caller's, that of whom the loop of `sys_exit` wakes, and that of whom
an unblock wakes.

`StepsOfFifoSemaphore` first says what a step of the kernel may do to any one slot
(`SlotStep`: it rests, is created, is waited for or signalled, begins to be
destroyed, lets a waiter go, is destroyed), without a word about PIDs and
queues; `SlotSteps` proves it of each handler.  `FifoStep` then finds the step of
`FifoSemaphore`.  The strengthening it needs is `Owes`: a semaphore under
destruction has fewer waiters than its value is below zero, or its destroyer has
not yielded yet.  So a call that comes between two rounds of a destruction finds
no permits: a `semWait` lines up, and a `semSignal` lets a waiter go.  The two
situations are excluded because the abstract semaphore starts with permits
and loses a waiter only to a signal or a destruction.  The abstract fairness
(a destruction goes on) is checked by TLC.

**The round robin, and the answer after a destruction.**  `NextRound` says that
`sched_next_rr` is a `Yield` of `RoundRobin`, given a table that allows it
(`MayYield`: the running task is in state ST_RUN and in no queue, or has been
put in one); the task stays in the game exactly if its state is still ST_RUN.
`StayRound`, `SleepRound`, `LeaveRound` and `WakeRound` are its four uses, by a call
that yields, one that sleeps, an exit, and one that wakes a sleeper and yields;
`SpawnRound` and `ExitWakeRound` let a task in and keep the CPU.  `StepsRound`
puts the handlers of `Process` together and `SemRound` those of `Semaphores`.
The strengthening is `LeavesUnlinked`, that a task in the middle of its exit is in
no queue: the PCB goes to the freequeue by `update_process_state_rr`, which would
take one that is linked out of the middle of the ready queue, as no round robin
does.  Who a waitList or the list of a semaphore
names must sleep, or else it would enter the ready queue twice: hence `Waiters`,
`Accounts` and the two excluded situations.

`DestroyedTold` is about the future: a waiter that a destruction lets go reads
`creatorPID` only after it has slept, when the slot could be free, or another
task's.  Its invariant is `Told`: the waiter runs, or is in the ready queue, and the
one that destroys its semaphore is in the queue behind it (`Ahead`).  The round
robin keeps this (`AheadKept`): as long as neither yields, both move towards the
head, and the waiter gets there first.  `LetInAhead` establishes it: the waiter
is put at the tail before its destroyer yields to the place behind it.  As
long as its destroyer waits for the CPU, nobody else writes to a slot in use
(`NobodyLetGo`).

**Keyboard.**  The invariant of the table is `KIInv == IInv /\ ReadersAreTasks`.
In the middle of `Read` and `KeyPress` the table does *not* satisfy `Core`: the
running task is linked, in state ST_READBLOCKED.  `Entered(s, r, q)` says what it
does satisfy, with the reader `r` on the CPU and `q` in read_blocked; `ReadEnters`,
`KeyEnters` and `ResumeEnters` show that the three ways into the loop of
`sys_read` establish it, and `LeaveCore` that both ways out restore `Core`:
`sched_next_rr` finds a state other than ST_RUN and leaves the node where it
is, and `update_process_state_rr(current(), NULL)` unlinks it (`DispatchTable`).
`ReadersAreTasks` (the idle task is in no read) is needed because `ReadResume`
unlinks by the same call, which does nothing for a PID of 0.

Over `Entered`, `LeaveReaders` says what is left in read_blocked, and `ReadCases`
and `KeyCases` put the two handlers in four cases: the caller lines up or is served
on the spot; the key is kept or serves the first reader.  `ReadInv` adds to
`KIInv`:

- `Listed` and `Lacks`, the two properties themselves;
- `Asked`: a read asks for one of `Sizes`.  A key adds one character to the ring, or
  empties a full one, so that the reader it serves leaves the ring empty, and the
  next one lacks all it asked for (`ReadersAfterKey`);
- the `Waiters` of `Process`, without which `Listed` is not inductive: the exit
  of a task puts the head of its waitList in the ready queue, whatever it does, and
  only `Waiters` says that it sleeps in blocked and is no reader.  With
  `LeavesUnlinked` (a task that exits is in no queue) it gives `ReadersStay`:
  no step of `Process` moves a reader.

For the refinement, `SlotIs` says where the ring has the character `i` of its
stream; a push appends to the stream (`PushAppends`) and a read takes its first
characters (`PopTakes`), wherever the ring wraps.  Then the first two cases are
`Ask` of `KeyStream`, the others `Type`, and everything else stutters.  `KeyStream`
is a safety specification, so that its fairness is none of the theorem's
business.

**Memory.**  A step leaves each mapped page of data or heap on its frame, or
puts it on a frame that was free (`KeptOrFresh`); two pages that one step puts on
free frames get different ones (`GrantInjective`), and a frame is freed only
with the page on it unmapped.  `StepDisjoint` draws the conclusion; `DeleteStep`,
`GrowStep` and `ForkStep` show that the calls are such steps.  For this the
invariant `MemInv` says more than that frames are disjoint: an entry that is not
mapped has frame 0 (`AbsentIsZero`), which `free_frame` ignores, so that unmapping
a page of a heap that a shared counter made too large frees nobody's frame; and
everybody's code is on the frames that task1 got at boot, which stay in use
(`CodeShared`, `CodeUsed`).

What becomes of the pages needs to know who uses which directory.  `SpaceInv` adds
to `MemInv`:

- `DirInv`: the count of a directory is the number of tasks on it, except
  for directories that nobody uses and nobody gives back (the idle task's, that of
  `init_mm`, and those of failed forks), whose count stays above 0, so that
  `allocate_DIR` never hands out a directory in use; and the threads of one
  directory use one heap counter;
- `DataMapped`: the data pages of every task are mapped;
- `HeapInv`: `HeapMapped`, and a directory that nobody uses holds no page of data or
  heap, so that what a fork gets is empty;
- `FrameInv`: each frame in use is the kernel's, the code's or under a page of some
  directory (`Backed`), and the first frame that `alloc_frame` may hand out is
  the code's (`FirstIsCode`).  The last is why `free_frame`, which ignores
  that frame (`>` where one expects `>=`, `mm.c:244`), loses nothing: at boot it
  goes to the code, which is never freed.

`HeapMapped`, `FramesAccounted` and `HeapStays` are about what happens as long as
no call moves a counter that two address spaces share and no fork runs out of
directories; failing for want of frames is included.

**The heap of malloc.**  The argument is about intervals of bytes.  `Block(m, b,
e)` says that the bytes of `m` from `b` to `e` are a block, by its header and its
footer; `Tiled(m, lo, hi, S)` that the blocks that start in `S` fill the bytes from
`lo` to `hi`.  A handler replaces the tiles of an interval and leaves those on both
sides alone (`Replaced`, `Concatenated`, `CutAt`): `SplitBlock` and `FitAllots` for
a fit, `GrowAllots` for new pages, `Marked`, `NextJoined` and `PrevJoined` for
the steps of `free`, `ShrunkLaid` and `AllFree` for what it gives back.  What a
header or a footer does to the ints, at any offset to others, is in `Headed`
and `Written`.  The invariant `HeapInv` says that a pointer is taken twice only
after a cut or a request for a part of an int, and, of a heap that was not cut and
in which none was taken twice, that nothing is lost and that there is an `S` with
`Laid(Heap, S, given, freed, ~unaligned)`:

- `Good`: the blocks of `S` tile the heap, whose end is a multiple of the page;
- `Held`: the blocks in use are those of `given`, with room for what was asked;
- `Joined`: no two free blocks are neighbours;
- `Aligned`, while all requests are for whole ints: all blocks start at whole ints,
  so that an int is overwritten whole or not at all; and the is_free of every
  pointer that was freed lies in nothing that the program holds, and is not 0, or is
  behind the end.  This is not about tiles, for the header of a block that was
  joined lies inside another; it survives because `free` writes sizes and ones,
  and `malloc`, which writes zeros, only in a block whose pointers are given again.

The first three hold without the fourth: headers that were written across stale ones
do no harm to blocks, as nobody looks at the stale ones but a second `free`.

`BlocksTile` by itself is not inductive.  It does not say that a block has room for
its header and its footer: one of less than 16 bytes has them overlap (`Block`
excludes it but for one of 8, where they are the same; a block in use has 17 bytes
at least).  Nor does it say that the end is a multiple of the page, without which
`free` would keep a page of a heap that is one free block.  The shrink is the hard
step: it writes no footer, and leaves a heap that is not cut only if what
happens to be in the footer's place is the new size.

A step of `free` backwards reads the 8 bytes before a block as a footer.
`Predecessor` shows that in a tiled heap they are one.  After a shrink to a
block without a footer they may be anything; `HeapInv` and the theorems about
`BlocksTile`, `FreesJoined`, `DoubleFreeRefused` promise nothing of a heap after
that (`cut`), as the code does not, and `LostForCauseHolds` says which ways there
are to get lost.

The walks of `first_fit` and of `Blocks` are recursive functions.  What one
computes would take an induction over the blocks; instead, `FirstFitUnfolds` and
`BlocksUnfold` show that a function with the recursive equation exists, by
giving one, and `FirstFitFinds` and `BlocksAre` take the last tile at which it
does not do what is claimed, which leads to a later one (`Least`, `Greatest`).

`AllocatorImplemented` finds the step of `Allocator`: the place of a call is
its region (`PayloadRegions`), `AllotReserves` that it is new and
disjoint from all others, which nobody writes to.  It is a whole refinement, for
`Allocator` has no fairness.

**System calls.**  `SysInv` adds that the value in a wrapper is the thread's
error negated (`ValueIsOwn`), and that the buffer of a sleeping reader passed
the check (`SleepsChecked`).  The arithmetic is in two lemmas: the page of an
address never decreases (`PageMonotone`), and grows by one at most to the next
(`PageNext`); so a buffer that passed reaches the heap's first page at most, and
one that did not has a byte outside.

`TerminalImplemented` compares two walks over a string: the fold of `printc`, and
the cursor of `Terminal`, which knows cells and no columns.  `PrintsOne` is one
character: the next cell modulo the screen is the next column, or the start of the
next line, or of the first.  `PrintsInOrder` shows that the fold is the
characters one after the other (the function that the library defines it by
exists, by the least prefix for which it would not), and `PrintsText` that after
each the cursor and the cells are the terminal's, by the least character after
which they would not be.  `CopiesAll` says that the pieces of `write` make up the
string, `Attributes` that its colours are the ones that were set unless one is 16,
whose bit cannot carry any further because there is an even number of colours.  Like
`Allocator`, `Terminal` has no fairness.

**Game.**  The argument is about the map: its border is thick enough that
whoever stands on the floor and moves by one is still on the map, where the
test sees the wall (`StepOnFloor`).  `PlayerNear` says that the player is at
most a step from the place drawn last, which is on the floor; `ShotsInside` that a shot
is inside the outermost column, or has just moved into it, and that so is the x of one
that is being fired, whose slot the game thread leaves alone (`Aiming`).  `KeyAwaited` says
that a late key was awaited when the game ended.

**Only model-checked.**  The liveness properties and the fairness of the
refinements that have it (`WaitersFlushed`, `ReadReturns`, `ReadyRuns`, and the destruction and the
turn that `FifoSemaphore` and `RoundRobin` promise): the prover does not reason
about ENABLED.  Every invariant and every action property of a run that passes is a
theorem.

## 6. Not modelled

`build.c` runs on the host and only joins images; `suma.S` is unused;
`libzeos.a` is given as a binary; `bootsect.S` and the set-up of descriptor
tables in `hardware.c` are straight lines of port writes and constants.  Of the
boot, what `main` does to the scheduler and the memory is the initial states.

Inside the modelled parts: what the pointers of a list are after a misuse, which
ends the behaviour; `pare`, which is written
and never read; the scan codes; the stack switch itself (one step); the kernel
stack, on which `dyn_mem` keeps an array of the caller's size (`sys.c:388`); the
overflow of `pidGlobal` and of the sizes of `malloc`; the return values other
than those the properties speak of; the priority of the ids of kernel
semaphores, which nothing creates; `printc_xy`, `free_user_pages`, `get_ticks`
and the unused helpers; `itoa` and `strlen`, pure formatting.  Of `user.c`, the
tests are straight lines of calls, and the environments of the kernel's modules
contain them; drawing is left out of the game.

The kernel's modules are checked side by side, not in one: `Process` takes
whether a fork finds frames as a choice and `Memory` takes the schedule as one,
which covers both.  `Keyboard` and `Semaphores` each stand over `Process`; what
happens only where a task uses both (a `semWait`-er unblocked into a read) is
covered by `unblock_waiter` out of a `wait_thread`, which leaves the lists in
the same state.

## 7. Plan

1. **Kernel**: `Keyboard` and `Semaphores` over one `Process`, on a small
   instance.

# A TLA+ development for the Nachos kernel

Nachos is a small operating system kernel that runs, with a simulated MIPS
machine and simulated devices, inside one UNIX process.  This directory holds
TLA+ modules that model the kernel, TLC configurations that check them on
small instances, and proofs checked by TLAPS.  `PROJECT.json` lists every run,
theorem, finding and hazard, and says which lines of the source each
definition models.

## The system

| part | source | module |
| --- | --- | --- |
| thread package: threads, scheduler, thread-id table | `threads/thread.cc`, `threads/scheduler.cc`, `threads/system.cc` | `Threads` |
| context switch | `threads/switch.c`, `StackAllocate` | `Switch` |
| list | `threads/list.cc` | `ListCells` (cells and pointers), `List` (sequences) |
| semaphores, locks, condition variables | `threads/synch.cc` | `Synch`, implementing `Threads` |
| synchronized list | `threads/synchlist.cc` | `SynchList`, on `Monitor` |
| readers and writers, barrier, producers and consumers | `threads/threadtest.cc` | `ThreadTest`, on `Monitor` |
| interrupt simulation, timers | `machine/interrupt.cc`, `machine/timer.cc` | `Interrupt` |
| disk | `machine/disk.cc` | `Disk` (time), `SynchDisk` (contents) |
| synchronous disk | `filesys/synchdisk.cc` | `SynchDisk`, implementing `AtomicDisk` |
| file system, open files | `filesys/` | `FileSys`, implementing `FileStore` |
| bitmap | `userprog/bitmap.cc` | `BitMap` (words of bits), sets in `FileSys` |
| command line | `threads/main.cc`, `Initialize` in `threads/system.cc` | `CommandLine` |
| instruction simulator | `machine/mipssim.cc` | `Mips`, on `Words` |
| stand-alone interpreter | `bin/execute.c` | `Execute`, compared with `Mips` in `Interpreters` |
| object files and loading | `bin/coff2noff.c`, `bin/coff2flat.c`, `bin/main.c`, `userprog/addrspace.cc` | `Loader` |
| virtual memory | `machine/translate.cc`, `machine/machine.cc` | `Paging` |
| system calls and user threads | `userprog/exception.cc`, `userprog/progtest.cc` | `Process`, on `Paging` |
| console | `machine/console.cc`, `ConsoleTest` | `Console` |
| network, post office | `machine/network.cc`, `network/post.cc`, `network/nettest.cc` | `PostOffice`, on `SynchList` |

There is one processor.  A thread loses it in three places only: in
`Thread::Yield`, in `Thread::Sleep` and in `Thread::Finish`; a time slice
reaches the first of these through `Interrupt::OneTick`, which runs when
interrupts are enabled again.  Device interrupt handlers run inside `OneTick`
as well, and inside `Interrupt::Idle` while no thread is ready.  So the unit of
interleaving is the code between two changes of the interrupt level or two
context switches.  In the modules above the thread package, where every call on
a lock or a semaphore changes the level, it is the code between two such calls.

The modules form layers, and each layer takes the one below as that layer was
shown to behave: `ListCells` shows that the linked cells are the sequences of
`List`, and `BitMap` that the words of bits are the sets of `FileSys`; `Switch`
shows that a context switch keeps the registers, which is what the variable
`resume` of `Threads` takes for granted; `Synch` is proved to take
only steps of `Threads`; `Monitor`, `SynchList`, `ThreadTest`, `SynchDisk` and
`PostOffice` use locks, conditions and semaphores as `Synch` shows them;
`FileSys` reads and writes sectors in one step, which is what `AtomicDisk`
promises and `SynchDisk` implements; `Mips` shows that an instruction can be
executed again after a page fault, and `Process` takes a load or a store as one
step that may have to be repeated.

## The modules

**`List`** gives a kernel list as a sequence.  A sorted list holds cells with a
copy of the key, because `SortedInsert` never looks the key up again.
**`ListCells`** is the same list in memory: `first`, `last`, and cells linked by
`next`, with the places of `SortedInsert` (empty list, front, middle, end) as
they are in the code.

**`Threads`** has one variable per piece of kernel state (`status`,
`priority`, `readyList`, `currentThread`, `threadToBeDestroyed`, the interrupt
`level`, the machine `mode`) and `resume`, which stands for a thread's saved
registers: the place SWITCH returns to.  `Run` models `Scheduler::Run` through
to the next thread's return to its own caller, because nothing can come between.
A thread that returns from SWITCH deletes the carcass and restores its
interrupt level; a thread that has never run enters `ThreadRoot`, which enables
interrupts and does not delete the carcass.  `SleepAs` is the body that `Sleep`
and `Finish` share; with an empty ready list the machine idles with
`currentThread` still set.  `ThreadsNext` lets the code above use the package in
every way its comments allow.

**`Switch`** has the registers and stacks that `Threads` leaves out.  SWITCH and
ThreadRoot are translated for the i386, the MIPS and the PA-RISC, instruction
by instruction as far as a register or a word of a stack changes, with the
frame that `StackAllocate` prepares.  Between its calls a thread may put
anything into the registers.

**`Synch`** adds semaphores, locks and condition variables.  `frame[t]` is
thread `t`'s stack, as far as these routines are concerned: the routine and
line it is at and the `oldLevel` locals.  `holds` is the client's own knowledge
of the locks it has acquired; it is what `holdingThread` is compared with.
Clients keep the conventions of `synch.h`.  A new lock's `holdingThread` is an
element of `HeapContents`, since the constructor does not assign it.  `HandlerV`
is a `V` called by a device's interrupt handler.

**`Interrupt`** has the clock (`totalTicks`), the sorted list of pending
interrupts and the place the simulation is at: in a thread, inside `OneTick`, or
inside `Idle`.  `CheckIfDue` is split into what it does if it fires an interrupt
and if it does not; in the second case it has taken the first interrupt out and
put it back.  Timers re-arm themselves, the console polls, and the disk is armed
by a request.  Threads are counted only.

**`Disk`** is the arithmetic of `ComputeLatency` and `UpdateLast` on the head's
position and the track buffer.  It is compared with a reference: a disk that
rotates, and sectors that pass under the head.

**`SynchDisk`** has one action per statement of `ReadSector` and `WriteSector`,
and the disk's interrupt.  **`AtomicDisk`** is what the callers are promised.

**`Monitor`** gives locks and condition variables as their users see them: a
lock is free or has a holder, a waiter queues, a woken thread acquires the lock
again.  **`SynchList`** and **`ThreadTest`** are programs written with it.
`ThreadTest` chooses one of the test programs in its initial state.

**`FileSys`** has what the disk holds (a header or data in each sector, the free
map, the directory), the open files, and `op`, the call of `Create` or `Remove`
that is under way with its copies in memory. Both are split at their writes to
the disk: each header that `Allocate` writes, the first header, the directory
and the free map are a step each. (The free map has one sector in the code. The
directory has two there, with eight and two entries of 16 bytes; `Create`
changes one entry, so one of the two writes puts back what the sector held.)
What `Allocate`'s loop computes is given in closed form: its calls of `Find`
answer with the clear sectors in ascending order, and `NewHeader` says which
call fills which field. For a file of exactly `NumDirect` sectors the code
writes a header to a sector number that was never assigned (`AllocateExactFit`):
the constant `Unassigned` is the set of values it may have, the header lands
there, and if that sector was in use `mode` becomes `damaged`. The call then
goes on to its end and returns TRUE as in the code, but no further call is
followed on the damaged disk. **`FileStore`** is what the callers are promised:
files are rows of bytes of a fixed length. **`BitMap`** is the free map as words
in memory and bytes in its file. The constructor clears the bits of the items
only, and the file ends with the last item, so the last word may hold bits that
come from neither; `marked` and `saved` are history variables.

**`CommandLine`** has the two loops over the words of the command line, one
round to a step, with what each `#ifdef` leaves of them.  A line is a sequence
of options with their operands (`groups`), so that what the user meant is known;
operands are words that are not options themselves.  What the line should mean
is taken from the usage at the head of `main.cc` (`UsageOperands`, `UsageFlag`,
`UsageCalls`), not from the loops.

**`Words`** has C's ints as numbers modulo a power of two, **`Mips`** decoding
and every instruction of `Machine::OneInstruction` on them: the delayed load,
the delay slot, overflow, unaligned words, and what an exception leaves of the
instruction that raised it.  **`Execute`** is the interpreter of `bin/`, which
has no delayed load and no exceptions.  **`Interpreters`** runs both on one
program; `MeansTheSame` lists the instructions on which the two differ, and
`portable` says that none was met.

**`Loader`** follows a program from the linker's COFF file to memory along the
three ways the repository has.  **`Paging`** is the reverse page table:
`Translate`, the choice of a frame, write-back and reload.  `vm.disk` is the
array that `AddrSpaceCopy` shares between threads.  **`Process`** puts user
threads on it: `StartProcess`, Exec, Fork, Join, Exit, Yield, and the loops that
copy names and buffers, one byte to a step, each of which may fault.  User
registers are one abstract value, saved and restored around a switch when the
thread has an address space, as in `Scheduler::Run`.  `expected`, `own`, `lost`
and `finished` are history variables.

**`PostOffice`** has machines with a socket, a device buffer and a postal
worker each.  Mailboxes are synchronized lists.  A thread is a sequence of
calls; `MailTest` is one of them.  `mail` is what a thread's last `Receive`
returned, to which it may reply.  The device drops packets as it chooses.
**`Console`** is the device with its polls and interrupts, and `ConsoleTest`.

Eight modules hold theorems. **`ListProofs`** is about `List`,
**`ThreadsProofs`** about `Threads`, **`ThreadTestProofs`** about `ThreadTest`,
**`DeviceProofs`** about `SynchDisk`, `Console` and `Interrupt`. The proof about
`Synch` is in two modules: **`SynchPlaces`** (the inductive invariant, queues,
switches, and that a step of `Synch` is one of `Threads`) and **`SynchProofs`**
(the actions, and the theorems). The one about `SynchList` and `PostOffice` is
in two as well: **`SynchListProofs`** (the steps of a list, and what `ForBox`
selects) and **`PostOfficeProofs`** (the steps of the mail, and the theorems).
The `MC` modules give values to constants; `MCThreads`, `MCSequential` and `MCDevices` also
put several components side by side, of which each behaviour exercises one.

A definition whose comment says "mutant" is a plausible mistake in the
definition that follows it.  No specification uses it; putting it in place of
that definition makes a property fail, which shows that the property depends on
that line of the code.

## What TLC checks

| run | instance | states | what it shows |
| --- | --- | --- | --- |
| `threads` | 4 thread ids, priorities 0 and 255 | 464,000 with the next row | Status, context, carcass and ready list agree and no ASSERT fails (`ThreadsInv`); ids are freed only after `Finish` (`OnlyFinishedFreed`); the best thread is dispatched (`DispatchesBest`); a READY thread runs in the end unless a better one is ready again and again (`RunsUnlessOutranked`). |
| | or the programs of ThreadTest6 to 9, `MAX_PRODUCT` 2, a barrier of 4 | | `ReadersExcludeWriters`, `NobodyPassesEarly`, `PoolWithinBounds`; the programs that do not poll end (`Terminates`). |
| `threads_carcass` (violated) | 3 ids, one priority | | A finished thread may never be deleted: the next `Finish` overwrites the pointer to it. |
| `synch` | 4 threads, a semaphore, a lock, a condition, handlers | 1,099,000 | Queues hold the sleepers exactly (`QueuesExact`); no wakeup is lost (`NoLostWakeup`); a lock has one holder and knows it (`MutualExclusion`); `Wait` is atomic (`WaitAtomic`); every step is one `Threads` allows (`ThreadsSpec`); a semaphore does not keep a value and waiters for ever (`SemaphoreProgress`). |
| `filesys` | 14 sectors of 3 bytes, 2 sectors in a header, 2 directory entries, 2 descriptors | 106,000 | Until a `Create` overwrites a sector in use: the free map is exact and files do not overlap (`SectorsExact`); wherever `Create` is stopped, a name in the directory leads to all its headers (`EntryHasHeaders`); bytes read are bytes written (`ImplementsFileStore`). |
| `filesys_remove` (violated) | the same | | `Remove` fails its own ASSERT. |
| `filesys_space` (violated) | the same, without files of exactly one full header | | `Create` returns TRUE for a file that lacks a data sector (`CreatedWhole`). |
| `sequential` | words of 8 bits, 4 registers; 3 tracks of 4 sectors; 3 threads on 3 machines; 4 cells; bitmaps of 4 and 6 items in words of 4 bits; 3 options in 4 builds | 750,000 | Page faults, restarts and delayed loads are invisible to a program (`InterpretersAgree`); overflow tests and the multiplication loop are exact (`ArithmeticExact`); a disk request ends when its sector has passed the head, and the track buffer is used only for what it holds (`LatencyExact`); SWITCH and ThreadRoot keep every context (`ContextKept`); linked cells are sequences (`CellsAreList`); bitmaps are sets, also through their file (`BitMapIsSet`); the two loops make of a command line what the usage says (`OptionsUnderstood`). |
| `process` | about 260 COFF files, 5 of them run, on 2 physical pages with 3 thread ids | 1,061,000 | A program with one section for each segment is converted, and every byte is loaded where the linker put it (`ImageFaithful`); demand paging is transparent to a program without other threads, and a null pointer is followed only on account of a thread that is gone (`PagingTransparent`); user registers survive switches (`RegistersKept`); a copy loop is right but for the first byte of a page, and exact if the pages are in memory (`CopiesLoseOnlyFaults`); Join returns but for three cases (`JoinEnds`). |
| `process_fork` (violated) | the same | | Threads made by Fork do not share their memory. |
| `process_copy` (violated) | the same | | A byte whose page is not in memory is not copied (`CopiesExact`). |
| `loader_bss` (violated) | the same | | A program with both kinds of bss, one behind the other, is refused by `coff2noff` (`BothBssAccepted`). |
| `devices` | 2 machines with 2 boxes each and 5 threads in all; or 4 threads on one list; or inputs of up to 4 characters | 307,000 with the next two rows | A list is a queue (`FirstInFirstOut`) and loses no wakeup (`EveryItemHasTaker`); packets are neither overwritten nor overtaken (`MailExact`); `Send` returns after its own packet (`OneSendAtATime`); `MailTest` ends if nothing is dropped (`MailTestEnds`); the echo is exact (`EchoExact`). |
| | or a random timer, disk, console, 14 ticks | | Nothing is delivered early or late, and no yield is left over from an idle period (`PromptDelivery`); the machine halts when it is idle with only the timer pending, and never while something can still happen (`HaltsWhenDone`). |
| | or 3 threads, 1 sector, 2 data | | One interrupt for each request, used up by its own thread (`OneInterruptPerRequest`), calls are atomic (`ImplementsAtomicDisk`) and return (`RequestReturns`). |

**Bounds.**  Four thread ids give a running thread, one being deleted, one
ready and one blocked at once, and let an id be reused.  Two priorities give the
three outcomes of a comparison.  Ids run out in the model as in the code
(`mode = "Exhausted"`).  `MaxValue` stops clients and handlers from calling `V`
for ever; with two units a value can outlast a taker.  `MaxTicks` ends the
clock: `devices` scales the timer to 3 ticks and a system tick to 2, so that
several periods with every order of the devices' interrupts fit; 60 ticks let
the disk seek across all tracks and turn several times.  The number of rounds
and of products end the programs; there are more products than `MAX_PRODUCT`, so
the pool fills and empties.  In `filesys` the sizes 0, 2, 4 and 13 make files
without a sector, in one sector, in exactly one full header, and in three
headers; two files fill the disk with and without enough sectors for the chained
headers, and three names overflow the directory.  A write at position 1 falls
strictly inside the sector of a file of two bytes, and across sectors in the
others.  `Unassigned` has one value for everything that is not a sector, and
among the sectors one of each kind that is told apart: the header of the free
map, the data of the free map and of the directory, and two of the sectors that
files get, which may be free or in use.  `MaxWrites` is two, so that one write can
overwrite part of another, and each byte written is different.  Names and
descriptors are interchangeable in `FileSys`, which is why that run may use
symmetry: no definition of it chooses among them, and its properties are safety
properties.

In `sequential` a byte has 2 bits and so a word 8; the code's shifts, masks and
sign tests are written in terms of the width.  One-instruction programs take
every opcode with operands and immediates at the boundaries; three-instruction
programs take twelve instructions in every order, so that a delayed load, a
delay slot and a page fault meet, with every page missing at the start and
others evicted at every fault.  A bitmap of 6 items ends in the middle of its
second word, one of 4 fills its word; new memory holds zeros, ones or a mixture.
Three options put one before and one behind any other, and the last may lack
operands.  In `process` two physical pages are fewer than
any program needs, and `TLBSize`, which bounds the search for a free frame, is
smaller than `NumPhysPages`, as in the code; `MaxForks` bounds Fork and Exec,
with more calls than ids in one program.  In `devices` `MaxItems` bounds the
items of the plain list; the mail calls are finite sequences, one of them to a
box that does not exist.

**Fairness.**  Code that runs with interrupts disabled comes to its end (weak
fairness of the routines and of `Enable`).  A thread that keeps enabling
interrupts is preempted in the end (strong fairness of `TimerYield`, and of
`Yield` in `Process`), because every such change advances the clock towards the
next timer interrupt; this holds with the timer on (`-rs` or `-rd`).  `Sleep`'s
loop dispatches a thread that is ready (weak fairness of `Dispatch`).  Nothing
is assumed of clients and of user programs.  In `SynchDisk` each thread goes on
and the pending interrupt comes, because `Idle` advances the clock to it.  In
`ThreadTest` and `PostOffice` a thread that stays able to take a step takes one,
the network device polls and interrupts, and a machine boots; nothing is assumed
of the order in which a lock is granted.  The producers and consumers that poll
(`produce_withLock`, `consume_withLock`) are excepted from `Terminates`: they
come with no guarantee.

**Deadlock** is checked in `threads`, `synch`, `filesys` and `devices`; there a
machine that halted or aborted stutters, and so do the programs of `devices`
that use the mail, a list or the console: a consumer may sleep for an item that
nobody sends.  In `sequential` and `process` behaviours rightly end: programs
run off their code, the disk's clock reaches its bound, a machine crashes.

## What is proved

`ListProofs` shows, for every list and key, that the walk of `SortedInsert`
stops at a place that splits the list, that it adds one cell there, loses none,
and keeps a list sorted and free of duplicates.  (Existence of the least
position is the well-foundedness of `<` on the naturals.)

`ThreadsProofs` shows, for every size of the thread-id table and every set of
priorities within 0..255:

- `ThreadsInvariant`: `ThreadsInv` is invariant.  Its conjunct `Fits` relates a
  thread's saved context to its status and makes the conjunction inductive: that
  a carcass may be deleted needs to know that a thread in `Finish` is BLOCKED
  and so never on the ready list, and `Wake` needs to know that what it wakes is
  not in `Finish`.
- `ThreadsReadyListExact`, `ThreadsNoAssertFails` follow.
- `ThreadsOnlyFinishedFreed` and `ThreadsDispatchesBest` are the two action
  properties.

The argument goes through `SwitchPoint`: what every caller of `Scheduler::Run`
has established when it calls it.  `RunKeepsInv` shows once that `Run` turns a
`SwitchPoint` into a consistent state; `Yield`, `Sleep`, `Finish` and
`Dispatch` each show that they reach one.

`SynchProofs` shows, for any number of threads, semaphores, locks and
conditions, and any contents of the memory that a new Lock is given:

- `SynchInvariant`: `SynchInv` is invariant.
- `SynchImplementsThreads`: the routines of `synch.cc` take only steps that
  `Threads` allows, so that every theorem of `ThreadsProofs` holds under them.
- `SynchQueuesExact`, `SynchNoLostWakeup`, `SynchMutualExclusion` and
  `SynchWaitAtomic`: the four invariants of the run `synch`.

None of the four is inductive alone.  That `V` may call `ReadyToRun` on the head
of a queue needs to know that this thread is BLOCKED in `Sleep`, and that `Wait`
is atomic needs to know that no thread loses the processor in the middle of it.
`SynchInv` therefore adds three things.  `Placed` says where in the routines a
thread can be, given its saved context: preempted only outside them or between
the `P` of `Acquire` and its assignment, asleep only in `P` or at the end of
`Wait`.  `LevelFits` says that interrupts are enabled exactly at those places
where the timer may act.  `FramesFit` says what the locals of a routine hold, in
particular that `oldLevel` restores the level the caller had.  `Mutex` is
`MutualExclusion` without counting; `SynchMutualExclusion` counts at the end.
The lemmas `SemaphoreWakes`, `SemaphoreSleeps` and their counterparts for
conditions show once what moving a thread between a queue and the ready list
does to `QueuesExact`; each action then has a lemma of its own, whose steps are
the conjuncts it can disturb.  A woken thread need not get the unit it was woken
for: `PTakeKeeps` and `PSleepKeeps` show that `NoLostWakeup` survives both
outcomes.

`DeviceProofs` shows, for any threads, sectors and data:

- `SynchDiskInvariant`: `SynchDiskInv` is inductive.  It says where the one
  token of the protocol is: whoever is past `Acquire` is the holder, and the
  disk is active, or the semaphore has its value, or neither, according to the
  statement the holder is at.
- `DiskOneRequestAtATime`, `DiskOneInterruptPerRequest`,
  `DiskReturnsWhenDone` follow.
- `SynchDiskIsAtomic`: the synchronous disk implements `AtomicDisk`.  The call
  takes effect at the request to the disk; the steps before and after map to
  stutters, the call and the return to themselves.

and for every input of the console:

- `ConsoleEchoExact`: `EchoExact` is invariant.  By itself it says what was
  displayed, not why nothing was overwritten.  `ConsoleInv` adds that a
  character the device announced and nobody fetched is counted by `readAvail`
  (`AllCounted`), that as long as none was the byte `EOF` it is still in the
  buffer and those before it are in their places (`InPlace`), and that at most
  one write is pending, which `ConsoleTest` waits for (`OneWrite`).  The last
  step splits the input into what is displayed, what `ConsoleTest` has in its
  hand and what the device holds.

and for any timers, devices, latencies and lengths of a tick:

- `InterruptsPrompt`: `PromptDelivery`.
- `IdleMachineHalts`: `HaltsWhenDone`, if there is at most one timer; with two
  it does not hold (see below).

Both are action properties and rest on `ClockInv`.  The list of pending
interrupts is sorted and has one for each device, so that the first is the one
`CheckIfDue` has to look at, and the last one is known to be the last.  No
interrupt is late but inside `OneTick`, where it is late by at most the tick that
was just added: `TickEnd` and `IdleReturns` fire what is due before they return.
An idle machine that finds only its timer leaves that interrupt pending although
it is due; it is then exactly on time, which is why `ClockInv` allows the
equality.  `status` is `IdleMode` exactly inside `Idle`, so that a `CheckIfDue`
called by `OneTick` never takes this way out.

`ThreadTestProofs` shows, for any threads, rounds and sizes:

- `TestInvariant`: `TestInv` is invariant.
- `ReadersAndWriters`, `BarrierHolds` and `PoolBounded`: the three invariants of
  the run `threads` about these programs.

`TestInv` ties the counters of the programs to where the threads are.
`ReadersInv` says that `readerCount` is the number of readers between their two
sections under `rcLock`, and that `writeLock` is held on behalf of all of them
from the first one's `Acquire` to the last one's `Release`; the holder on record
may have left long ago, so the exclusion cannot be stated of the holder.
`BarrierInv` says that the counter of the barrier is the number of threads that
have arrived and that nobody is woken before it is full; this needs every
thread to arrive once.  `PlaceInv` says that each thread is in its own function,
and that the queue of a condition holds sleepers of the functions that wait
there.  One lemma, `Footprint`, says what a step of one program leaves alone;
after it each program needs to look at its own actions only.

`PostOfficeProofs` shows, for any machines, boxes, lists and threads and for any
calls they make:

- `PostInvariant`: `PostInv` is invariant.
- `ListIsQueue` and `ListNoLostWakeup`: a synchronized list is a queue, and no
  wakeup is lost in it.
- `MailInOrder` and `SendsTakeTurns`: no mail is lost, doubled or overtaken
  between the socket and the box, and `Send` returns on its own interrupt.

`ListInv` says which thread is in a call on which list (`InCall`), that the
queue of a list holds its sleepers once each (`SleepersQueued`), and the two
properties of lists.  `EveryItemHasTaker` is kept because a thread that appends
also signals, and because whoever takes an item stops being counted: the lemmas
of the steps count the threads awake before and after.  `MailExact` needs
`DeliverInv`: the worker is told of a packet exactly while one is in the
device's buffer and nobody has fetched it, and a worker that was told finds it
there.  `OneSendAtATime` needs `SendInv`: a thread between `Network::Send` and
`Release` holds the lock of its machine, so that there is one, and the interrupt
or the semaphore's unit belongs to it.  `ReceiveInv` says that a thread has mail
before it replies, so that every packet has an address.  `ForBox`, a recursive
function, is handled through the equations it satisfies (`ForBoxKeeps`); that
they have a solution is proved by the least place at which there is none.

The assumptions are `ThreadsAssumption` (there is at least one id, priorities
are within the range the constructor asserts, NULL is not an id),
`SynchAssumption` (semaphores and locks have different names, initial values are
naturals, each condition has its lock, a new Lock's memory holds a thread or
NULL), `SynchDiskAssumption` (`Nobody` is not a thread), `InterruptAssumption` (a
tick and a latency are positive, a user's tick is not longer than the system's),
`ConsoleAssumption` (inputs
are sequences of characters), `ThreadTestAssumption` (the names of locks and
conditions, sizes and rounds are positive), `BarrierAssumption` (`barrierRun` has
no loop, and no more than `barrierSize` threads are forked for it, as in
`ThreadTest8`) and `PostAssumption` (names are different, a machine has one
postal worker, calls name machines and boxes that exist but for the box of a
`Send`, which the code tests itself, and a reply follows a `Receive`).  TLC
evaluates them in the runs.  `MaxValue` bounds `V` and `MaxItems` the items of a
plain list in the proofs as in the runs; they may be any natural numbers.  The
inductive invariants were checked with TLC on the instances of the runs before
they were proved.

Only model-checked:

- the liveness properties (`RunsUnlessOutranked`, `SemaphoreProgress`,
  `RequestReturns`, `Terminates`, `MailTestEnds`, `JoinEnds`),
  which are out of the prover's reach;
- `Mips`, `Execute` and `BitMap`, whose module of bit operations is recursive;
- what `Disk` and `Loader` compute, `LatencyExact` and `ImageFaithful`: they
  compare arithmetic and loops with a reference and hold by calculation on each
  input rather than by an invariant;
- `Switch`, `ListCells`, `CommandLine`, `FileSys`, `Paging` and
  `Process`, for which no inductive invariant is written down yet.

## Findings

1. A finished thread can be leaked, and its id with it (`threads_carcass`).
2. `FileHeader::Deallocate` never returns, so neither does
   `FileSystem::Remove` (`filesys_remove`).
3. Threads made by SC_Fork are not in the same address space as their parent,
   although `syscall.h` says so (`process_fork`).
4. `Allocate` does not count the sectors of chained headers, so `Create` may
   return TRUE for a file that lacks data sectors (`filesys_space`).  With
   `Sizes = {4}` the same property shows the other way in which `Create` goes
   wrong: for a file of exactly `NumDirect` sectors it writes a header to an
   uninitialized sector number, which may be in use.
5. `ReadMem` and `WriteMem` are called once for each byte in the copy loops of
   the system calls, and the byte of a round that faults is lost
   (`process_copy`).  `CopiesLoseOnlyFaults` says which bytes that can be.  If it
   is the terminator of a name, the loop that measures the name runs past it.
6. `coff2noff` refuses a program in which `.bss` and `.sbss` follow each other and
   accepts one in which they do not: its test has the sense reversed
   (`loader_bss`).

Observed while modelling, and stated by the models without a run of their own:

- `Lock::Lock` leaves `holdingThread` unassigned: before the first `Acquire`
  returns, `isHeldByCurrentThread` may be true for a thread that does not hold
  the lock.  `MutualExclusion` says from when on it is right.
- With both `-rs` and `-rd` there are two timers, neither is ever the last
  pending interrupt, and an idle machine does not halt; `HaltsWhenDone` is
  checked with one.
- With priorities a ready thread can starve, against the comment of `Yield`;
  `RunsUnlessOutranked` says exactly when.
- `V` does not hand the unit to the thread it wakes: another may take it first,
  and the loop in `P` is what makes this harmless.
- `ThreadTest7` forks the functions with the lock although its title says
  condition variables.
- The two interpreters differ on the instructions that `MeansTheSame` lists;
  among them `mipssim.cc` computes OR from one of its operands only and shifts
  a negative word to the right as a signed one.
- Join does not return if the carcass of the thread was leaked, if its id was
  given to a new thread in time, or if there is no further switch that would
  delete the carcass; these are the exceptions in `JoinEnds`.
- The console takes the byte `(char)EOF` in its input for an empty buffer;
  `EchoExact` says what remains true.
- The usage in `main.cc` gives `-n` for the reliability of the network; the code
  takes it from `-l`, which in that build needs an operand and lists the
  directory as well.  `-z` does nothing in the build for threads.
  `OptionsUnderstood` is about lines without these (`FollowsUsage`).  Options
  that the usage does not have (`-rd`, `-q`, `-pt`) are left out of it too: `-rd`
  asks for an operand and ignores it, and any word behind `-q n` sets the test
  back to 1.  The format flag is read, and then ignored, in the build whose file
  system is a stub.
- `PagingTransparent` claims the contents of memory for programs that have forked
  no thread.  A frame whose thread has exited stays in the page table, and a new
  thread with the same id finds it; the property does not exclude that.
- `ThreadRoot` for the i386 takes the procedure to call first from `ecx`, where
  its comment says `eax`; `StackAllocate` fills the former, so the code is right.

## Not modelled

- The context switch of the SPARC: its register windows are flushed by a trap of
  the host's operating system.
- Host system calls (`sysdep.cc`) other than the polls, files and sockets that
  the devices use; debug output and statistics.
- The tools of `bin/` that only print (`out.c`, `opstrings.c`), and the user
  programs of `test/`.
- The build with `USE_TLB`: its `tlbReplace` reads through `pageTable`, which
  nothing sets since there is a reverse page table.
- Of the file system: time stamps, `List` and `Print`; calls by several threads
  at once, which `Create` excludes in its comment; a restart of the machine,
  because `Directory::Add` stores a pointer to the name, which is meaningless to
  the next process.  What a machine that stops leaves on the disk is covered,
  since every write to the disk is a step of its own.
- ThreadTest1 to 5, which print and yield.

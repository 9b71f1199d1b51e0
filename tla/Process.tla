------------------------------- MODULE Process -------------------------------
(***************************************************************************)
(* User programs: StartProcess, the system calls of userprog/exception.cc, *)
(* the threads they fork, the switch of user registers in Scheduler::Run,  *)
(* and the pages of module Paging under them.                              *)
(*                                                                         *)
(* A user thread loads and stores bytes, changes its registers (one        *)
(* abstract value) and calls the kernel; a copy loop of the kernel is one  *)
(* action per byte, during which no other thread runs.  All user threads   *)
(* have the same priority, so the ready list is a queue (module Threads    *)
(* has the priorities).                                                    *)
(***************************************************************************)
EXTENDS Paging

CONSTANTS MaxThreadCount, NULL,
          Programs,        \* the COFF files
          Started,         \* those of them that are run, not only loaded
          MaxForks,        \* MaxForks[p]: bound on the calls of Fork and Exec of program p
                           \* with 0, p does not join either but calls Create, Read...
          Joined,          \* the arguments of Join
          StoreAddr,       \* the addresses the programs store to
          StoreByte,       \* the byte they store, and that Read reads
          NameAddr,        \* the arguments of Create and Open
          Buffer           \* the <<address, length>> arguments of Read and Write

VARIABLES coff, status, vm,
          current, ready, occupied, started, space, entry, threadToBeDestroyed,
          joining,         \* joining[t]: the id t polls in SC_Join, or NULL
          registers, userRegisters,
          call,            \* the copy loop of the system call in progress
          expected,        \* history: the last byte stored at each address
          own,             \* history: the registers of each thread as it left them
          forks, exits,    \* history: the numbers of Fork and Exec, and of Exit
          finished, lost   \* history: ids whose thread has finished; carcasses lost

memory == <<coff, vm, expected>>
threads == <<current, ready, occupied, started, space, entry, threadToBeDestroyed, finished, lost>>
context == <<registers, userRegisters, own>>
vars == <<status, memory, threads, context, joining, call, forks, exits>>

Tid == 0..(MaxThreadCount - 1)

\* The programs pass buffers that they have (AddrSpace's check is left to them).
ASSUME ProcessAssumption ==
    /\ MaxThreadCount \in Nat \ {0} /\ NULL \notin Nat
    /\ Programs \subseteq Coffs
    /\ NameAddr \subseteq Nat /\ Buffer \subseteq Nat \X Nat
    /\ \A p \in Programs \cap Started :
          MaxForks[p] = 0 /\ coff2noff(p).exists /\ ~Overruns(coff2noff(p)) =>
              \A b \in Buffer : b[1]..(b[1] + b[2] - 1) \subseteq DOMAIN AddrSpace(coff2noff(p))

NoCall == [pc |-> "none"]

\* The ids whose thread and address space the kernel can reach.
Spaces == occupied \cap space

\* The current thread is in its program, not in the kernel.
InUser == status = "running" /\ call.pc = "none" /\ current \in space /\ joining[current] = NULL

-----------------------------------------------------------------------------
ProcessInit ==
    /\ coff \in Programs
    /\ status = "booted"
    /\ vm = NewVm(<<>>)
    /\ current = 0 /\ ready = <<>> /\ occupied = {0} /\ started = {0} /\ space = {}
    /\ entry = [t \in Tid |-> "fork_func"]
    /\ threadToBeDestroyed = NULL
    /\ joining = [t \in Tid |-> NULL]
    /\ registers = 0 /\ userRegisters = [t \in Tid |-> 0] /\ own = [t \in Tid |-> 0]
    /\ call = NoCall
    /\ expected = <<>>
    /\ forks = 0 /\ exits = 0 /\ finished = {} /\ lost = {}

\* AddrSpace::InitRegisters: pc, next pc and stack pointer of a program that starts.
InitRegisters == 0

\* StartProcess: a program that coff2noff refused cannot be opened.
StartProcess ==
    LET noff == coff2noff(coff) IN
    /\ status = "booted"
    /\ coff \in Started
    /\ IF ~noff.exists
       THEN status' = "halted" /\ UNCHANGED <<vm, expected, space>>
       ELSE /\ status' = IF Overruns(noff) THEN "crashed" ELSE "running"
            /\ vm' = NewVm(AddrSpace(noff))
            /\ expected' = AddrSpace(noff)
            /\ space' = {0}
    /\ registers' = InitRegisters
    /\ UNCHANGED <<coff, current, ready, occupied, started, entry, threadToBeDestroyed, finished, lost,
                   userRegisters, own, joining, call, forks, exits>>

-----------------------------------------------------------------------------
\* What the program does between system calls.
Compute ==
    /\ InUser
    /\ registers' = 1 - registers
    /\ own' = [own EXCEPT ![current] = registers']
    /\ UNCHANGED <<status, memory, threads, userRegisters, joining, call, forks, exits>>

Store(a, v) ==
    /\ InUser
    /\ a \in DOMAIN vm.disk
    /\ Resident(vm, current, a)
    /\ vm' = SetByte(vm, current, a, v)
    /\ expected' = [expected EXCEPT ![a] = v]
    /\ UNCHANGED <<status, coff, threads, context, joining, call, forks, exits>>

\* PageFaultException: the frame is chosen at random when none is free.
Replaced(a, random) == ReverseTableReplace(vm, current, a, random, Spaces)

RandomFrames == IF Victim(vm, NULL) = NULL THEN Frame ELSE {NULL}

StatusAfter(newVm) == IF newVm.crashed THEN "crashed" ELSE status

PageFault(a) ==
    /\ InUser
    /\ ~Resident(vm, current, a)
    /\ \E random \in RandomFrames : vm' = Replaced(a, random)
    /\ status' = StatusAfter(vm')
    /\ UNCHANGED <<coff, expected, threads, context, joining, call, forks, exits>>

-----------------------------------------------------------------------------
\* Scheduler::Run to a thread: user registers are saved and restored for
\* threads with an address space; the carcass is deleted when the next thread
\* returns from its own SWITCH, which one that never ran does not.
RegistersNotSaved == userRegisters  \* mutant: SaveUserState is not called

SavedRegisters == IF current \in space THEN [userRegisters EXCEPT ![current] = registers] ELSE userRegisters

RestoredRegisters(next) ==
    IF next \in started \cap space THEN SavedRegisters[next] ELSE registers

IdKept(carcass) == {}  \* mutant: ~Thread does not give the id back

IdFreed(carcass) == {carcass}

Run(next, carcass) ==
    /\ current' = next
    /\ started' = started \cup {next}
    /\ userRegisters' = SavedRegisters
    /\ registers' = RestoredRegisters(next)
    /\ IF next \in started
       THEN occupied' = occupied \ IdFreed(carcass) /\ threadToBeDestroyed' = NULL
       ELSE UNCHANGED occupied /\ threadToBeDestroyed' = carcass

\* Thread::Yield, called by SC_Yield, by the timer or by SC_Join.
YieldBody ==
    /\ ready # <<>>
    /\ ready' = Append(Tail(ready), current)
    /\ Run(Head(ready), threadToBeDestroyed)
    /\ UNCHANGED <<space, entry, finished, lost, own>>

Yield ==
    /\ status = "running" /\ call.pc = "none" /\ joining[current] = NULL
    /\ YieldBody
    /\ UNCHANGED <<status, memory, joining, call, forks, exits>>

\* SC_Exit: Finish; with nothing ready the idle machine halts.
Exit ==
    /\ InUser
    /\ exits' = exits + 1
    /\ finished' = finished \cup {current}
    /\ lost' = lost \cup ({threadToBeDestroyed} \ {NULL})
    /\ IF ready = <<>>
       THEN /\ status' = "halted"
            /\ threadToBeDestroyed' = current
            /\ UNCHANGED <<current, started, userRegisters, registers, occupied, ready>>
       ELSE ready' = Tail(ready) /\ Run(Head(ready), current) /\ UNCHANGED status
    /\ UNCHANGED <<memory, space, entry, own, joining, call, forks>>

Halt ==
    /\ InUser
    /\ status' = "halted"
    /\ UNCHANGED <<memory, threads, context, joining, call, forks, exits>>

\* Any other exception or system call.
Unexpected ==
    /\ InUser
    /\ status' = "asserted"
    /\ UNCHANGED <<memory, threads, context, joining, call, forks, exits>>

\* SC_Fork and SC_Exec: the new thread has the first free id, no address
\* space yet, and goes to the end of the ready list; without a free id the
\* constructor's ASSERT fails.
NewThread(function) ==
    /\ InUser
    /\ forks < MaxForks[coff]
    /\ forks' = forks + 1
    /\ IF occupied = Tid THEN status' = "asserted" /\ UNCHANGED threads
       ELSE LET id == Min(Tid \ occupied) IN
            /\ occupied' = occupied \cup {id}
            /\ ready' = Append(ready, id)
            /\ started' = started \ {id}
            /\ space' = space \ {id}
            /\ entry' = [entry EXCEPT ![id] = function]
            /\ finished' = finished \ {id}
            /\ UNCHANGED <<status, current, threadToBeDestroyed, lost>>
    /\ UNCHANGED <<memory, context, joining, call, exits>>

Fork == NewThread("fork_func")

Exec == NewThread("exec_func")

\* fork_func and exec_func, when the new thread first runs.  exec_func writes
\* through the user address as if it were a kernel pointer.
Begin ==
    /\ status = "running" /\ call.pc = "none"
    /\ current \notin space
    /\ IF entry[current] = "exec_func"
       THEN status' = "crashed" /\ UNCHANGED <<space, registers, own>>
       ELSE /\ space' = space \cup {current}
            /\ registers' = InitRegisters
            /\ own' = [own EXCEPT ![current] = InitRegisters]
            /\ UNCHANGED status
    /\ UNCHANGED <<memory, current, ready, occupied, started, entry, threadToBeDestroyed, finished, lost,
                   userRegisters, joining, call, forks, exits>>

\* SC_Join: polls ThreadIDOccupied, yielding in between.
Join(id) ==
    /\ InUser
    /\ MaxForks[coff] > 0
    /\ joining' = [joining EXCEPT ![current] = id]
    /\ UNCHANGED <<status, memory, threads, context, call, forks, exits>>

JoinYields ==
    /\ status = "running" /\ call.pc = "none" /\ joining[current] \in occupied
    /\ YieldBody
    /\ UNCHANGED <<status, memory, joining, call, forks, exits>>

JoinReturns ==
    /\ status = "running" /\ call.pc = "none" /\ joining[current] \in Tid \ occupied
    /\ joining' = [joining EXCEPT ![current] = NULL]
    /\ UNCHANGED <<status, memory, threads, context, call, forks, exits>>

-----------------------------------------------------------------------------
\* The copy loops.  user is the user's bytes as the call began and resident
\* whether all of them were in memory then.
String(t, a) ==
    LET end == Min({b \in DOMAIN vm.disk : b >= a /\ View(vm, t, b) = 0})
    IN  [k \in 1..(end - a + 1) |-> View(vm, t, a + k - 1)]

Bytes(t, a, n) == [k \in 1..n |-> View(vm, t, a + k - 1)]

Calling(pc, a, len, value, bytes) ==
    [pc |-> pc, address |-> a, len |-> len, value |-> value, data |-> <<>>, user |-> bytes,
     resident |-> \A k \in DOMAIN bytes : Resident(vm, current, a + k - 1)]

CallUnchanged == UNCHANGED <<coff, expected, threads, context, joining, forks, exits>>

\* SC_Create and SC_Open first look for the end of the name, then copy it.
CreateOrOpen(a) ==
    /\ InUser
    /\ MaxForks[coff] = 0
    /\ \E b \in DOMAIN vm.disk : b >= a /\ View(vm, current, b) = 0
    /\ call' = Calling("measure", a, 0, 1, String(current, a))
    /\ UNCHANGED <<status, vm>> /\ CallUnchanged

Write(a, n) ==
    /\ InUser
    /\ MaxForks[coff] = 0
    /\ call' = Calling("copy", a, n, Garbage, Bytes(current, a, n))
    /\ UNCHANGED <<status, vm>> /\ CallUnchanged

\* The bytes of the file or the keyboard are any; they go to the program.
Read(a, n, bytes) ==
    /\ InUser
    /\ MaxForks[coff] = 0
    /\ call' = [Calling("store", a, n, 0, Bytes(current, a, n)) EXCEPT !.user = bytes]
    /\ UNCHANGED <<status, vm>> /\ CallUnchanged

\* machine->ReadMem(a, 1, &value), its result ignored: a fault is served and
\* value keeps what it had.
Fetched(a) ==
    IF Resident(vm, current, a) THEN {[vm |-> vm, value |-> Byte(vm, current, a)]}
    ELSE {[vm |-> Replaced(a, random), value |-> call.value] : random \in RandomFrames}

Stored(a, v) ==
    IF Resident(vm, current, a) THEN {SetByte(vm, current, a, v)}
    ELSE {Replaced(a, random) : random \in RandomFrames}

\* The next byte of the loop in progress.
PastNext == call.address + Len(call.data) + 1  \* mutant: one too far

NextAddr == call.address + Len(call.data)

\* while (value != 0): past the end of the address space there is no telling.
Measure ==
    LET a == call.address + call.len IN
    /\ status = "running" /\ call.pc = "measure" /\ call.value # 0
    /\ IF a \notin DOMAIN vm.disk THEN status' = "crashed" /\ UNCHANGED <<vm, call>>
       ELSE \E got \in Fetched(a) :
               /\ vm' = got.vm
               /\ call' = [call EXCEPT !.value = got.value, !.len = @ + 1]
               /\ status' = StatusAfter(vm')
    /\ CallUnchanged

Measured ==
    /\ status = "running" /\ call.pc = "measure" /\ call.value = 0
    /\ call' = [call EXCEPT !.pc = "copy"]
    /\ UNCHANGED <<status, vm>> /\ CallUnchanged

Copy ==
    /\ status = "running" /\ call.pc = "copy" /\ Len(call.data) < call.len
    /\ \E got \in Fetched(NextAddr) :
          /\ vm' = got.vm
          /\ call' = [call EXCEPT !.value = got.value, !.data = Append(@, got.value)]
    /\ status' = StatusAfter(vm')
    /\ CallUnchanged

StoreBytes ==
    LET a == NextAddr
        byte == call.user[Len(call.data) + 1]
    IN
    /\ status = "running" /\ call.pc = "store" /\ Len(call.data) < call.len
    /\ vm' \in Stored(a, byte)
    /\ call' = [call EXCEPT !.data = Append(@, View(vm', current, a))]
    /\ expected' = IF Resident(vm, current, a) THEN [expected EXCEPT ![a] = byte] ELSE expected
    /\ status' = StatusAfter(vm')
    /\ UNCHANGED <<coff, threads, context, joining, forks, exits>>

\* The file system is called with data, or the result is in memory: AdvancePC.
Return ==
    /\ status = "running" /\ call.pc \in {"copy", "store"} /\ Len(call.data) = call.len
    /\ call' = NoCall
    /\ UNCHANGED <<status, vm>> /\ CallUnchanged

-----------------------------------------------------------------------------
ProcessNext ==
    \/ StartProcess \/ Compute \/ Yield \/ Exit \/ Halt \/ Unexpected \/ Fork \/ Exec \/ Begin \/ JoinYields \/ JoinReturns
    \/ \E a \in StoreAddr : Store(a, StoreByte)
    \/ \E a \in DOMAIN vm.disk : PageFault(a) /\ offset(a) = 0
    \/ \E id \in Joined : Join(id)
    \/ \E a \in NameAddr : CreateOrOpen(a)
    \/ \E b \in Buffer : Write(b[1], b[2])
    \/ \E b \in Buffer : Read(b[1], b[2], [k \in 1..b[2] |-> StoreByte])
    \/ Measure \/ Measured \/ Copy \/ StoreBytes \/ Return

\* The kernel goes on with what it does.  A user thread that keeps the processor
\* is made to yield by the timer (-rs) sooner or later, also when it calls the
\* kernel again and again in between.
ProcessSpec ==
    /\ ProcessInit /\ [][ProcessNext]_vars
    /\ SF_vars(Yield) /\ WF_vars(Begin) /\ WF_vars(JoinYields) /\ WF_vars(JoinReturns)
    /\ WF_vars(Measure \/ Measured \/ Copy \/ StoreBytes \/ Return)

-----------------------------------------------------------------------------
\* What the linker script of the test programs produces: sections of different
\* names that the loaders know, from address 0, each where the one before ends,
\* and a file as long as it says.
Contiguous ==
    /\ \A k \in 1..Len(coff.sections) : coff.sections[k].name \in ToSet(LoadOrder)
    /\ \A j, k \in 1..Len(coff.sections) : coff.sections[j].name = coff.sections[k].name => j = k
    /\ \A k \in 1..Len(coff.sections) :
          coff.sections[k].paddr = IF k = 1 THEN 0 ELSE coff.sections[k - 1].paddr + coff.sections[k - 1].size
    /\ \A k \in 2..Len(coff.sections) : IsBss(coff.sections[k - 1]) => IsBss(coff.sections[k])
    /\ \A s \in ToSet(coff.sections) : ~IsBss(s) => ~TooShort(coff, s) /\ s.scnptr # 0

Filled(name) == \E s \in ToSet(coff.sections) : s.name = name /\ s.size > 0

\* coff2noff has one segment for .data and .rdata, one for .bss and .sbss, and
\* none for .sdata.
DataFits == ~(Filled(".data") /\ Filled(".rdata")) /\ ~Filled(".sdata")
BssFits == ~(Filled(".bss") /\ Filled(".sbss"))

\* Every byte of an initialized section is at the address the linker gave it,
\* in the address space that coff2noff and the kernel make of it, in the flat
\* file of coff2flat and in the memory of the stand-alone interpreter, and no
\* byte is stored outside the address space.  coff2noff makes a file of every
\* program that has one section for each segment; for one with both kinds of
\* bss see BothBssAccepted.
ImageFaithful ==
    LET noff == coff2noff(coff)
        at(s, a) == coff.bytes[s.scnptr + (a - s.paddr) + 1]
    IN  status = "booted" /\ coff.magic /\ Contiguous =>
            /\ DataFits /\ BssFits => noff.exists
            /\ noff.exists => ~Overruns(noff)
            /\ \A s \in ToSet(coff.sections) : ~IsBss(s) => \A a \in Addresses(s) :
                 /\ noff.exists => AddrSpace(noff)[a] = at(s, a)
                 /\ a < Top(coff) + FlatStackSize - 4 => coff2flat(coff)[a] = at(s, a)
                 /\ load_program(coff, Top(coff) + 1)[a] = at(s, a)

\* "need to check if we have both .bss and .sbss -- make sure they are
\* contiguous" (coff2noff.c:200-201): a program in which both follow each
\* other, as the linker script has them, is converted.
BothBssAccepted ==
    status = "booted" /\ coff.magic /\ Contiguous /\ DataFits => coff2noff(coff).exists

\* Demand paging is transparent: as long as the program has forked no thread,
\* what its thread sees at every address, in a frame or on the disk, is the
\* last byte stored there, or the loaded one; afterwards no thread has more
\* than one copy of a page.  The kernel follows a null pointer only on account
\* of a thread that is gone: one whose dirty page it evicts, or one that Exec
\* started.
PagingTransparent ==
    /\ status = "running" =>
        /\ forks = 0 => \A a \in DOMAIN expected : View(vm, 0, a) = expected[a]
        /\ \A t \in Tid, a \in DOMAIN expected : Cardinality(Frames(vm, t, a)) <= 1
    /\ status = "crashed" /\ vm.crashed => exits > 0

\* The user registers survive every switch: a thread in its program has the
\* registers it had when it last left it, although fork_func runs before its
\* thread has an address space to save registers for.
RegistersKept == InUser => registers = own[current]

\* The k-th byte of the call in progress is the first the kernel touches in its page.
FirstOfPage(k) == k = 1 \/ offset(call.address + k - 1) = 0

\* The result of ReadMem and WriteMem is ignored, so a page fault in a copy
\* loop costs a byte.  What it costs is bounded: a byte that the kernel got
\* wrong is the first one in its page, a name is never cut short, and the loop
\* runs past its end, which may take it out of the address space, only if the
\* terminator is the first byte in its page; a buffer that was in memory is
\* copied exactly.
CopiesLoseOnlyFaults ==
    /\ call.pc \in {"copy", "store"} /\ Len(call.data) = call.len =>
        /\ \A k \in DOMAIN call.user \cap DOMAIN call.data :
              call.data[k] # call.user[k] => FirstOfPage(k)
        /\ Len(call.data) >= Len(call.user)
        /\ call.resident => call.data = call.user
    /\ call.pc # "none" /\ call.len > Len(call.user) => FirstOfPage(Len(call.user))

\* "Write "size" bytes from "buffer" to the open file" and "Read "size" bytes
\* from the open file into "buffer"" (syscall.h:97-100): what the kernel copied
\* is what was in the buffer, or in the file.
CopiesExact ==
    call.pc \in {"copy", "store"} /\ Len(call.data) = call.len => call.data = call.user

\* SC_Join on a thread that has exited returns, unless its carcass was
\* overwritten by the next one before a thread returned from SWITCH, or a new
\* thread was given the id before the joiner looked, or the joiner is the only
\* thread left and started after the exit, so that there is no further switch.
JoinEnds ==
    \A t \in Tid, id \in Joined :
        joining[t] = id /\ id \in finished
            ~> \/ joining[t] # id \/ status # "running"
               \/ id \in lost \/ id \notin finished
               \/ threadToBeDestroyed = id /\ ready = <<>>

\* "Fork a thread to run a procedure ("func") in the *same* address space as
\* the current thread" (userprog/syscall.h): what a thread sees at an address
\* is the last byte that any of them stored there.
ForkShares ==
    status = "running" => \A t \in Spaces \ finished, a \in DOMAIN expected : View(vm, t, a) = expected[a]

=============================================================================

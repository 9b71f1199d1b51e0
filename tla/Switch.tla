------------------------------- MODULE Switch -------------------------------
(***************************************************************************)
(* The context switch, register by register: SWITCH and ThreadRoot         *)
(* (threads/switch.c, the assembly that the build preprocesses) for the    *)
(* i386, the MIPS and the HP PA-RISC ("SNAKE"), with the frame that        *)
(* Thread::StackAllocate builds for a new thread.                          *)
(*                                                                         *)
(* A register is its number, a value a triple <<kind, thread, number>>.    *)
(* The processor executes a chain of procedures of currentThread; of these *)
(* only ThreadRoot and the procedure it calls are told apart, and the      *)
(* latter uses the registers as it likes between its calls of SWITCH.      *)
(***************************************************************************)
EXTENDS Integers, Sequences

CONSTANTS Thread, Main

ASSUME SwitchAssumption == Main \in Thread

VARIABLES
  arch,           \* what the kernel is compiled for
  reg,            \* the registers
  pc,             \* where SWITCH or a call has just gone to, or Body
  object,         \* the first words of the Thread objects: stackTop, machineState
  stack,          \* the words of the stacks; only the i386 keeps addresses there
  currentThread,
  where,          \* of each thread: "new", "out", "root", "in" (a procedure) or "done"
  frame,          \* the registers when ThreadRoot made its last call
  calls,          \* history: what ThreadRoot called, with which argument
  before          \* history: registers, stack and return address at the call of SWITCH

switchVars == <<arch, reg, pc, object, stack, currentThread, where, frame, calls, before>>

Value(kind, t, n) == <<kind, t, n>>
Body == Value("body", Main, 0)
ThreadRoot == Value("ThreadRoot", Main, 0)
InterruptEnable == Value("InterruptEnable", Main, 0)
ThreadFinish == Value("ThreadFinish", Main, 0)
Func(t) == Value("func", t, 0)
Arg(t) == Value("arg", t, 0)
NoArg == Value("none", Main, 0)

\* switch.h, the offsets in words: the word of the Thread object in which SWITCH
\* saves each register and the return address; the registers ThreadRoot finds its
\* four parameters in; the words StackAllocate puts them in; the stack pointer;
\* the registers that a procedure leaves as it found them (the calling convention).
StartupInEax == 0  \* mutant: the register that the comment of ThreadRoot names
StartupPC == 1     \* ecx

I386 ==
  [saved |-> [r \in 0 .. 7 |-> <<1, 3, 4, 2, 0, 5, 6, 7>>[r + 1]], PC |-> 8, sp |-> 4,
   root |-> [InitialPC |-> 6, InitialArg |-> 2, WhenDonePC |-> 7, StartupPC |-> StartupPC],
   state |-> [InitialPC |-> 6, InitialArg |-> 4, WhenDonePC |-> 7, StartupPC |-> 3],
   kept |-> {3, 4, 5, 6, 7}]

MIPS ==
  [saved |-> [r \in (16 .. 23) \cup {29, 30} |-> CASE r = 29 -> 0 [] r = 30 -> 9 [] OTHER -> r - 15],
   PC |-> 10, sp |-> 29,
   root |-> [InitialPC |-> 16, InitialArg |-> 17, WhenDonePC |-> 18, StartupPC |-> 19],
   state |-> [InitialPC |-> 1, InitialArg |-> 2, WhenDonePC |-> 3, StartupPC |-> 4],
   kept |-> (16 .. 23) \cup {29, 30}]

SNAKE ==
  [saved |-> [r \in (3 .. 18) \cup {30} |-> IF r = 30 THEN 0 ELSE r - 2], PC |-> 17, sp |-> 30,
   root |-> [InitialPC |-> 3, InitialArg |-> 4, WhenDonePC |-> 5, StartupPC |-> 6],
   state |-> [InitialPC |-> 1, InitialArg |-> 2, WhenDonePC |-> 3, StartupPC |-> 4],
   kept |-> (3 .. 18) \cup {30}]

Layout == [i386 |-> I386, MIPS |-> MIPS, SNAKE |-> SNAKE][arch]

\* The return address is on the i386's stack, in ra or rp on the others.
Return(t, n) == Value("return", t, n)

MachineStateSize == 18

\* The stack as the i386 uses it: word Top is where StackAllocate begins, and
\* four words are left above it.
Top == 9
StackWords == 0 .. Top + 3
Depths == {4, 5}

Garbage(t) == [w \in 0 .. MachineStateSize |-> Value("garbage", t, w)]

WithStack(registers, t, d) == [registers EXCEPT ![Layout.sp] = Value("stack", t, d)]

\* The registers of a procedure of t that uses its stack to depth d.
Registers(t, d) == WithStack([r \in DOMAIN Layout.saved |-> Value("own", t, 8 * r + d)], t, d)

SwitchInit ==
  /\ arch \in {"i386", "MIPS", "SNAKE"}
  /\ currentThread = Main
  /\ reg = Registers(Main, 5) /\ pc = Body
  /\ object = [t \in Thread |-> Garbage(t)]
  /\ stack = [t \in Thread |-> [w \in StackWords |-> Value("garbage", t, w)]]
  /\ where = [t \in Thread |-> IF t = Main THEN "in" ELSE "new"]
  /\ frame = [t \in Thread |-> reg]
  /\ calls = [t \in Thread |-> << >>]
  /\ before = [t \in Thread |-> << >>]

-----------------------------------------------------------------------------
\* Thread::StackAllocate.
StackAllocate(t) ==
  LET state == Layout.state
      i386 == arch = "i386"
      stackTop == IF i386 THEN Top - 1 ELSE Top
  IN  /\ where[currentThread] = "in" /\ where[t] = "new"
      /\ stack' = IF i386 THEN [stack EXCEPT ![t][stackTop] = ThreadRoot] ELSE stack
      /\ object' = [object EXCEPT
           ![t][0] = Value("stack", t, stackTop), ![t][Layout.PC] = ThreadRoot,
           ![t][state.StartupPC] = InterruptEnable, ![t][state.InitialPC] = Func(t),
           ![t][state.InitialArg] = Arg(t), ![t][state.WhenDonePC] = ThreadFinish]
      /\ where' = [where EXCEPT ![t] = "out"]
      /\ UNCHANGED <<arch, reg, pc, currentThread, frame, calls, before>>

\* A procedure of currentThread changes the registers and the depth of its stack.
Use(d) ==
  /\ where[currentThread] = "in"
  /\ reg' = Registers(currentThread, d)
  /\ pc' = Body
  /\ UNCHANGED <<arch, object, stack, currentThread, where, frame, calls, before>>

\* The object of t once SWITCH has saved its registers and return address.
Saved(t, registers, address) ==
  [w \in 0 .. MachineStateSize |->
     IF w = Layout.PC THEN address
     ELSE IF \E r \in DOMAIN registers : Layout.saved[r] = w
          THEN registers[CHOOSE r \in DOMAIN registers : Layout.saved[r] = w]
          ELSE object[t][w]]

Loaded(words) == [r \in DOMAIN Layout.saved |-> words[Layout.saved[r]]]

\* SWITCH on the MIPS and the PA-RISC: save, load, jump to the return address.
SwitchRegisters(t, u, address) ==
  /\ object' = [object EXCEPT ![t] = Saved(t, reg, address)]
  /\ reg' = Loaded(object'[u])
  /\ pc' = object'[u][Layout.PC]
  /\ UNCHANGED stack

SwitchMIPS(t, u, address) == arch = "MIPS" /\ SwitchRegisters(t, u, address)

SwitchSNAKE(t, u, address) == arch = "SNAKE" /\ SwitchRegisters(t, u, address)

\* SWITCH on the i386: the caller has pushed u, t and the return address.  The
\* saved address is written to 4(%esp), above the word that ret pops: it
\* replaces a parameter of SWITCH, and ret finds the address that the call
\* itself pushed, or the one that StackAllocate put there.
SwitchI386(t, u, address) ==
  LET d == reg[4][3]
      pushed == [stack EXCEPT ![t][d - 1] = Value("thread", u, 0), ![t][d - 2] = Value("thread", t, 0),
                              ![t][d - 3] = address]
      esp == object'[u][0]
  IN  /\ arch = "i386"
      /\ object' = [object EXCEPT ![t] = Saved(t, WithStack(reg, t, d - 3), pushed[t][d - 3])]
      /\ stack' = [pushed EXCEPT ![esp[2]][esp[3] + 1] = object'[u][8]]
      /\ pc' = stack'[esp[2]][esp[3]]
      /\ reg' = WithStack(Loaded(object'[u]), esp[2], esp[3] + 1)

\* What t must find when it runs again: its registers (on the i386 without the
\* return address), the frames of its callers, and the way back.
Expected(t, address) ==
  LET d == reg[Layout.sp][3] IN
  [reg |-> IF arch = "i386" THEN WithStack(reg, t, d - 2) ELSE reg,
   stack |-> [w \in d .. Top |-> stack[t][w]], pc |-> address]

\* Scheduler::Run calls SWITCH, also with u = t, and for the last time in Finish.
SWITCH(u) ==
  LET t == currentThread
      address == Return(t, reg[Layout.sp][3])
      last == Len(calls[t]) = 3
  IN  /\ where[t] = "in" /\ pc = Body
      /\ where[u] = "out" \/ (u = t /\ ~last)
      /\ SwitchI386(t, u, address) \/ SwitchMIPS(t, u, address) \/ SwitchSNAKE(t, u, address)
      /\ currentThread' = u
      /\ before' = [before EXCEPT ![t] = Expected(t, address)]
      /\ where' = [where EXCEPT ![t] = IF last THEN "done" ELSE "out",
                                ![u] = IF pc' = ThreadRoot THEN "root" ELSE "in"]
      /\ UNCHANGED <<arch, frame, calls>>

-----------------------------------------------------------------------------
(* ThreadRoot                                                              *)

\* The next of the three calls, of what a register of ThreadRoot holds; the
\* second has an argument.
CallNext(t, registers, argument) ==
  LET root == Layout.root
      k == Len(calls[t]) + 1
      target == reg[CASE k = 1 -> root.StartupPC [] k = 2 -> root.InitialPC [] k = 3 -> root.WhenDonePC]
  IN  /\ frame' = [frame EXCEPT ![t] = registers]
      /\ reg' = registers
      /\ pc' = target
      /\ calls' = [calls EXCEPT ![t] = Append(@, <<target, IF k = 2 THEN argument ELSE NoArg>>)]
      /\ where' = [where EXCEPT ![t] = "in"]
      /\ UNCHANGED <<arch, object, currentThread, before>>

\* The i386 pushes the frame pointer and the argument once, for all three calls.
ThreadRootI386(t) ==
  LET esp == reg[4][3]
      begins == calls[t] = << >>
  IN  /\ arch = "i386"
      /\ stack' = IF begins THEN [stack EXCEPT ![t][esp - 1] = reg[5], ![t][esp - 2] = reg[Layout.root.InitialArg]]
                  ELSE stack
      /\ CallNext(t, IF begins THEN [WithStack(reg, t, esp - 2) EXCEPT ![5] = Value("stack", t, esp - 1)] ELSE reg,
                  stack[t][esp])

\* The MIPS clears the frame pointer.
ThreadRootMIPS(t) ==
  arch = "MIPS" /\ CallNext(t, [reg EXCEPT ![30] = NoArg], reg[Layout.root.InitialArg]) /\ UNCHANGED stack

ThreadRootSNAKE(t) ==
  arch = "SNAKE" /\ CallNext(t, reg, reg[Layout.root.InitialArg]) /\ UNCHANGED stack

RootCall(t) ==
  /\ where[t] = "root" /\ currentThread = t
  /\ ThreadRootI386(t) \/ ThreadRootMIPS(t) \/ ThreadRootSNAKE(t)

\* The procedure returns to ThreadRoot; the calling convention keeps some registers.
RootReturn(t) ==
  /\ where[t] = "in" /\ currentThread = t /\ Len(calls[t]) \in {1, 2}
  /\ reg' = [r \in DOMAIN reg |-> IF r \in Layout.kept THEN frame[t][r] ELSE Value("garbage", t, r)]
  /\ where' = [where EXCEPT ![t] = "root"]
  /\ pc' = ThreadRoot
  /\ UNCHANGED <<arch, object, stack, currentThread, frame, calls, before>>

SwitchNext ==
  \/ \E t \in Thread : StackAllocate(t) \/ SWITCH(t) \/ RootCall(t) \/ RootReturn(t)
  \/ \E d \in Depths : Use(d)

SwitchSpec == SwitchInit /\ [][SwitchNext]_switchVars

-----------------------------------------------------------------------------
\* A thread does not notice that it lost the processor: SWITCH returns to where
\* it was called from, with the registers it saved and the frames of its callers
\* as they were, whatever the threads in between did to the registers.  And
\* ThreadRoot enables interrupts, calls the forked procedure with its argument
\* and then ThreadFinish, in this order, however the thread is switched out
\* during these calls.
ContextKept ==
  /\ pc[1] = "return" =>
       LET t == currentThread IN
       /\ pc = before[t].pc /\ reg = before[t].reg
       /\ \A w \in DOMAIN before[t].stack : stack[t][w] = before[t].stack[w]
  /\ \A t \in Thread :
       calls[t] = SubSeq(<<<<InterruptEnable, NoArg>>, <<Func(t), Arg(t)>>, <<ThreadFinish, NoArg>>>>,
                         1, Len(calls[t]))

=============================================================================

------------------------------ MODULE Interrupt ------------------------------
(***************************************************************************)
(* The interrupt simulation (machine/interrupt.cc) with the clock, the     *)
(* sorted list of pending interrupts, the hardware timer                   *)
(* (machine/timer.cc) and the two time-slice handlers of                   *)
(* threads/system.cc.                                                      *)
(*                                                                         *)
(* Simulated time moves in two places: OneTick, which runs when interrupts *)
(* are enabled again and after a user instruction, and CheckIfDue(TRUE),   *)
(* which an idle machine calls.  Each call of CheckIfDue is one action, so *)
(* the states between two handlers of the same tick are visible.           *)
(*                                                                         *)
(* Threads are only counted here: one is running unless the machine idles, *)
(* the others are ready or blocked.  A thread that gets the processor is   *)
(* in the kernel with interrupts disabled: it returns from a Sleep, or it  *)
(* is about to enable them (Yield, ThreadRoot).                            *)
(***************************************************************************)
EXTENDS Integers, FiniteSets, List

CONSTANTS
  Timers,       \* timers running: "rs" (random yield) and "rd" (time slice)
  Devices,      \* devices that interrupt once for each request: the disk
  Pollers,      \* devices whose handler schedules itself again: the console
  TimerTicks, SystemTick, UserTick,  \* machine/stats.h
  Latencies,    \* the delays devices ask for
  NumThreads,   \* bound: threads besides the running one
  MaxTicks      \* bound: the clock is not advanced past it

ASSUME InterruptAssumption ==
  /\ Timers \subseteq {"rs", "rd"}
  /\ TimerTicks \in Nat \ {0} /\ SystemTick \in Nat \ {0}
  /\ UserTick \in 1 .. SystemTick
  /\ Latencies \subseteq Nat \ {0} /\ NumThreads \in Nat /\ MaxTicks \in Nat

Source == Timers \cup Devices \cup Pollers

VARIABLES
  totalTicks,      \* stats->totalTicks
  pending,         \* PendingInterrupts, sorted by when
  level,
  status,
  yieldOnReturn,
  lastSwitchTime,  \* Scheduler::lastSwitchTime
  at,              \* the routine of this file that is executing, if any
  ready,           \* threads on the ready list
  blocked          \* threads that wait for a device

clockVars == <<totalTicks, pending, level, status, yieldOnReturn,
               lastSwitchTime, at, ready, blocked>>

\* "kernel": none, a thread is executing.  "OneTick": its loop.  "Idle": the
\* first CheckIfDue of Idle.  "IdleLoop": its loop.  "Sleep": Idle returned to
\* the loop of Thread::Sleep.
Place == {"kernel", "OneTick", "Idle", "IdleLoop", "Sleep", "Halted"}

\* Timer::TimeOfNextInterrupt.  Both timers are created with randomYield.
TimeOfNextInterrupt ==
  IF "rs" \in Timers THEN 1 .. 2 * TimerTicks ELSE {TimerTicks}

\* Interrupt::Schedule on a given list, at time now.
Schedule(list, source, fromNow, now) == SortedInsert(list, source, now + fromNow)

\* Initialize, up to its interrupt->Enable().
InterruptInit ==
  /\ totalTicks = 0
  /\ \E first \in [Timers -> TimeOfNextInterrupt] :
       LET start(timer, list) ==
             IF timer \in Timers THEN Schedule(list, timer, first[timer], 0)
             ELSE list
       IN  pending = start("rd", start("rs", << >>))
  /\ level = "IntOff"
  /\ status = "SystemMode"
  /\ yieldOnReturn = FALSE
  /\ lastSwitchTime = 0
  /\ at = "kernel"
  /\ ready = 0
  /\ blocked = 0

-----------------------------------------------------------------------------
(* CheckIfDue                                                              *)

First == Head(pending)

Due(advanceClock) ==
  pending # << >> /\ (advanceClock \/ First.key <= totalTicks)

\* The clock once a due interrupt was found: an idle machine jumps to it.
ClockStays == totalTicks  \* mutant: the clock is not advanced
ClockAtFirst == IF First.key > totalTicks THEN First.key ELSE totalTicks

\* "Check if there is nothing more to do, and if so, quit".
NothingMoreIgnoringOthers ==  \* mutant: pending->IsEmpty() is not tested
  status = "IdleMode" /\ First.item \in Timers
NothingMore ==
  status = "IdleMode" /\ First.item \in Timers /\ Tail(pending) = << >>

\* V in a handler wakes a thread only if one is waiting.
SomeWaiter == blocked > 0

\* Wake a thread that waits for the device, if the handler has cause to.
DeviceHandler ==
  /\ \/ SomeWaiter /\ ready' = ready + 1 /\ blocked' = blocked - 1
     \/ UNCHANGED <<ready, blocked>>
  /\ UNCHANGED <<yieldOnReturn, lastSwitchTime>>

\* TimerInterruptHandler and RoundingTimerInterruptHandler.  CheckIfDue has
\* set status to SystemMode, so their test for IdleMode never finds it.
TimerHandler(timer) ==
  /\ IF timer = "rs" \/ totalTicks' - lastSwitchTime >= TimerTicks
     THEN /\ yieldOnReturn' = TRUE
          /\ lastSwitchTime' = IF timer = "rs" THEN lastSwitchTime ELSE totalTicks'
     ELSE UNCHANGED <<yieldOnReturn, lastSwitchTime>>
  /\ UNCHANGED <<ready, blocked>>

\* The interrupt of First: a timer (TimerExpired) and a polling device
\* schedule their next interrupt before anything else.
Handler ==
  LET source == First.item
      rest == Tail(pending)
  IN  \/ /\ source \in Timers
         /\ \E n \in TimeOfNextInterrupt :
              pending' = Schedule(rest, source, n, totalTicks')
         /\ TimerHandler(source)
      \/ /\ source \in Pollers
         /\ \E n \in Latencies : pending' = Schedule(rest, source, n, totalTicks')
         /\ DeviceHandler
      \/ /\ source \in Devices
         /\ pending' = rest
         /\ DeviceHandler

\* CheckIfDue returned TRUE: it fired First.
Fired(advanceClock) ==
  /\ Due(advanceClock) /\ ~NothingMore
  /\ totalTicks' = ClockAtFirst
  /\ Handler
  /\ UNCHANGED <<level, status>>

\* CheckIfDue returned FALSE.  Putting First back moves it behind the
\* interrupts that are due at the same time.
PutBack ==
  IF pending = << >> THEN << >>
  ELSE SortedInsert(Tail(pending), First.item, First.key)

NotFired(advanceClock) ==
  /\ ~(Due(advanceClock) /\ ~NothingMore)
  /\ pending' = PutBack
  /\ totalTicks' = IF Due(advanceClock) THEN ClockAtFirst ELSE totalTicks

-----------------------------------------------------------------------------
(* OneTick                                                                 *)

OneTick ==
  /\ totalTicks < MaxTicks
  /\ totalTicks' = totalTicks + (IF status = "SystemMode" THEN SystemTick
                                 ELSE UserTick)
  /\ level' = "IntOff"
  /\ at' = "OneTick"
  /\ UNCHANGED <<pending, status, yieldOnReturn, lastSwitchTime, ready,
                 blocked>>

TickFires == at = "OneTick" /\ Fired(FALSE) /\ UNCHANGED at

\* The end of OneTick, with the Yield that a time slice asks for.
TickEnd ==
  /\ at = "OneTick"
  /\ NotFired(FALSE)
  /\ at' = "kernel"
  /\ yieldOnReturn' = FALSE
  /\ IF yieldOnReturn
     THEN /\ status' = "SystemMode"
          /\ level' = "IntOff"
     ELSE level' = "IntOn" /\ UNCHANGED status
  /\ UNCHANGED <<lastSwitchTime, ready, blocked>>

-----------------------------------------------------------------------------
(* Idle, called from the loop of Thread::Sleep                             *)

\* Sleep's loop: dispatch a ready thread or call Idle.
SleepLoop(readyNow) ==
  IF readyNow > 0
  THEN /\ ready' = readyNow - 1
       /\ at' = "kernel"
       /\ UNCHANGED status
  ELSE /\ ready' = 0
       /\ at' = "Idle"
       /\ status' = "IdleMode"

IdleFires ==
  /\ at = "Idle"
  /\ totalTicks < MaxTicks
  /\ Fired(TRUE)
  /\ at' = "IdleLoop"

IdleHalts ==
  /\ at = "Idle"
  /\ NotFired(TRUE)
  /\ at' = "Halted"
  /\ UNCHANGED <<level, status, yieldOnReturn, lastSwitchTime, ready, blocked>>

IdleLoopFires == at = "IdleLoop" /\ Fired(FALSE) /\ UNCHANGED at

\* "since there's nothing in the ready queue, the yield is automatic".
YieldAfterIdle == FALSE

IdleReturns ==
  /\ at = "IdleLoop"
  /\ NotFired(FALSE)
  /\ yieldOnReturn' = YieldAfterIdle
  /\ status' = "SystemMode"
  /\ at' = "Sleep"
  /\ UNCHANGED <<level, lastSwitchTime, ready, blocked>>

SleepAgain ==
  /\ at = "Sleep"
  /\ SleepLoop(ready)
  /\ UNCHANGED <<totalTicks, pending, level, yieldOnReturn, lastSwitchTime,
                 blocked>>

-----------------------------------------------------------------------------
(* The running thread                                                      *)

InKernel == at = "kernel" /\ status = "SystemMode"

\* Interrupt::SetLevel(IntOff).
Disable ==
  /\ InKernel /\ level = "IntOn"
  /\ level' = "IntOff"
  /\ UNCHANGED <<totalTicks, pending, status, yieldOnReturn, lastSwitchTime, at,
                 ready, blocked>>

\* Interrupt::SetLevel(IntOn) with interrupts disabled.
Enable == InKernel /\ level = "IntOff" /\ OneTick

\* A user instruction, or a kernel thread that calls OneTick itself.
Instruction == at = "kernel" /\ level = "IntOn" /\ OneTick

\* Machine::Run, Machine::RaiseException, and "status = old" at the end of
\* OneTick once its Yield has returned.
SetStatus ==
  /\ at = "kernel" /\ level = "IntOn"
  /\ status' = IF status = "SystemMode" THEN "UserMode" ELSE "SystemMode"
  /\ UNCHANGED <<totalTicks, pending, level, yieldOnReturn, lastSwitchTime, at,
                 ready, blocked>>

\* A request to a device that is not busy, or the constructor of a poller.
DeviceRequest(device, fromNow) ==
  /\ InKernel
  /\ device \notin Items(pending)
  /\ pending' = Schedule(pending, device, fromNow, totalTicks)
  /\ UNCHANGED <<totalTicks, level, status, yieldOnReturn, lastSwitchTime, at,
                 ready, blocked>>

\* Thread::Fork.
Fork ==
  /\ InKernel
  /\ ready + blocked < NumThreads
  /\ ready' = ready + 1
  /\ UNCHANGED <<totalTicks, pending, level, status, yieldOnReturn,
                 lastSwitchTime, at, blocked>>

\* Thread::Sleep in a queue, and Thread::Finish.
Sleep ==
  /\ InKernel /\ level = "IntOff"
  /\ blocked' \in {b \in {blocked, blocked + 1} : ready + b <= NumThreads + 1}
  /\ SleepLoop(ready)
  /\ UNCHANGED <<totalTicks, pending, level, yieldOnReturn, lastSwitchTime>>

\* The machine stopped, or the bound on the clock was reached.
Stopped == (at = "Halted" \/ totalTicks >= MaxTicks) /\ UNCHANGED clockVars

HandlersNext ==
  TickFires \/ TickEnd \/ IdleFires \/ IdleHalts \/ IdleLoopFires \/ IdleReturns

InterruptNext ==
  \/ HandlersNext
  \/ SleepAgain
  \/ Disable
  \/ Enable
  \/ Instruction
  \/ SetStatus
  \/ \E d \in Devices \cup Pollers, n \in Latencies : DeviceRequest(d, n)
  \/ Fork
  \/ Sleep
  \/ Stopped

InterruptSpec == InterruptInit /\ [][InterruptNext]_clockVars

-----------------------------------------------------------------------------
(* Properties                                                              *)

\* An interrupt fires neither before its time nor more than one SystemTick
\* after it, also when it was left over from an idle period, and the yield its
\* handler asks for is made before a thread goes on: one left over from an idle
\* period would preempt the wrong thread (interrupt.cc, CheckIfDue, OneTick and
\* Idle).
PromptDelivery ==
  [][/\ \A i \in 1 .. Len(pending) :
          pending[i] \notin {pending'[j] : j \in 1 .. Len(pending')} =>
            totalTicks' - pending[i].key \in 0 .. SystemTick
     /\ at' = "kernel" => ~yieldOnReturn']_clockVars

\* "If the pending interrupt is just the time-slice daemon, however, then
\* we're done!" (interrupt.cc, CheckIfDue): the machine halts when it is idle
\* with nothing but the timer's interrupt pending, and never while a thread is
\* on the ready list or a device's interrupt could still make one ready.
HaltsWhenDone ==
  [][/\ at = "Idle" /\ Items(pending) \subseteq Timers => at' = "Halted"
     /\ at # "Halted" /\ at' = "Halted" =>
          ready = 0 /\ Items(pending) \subseteq Timers]_clockVars

=============================================================================

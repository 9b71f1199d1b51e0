----------------------------- MODULE DeviceProofs -----------------------------
(***************************************************************************)
(* Proofs about the devices and their interrupts.                          *)
(*                                                                         *)
(* The synchronous disk, for every number of threads and sectors: the raw  *)
(* disk serves one request at a time, every interrupt is used up by the    *)
(* thread whose request it ends, and SynchDisk implements AtomicDisk.      *)
(*                                                                         *)
(* The console: ConsoleTest echoes what is typed, for every input.         *)
(* ConsoleInv is inductive: the one write that may be under way (OneWrite),*)
(* how many characters are where (AllCounted), and which (InPlace).        *)
(*                                                                         *)
(* The simulation of interrupts: none fires early or late, and an idle     *)
(* machine halts when it should.  ClockInv is inductive: the interrupts    *)
(* pending are in order, and how late one can be, depending on the routine *)
(* that is executing.                                                      *)
(***************************************************************************)
EXTENDS SynchDisk, Console, Interrupt, ListProofs

(***************************************************************************)
(* The synchronous disk                                                    *)
(***************************************************************************)

LEMMA InitSynchDisk == SynchDiskInit => SynchDiskInv
<1> SUFFICES ASSUME SynchDiskInit PROVE SynchDiskInv
  OBVIOUS
<1>1. active = FALSE /\ aborted = FALSE /\ signals = 0
  BY Zenon DEF SynchDiskInit
<1>2. \A t \in Caller : place[t] = "idle" /\ owner # t
  BY SynchDiskAssumption, Zenon DEF SynchDiskInit
<1>3. SynchDiskTypeOK
  BY Zenon DEF SynchDiskInit, SynchDiskTypeOK
<1> QED
  BY <1>1, <1>2, <1>3 DEF SynchDiskInv, Inside

\* Acquire, DiskRequest, P and Release of a thread keep the invariant.
LEMMA StepKeepsInv ==
  ASSUME SynchDiskInv, NEW t \in Caller, SynchDiskStep(t)
  PROVE  SynchDiskInv'
<1>1. CASE AcquireLock(t)
  BY <1>1, SynchDiskAssumption, Zenon DEF SynchDiskInv, SynchDiskTypeOK, Inside, AcquireLock, LockFree
<1>2. CASE DiskRequest(t)
  <2> DEFINE r == request[t]
  <2>1. r \in Request /\ r.sector \in Sector /\ r.data \in Data
    BY Zenon DEF SynchDiskInv, SynchDiskTypeOK, Request
  <2>2. ~active /\ signals = 0 /\ owner = t
    BY <1>2, Zenon DEF SynchDiskInv, SynchDiskTypeOK, Inside, DiskRequest
  <2>3. /\ active' = TRUE /\ place' = [place EXCEPT ![t] = "P"]
        /\ UNCHANGED <<aborted, owner, signals, request>>
    BY <1>2, <2>2, Zenon DEF DiskRequest
  <2>4. contents' \in [Sector -> Data] /\ buffer' \in [Caller -> Data]
    BY <1>2, <2>1, <2>2, ZenonT(30) DEF SynchDiskInv, SynchDiskTypeOK, DiskRequest
  <2>5. SynchDiskTypeOK'
    BY <2>3, <2>4, Zenon DEF SynchDiskInv, SynchDiskTypeOK
  <2> QED
    BY <2>2, <2>3, <2>5, SynchDiskAssumption, Zenon DEF SynchDiskInv, SynchDiskTypeOK, Inside
<1>3. CASE P(t)
  BY <1>3, SynchDiskAssumption DEF SynchDiskInv, SynchDiskTypeOK, Inside, P, ValueAfterP
<1>4. CASE ReleaseLock(t)
  BY <1>4, SynchDiskAssumption, Zenon DEF SynchDiskInv, SynchDiskTypeOK, Inside, ReleaseLock
<1> QED
  BY <1>1, <1>2, <1>3, <1>4, Zenon DEF SynchDiskStep

LEMMA NextKeepsInv ==
  ASSUME SynchDiskInv, [SynchDiskNext]_synchDiskVars
  PROVE  SynchDiskInv'
<1>1. CASE \E t \in Caller, r \in Request : CallDisk(t, r)
  BY <1>1 DEF SynchDiskInv, SynchDiskTypeOK, Inside, CallDisk
<1>2. CASE \E t \in Caller : SynchDiskStep(t)
  BY <1>2, StepKeepsInv, Zenon
<1>3. CASE HandleInterrupt
  <2>1. active' = FALSE /\ signals = 0 /\ signals' = 1
    BY <1>3 DEF SynchDiskInv, HandleInterrupt, ActiveAfter, ValueAfterV
  <2>2. owner # Nobody /\ place[owner] = "P"
    BY <1>3, Zenon DEF SynchDiskInv, HandleInterrupt
  <2>3. UNCHANGED <<contents, owner, place, request, buffer, aborted>>
    BY <1>3, Zenon DEF HandleInterrupt
  <2>4. SynchDiskTypeOK'
    BY <2>1, <2>3, Zenon DEF SynchDiskInv, SynchDiskTypeOK
  <2> QED
    BY <2>1, <2>2, <2>3, <2>4, Zenon DEF SynchDiskInv, Inside
<1>4. CASE UNCHANGED synchDiskVars
  BY <1>4, Zenon DEF SynchDiskInv, SynchDiskTypeOK, Inside, synchDiskVars
<1> QED
  BY <1>1, <1>2, <1>3, <1>4, Zenon DEF SynchDiskNext

\* The inductive invariant holds in every state.
THEOREM SynchDiskInvariant == SynchDiskSpec => []SynchDiskInv
<1>1. SynchDiskInit => SynchDiskInv
  BY InitSynchDisk, Zenon
<1>2. SynchDiskInv /\ [SynchDiskNext]_synchDiskVars => SynchDiskInv'
  BY NextKeepsInv, Zenon
<1> QED
  BY <1>1, <1>2, PTL DEF SynchDiskSpec

\* ASSERT(!active) in ReadRequest and WriteRequest never fails.
THEOREM DiskOneRequestAtATime == SynchDiskSpec => []OneRequestAtATime
<1>1. SynchDiskInv => OneRequestAtATime
  BY Zenon DEF SynchDiskInv, OneRequestAtATime
<1> QED
  BY <1>1, SynchDiskInvariant, PTL

\* Every interrupt is used up by the P of the thread whose request it ends.
THEOREM DiskOneInterruptPerRequest == SynchDiskSpec => []OneInterruptPerRequest
<1>1. SynchDiskInv => OneInterruptPerRequest
  BY SynchDiskAssumption DEF SynchDiskInv, SynchDiskTypeOK, Inside, OneInterruptPerRequest
<1> QED
  BY <1>1, SynchDiskInvariant, PTL

\* ReadSector and WriteSector return only after the disk has finished.
THEOREM DiskReturnsWhenDone == SynchDiskSpec => []ReturnsWhenDone
<1>1. SynchDiskInv => ReturnsWhenDone
  BY SynchDiskAssumption, Zenon DEF SynchDiskInv, SynchDiskTypeOK, Inside, ReturnsWhenDone
<1> QED
  BY <1>1, SynchDiskInvariant, PTL

-----------------------------------------------------------------------------
(* The refinement                                                          *)

\* A step of one thread changes the phase of that thread only.
LEMMA PhaseOfStep ==
  ASSUME SynchDiskInv, NEW t \in Caller, NEW s,
         place' = [place EXCEPT ![t] = s]
  PROVE  [u \in Caller |-> Phase(u)]'
           = [[u \in Caller |-> Phase(u)] EXCEPT ![t] = Phase(t)']
<1>1. \A u \in Caller : u # t => place'[u] = place[u]
  BY Zenon DEF SynchDiskInv, SynchDiskTypeOK
<1>2. \A u \in Caller : u # t => Phase(u)' = Phase(u)
  BY <1>1, Zenon DEF Phase
<1> QED
  BY <1>2, Zenon

\* Every step of SynchDisk is a step of AtomicDisk or leaves its state alone.
LEMMA StepIsAtomic ==
  ASSUME SynchDiskInv, [SynchDiskNext]_synchDiskVars
  PROVE  [Atomic!AtomicNext]_Atomic!atomicVars
<1> DEFINE phases == [u \in Caller |-> Phase(u)]
<1>0. place \in [Caller -> {"idle", "Acquire", "Request", "P", "Release"}]
  BY Zenon DEF SynchDiskInv, SynchDiskTypeOK
<1>1. ASSUME NEW t \in Caller, NEW r \in Request, CallDisk(t, r)
      PROVE  Atomic!Call(t, r)
  <2>1. place[t] = "idle" /\ place' = [place EXCEPT ![t] = "Acquire"]
    BY <1>1, Zenon DEF CallDisk
  <2>2. phases[t] = "idle" /\ Phase(t)' = "called"
    BY <2>1, <1>0, Zenon DEF Phase
  <2>3. phases' = [phases EXCEPT ![t] = "called"]
    BY <2>1, <2>2, PhaseOfStep, Zenon
  <2> QED
    BY <1>1, <2>2, <2>3, Zenon DEF CallDisk, Atomic!Call
<1>2. ASSUME NEW t \in Caller, AcquireLock(t)
      PROVE  UNCHANGED Atomic!atomicVars
  <2>1. place[t] = "Acquire" /\ place' = [place EXCEPT ![t] = "Request"]
    BY <1>2, Zenon DEF AcquireLock
  <2>2. \A u \in Caller : Phase(u)' = Phase(u)
    BY <2>1, <1>0, Zenon DEF Phase
  <2> QED
    BY <1>2, <2>2, Zenon DEF AcquireLock, Atomic!atomicVars
<1>3. ASSUME NEW t \in Caller, DiskRequest(t)
      PROVE  Atomic!TakeEffect(t)
  <2>1. ~active
    BY <1>3, Zenon DEF SynchDiskInv, SynchDiskTypeOK, Inside, DiskRequest
  <2>2. place[t] = "Request" /\ place' = [place EXCEPT ![t] = "P"]
    BY <1>3, <2>1, Zenon DEF DiskRequest
  <2>3. phases[t] = "called" /\ Phase(t)' = "done"
    BY <2>2, <1>0, Zenon DEF Phase
  <2>4. phases' = [phases EXCEPT ![t] = "done"]
    BY <2>2, <2>3, PhaseOfStep, Zenon
  <2> QED
    BY <1>3, <2>1, <2>3, <2>4, Zenon DEF DiskRequest, Reads, Atomic!TakeEffect
<1>4. ASSUME NEW t \in Caller, P(t)
      PROVE  UNCHANGED Atomic!atomicVars
  <2>1. place[t] = "P" /\ place' = [place EXCEPT ![t] = "Release"]
    BY <1>4, Zenon DEF P
  <2>2. \A u \in Caller : Phase(u)' = Phase(u)
    BY <2>1, <1>0, Zenon DEF Phase
  <2> QED
    BY <1>4, <2>2, Zenon DEF P, Atomic!atomicVars
<1>5. ASSUME NEW t \in Caller, ReleaseLock(t)
      PROVE  Atomic!Return(t)
  <2>1. place[t] = "Release" /\ place' = [place EXCEPT ![t] = "idle"]
    BY <1>5, Zenon DEF ReleaseLock
  <2>2. phases[t] = "done" /\ Phase(t)' = "idle"
    BY <2>1, <1>0, Zenon DEF Phase
  <2>3. phases' = [phases EXCEPT ![t] = "idle"]
    BY <2>1, <2>2, PhaseOfStep, Zenon
  <2> QED
    BY <1>5, <2>2, <2>3, Zenon DEF ReleaseLock, Atomic!Return
<1>6. ASSUME HandleInterrupt
      PROVE  UNCHANGED Atomic!atomicVars
  BY <1>6, Zenon DEF HandleInterrupt, Atomic!atomicVars, Phase
<1>7. ASSUME UNCHANGED synchDiskVars
      PROVE  UNCHANGED Atomic!atomicVars
  BY <1>7, Zenon DEF synchDiskVars, Atomic!atomicVars, Phase
<1>8. Request = Atomic!Request
  BY Zenon DEF Request, Atomic!Request
<1> QED
  BY <1>1, <1>2, <1>3, <1>4, <1>5, <1>6, <1>7, <1>8, Zenon DEF SynchDiskNext, SynchDiskStep, Atomic!AtomicNext

\* SynchDisk implements the atomic disk: ReadSector and WriteSector of any
\* number of threads behave as if each happened at one moment.
THEOREM SynchDiskIsAtomic == SynchDiskSpec => ImplementsAtomicDisk
<1>1. SynchDiskInit => Atomic!AtomicInit
  BY Zenon DEF SynchDiskInit, Atomic!AtomicInit, Phase, Request, Atomic!Request
<1>2. SynchDiskInv /\ [SynchDiskNext]_synchDiskVars
        => [Atomic!AtomicNext]_Atomic!atomicVars
  BY StepIsAtomic, Zenon
<1> QED
  BY <1>1, <1>2, SynchDiskInvariant, PTL
     DEF SynchDiskSpec, ImplementsAtomicDisk, Atomic!AtomicSpec

(***************************************************************************)
(* The console                                                             *)
(***************************************************************************)

ConsoleTypeOK ==
  /\ typed \in Seq(Int) \X BOOLEAN
  /\ read \in 0 .. Len(typed[1]) /\ incoming \in Int /\ ch \in Int
  /\ readAvail \in Nat /\ writeDone \in Nat
  /\ display \in Seq(Int)
  /\ line \in {"P", "GetChar", "PutChar", "wait", "returned", "busy", "asserted"}

\* The one write that may be under way: the device is busy exactly while its
\* interrupt is pending, and ConsoleTest waits for that interrupt and no other.
OneWrite ==
  /\ putBusy \in BOOLEAN /\ writing \in BOOLEAN
  /\ line # "busy"
  /\ line # "asserted" =>
       /\ putBusy = writing
       /\ writing => line = "wait" /\ writeDone = 0
       /\ ~writing => writeDone = IF line = "wait" THEN 1 ELSE 0

\* Of the characters read, each is displayed, in hand, or announced.
AllCounted ==
  /\ line \in {"P", "wait", "returned"} => Len(display) + readAvail = read
  /\ line \in {"GetChar", "PutChar"} => Len(display) + readAvail + 1 = read

\* If none of the characters read is EOF, a character that was announced is in
\* the buffer, and the places of the characters are those of the input.
Clean == \A k \in 1 .. read : typed[1][k] # EOF
InPlace ==
  line # "asserted" /\ Clean =>
    /\ \A k \in 1 .. Len(display) : display[k] = typed[1][k]
    /\ line = "PutChar" => ch = typed[1][Len(display) + 1]
    /\ line = "GetChar" => readAvail = 0 /\ incoming = typed[1][read]
    /\ line # "GetChar" => \/ readAvail = 0 /\ incoming = EOF
                           \/ readAvail = 1 /\ incoming = typed[1][read]

ConsoleInv == ConsoleTypeOK /\ OneWrite /\ AllCounted /\ InPlace

LEMMA InitConsole == ConsoleInit => ConsoleInv
<1> SUFFICES ASSUME ConsoleInit PROVE ConsoleInv
  OBVIOUS
<1>1. typed \in Seq(Int) \X BOOLEAN
  BY ConsoleAssumption, Zenon DEF ConsoleInit
<1>2. typed[1] \in Seq(Int) /\ Len(typed[1]) \in Nat
  BY <1>1, LenProperties, Zenon
<1>3. Len(display) = 0 /\ display \in Seq(Int)
  BY DEF ConsoleInit
<1>4. ConsoleTypeOK
  BY <1>1, <1>2, <1>3, ConsoleAssumption DEF ConsoleInit, ConsoleTypeOK
<1>5. OneWrite
  BY Zenon DEF ConsoleInit, OneWrite
<1>6. AllCounted /\ InPlace
  BY <1>3 DEF ConsoleInit, AllCounted, InPlace
<1> QED BY <1>4, <1>5, <1>6, Zenon DEF ConsoleInv

LEMMA ConsoleStep ==
  ASSUME ConsoleInv, [ConsoleNext]_consoleVars
  PROVE  ConsoleInv'
<1>a. ConsoleTypeOK /\ OneWrite
  BY Zenon DEF ConsoleInv
<1>c. AllCounted
  BY Zenon DEF ConsoleInv
<1>p. InPlace
  BY Zenon DEF ConsoleInv
<1>b. ConsoleTypeOK' /\ OneWrite' /\ AllCounted' /\ InPlace' => ConsoleInv'
  BY Zenon DEF ConsoleInv
<1>0. typed[1] \in Seq(Int) /\ Len(typed[1]) \in Nat /\ EOF \in Int /\ Len(display) \in Nat
      /\ read \in Nat /\ readAvail \in Nat /\ read <= Len(typed[1])
  BY <1>a, ConsoleAssumption, LenProperties DEF ConsoleTypeOK
<1>1. CASE CheckCharAvail
  <2>1. CASE read < Len(typed[1])
    <3>1. /\ read' = read + 1 /\ incoming' = typed[1][read + 1] /\ readAvail' = readAvail + 1
          /\ UNCHANGED <<typed, line, putBusy, writing, writeDone, display, ch>>
          /\ incoming = EOF /\ line # "asserted"
      BY <1>1, <2>1, Zenon DEF CheckCharAvail, Read, Full
    <3>2. typed[1][read + 1] \in Int
      BY <1>0, <2>1, ElementOfSeq
    <3>3. ConsoleTypeOK'
      BY <1>0, <1>a, <2>1, <3>1, <3>2 DEF ConsoleTypeOK
    <3>4. OneWrite'
      BY <1>a, <3>1, Zenon DEF OneWrite
    <3>5. AllCounted'
      BY <1>0, <1>c, <3>1 DEF AllCounted
    <3>6. Clean' => Clean /\ incoming' # EOF
      BY <1>0, <3>1, <3>2 DEF Clean
    <3>7. InPlace'
      <4>1. SUFFICES ASSUME Clean' PROVE InPlace'
        BY Zenon DEF InPlace
      <4>2. Clean /\ readAvail = 0 /\ line # "GetChar"
        <5>1. Clean
          BY <3>6, <4>1, Zenon
        <5>2. line \in {"P", "GetChar", "PutChar", "wait", "returned"}
          BY <1>a, <3>1, Zenon DEF ConsoleTypeOK, OneWrite
        <5>3. read # 0 => typed[1][read] # EOF
          BY <1>0, <5>1 DEF Clean
        <5>4. line = "GetChar" \/ readAvail = 1 => read # 0
          BY <1>0, <1>c, <5>2 DEF AllCounted
        <5> QED BY <1>p, <3>1, <5>1, <5>3, <5>4, Zenon DEF InPlace
      <4> QED BY <1>0, <1>p, <3>1, <4>2 DEF InPlace
    <3> QED BY <1>b, <3>3, <3>4, <3>5, <3>7, Zenon
  <2>2. CASE ~(read < Len(typed[1]))
    <3>1. /\ line' = "asserted"
          /\ UNCHANGED <<typed, read, incoming, readAvail, putBusy, writing, writeDone, display, ch>>
      BY <1>1, <2>2, Zenon DEF CheckCharAvail, Read
    <3>2. ConsoleTypeOK'
      BY <1>a, <3>1, Zenon DEF ConsoleTypeOK
    <3>3. OneWrite'
      BY <1>a, <3>1, Zenon DEF OneWrite
    <3> QED BY <1>b, <3>1, <3>2, <3>3, Zenon DEF AllCounted, InPlace
  <2> QED BY <2>1, <2>2, Zenon
<1>2. CASE WriteDone
  <2>1. /\ writing' = FALSE /\ putBusy' = FALSE /\ writeDone' = writeDone + 1
        /\ UNCHANGED <<typed, read, incoming, readAvail, display, ch, line>>
    BY <1>2, Zenon DEF WriteDone
  <2>2. line = "wait" /\ writeDone = 0
    BY <1>2, <1>a, Zenon DEF WriteDone, OneWrite
  <2>3. writeDone' = 1
    BY <2>1, <2>2
  <2>4. ConsoleTypeOK'
    BY <1>a, <2>1, <2>3 DEF ConsoleTypeOK
  <2>5. OneWrite'
    BY <2>1, <2>2, <2>3, Zenon DEF OneWrite
  <2>6. Clean' <=> Clean
    BY <2>1, Zenon DEF Clean
  <2> QED BY <1>c, <1>p, <1>b, <2>1, <2>4, <2>5, <2>6, Zenon DEF AllCounted, InPlace
<1>3. CASE WaitForChar
  <2>1. /\ line = "P" /\ readAvail > 0 /\ readAvail' = readAvail - 1 /\ line' = "GetChar"
        /\ UNCHANGED <<typed, read, incoming, putBusy, writing, writeDone, display, ch>>
    BY <1>3, Zenon DEF WaitForChar
  <2>2. ConsoleTypeOK'
    BY <1>0, <1>a, <2>1 DEF ConsoleTypeOK
  <2>3. OneWrite'
    BY <1>a, <2>1, Zenon DEF OneWrite
  <2>4. Clean' <=> Clean
    BY <2>1, Zenon DEF Clean
  <2>5. AllCounted' /\ InPlace'
    BY <1>0, <1>c, <1>p, <2>1, <2>4 DEF AllCounted, InPlace
  <2> QED BY <1>b, <2>2, <2>3, <2>5, Zenon
<1>4. CASE GetChar
  <2>1. /\ line = "GetChar" /\ ch' = incoming /\ incoming' = EOF /\ line' = "PutChar"
        /\ UNCHANGED <<typed, read, putBusy, writing, readAvail, writeDone, display>>
    BY <1>4, Zenon DEF GetChar
  <2>2. ConsoleTypeOK'
    BY <1>0, <1>a, <2>1, Zenon DEF ConsoleTypeOK
  <2>3. OneWrite'
    BY <1>a, <2>1, Zenon DEF OneWrite
  <2>4. Clean' <=> Clean
    BY <2>1, Zenon DEF Clean
  <2>5. AllCounted' /\ InPlace'
    BY <1>0, <1>c, <1>p, <2>1, <2>4 DEF AllCounted, InPlace
  <2> QED BY <1>b, <2>2, <2>3, <2>5, Zenon
<1>5. CASE PutChar
  <2>a. line = "PutChar" /\ line # "asserted" /\ line # "wait"
    BY <1>5, Zenon DEF PutChar
  <2>0. line = "PutChar" /\ ~putBusy /\ writeDone = 0
    BY <2>a, <1>a, Zenon DEF OneWrite
  <2>1. /\ display' = Append(display, ch) /\ putBusy' = TRUE /\ writing' = TRUE /\ line' = "wait"
        /\ UNCHANGED <<typed, read, incoming, readAvail, writeDone, ch>>
    BY <1>5, <2>0, Zenon DEF PutChar
  <2>2. /\ display' \in Seq(Int) /\ Len(display') = Len(display) + 1
        /\ \A k \in 1 .. Len(display) : display'[k] = display[k]
        /\ display'[Len(display) + 1] = ch
    BY <1>a, <2>1, AppendProperties DEF ConsoleTypeOK
  <2>3. ConsoleTypeOK'
    BY <1>0, <1>a, <2>1, <2>2, Zenon DEF ConsoleTypeOK
  <2>4. OneWrite'
    BY <2>0, <2>1, Zenon DEF OneWrite
  <2>5. Clean' <=> Clean
    BY <2>1, Zenon DEF Clean
  <2>6. AllCounted' /\ InPlace'
    BY <1>0, <1>c, <1>p, <2>0, <2>1, <2>2, <2>5 DEF AllCounted, InPlace
  <2> QED BY <1>b, <2>3, <2>4, <2>6, Zenon
<1>6. CASE WaitForDone
  <2>0. line = "wait" /\ writeDone > 0
    BY <1>6, Zenon DEF WaitForDone
  <2>1. writeDone # 0
    BY <2>0
  <2>2. ~writing /\ putBusy = writing /\ writeDone = 1
    BY <1>a, <2>0, <2>1, Zenon DEF OneWrite
  <2>3. /\ writeDone' = 0 /\ line' = IF ch = Q THEN "returned" ELSE "P"
        /\ UNCHANGED <<typed, read, incoming, putBusy, writing, readAvail, display, ch>>
    BY <1>6, <2>2 DEF WaitForDone
  <2>4. ConsoleTypeOK'
    BY <1>0, <1>a, <2>3, Zenon DEF ConsoleTypeOK
  <2>5. line' # "wait" /\ line' # "busy"
    BY <2>3, Zenon
  <2>6. OneWrite'
    BY <1>a, <2>2, <2>3, <2>5, Zenon DEF OneWrite
  <2>7. Clean' <=> Clean
    BY <2>3, Zenon DEF Clean
  <2>8. AllCounted' /\ InPlace'
    BY <1>0, <1>c, <1>p, <2>0, <2>3, <2>7, Zenon DEF AllCounted, InPlace
  <2> QED BY <1>b, <2>4, <2>6, <2>8, Zenon
<1>7. CASE UNCHANGED consoleVars
  BY <1>7, <1>a, <1>b, <1>c, <1>p, Zenon DEF consoleVars, ConsoleTypeOK, OneWrite, Clean, AllCounted, InPlace
<1> QED BY <1>1, <1>2, <1>3, <1>4, <1>5, <1>6, <1>7, Zenon DEF ConsoleNext

\* The invariant gives the equation of EchoExact: the pieces have the length of
\* the input, and agree with it at every place.
LEMMA InPlaceIsEcho == ConsoleInv => EchoExact
<1> SUFFICES ASSUME ConsoleInv PROVE EchoExact
  OBVIOUS
<1> DEFINE input == SubSeq(typed[1], 1, read)
           hand == IF line = "PutChar" THEN <<ch>> ELSE << >>
           held == IF incoming = EOF THEN << >> ELSE <<incoming>>
           h == Len(hand)
           b == Len(held)
<1>0. typed[1] \in Seq(Int) /\ Len(typed[1]) \in Nat /\ EOF \in Int /\ Len(display) \in Nat /\ read \in Nat
  BY ConsoleAssumption, LenProperties DEF ConsoleInv, ConsoleTypeOK
<1>1. hand \in Seq(Int) /\ h \in 0 .. 1 /\ (h = 1 <=> line = "PutChar") /\ (h = 1 => hand[1] = ch)
  <2>1. CASE line = "PutChar"
    BY <2>1 DEF ConsoleInv, ConsoleTypeOK
  <2>2. CASE line # "PutChar"
    BY <2>2
  <2> QED BY <2>1, <2>2, Zenon
<1>2. held \in Seq(Int) /\ b \in 0 .. 1 /\ (b = 1 <=> incoming # EOF) /\ (b = 1 => held[1] = incoming)
  <2>1. CASE incoming = EOF
    BY <2>1
  <2>2. CASE incoming # EOF
    BY <2>2 DEF ConsoleInv, ConsoleTypeOK
  <2> QED BY <2>1, <2>2, Zenon
<1>3. /\ input \in Seq(Int) /\ Len(input) = read
      /\ \A k \in 1 .. read : input[k] = typed[1][k]
  <2>1. \A k \in 1 .. read : typed[1][k] \in Int
    BY <1>0, ElementOfSeq DEF ConsoleInv, ConsoleTypeOK
  <2> QED BY <1>0, <2>1, SubSeqProperties
<1>e. h = Len(hand) /\ b = Len(held)
  OBVIOUS
<1> HIDE DEF hand, held, input, h, b
<1>4. ASSUME line # "asserted", \A k \in 1 .. read : input[k] # EOF
      PROVE  display \o hand \o held = input
  <2> DEFINE front == display \o hand
             echo == front \o held
  <2>1. /\ Len(display) + h + b = read
        /\ \A k \in 1 .. Len(display) : display[k] = typed[1][k]
        /\ h = 1 => ch = typed[1][Len(display) + 1]
        /\ b = 1 => incoming = typed[1][read]
    <3>1. Clean /\ line # "busy" /\ line # "asserted"
      BY <1>3, <1>4, Zenon DEF Clean, ConsoleInv, OneWrite
    <3>2. ConsoleTypeOK /\ AllCounted /\ InPlace
      BY Zenon DEF ConsoleInv
    <3>4. read # 0 => typed[1][read] # EOF
      BY <1>0, <3>1 DEF Clean
    <3>5. /\ line = "GetChar" => h = 0 /\ b = 1
          /\ line = "PutChar" => h = 1 /\ b = readAvail
          /\ line \in {"P", "wait", "returned"} => h = 0 /\ b = readAvail
      <4>1. incoming = EOF => b = 0
        BY <1>2
      <4>2. line # "PutChar" => h = 0
        BY <1>1
      <4>3. line \in {"GetChar", "PutChar"} => read # 0
        BY <1>0, <3>2 DEF ConsoleTypeOK, AllCounted
      <4>4. line = "GetChar" => incoming # EOF
        BY <3>1, <3>2, <3>4, <4>3, Zenon DEF InPlace
      <4>5. line # "GetChar" => b = readAvail
        <5>1. readAvail = 1 => read # 0
          BY <1>0, <3>1, <3>2 DEF ConsoleTypeOK, AllCounted
        <5> QED BY <1>2, <3>1, <3>2, <3>4, <4>1, <5>1, Zenon DEF InPlace
      <4> QED BY <1>1, <1>2, <4>2, <4>4, <4>5, Zenon
    <3>6. Len(display) + h + b = read
      <4>1. line = "GetChar" => readAvail = 0
        BY <3>1, <3>2, Zenon DEF InPlace
      <4> QED BY <1>0, <3>1, <3>2, <3>5, <4>1 DEF ConsoleTypeOK, AllCounted
    <3> QED BY <1>0, <1>1, <1>2, <3>1, <3>2, <3>6, Zenon DEF InPlace
  <2>2. display \in Seq(Int)
    BY Zenon DEF ConsoleInv, ConsoleTypeOK
  <2>3. /\ front \in Seq(Int) /\ Len(front) = Len(display) + h
        /\ \A k \in 1 .. Len(display) + h : front[k] = IF k <= Len(display) THEN display[k] ELSE hand[k - Len(display)]
    BY <1>1, <1>e, <2>2, ConcatProperties, Zenon
  <2> HIDE DEF front
  <2>4. /\ echo \in Seq(Int) /\ Len(echo) = Len(front) + b
        /\ \A k \in 1 .. Len(front) + b : echo[k] = IF k <= Len(front) THEN front[k] ELSE held[k - Len(front)]
    BY <1>2, <1>e, <2>3, ConcatProperties
  <2> HIDE DEF echo
  <2>5. Len(echo) = Len(input)
    BY <1>0, <1>1, <1>2, <1>3, <2>1, <2>3, <2>4, Zenon
  <2>6. ASSUME NEW k \in 1 .. Len(echo) PROVE echo[k] = input[k]
    <3>0. k \in 1 .. read
      BY <1>3, <2>5, Zenon
    <3>1. CASE k <= Len(display)
      <4>1. echo[k] = front[k]
        BY <1>0, <1>1, <1>2, <2>1, <2>3, <2>4, <3>0, <3>1, SMTT(30)
      <4>2. front[k] = display[k]
        BY <1>0, <1>1, <2>3, <3>0, <3>1
      <4> QED BY <1>0, <1>3, <2>1, <3>0, <3>1, <4>1, <4>2, SMTT(30)
    <3>2. CASE Len(display) < k /\ k <= Len(display) + h
      <4>1. h = 1 /\ k = Len(display) + 1 /\ k - Len(display) = 1
        BY <1>0, <1>1, <3>0, <3>2
      <4>2. echo[k] = front[k] /\ front[k] = hand[1]
        BY <1>0, <1>1, <1>2, <2>3, <2>4, <3>0, <3>2, <4>1
      <4> QED BY <1>1, <1>3, <2>1, <3>0, <4>1, <4>2, Zenon
    <3>3. CASE Len(display) + h < k
      <4>1. b = 1 /\ k = read /\ k - Len(front) = 1
        BY <1>0, <1>1, <1>2, <2>1, <2>3, <3>0, <3>3
      <4>2. echo[k] = held[1]
        <5>1. k \in 1 .. Len(front) + b /\ ~(k <= Len(front))
          BY <1>0, <1>1, <2>1, <2>3, <3>0, <3>3, <4>1
        <5> QED BY <2>4, <4>1, <5>1, Zenon
      <4> QED BY <1>2, <1>3, <2>1, <3>0, <4>1, <4>2, Zenon
    <3> QED BY <1>0, <1>1, <3>0, <3>1, <3>2, <3>3
  <2>7. echo = input
    BY <1>3, <2>4, <2>5, <2>6, SeqEqual, Zenon
  <2> QED BY <2>7, Zenon DEF echo, front
<1>5. line # "asserted" => Len(display) + h + readAvail + (IF line = "GetChar" THEN 1 ELSE 0) = read
  <2>1. line # "asserted" => line \in {"P", "GetChar", "PutChar", "wait", "returned"}
    BY Zenon DEF ConsoleInv, ConsoleTypeOK, OneWrite
  <2>2. line # "PutChar" => h = 0
    BY <1>1
  <2>3. AllCounted /\ readAvail \in Nat
    BY Zenon DEF ConsoleInv, ConsoleTypeOK
  <2>4. CASE line = "GetChar"
    BY <1>0, <2>2, <2>3, <2>4 DEF AllCounted
  <2>5. CASE line # "GetChar"
    <3>1. CASE line = "PutChar"
      BY <1>0, <1>1, <2>3, <3>1 DEF AllCounted
    <3>2. CASE line \in {"P", "wait", "returned"}
      BY <1>0, <2>2, <2>3, <3>2 DEF AllCounted
    <3> QED BY <2>1, <2>5, <3>1, <3>2, Zenon
  <2> QED BY <2>4, <2>5, Zenon
<1> QED BY <1>4, <1>5, Zenon DEF ConsoleInv, OneWrite, EchoExact, input, hand, held, h

\* ConsoleTest echoes exactly what is typed, for every input: the device's one
\* buffer is not overwritten and PutChar is not called while the device is busy
\* (machine/console.cc, userprog/progtest.cc).
THEOREM ConsoleEchoExact == ConsoleSpec => []EchoExact
<1>1. ConsoleInit => ConsoleInv
  BY InitConsole, Zenon
<1>2. ConsoleInv /\ [ConsoleNext]_consoleVars => ConsoleInv'
  BY ConsoleStep, Zenon
<1>3. ConsoleInv => EchoExact
  BY InPlaceIsEcho, Zenon
<1> QED BY <1>1, <1>2, <1>3, PTL DEF ConsoleSpec

(***************************************************************************)
(* Interrupts                                                              *)
(***************************************************************************)

\* An element of the list of pending interrupts.
PendingCell == Cell(Source, Nat)

\* What is said of a list of pending interrupts at a time, some of which may
\* be late.
OnTime(list, now, late) == \A c \in Cells(list) : now <= c.key + late

Queue(list) == list \in Seq(PendingCell) /\ Sorted(list) /\ Distinct(list)

ClockTypeOK ==
  /\ totalTicks \in Nat /\ ready \in Nat /\ blocked \in Nat
  /\ yieldOnReturn \in BOOLEAN /\ at \in Place

\* The interrupts pending are in order, one for each device, and none is late
\* but inside OneTick, which has just advanced the clock; a yield is asked for
\* only inside OneTick and Idle; the machine is in IdleMode inside Idle, which
\* is called when no thread is ready.
ClockInv ==
  /\ ClockTypeOK
  /\ Queue(pending)
  /\ OnTime(pending, totalTicks, IF at = "OneTick" THEN SystemTick ELSE 0)
  /\ at \in {"kernel", "Idle", "Sleep"} => ~yieldOnReturn
  /\ at = "Idle" => ready = 0
  /\ at \in {"Idle", "IdleLoop"} => status = "IdleMode"
  /\ at \in {"kernel", "OneTick", "Sleep"} => status # "IdleMode"

\* What InterruptAssumption says of the times between two interrupts.
LEMMA TimesPositive ==
  /\ SystemTick \in Nat /\ UserTick \in Nat /\ UserTick <= SystemTick
  /\ \A n \in TimeOfNextInterrupt \cup Latencies : n \in Nat /\ n > 0
BY InterruptAssumption DEF TimeOfNextInterrupt

\* Interrupt::Schedule puts one more interrupt on the list.
LEMMA ScheduleKeeps ==
  ASSUME NEW list, Queue(list), NEW s \in Source, s \notin Items(list),
         NEW n \in Nat, NEW now \in Nat
  PROVE  /\ Queue(Schedule(list, s, n, now))
         /\ Cells(Schedule(list, s, n, now)) = Cells(list) \cup {ListElement(s, now + n)}
<1> DEFINE k == now + n
           K == Nat
<1>1. k \in K /\ K \in SUBSET Int
  OBVIOUS
<1>2. list \in Seq(Cell(Source, K)) /\ Sorted(list) /\ Distinct(list)
  BY Zenon DEF Queue, PendingCell
<1> HIDE DEF k, K
<1>3. SortedInsert(list, s, k) \in Seq(Cell(Source, K))
  BY <1>1, <1>2, SortedInsertShifts, Zenon
<1>4. Sorted(SortedInsert(list, s, k)) /\ Distinct(SortedInsert(list, s, k))
  BY <1>1, <1>2, SortedInsertSorted, SortedInsertDistinct, Zenon
<1>5. Cells(SortedInsert(list, s, k)) = Cells(list) \cup {ListElement(s, k)}
  BY <1>1, <1>2, SortedInsertKeepsCells
<1> QED BY <1>3, <1>4, <1>5, Zenon DEF Queue, PendingCell, Schedule, k, K

\* CheckIfDue takes the first one off the list.
LEMMA FirstTaken ==
  ASSUME Queue(pending), pending # << >>
  PROVE  /\ Queue(Tail(pending)) /\ First \in PendingCell
         /\ First.item \in Source /\ First.key \in Nat
         /\ First.item \notin Items(Tail(pending))
         /\ Cells(pending) = Cells(Tail(pending)) \cup {First}
         /\ \A c \in Cells(pending) : First.key <= c.key
<1>1. pending \in Seq(Cell(Source, Nat)) /\ Sorted(pending) /\ Distinct(pending) /\ Nat \in SUBSET Int
  BY DEF Queue, PendingCell
<1>2. /\ Cells(pending) = Cells(Tail(pending)) \cup {First} /\ First \in PendingCell
      /\ \A c \in Cells(pending) : First.key <= c.key
  BY <1>1, FirstIsLeast, Zenon DEF First, PendingCell
<1>3. /\ Tail(pending) \in Seq(Cell(Source, Nat))
      /\ Items(Tail(pending)) = Items(pending) \ {Head(pending).item}
      /\ Distinct(Tail(pending)) /\ Sorted(Tail(pending))
  BY <1>1, TakeFirst, SMTT(30)
<1>4. First.item \in Source /\ First.key \in Nat
  BY <1>2 DEF PendingCell, Cell
<1> QED BY <1>2, <1>3, <1>4, Zenon DEF Queue, PendingCell, First

\* CheckIfDue puts it back if it does not fire it.
LEMMA PutBackKeeps ==
  ASSUME Queue(pending)
  PROVE  Queue(PutBack) /\ Cells(PutBack) = Cells(pending)
<1>1. CASE pending = << >>
  BY <1>1, Zenon DEF PutBack
<1>2. CASE pending # << >>
  <2>1. /\ Queue(Tail(pending)) /\ First \in PendingCell /\ First.item \in Source /\ First.key \in Nat
        /\ First.item \notin Items(Tail(pending)) /\ Cells(pending) = Cells(Tail(pending)) \cup {First}
    BY <1>2, FirstTaken, Zenon
  <2>2. PutBack = Schedule(Tail(pending), First.item, First.key, 0)
    <3>1. 0 + First.key = First.key
      BY <2>1
    <3> QED BY <1>2, <3>1, Zenon DEF PutBack, Schedule
  <2>3. ListElement(First.item, 0 + First.key) = First
    BY <2>1 DEF ListElement, PendingCell, Cell
  <2>4. 0 \in Nat
    OBVIOUS
  <2> QED BY <2>1, <2>2, <2>3, <2>4, ScheduleKeeps
<1> QED BY <1>1, <1>2, Zenon

\* A call of CheckIfDue that fires the first interrupt: its time has come and
\* is past by no more than that of a tick; all others stay pending, and those
\* that its handler schedules are for later.
LEMMA FiredKeeps ==
  ASSUME NEW late \in Nat, NEW advance \in BOOLEAN, totalTicks \in Nat, ready \in Nat, blocked \in Nat,
         Queue(pending), OnTime(pending, totalTicks, late), Fired(advance), advance => late = 0
  PROVE  /\ totalTicks' \in Nat /\ ready' \in Nat /\ blocked' \in Nat
         /\ Queue(pending') /\ OnTime(pending', totalTicks', late)
         /\ Cells(pending) \subseteq Cells(pending') \cup {First}
         /\ totalTicks' - First.key \in 0 .. late
         /\ UNCHANGED <<level, status>> /\ yieldOnReturn' \in {yieldOnReturn, TRUE}
<1> DEFINE rest == Tail(pending)
           now == totalTicks'
<1>1. /\ pending # << >> /\ (advance \/ First.key <= totalTicks)
      /\ totalTicks' = ClockAtFirst /\ Handler /\ UNCHANGED <<level, status>>
  BY Zenon DEF Fired, Due
<1>2. /\ Queue(rest) /\ First \in PendingCell /\ First.item \in Source /\ First.key \in Nat
      /\ First.item \notin Items(rest) /\ Cells(pending) = Cells(rest) \cup {First}
      /\ \A c \in Cells(pending) : First.key <= c.key
  BY <1>1, FirstTaken, Zenon
<1>3. First \in Cells(pending) /\ totalTicks <= First.key + late
  BY <1>2, Zenon DEF OnTime
<1>4. now \in Nat /\ First.key <= now /\ now <= First.key + late
  BY <1>1, <1>2, <1>3 DEF ClockAtFirst
<1>5. \A c \in Cells(rest) : c.key \in Nat /\ now <= c.key + late
  <2>1. ASSUME NEW c \in Cells(rest) PROVE c.key \in Nat
    <3>1. rest \in Seq(PendingCell)
      BY <1>2, Zenon DEF Queue
    <3>2. c \in PendingCell
      BY <3>1, ElementOfSeq, Zenon DEF Cells
    <3> QED BY <3>2 DEF PendingCell, Cell
  <2>2. ASSUME NEW c \in Cells(rest) PROVE First.key <= c.key
    BY <1>2, Zenon
  <2> QED BY <1>2, <1>4, <2>1, <2>2
<1> HIDE DEF rest, now
<1>6. ASSUME NEW n \in TimeOfNextInterrupt \cup Latencies, pending' = Schedule(rest, First.item, n, now)
      PROVE  Queue(pending') /\ OnTime(pending', now, late) /\ Cells(rest) \subseteq Cells(pending')
  <2>1. n \in Nat
    BY TimesPositive, Zenon
  <2>2. Queue(pending') /\ Cells(pending') = Cells(rest) \cup {ListElement(First.item, now + n)}
    BY <1>2, <1>4, <1>6, <2>1, ScheduleKeeps
  <2>3. ListElement(First.item, now + n).key = now + n /\ now <= now + n + late
    BY <1>4, <2>1 DEF ListElement
  <2>4. OnTime(pending', now, late)
    BY <1>5, <2>2, <2>3, Zenon DEF OnTime
  <2> QED BY <2>2, <2>4, Zenon
<1>7. ASSUME pending' = rest
      PROVE  Queue(pending') /\ OnTime(pending', now, late) /\ Cells(rest) \subseteq Cells(pending')
  BY <1>2, <1>5, <1>7, Zenon DEF OnTime
<1>8. ASSUME DeviceHandler PROVE ready' \in Nat /\ blocked' \in Nat /\ yieldOnReturn' = yieldOnReturn
  BY <1>8 DEF DeviceHandler, SomeWaiter
<1>9. ASSUME TimerHandler(First.item)
      PROVE  ready' \in Nat /\ blocked' \in Nat /\ yieldOnReturn' \in {yieldOnReturn, TRUE}
  BY <1>9, Zenon DEF TimerHandler
<1>10. /\ ready' \in Nat /\ blocked' \in Nat /\ yieldOnReturn' \in {yieldOnReturn, TRUE}
       /\ Queue(pending') /\ OnTime(pending', now, late) /\ Cells(rest) \subseteq Cells(pending')
  <2>1. CASE \E n \in TimeOfNextInterrupt : pending' = Schedule(rest, First.item, n, now) /\ TimerHandler(First.item)
    BY <1>6, <1>9, <2>1, Zenon
  <2>2. CASE \E n \in Latencies : pending' = Schedule(rest, First.item, n, now) /\ DeviceHandler
    BY <1>6, <1>8, <2>2, Zenon
  <2>3. CASE pending' = rest /\ DeviceHandler
    BY <1>7, <1>8, <2>3, Zenon
  <2> QED BY <1>1, <2>1, <2>2, <2>3, Zenon DEF Handler, rest, now
<1>11. now - First.key \in 0 .. late
  BY <1>2, <1>4
<1> QED BY <1>1, <1>2, <1>4, <1>10, <1>11, Zenon DEF now

\* A call of CheckIfDue that fires nothing: the list is the same but for the
\* order of interrupts at the same time.  It moves the clock only if the machine
\* is idle, and leaves an interrupt that is due only then.
LEMMA NotFiredKeeps ==
  ASSUME NEW late \in Nat, NEW advance \in BOOLEAN, totalTicks \in Nat,
         Queue(pending), OnTime(pending, totalTicks, late), NotFired(advance),
         status = "IdleMode" => late = 0
  PROVE  /\ totalTicks' \in Nat /\ Queue(pending') /\ Cells(pending') = Cells(pending)
         /\ OnTime(pending', totalTicks', 0)
         /\ advance => pending = << >> \/ NothingMore
<1>1. /\ ~Due(advance) \/ NothingMore
      /\ totalTicks' = IF Due(advance) THEN ClockAtFirst ELSE totalTicks
  BY Zenon DEF NotFired
<1>2. Queue(pending') /\ Cells(pending') = Cells(pending)
  BY PutBackKeeps, Zenon DEF NotFired
<1>3. CASE pending = << >>
  <2>1. totalTicks' = totalTicks /\ Cells(pending') = {}
    <3>1. Cells(<< >>) = {}
      BY DEF Cells
    <3> QED BY <1>1, <1>2, <1>3, <3>1, Zenon DEF Due
  <2> QED BY <1>2, <1>3, <2>1, Zenon DEF OnTime
<1>4. CASE pending # << >>
  <2>1. First.key \in Nat /\ First \in Cells(pending) /\ \A c \in Cells(pending) : First.key <= c.key
    BY <1>4, FirstTaken, Zenon
  <2>2. \A c \in Cells(pending) : c.key \in Nat
    <3>1. ASSUME NEW c \in Cells(pending) PROVE c \in PendingCell
      BY ElementOfSeq, Zenon DEF Cells, Queue
    <3> QED BY <3>1 DEF PendingCell, Cell
  <2>3. totalTicks' \in Nat /\ totalTicks' <= First.key
    <3>1. CASE Due(advance)
      <4>1. NothingMore /\ totalTicks' = ClockAtFirst /\ late = 0
        BY <1>1, <3>1, Zenon DEF NothingMore
      <4> QED BY <2>1, <4>1 DEF ClockAtFirst, OnTime
    <3>2. CASE ~Due(advance)
      BY <1>1, <1>4, <2>1, <3>2 DEF Due
    <3> QED BY <3>1, <3>2, Zenon
  <2>4. \A c \in Cells(pending) : totalTicks' <= c.key + 0
    BY <2>1, <2>2, <2>3
  <2>5. advance => NothingMore
    BY <1>1, <1>4, Zenon DEF Due
  <2> QED BY <1>2, <2>3, <2>4, <2>5, Zenon DEF OnTime
<1> QED BY <1>3, <1>4, Zenon

LEMMA InterruptInitInv == InterruptInit => ClockInv
<1> SUFFICES ASSUME InterruptInit PROVE ClockInv
  OBVIOUS
<1>1. PICK first \in [Timers -> TimeOfNextInterrupt] :
        LET start(timer, list) == IF timer \in Timers THEN Schedule(list, timer, first[timer], 0) ELSE list
        IN  pending = start("rd", start("rs", << >>))
  BY Zenon DEF InterruptInit
<1> DEFINE start(timer, list) == IF timer \in Timers THEN Schedule(list, timer, first[timer], 0) ELSE list
           one == start("rs", << >>)
<1>2. pending = start("rd", one)
  BY <1>1
<1>3. Queue(<< >>) /\ Items(<< >>) = {} /\ Cells(<< >>) = {}
  BY DEF Queue, Sorted, Distinct, Items, Cells
<1>4. ASSUME NEW timer \in Timers, NEW list, Queue(list), timer \notin Items(list)
      PROVE  /\ Queue(start(timer, list)) /\ Cells(start(timer, list)) = Cells(list) \cup {ListElement(timer, 0 + first[timer])}
             /\ first[timer] \in Nat
  <2>1. first[timer] \in Nat /\ 0 \in Nat /\ timer \in Source
    BY TimesPositive DEF Source
  <2> QED BY <1>4, <2>1, ScheduleKeeps
<1> HIDE DEF start
<1>5. Queue(one) /\ (\A c \in Cells(one) : c.item = "rs" /\ c.key \in Nat)
  <2>1. CASE "rs" \in Timers
    <3>1. /\ Queue(one) /\ Cells(one) = {ListElement("rs", 0 + first["rs"])}
          /\ first["rs"] \in Nat
      BY <1>3, <1>4, <2>1
    <3> QED BY <3>1 DEF ListElement
  <2>2. CASE "rs" \notin Timers
    BY <1>3, <2>2, Zenon DEF start
  <2> QED BY <2>1, <2>2, Zenon
<1>6. "rd" \notin Items(one)
  <2>1. \A i \in 1 .. Len(one) : one[i].item = "rs"
    BY <1>5, Zenon DEF Cells
  <2> QED BY <2>1, Zenon DEF Items
<1> HIDE DEF one
<1>7. Queue(pending) /\ \A c \in Cells(pending) : c.key \in Nat
  <2>1. CASE "rd" \in Timers
    <3>1. /\ Queue(pending) /\ Cells(pending) = Cells(one) \cup {ListElement("rd", 0 + first["rd"])}
          /\ first["rd"] \in Nat
      BY <1>2, <1>4, <1>5, <1>6, <2>1
    <3>2. ListElement("rd", 0 + first["rd"]).key \in Nat
      BY <3>1 DEF ListElement
    <3> QED BY <1>5, <3>1, <3>2, Zenon
  <2>2. CASE "rd" \notin Timers
    BY <1>2, <1>5, <2>2, Zenon DEF start
  <2> QED BY <2>1, <2>2, Zenon
<1>8. ClockTypeOK /\ totalTicks = 0 /\ at = "kernel" /\ yieldOnReturn = FALSE /\ status = "SystemMode"
  BY DEF InterruptInit, ClockTypeOK, Place
<1>9. OnTime(pending, totalTicks, 0)
  BY <1>7, <1>8 DEF OnTime
<1> QED BY <1>7, <1>8, <1>9 DEF ClockInv

\* OneTick begins: the clock has moved on by at most a SystemTick.
LEMMA OneTickKeeps ==
  ASSUME ClockInv, at = "kernel", OneTick
  PROVE  ClockInv' /\ pending' = pending
<1>1. /\ totalTicks' \in {totalTicks + SystemTick, totalTicks + UserTick} /\ at' = "OneTick"
      /\ UNCHANGED <<pending, status, yieldOnReturn, ready, blocked>>
  BY Zenon DEF OneTick
<1>2. /\ totalTicks \in Nat /\ ready \in Nat /\ blocked \in Nat /\ yieldOnReturn \in BOOLEAN
      /\ Queue(pending) /\ status # "IdleMode" /\ OnTime(pending, totalTicks, 0)
  BY Zenon DEF ClockInv, ClockTypeOK
<1>3. totalTicks' \in Nat /\ totalTicks' <= totalTicks + SystemTick
  BY <1>1, <1>2, TimesPositive
<1>4. \A c \in Cells(pending) : c.key \in Nat
  <2>1. ASSUME NEW c \in Cells(pending) PROVE c \in PendingCell
    BY <1>2, ElementOfSeq, Zenon DEF Cells, Queue
  <2> QED BY <2>1 DEF PendingCell, Cell
<1>5. \A c \in Cells(pending) : totalTicks' <= c.key + SystemTick
  BY <1>2, <1>3, <1>4, TimesPositive DEF OnTime
<1>6. OnTime(pending', totalTicks', SystemTick)
  BY <1>1, <1>5, Zenon DEF OnTime
<1>7. ClockTypeOK'
  BY <1>1, <1>2, <1>3, Zenon DEF ClockTypeOK, Place
<1> QED BY <1>1, <1>2, <1>6, <1>7, Zenon DEF ClockInv

\* A step keeps ClockInv, and loses a pending interrupt only by firing it: none
\* before its time, none more than a SystemTick after it.
LEMMA ClockStep ==
  ASSUME ClockInv, InterruptNext
  PROVE  /\ ClockInv'
         /\ \A c \in Cells(pending) \ Cells(pending') : totalTicks' - c.key \in 0 .. SystemTick
<1>0. /\ totalTicks \in Nat /\ ready \in Nat /\ blocked \in Nat /\ yieldOnReturn \in BOOLEAN /\ at \in Place
      /\ Queue(pending)
  BY Zenon DEF ClockInv, ClockTypeOK
<1>1. CASE TickFires
  <2>1. at = "OneTick" /\ Fired(FALSE) /\ at' = at
    BY <1>1, Zenon DEF TickFires
  <2>2. OnTime(pending, totalTicks, SystemTick) /\ status # "IdleMode"
    BY <2>1, Zenon DEF ClockInv
  <2>3. /\ totalTicks' \in Nat /\ ready' \in Nat /\ blocked' \in Nat
        /\ Queue(pending') /\ OnTime(pending', totalTicks', SystemTick)
        /\ Cells(pending) \subseteq Cells(pending') \cup {First}
        /\ totalTicks' - First.key \in 0 .. SystemTick
        /\ UNCHANGED <<level, status>> /\ yieldOnReturn' \in {yieldOnReturn, TRUE}
    BY <1>0, <2>1, <2>2, TimesPositive, FiredKeeps, Zenon
  <2>4. ClockInv'
    BY <1>0, <2>1, <2>2, <2>3, Zenon DEF ClockInv, ClockTypeOK
  <2> QED BY <2>3, <2>4, Zenon
<1>2. CASE TickEnd
  <2>1. /\ at = "OneTick" /\ NotFired(FALSE) /\ at' = "kernel" /\ yieldOnReturn' = FALSE
        /\ status' \in {status, "SystemMode"} /\ UNCHANGED <<ready, blocked>>
    BY <1>2, Zenon DEF TickEnd
  <2>2. OnTime(pending, totalTicks, SystemTick) /\ status # "IdleMode"
    BY <2>1, Zenon DEF ClockInv
  <2>3. totalTicks' \in Nat /\ Queue(pending') /\ Cells(pending') = Cells(pending) /\ OnTime(pending', totalTicks', 0)
    BY <1>0, <2>1, <2>2, TimesPositive, NotFiredKeeps
  <2>4. ClockInv'
    BY <1>0, <2>1, <2>2, <2>3, Zenon DEF ClockInv, ClockTypeOK, Place
  <2> QED BY <2>3, <2>4, Zenon
<1>3. CASE IdleFires
  <2>1. at = "Idle" /\ Fired(TRUE) /\ at' = "IdleLoop"
    BY <1>3, Zenon DEF IdleFires
  <2>2. OnTime(pending, totalTicks, 0) /\ status = "IdleMode"
    BY <2>1, Zenon DEF ClockInv
  <2>3. /\ totalTicks' \in Nat /\ ready' \in Nat /\ blocked' \in Nat
        /\ Queue(pending') /\ OnTime(pending', totalTicks', 0)
        /\ Cells(pending) \subseteq Cells(pending') \cup {First}
        /\ totalTicks' - First.key \in 0 .. 0
        /\ UNCHANGED <<level, status>> /\ yieldOnReturn' \in {yieldOnReturn, TRUE}
    BY <1>0, <2>1, <2>2, FiredKeeps
  <2>4. ClockInv'
    BY <1>0, <2>1, <2>2, <2>3, Zenon DEF ClockInv, ClockTypeOK, Place
  <2>5. totalTicks' - First.key \in 0 .. SystemTick
    BY <2>3, TimesPositive
  <2> QED BY <2>3, <2>4, <2>5, Zenon
<1>4. CASE IdleHalts
  <2>1. at = "Idle" /\ NotFired(TRUE) /\ at' = "Halted" /\ UNCHANGED <<yieldOnReturn, ready, blocked>>
    BY <1>4, Zenon DEF IdleHalts
  <2>2. OnTime(pending, totalTicks, 0)
    BY <2>1, Zenon DEF ClockInv
  <2>3. totalTicks' \in Nat /\ Queue(pending') /\ Cells(pending') = Cells(pending) /\ OnTime(pending', totalTicks', 0)
    BY <1>0, <2>1, <2>2, NotFiredKeeps
  <2>4. ClockInv'
    BY <1>0, <2>1, <2>3, Zenon DEF ClockInv, ClockTypeOK, Place
  <2> QED BY <2>3, <2>4, Zenon
<1>5. CASE IdleLoopFires
  <2>1. at = "IdleLoop" /\ Fired(FALSE) /\ at' = at
    BY <1>5, Zenon DEF IdleLoopFires
  <2>2. OnTime(pending, totalTicks, 0) /\ status = "IdleMode"
    BY <2>1, Zenon DEF ClockInv
  <2>3. /\ totalTicks' \in Nat /\ ready' \in Nat /\ blocked' \in Nat
        /\ Queue(pending') /\ OnTime(pending', totalTicks', 0)
        /\ Cells(pending) \subseteq Cells(pending') \cup {First}
        /\ totalTicks' - First.key \in 0 .. 0
        /\ UNCHANGED <<level, status>> /\ yieldOnReturn' \in {yieldOnReturn, TRUE}
    BY <1>0, <2>1, <2>2, FiredKeeps
  <2>4. ClockInv'
    BY <1>0, <2>1, <2>2, <2>3, Zenon DEF ClockInv, ClockTypeOK, Place
  <2>5. totalTicks' - First.key \in 0 .. SystemTick
    BY <2>3, TimesPositive
  <2> QED BY <2>3, <2>4, <2>5, Zenon
<1>6. CASE IdleReturns
  <2>1. /\ at = "IdleLoop" /\ NotFired(FALSE) /\ at' = "Sleep" /\ yieldOnReturn' = FALSE
        /\ status' = "SystemMode" /\ UNCHANGED <<ready, blocked>>
    BY <1>6, Zenon DEF IdleReturns, YieldAfterIdle
  <2>2. OnTime(pending, totalTicks, 0)
    BY <2>1, Zenon DEF ClockInv
  <2>3. totalTicks' \in Nat /\ Queue(pending') /\ Cells(pending') = Cells(pending) /\ OnTime(pending', totalTicks', 0)
    BY <1>0, <2>1, <2>2, NotFiredKeeps
  <2>4. ClockInv'
    BY <1>0, <2>1, <2>3, Zenon DEF ClockInv, ClockTypeOK, Place
  <2> QED BY <2>3, <2>4, Zenon
<1>7. ASSUME SleepLoop(ready), UNCHANGED <<totalTicks, pending, yieldOnReturn>>, blocked' \in Nat,
             at \in {"kernel", "Sleep"}
      PROVE  ClockInv'
  <2>1. OnTime(pending, totalTicks, 0) /\ ~yieldOnReturn /\ status # "IdleMode"
    BY <1>7, Zenon DEF ClockInv
  <2>2. /\ ready' \in Nat
        /\ \/ at' = "kernel" /\ status' = status
           \/ at' = "Idle" /\ ready' = 0 /\ status' = "IdleMode"
    BY <1>0, <1>7 DEF SleepLoop
  <2> QED BY <1>0, <1>7, <2>1, <2>2, Zenon DEF ClockInv, ClockTypeOK, Place
<1>8. CASE SleepAgain
  BY <1>0, <1>7, <1>8, Zenon DEF SleepAgain
<1>9. CASE Sleep
  <2>1. at = "kernel" /\ SleepLoop(ready) /\ UNCHANGED <<totalTicks, pending, yieldOnReturn>>
    BY <1>9, Zenon DEF Sleep, InKernel
  <2>2. blocked' \in Nat
    BY <1>0, <1>9 DEF Sleep
  <2> QED BY <1>7, <2>1, <2>2, Zenon
<1>10. CASE Enable \/ Instruction
  BY <1>10, OneTickKeeps, Zenon DEF Enable, Instruction, InKernel
<1>11. CASE Disable \/ SetStatus
  <2>1. /\ UNCHANGED <<totalTicks, pending, yieldOnReturn, at, ready, blocked>> /\ at = "kernel"
        /\ status' \in {status, "UserMode", "SystemMode"}
    BY <1>11, Zenon DEF Disable, SetStatus, InKernel
  <2> QED BY <2>1, Zenon DEF ClockInv, ClockTypeOK
<1>12. ASSUME NEW d \in Devices \cup Pollers, NEW n \in Latencies, DeviceRequest(d, n)
       PROVE  ClockInv' /\ Cells(pending) \subseteq Cells(pending')
  <2>1. /\ at = "kernel" /\ d \notin Items(pending) /\ pending' = Schedule(pending, d, n, totalTicks)
        /\ UNCHANGED <<totalTicks, status, yieldOnReturn, at, ready, blocked>>
    BY <1>12, Zenon DEF DeviceRequest, InKernel
  <2>2. d \in Source /\ n \in Nat
    BY TimesPositive, Zenon DEF Source
  <2>3. Queue(pending') /\ Cells(pending') = Cells(pending) \cup {ListElement(d, totalTicks + n)}
    BY <1>0, <2>1, <2>2, ScheduleKeeps
  <2>4. totalTicks <= ListElement(d, totalTicks + n).key + 0
    BY <1>0, <2>2 DEF ListElement
  <2>5. OnTime(pending', totalTicks', 0)
    <3>1. OnTime(pending, totalTicks, 0)
      BY <2>1, Zenon DEF ClockInv
    <3> QED BY <2>1, <2>3, <2>4, <3>1, Zenon DEF OnTime
  <2> QED BY <2>1, <2>3, <2>5, Zenon DEF ClockInv, ClockTypeOK
<1>13. CASE Fork
  <2>1. UNCHANGED <<totalTicks, pending, status, yieldOnReturn, at, blocked>> /\ at = "kernel"
    BY <1>13, Zenon DEF Fork, InKernel
  <2>2. ready' \in Nat
    BY <1>0, <1>13 DEF Fork
  <2> QED BY <2>1, <2>2, Zenon DEF ClockInv, ClockTypeOK
<1>14. CASE Stopped
  BY <1>14, Zenon DEF Stopped, clockVars, ClockInv, ClockTypeOK
<1>15. CASE \E d \in Devices \cup Pollers, n \in Latencies : DeviceRequest(d, n)
  BY <1>12, <1>15, Zenon
<1> QED
  BY <1>1, <1>2, <1>3, <1>4, <1>5, <1>6, <1>8, <1>9, <1>10, <1>11, <1>13, <1>14, <1>15, Zenon
     DEF InterruptNext, HandlersNext

\* The clock and the pending interrupts fit where the simulation is, for any
\* timers, devices and latencies (interrupt.cc).
THEOREM ClockInvariant == InterruptSpec => []ClockInv
<1>1. ClockInv /\ [InterruptNext]_clockVars => ClockInv'
  <2>1. ASSUME ClockInv, UNCHANGED clockVars PROVE ClockInv'
    BY <2>1, Zenon DEF clockVars, ClockInv, ClockTypeOK
  <2> QED BY <2>1, ClockStep, Zenon
<1> QED BY <1>1, InterruptInitInv, PTL DEF InterruptSpec

\* CheckIfDue fires an interrupt neither before its time nor more than one
\* SystemTick after it, and the yield that a handler asks for is made, or
\* dropped with the idle period, before a thread goes on.
THEOREM InterruptsPrompt == InterruptSpec => PromptDelivery
<1>1. ASSUME ClockInv, [InterruptNext]_clockVars
      PROVE  [/\ \A i \in 1 .. Len(pending) :
                   pending[i] \notin {pending'[j] : j \in 1 .. Len(pending')} =>
                     totalTicks' - pending[i].key \in 0 .. SystemTick
              /\ at' = "kernel" => ~yieldOnReturn']_clockVars
  <2>1. CASE UNCHANGED clockVars
    BY <2>1, Zenon
  <2>2. CASE InterruptNext
    <3>1. /\ ClockInv'
          /\ \A c \in Cells(pending) \ Cells(pending') : totalTicks' - c.key \in 0 .. SystemTick
      BY <1>1, <2>2, ClockStep, Zenon
    <3>2. at' = "kernel" => ~yieldOnReturn'
      BY <3>1, Zenon DEF ClockInv
    <3>3. \A i \in 1 .. Len(pending) :
            pending[i] \notin {pending'[j] : j \in 1 .. Len(pending')} =>
              totalTicks' - pending[i].key \in 0 .. SystemTick
      BY <3>1, Zenon DEF Cells
    <3> QED BY <3>2, <3>3, Zenon
  <2> QED BY <1>1, <2>1, <2>2, Zenon
<1> QED BY <1>1, ClockInvariant, PTL DEF InterruptSpec, PromptDelivery

\* With at most one timer an idle machine halts in CheckIfDue when nothing but
\* the timer's interrupt is pending, and never while a thread is ready or a
\* device's interrupt is pending.
THEOREM IdleMachineHalts ==
  ASSUME Timers # {"rs", "rd"}
  PROVE  InterruptSpec => HaltsWhenDone
<1>1. ASSUME ClockInv, [InterruptNext]_clockVars
      PROVE  [/\ at = "Idle" /\ Items(pending) \subseteq Timers => at' = "Halted"
              /\ at # "Halted" /\ at' = "Halted" =>
                   ready = 0 /\ Items(pending) \subseteq Timers]_clockVars
  <2>0. Queue(pending) /\ OnTime(pending, totalTicks, IF at = "OneTick" THEN SystemTick ELSE 0)
        /\ totalTicks \in Nat
    BY <1>1, Zenon DEF ClockInv, ClockTypeOK
  <2>1. CASE UNCHANGED clockVars
    BY <2>1, Zenon
  <2>2. ASSUME InterruptNext, at = "Idle", Items(pending) \subseteq Timers PROVE IdleHalts \/ UNCHANGED clockVars
    <3>1. IdleFires \/ IdleHalts \/ UNCHANGED clockVars
      BY <2>2, Zenon DEF InterruptNext, HandlersNext, TickFires, TickEnd, IdleLoopFires, IdleReturns, SleepAgain,
        Disable, Enable, Instruction, SetStatus, DeviceRequest, Fork, Sleep, Stopped, InKernel
    <3>2. ASSUME IdleFires PROVE FALSE
      <4>1. pending # << >> /\ ~NothingMore /\ status = "IdleMode"
        BY <1>1, <2>2, <3>2, Zenon DEF IdleFires, Fired, Due, ClockInv
      <4>2. /\ First.item \in Items(pending) /\ First.item \notin Items(Tail(pending))
            /\ Items(Tail(pending)) \subseteq Items(pending) /\ Tail(pending) \in Seq(PendingCell)
        <5>1. pending \in Seq(Cell(Source, Nat)) /\ Distinct(pending) /\ Nat \in SUBSET Int
          BY <2>0 DEF Queue, PendingCell
        <5>2. /\ Tail(pending) \in Seq(Cell(Source, Nat)) /\ Head(pending).item \in Items(pending)
              /\ Items(Tail(pending)) = Items(pending) \ {Head(pending).item}
          BY <4>1, <5>1, TakeFirst, SMTT(30)
        <5> QED BY <5>2, Zenon DEF First, PendingCell
      <4>3. Tail(pending) # << >>
        BY <2>2, <4>1, <4>2, Zenon DEF NothingMore
      <4>4. Tail(pending)[1].item \in Items(Tail(pending))
        <5>1. 1 \in 1 .. Len(Tail(pending))
          BY <4>2, <4>3, EmptySeq, LenProperties
        <5> QED BY <5>1, Zenon DEF Items
      <4>5. \E x, y \in Timers : x # y
        BY <2>2, <4>2, <4>4, Zenon
      <4> QED BY <1>1, <4>5, InterruptAssumption
    <3> QED BY <3>1, <3>2, Zenon
  <2>3. ASSUME InterruptNext, at # "Halted", at' = "Halted" PROVE IdleHalts
    <3>1. SleepLoop(ready) => at' # "Halted"
      BY DEF SleepLoop
    <3> QED BY <2>3, <3>1, Zenon DEF InterruptNext, HandlersNext, TickFires, TickEnd, IdleFires, IdleLoopFires, IdleReturns,
        SleepAgain, Disable, Enable, Instruction, OneTick, SetStatus, DeviceRequest, Fork, Sleep, Stopped, clockVars
  <2>4. ASSUME IdleHalts PROVE ready = 0 /\ Items(pending) \subseteq Timers /\ at' = "Halted"
    <3>1. at = "Idle" /\ NotFired(TRUE) /\ at' = "Halted"
      BY <2>4, Zenon DEF IdleHalts
    <3>2. ready = 0 /\ OnTime(pending, totalTicks, 0)
      BY <1>1, <3>1, Zenon DEF ClockInv
    <3>3. pending = << >> \/ NothingMore
      BY <2>0, <3>1, <3>2, NotFiredKeeps
    <3>4. CASE pending = << >>
      <4>1. Items(<< >>) = {}
        BY DEF Items
      <4> QED BY <3>1, <3>2, <3>4, <4>1, Zenon
    <3>5. CASE NothingMore /\ pending # << >>
      <4>1. First.item \in Timers /\ Tail(pending) = << >>
        BY <3>5, Zenon DEF NothingMore
      <4>2. Items(<< >>) = {}
        BY DEF Items
      <4>3. pending \in Seq(Cell(Source, Nat)) /\ Distinct(pending) /\ Nat \in SUBSET Int /\ pending # << >>
        BY <2>0, <3>5 DEF Queue, PendingCell
      <4>4. Items(Tail(pending)) = Items(pending) \ {Head(pending).item}
        BY <4>3, TakeFirst
      <4> QED BY <3>1, <3>2, <4>1, <4>2, <4>4, Zenon DEF First
    <3> QED BY <3>3, <3>4, <3>5, Zenon
  <2> QED BY <1>1, <2>1, <2>2, <2>3, <2>4, Zenon
<1> QED BY <1>1, ClockInvariant, PTL DEF InterruptSpec, HaltsWhenDone

=============================================================================

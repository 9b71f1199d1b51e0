-------------------------------- MODULE Mips --------------------------------
(***************************************************************************)
(* The MIPS instruction simulator of machine/mipssim.cc: decoding, every   *)
(* instruction, the delayed load, the delay slot of branches, and what an  *)
(* exception leaves of the instruction that raised it.                     *)
(*                                                                         *)
(* A raw instruction is the record of its bit fields.  The code and data   *)
(* segments are apart (no program stores into its code), a page is         *)
(* resident or not, and the kernel's answer to a page fault is to make the *)
(* page resident, perhaps at the expense of the others (module Paging has  *)
(* the page tables).  PrevPCReg, which only the debugger shows, is left    *)
(* out.                                                                    *)
(***************************************************************************)
EXTENDS Words

CONSTANT PageSize        \* bytes of a page of data

ASSUME PageSizeAssumption == PageSize \in Nat \ {0}

VARIABLES code,          \* code[a]: the raw instruction at word address a
          machine,       \* registers, memory and the resident pages
          status         \* "running", "aborted" or "left" (ran off the code)

R31 == MaxReg

\* Code is one page, the page of address 0.
PageOf(addr) == IF addr \in DataAddr THEN 1 + (addr - DataBase) \div PageSize ELSE 0

Page == {PageOf(a) : a \in {0} \cup DataAddr}

-----------------------------------------------------------------------------
\* Decoding: table positions are the values of bits 31:26 and 5:0.
opTable ==
    <<"SPECIAL", "BCOND", "J", "JAL", "BEQ", "BNE", "BLEZ", "BGTZ",
      "ADDI", "ADDIU", "SLTI", "SLTIU", "ANDI", "ORI", "XORI", "LUI",
      "UNIMP", "UNIMP", "UNIMP", "UNIMP", "RES", "RES", "RES", "RES",
      "RES", "RES", "RES", "RES", "RES", "RES", "RES", "RES",
      "LB", "LH", "LWL", "LW", "LBU", "LHU", "LWR", "RES",
      "SB", "SH", "SWL", "SW", "RES", "RES", "SWR", "RES",
      "UNIMP", "UNIMP", "UNIMP", "UNIMP", "RES", "RES", "RES", "RES",
      "UNIMP", "UNIMP", "UNIMP", "UNIMP", "RES", "RES", "RES", "RES">>

specialTable ==
    <<"SLL", "RES", "SRL", "SRA", "SLLV", "RES", "SRLV", "SRAV",
      "JR", "JALR", "RES", "RES", "SYSCALL", "UNIMP", "RES", "RES",
      "MFHI", "MTHI", "MFLO", "MTLO", "RES", "RES", "RES", "RES",
      "MULT", "MULTU", "DIV", "DIVU", "RES", "RES", "RES", "RES",
      "ADD", "ADDU", "SUB", "SUBU", "AND", "OR", "XOR", "NOR",
      "RES", "RES", "SLT", "SLTU", "RES", "RES", "RES", "RES">>

Decode(raw) ==
    LET entry == opTable[raw.op + 1]
        bcond == [r \in {0, 1, 16, 17} |->
                     CASE r = 0 -> "BLTZ" [] r = 1 -> "BGEZ" [] r = 16 -> "BLTZAL" [] r = 17 -> "BGEZAL"]
    IN  [opCode |-> CASE entry = "SPECIAL" -> IF raw.funct < 48 THEN specialTable[raw.funct + 1] ELSE "RES"
                      [] entry = "BCOND" -> IF raw.rt \in DOMAIN bcond THEN bcond[raw.rt] ELSE "UNIMP"
                      [] OTHER -> entry,
         rs |-> raw.rs, rt |-> raw.rt, rd |-> raw.rd,
         extra |-> CASE entry = "SPECIAL" -> raw.shamt
                     [] entry \in {"J", "JAL"} -> raw.target
                     [] OTHER -> Extend(raw.imm, HalfBits)]

-----------------------------------------------------------------------------
\* What an instruction comes to: the machine it leaves, the pcAfter it
\* computed, the load it delays, and the exception that cut it short.
Completes(m) ==
    [machine |-> m, pcAfter |-> Wrap(m.NextPC + 4), load |-> <<0, 0>>,
     exception |-> "NoException", badVAddr |-> 0]

Sets(m, r, v) == Completes([m EXCEPT !.gpr[r] = v])

Jumps(m, addr) == [Completes(m) EXCEPT !.pcAfter = addr]

Delays(m, r, v) == [Completes(m) EXCEPT !.load = <<r, v>>]

Raises(m, which, addr) == [Completes(m) EXCEPT !.exception = which, !.badVAddr = addr]

\* The result of Machine::Translate for a data access.
Translate(m, addr, size) ==
    CASE addr % size # 0 -> "AddressErrorException"
      [] addr \notin DataAddr -> "OutsideData"
      [] PageOf(addr) \notin m.resident -> "PageFaultException"
      [] OTHER -> "NoException"

\* The value ReadMem returns; a char is signed, a short is not.
ReadMem(m, addr, size) ==
    LET data == BytesAt(m.memory, addr, size)
    IN  IF size = 1 THEN Extend(data, ByteBits) ELSE data

\* ReadMem, then Use of the value it read.
Reading(m, addr, size, Use(_)) ==
    LET exception == Translate(m, addr, size)
    IN  IF exception # "NoException" THEN Raises(m, exception, addr)
        ELSE Use(ReadMem(m, addr, size))

\* WriteMem of the low bytes of v.
Writing(m, addr, size, v) ==
    LET exception == Translate(m, addr, size)
    IN  IF exception # "NoException" THEN Raises(m, exception, addr)
        ELSE Completes([m EXCEPT !.memory = WithBytes(@, addr, size, v)])

-----------------------------------------------------------------------------
\* The overflow tests of ADD, ADDI and SUB compare sign bits.
SignsIgnored(a, b) == Negative(Wrap(a + b)) # Negative(b)  \* mutant

AddOverflows(a, b) == Negative(a) = Negative(b) /\ Negative(Wrap(a + b)) # Negative(b)

SubOverflows(a, b) == Negative(a) # Negative(b) /\ Negative(Wrap(a - b)) # Negative(a)

AddAnd(m, i, rs, rt) ==
    CASE i.opCode = "ADD" -> IF AddOverflows(rs, rt) THEN Raises(m, "OverflowException", 0)
                             ELSE Sets(m, i.rd, Wrap(rs + rt))
      [] i.opCode = "ADDI" -> IF AddOverflows(rs, i.extra) THEN Raises(m, "OverflowException", 0)
                              ELSE Sets(m, i.rt, Wrap(rs + i.extra))
      [] i.opCode = "ADDIU" -> Sets(m, i.rt, Wrap(rs + i.extra))
      [] i.opCode = "ADDU" -> Sets(m, i.rd, Wrap(rs + rt))
      [] i.opCode = "AND" -> Sets(m, i.rd, rs & rt)
      [] i.opCode = "ANDI" -> Sets(m, i.rt, rs & Low(i.extra, HalfBits))

\* BGEZAL and BLTZAL set R31 before they read rs.
Branch(m, i) ==
    LET linked == IF i.opCode \in {"BGEZAL", "BLTZAL"} THEN [m EXCEPT !.gpr[R31] = Wrap(m.NextPC + 4)] ELSE m
        rs == linked.gpr[i.rs]
        taken == CASE i.opCode = "BEQ" -> rs = m.gpr[i.rt]
                   [] i.opCode \in {"BGEZ", "BGEZAL"} -> ~Negative(rs)
                   [] i.opCode = "BGTZ" -> Signed(rs) > 0
                   [] i.opCode = "BLEZ" -> Signed(rs) <= 0
                   [] i.opCode \in {"BLTZ", "BLTZAL"} -> Negative(rs)
                   [] i.opCode = "BNE" -> rs # m.gpr[i.rt]
    IN  IF taken THEN Jumps(linked, Wrap(m.NextPC + IndexToAddr(i.extra))) ELSE Completes(linked)

\* The host traps on the most negative int divided by -1.
Divide(m, i, rs, rt) ==
    CASE rt = 0 -> Completes([m EXCEPT !.Lo = 0, !.Hi = 0])
      [] rt # 0 /\ i.opCode = "DIVU" -> Completes([m EXCEPT !.Lo = rs \div rt, !.Hi = rs % rt])
      [] rt # 0 /\ i.opCode = "DIV" /\ rs = Radix \div 2 /\ rt = Radix - 1 -> Raises(m, "HostTrap", 0)
      [] OTHER -> Completes([m EXCEPT !.Lo = Wrap(Quotient(Signed(rs), Signed(rt))),
                                      !.Hi = Wrap(Remainder(Signed(rs), Signed(rt)))])

\* The region of a jump is the top eighth of the bits of pcAfter; JALR sets
\* rd before it reads rs.
RegionSize == 2^(WordBits - WordBits \div 8)

Jump(m, i) ==
    LET after == Wrap(m.NextPC + 4)
        link(r) == [m EXCEPT !.gpr[r] = after]
        region == (after \div RegionSize) * RegionSize
    IN  CASE i.opCode = "J" -> Jumps(m, region | IndexToAddr(i.extra))
          [] i.opCode = "JAL" -> Jumps(link(R31), region | IndexToAddr(i.extra))
          [] i.opCode = "JR" -> Jumps(m, m.gpr[i.rs])
          [] i.opCode = "JALR" -> Jumps(link(i.rd), link(i.rd).gpr[i.rs])

Load(m, i, addr) ==
    CASE i.opCode = "LB" -> Reading(m, addr, 1, LAMBDA v : Delays(m, i.rt, Extend(v, ByteBits)))
      [] i.opCode = "LBU" -> Reading(m, addr, 1, LAMBDA v : Delays(m, i.rt, Low(v, ByteBits)))
      [] i.opCode = "LH" -> Reading(m, addr, 2, LAMBDA v : Delays(m, i.rt, Extend(v, HalfBits)))
      [] i.opCode = "LHU" -> Reading(m, addr, 2, LAMBDA v : Delays(m, i.rt, Low(v, HalfBits)))
      [] i.opCode = "LUI" -> Sets(m, i.rt, ShiftLeft(i.extra, HalfBits))
      [] i.opCode = "LW" -> Reading(m, addr, 4, LAMBDA v : Delays(m, i.rt, v))

\* LWL and LWR assert an aligned address, so only their first case is left:
\* the whole word, and the top byte of the word over the low byte of rt, whose
\* value is the pending load's if there is one.
LoadPart(m, i, addr) ==
    LET old == IF m.LoadReg = i.rt THEN m.LoadValue ELSE m.gpr[i.rt]
    IN  CASE addr % 4 # 0 -> Raises(m, "Assert", 0)
          [] addr % 4 = 0 /\ i.opCode = "LWL" -> Reading(m, addr, 4, LAMBDA v : Delays(m, i.rt, v))
          [] OTHER -> Reading(m, addr, 4, LAMBDA v :
                        Delays(m, i.rt, (old - Low(old, ByteBits)) | ShiftUnsigned(v, 3 * ByteBits)))

\* Lower than an addend: the sum wrapped around.
CarryDropped(lo, bLo) == 0  \* mutant: no carry

MultCarry(lo, bLo) == Truth(lo < bLo)

\* The double-length product, by adding shifted copies of b for the bits of a.
\* a is an int: -a of the most negative one is itself, and a >>= 1 keeps its
\* sign, so for a negative a all the WordBits rounds are run.
MultLoop(a, b) ==
    LET round[n \in 0..WordBits] ==
            IF n = 0 THEN [a |-> a, bLo |-> b, bHi |-> 0, lo |-> 0, hi |-> 0, done |-> FALSE]
            ELSE LET s == round[n - 1]
                     odd == s.a % 2 = 1
                     lo == IF odd THEN Wrap(s.lo + s.bLo) ELSE s.lo
                     hi == IF odd THEN Wrap(s.hi + s.bHi + MultCarry(lo, s.bLo)) ELSE s.hi
                 IN  IF s.done THEN s
                     ELSE IF odd /\ s.a = 1 THEN [s EXCEPT !.lo = lo, !.hi = hi, !.done = TRUE]
                     ELSE [a |-> ShiftSigned(s.a, 1), bLo |-> ShiftLeft(s.bLo, 1),
                           bHi |-> Wrap(2 * s.bHi + Truth(Negative(s.bLo))), lo |-> lo, hi |-> hi, done |-> FALSE]
    IN  <<round[WordBits].hi, round[WordBits].lo>>

Mult(a, b, signedArith) ==
    LET negate(x) == signedArith /\ Negative(x)
        positive(x) == IF negate(x) THEN Wrap(-x) ELSE x
        product == MultLoop(positive(a), positive(b))
        lo == Wrap(Complement(product[2]) + 1)
    IN  CASE a = 0 \/ b = 0 -> <<0, 0>>
          [] a # 0 /\ b # 0 /\ negate(a) = negate(b) -> product
          [] OTHER -> <<Wrap(Complement(product[1]) + Truth(lo = 0)), lo>>

HiLo(m, i, rs, rt) ==
    LET product == Mult(rs, rt, i.opCode = "MULT")
    IN  CASE i.opCode = "MFHI" -> Sets(m, i.rd, m.Hi)
          [] i.opCode = "MFLO" -> Sets(m, i.rd, m.Lo)
          [] i.opCode = "MTHI" -> Completes([m EXCEPT !.Hi = rs])
          [] i.opCode = "MTLO" -> Completes([m EXCEPT !.Lo = rs])
          [] OTHER -> Completes([m EXCEPT !.Hi = product[1], !.Lo = product[2]])

\* OR combines rs with itself.
OrNor(m, i, rs, rt) ==
    CASE i.opCode = "NOR" -> Sets(m, i.rd, Complement(rs | rt))
      [] i.opCode = "OR" -> Sets(m, i.rd, rs | rs)
      [] i.opCode = "ORI" -> Sets(m, i.rt, rs | Low(i.extra, HalfBits))

StorePart(m, i, addr) == Writing(m, addr, IF i.opCode = "SB" THEN 1 ELSE 2, m.gpr[i.rt])

LeftOrLess(m, i, rs, rt) ==
    CASE i.opCode = "SLL" -> Sets(m, i.rd, ShiftLeft(rt, i.extra))
      [] i.opCode = "SLLV" -> Sets(m, i.rd, ShiftLeft(rt, rs % WordBits))
      [] i.opCode = "SLT" -> Sets(m, i.rd, Truth(Signed(rs) < Signed(rt)))
      [] i.opCode = "SLTI" -> Sets(m, i.rt, Truth(Signed(rs) < Signed(i.extra)))
      [] i.opCode = "SLTIU" -> Sets(m, i.rt, Truth(rs < i.extra))
      [] i.opCode = "SLTU" -> Sets(m, i.rd, Truth(rs < rt))

\* SRL and SRLV shift the int tmp, so they shift as SRA and SRAV do.
ShiftRight(m, i, rs, rt) ==
    Sets(m, i.rd, ShiftSigned(rt, IF i.opCode \in {"SRA", "SRL"} THEN i.extra ELSE rs % WordBits))

Sub(m, i, rs, rt) ==
    IF i.opCode = "SUB" /\ SubOverflows(rs, rt) THEN Raises(m, "OverflowException", 0)
    ELSE Sets(m, i.rd, Wrap(rs - rt))

StoreWord(m, i, addr) == Writing(m, addr, 4, m.gpr[i.rt])

\* SWL and SWR also assert an aligned address; SWR keeps the word's low bytes.
StoreWordPart(m, i, addr) ==
    IF addr % 4 # 0 THEN Raises(m, "Assert", 0)
    ELSE Reading(m, addr, 4, LAMBDA v :
           Writing(m, addr, 4,
                   IF i.opCode = "SWL" THEN m.gpr[i.rt]
                   ELSE Low(v, 3 * ByteBits) | ShiftLeft(m.gpr[i.rt], 3 * ByteBits)))

ExclusiveOr(m, i, rs, rt) ==
    IF i.opCode = "XOR" THEN Sets(m, i.rd, rs ^^ rt) ELSE Sets(m, i.rt, rs ^^ Low(i.extra, HalfBits))

-----------------------------------------------------------------------------
Perform(m, i) ==
    LET rs == m.gpr[i.rs]
        rt == m.gpr[i.rt]
        addr == Wrap(rs + i.extra)
        op == i.opCode
    IN  CASE op \in {"BEQ", "BGEZAL", "BGEZ", "BGTZ", "BLEZ", "BLTZAL", "BLTZ", "BNE"} -> Branch(m, i)
          [] op \in {"ADD", "ADDI", "ADDIU", "ADDU", "AND", "ANDI"} -> AddAnd(m, i, rs, rt)
          [] op \in {"DIV", "DIVU"} -> Divide(m, i, rs, rt)
          [] op \in {"JAL", "J", "JALR", "JR"} -> Jump(m, i)
          [] op \in {"LB", "LBU", "LH", "LHU", "LUI", "LW"} -> Load(m, i, addr)
          [] op \in {"LWL", "LWR"} -> LoadPart(m, i, addr)
          [] op \in {"MFHI", "MFLO", "MTHI", "MTLO", "MULT", "MULTU"} -> HiLo(m, i, rs, rt)
          [] op \in {"NOR", "OR", "ORI"} -> OrNor(m, i, rs, rt)
          [] op \in {"SB", "SH"} -> StorePart(m, i, addr)
          [] op \in {"SLL", "SLLV", "SLT", "SLTI", "SLTIU", "SLTU"} -> LeftOrLess(m, i, rs, rt)
          [] op \in {"SRA", "SRAV", "SRL", "SRLV"} -> ShiftRight(m, i, rs, rt)
          [] op \in {"SUB", "SUBU"} -> Sub(m, i, rs, rt)
          [] op = "SW" -> StoreWord(m, i, addr)
          [] op \in {"SWL", "SWR"} -> StoreWordPart(m, i, addr)
          [] op = "SYSCALL" -> Raises(m, "SyscallException", 0)
          [] op \in {"XOR", "XORI"} -> ExclusiveOr(m, i, rs, rt)
          [] op \in {"RES", "UNIMP"} -> Raises(m, "IllegalInstrException", 0)

\* The pending load reaches its register, the next one becomes pending.
DelayedLoad(m, nextReg, nextValue) ==
    [m EXCEPT !.gpr = [[@ EXCEPT ![m.LoadReg] = m.LoadValue] EXCEPT ![0] = 0],
              !.LoadReg = nextReg, !.LoadValue = nextValue]

Advance(m, pcAfter) == [m EXCEPT !.PC = m.NextPC, !.NextPC = pcAfter]

\* An instruction that raises an exception changes no register and no memory
\* before it does, so what it raised is applied to the machine it started from.
PendingLoadLost(m, badVAddr) ==  \* mutant: the pending load is dropped
    [m EXCEPT !.LoadReg = 0, !.LoadValue = 0, !.BadVAddr = badVAddr]

RaiseException(m, badVAddr) == [DelayedLoad(m, 0, 0) EXCEPT !.BadVAddr = badVAddr]

\* The instruction at PC; its fetch may raise the exception.
Outcome ==
    IF 0 \notin machine.resident THEN Raises(machine, "PageFaultException", machine.PC)
    ELSE Perform(machine, Decode(code[machine.PC]))

Running == status = "running" /\ machine.PC \in DOMAIN code

\* OneInstruction, when nothing is raised.
Step ==
    /\ Running
    /\ Outcome.exception = "NoException"
    /\ LET done == DelayedLoad(Outcome.machine, Outcome.load[1], Outcome.load[2])
       IN  machine' = Advance(done, Outcome.pcAfter)
    /\ UNCHANGED <<code, status>>

\* A page fault: the kernel makes the page resident and perhaps evicts others,
\* and the instruction is restarted.
Fault ==
    /\ Running
    /\ Outcome.exception = "PageFaultException"
    /\ \E kept \in {{}, machine.resident} :
          machine' = [RaiseException(machine, Outcome.badVAddr) EXCEPT
                         !.resident = kept \cup {PageOf(Outcome.badVAddr)}]
    /\ UNCHANGED <<code, status>>

\* A system call that returns to the program: the handler advances the PC.
AdvancePC(m) == [m EXCEPT !.PC = Wrap(@ + 4), !.NextPC = Wrap(@ + 4)]

Syscall ==
    /\ Running
    /\ Outcome.exception = "SyscallException"
    /\ machine' = AdvancePC(RaiseException(machine, 0))
    /\ UNCHANGED <<code, status>>

\* Every other exception ends in the ASSERT(FALSE) of the exception handler,
\* or has already ended the simulation.
Abort ==
    /\ Running
    /\ Outcome.exception \notin {"NoException", "PageFaultException", "SyscallException"}
    /\ status' = "aborted"
    /\ UNCHANGED <<code, machine>>

Leave ==
    /\ status = "running"
    /\ machine.PC \notin DOMAIN code
    /\ status' = "left"
    /\ UNCHANGED <<code, machine>>

=============================================================================

---------------------------- MODULE Interpreters ----------------------------
(***************************************************************************)
(* The two interpreters side by side: the Nachos machine of module Mips,   *)
(* with its delayed loads, page faults and restarted instructions, and the *)
(* sequential interpreter of module Execute, run on the same program.      *)
(***************************************************************************)
EXTENDS Mips, Execute

VARIABLES x,             \* the machine of execute.c
          portable       \* every instruction so far means the same to both

vars == <<code, machine, status, x, portable>>

Blank(gpr, data, resident) ==
    /\ machine = [gpr |-> gpr, Hi |-> 0, Lo |-> 0, PC |-> 0, NextPC |-> 4, LoadReg |-> 0, LoadValue |-> 0,
                  BadVAddr |-> 0, memory |-> data, resident |-> resident]
    /\ x = [Reg |-> gpr, HI |-> 0, LO |-> 0, pc |-> 0, npc |-> 4, mem |-> data, state |-> "running"]
    /\ status = "running"
    /\ portable = TRUE

-----------------------------------------------------------------------------
Branches == {"BEQ", "BNE", "BLEZ", "BGTZ", "BLTZ", "BGEZ", "BLTZAL", "BGEZAL", "J", "JAL", "JR", "JALR"}

\* The registers an instruction reads or writes.
Touches(i) ==
         {i.rs}
    \cup (IF i.opCode \in {"BLTZ", "BGEZ", "BLTZAL", "BGEZAL"} THEN {} ELSE {i.rt, i.rd})
    \cup (IF i.opCode \in {"BLTZAL", "BGEZAL", "JAL"} THEN {R31} ELSE {})

(***************************************************************************)
(* An instruction means the same to both interpreters when                 *)
(*   - it leaves the register of a pending load alone (the delayed load);  *)
(*   - no branch and no system call is in the delay slot of a branch;      *)
(*   - it is not one of those that the two disagree on: OR and a right     *)
(*     shift of a negative word in mipssim.cc; ANDI, ORI, XORI with a      *)
(*     negative immediate, MULT and MULTU with a product that needs more   *)
(*     than a word, LWL, LWR, SWL, SWR, division by zero and the missing   *)
(*     overflow test in execute.c; BREAK, J across the end of a region and *)
(*     JALR into its own link register.                                    *)
(***************************************************************************)
MeansTheSame(m, raw) ==
    LET i == Decode(raw)
        op == i.opCode
        rs == m.gpr[i.rs]
        rt == m.gpr[i.rt]
    IN  /\ m.LoadReg = 0 \/ m.LoadReg \notin Touches(i)
        /\ op \in Branches \cup {"SYSCALL"} => m.NextPC = Wrap(m.PC + 4)
        /\ op = "OR" => (rs | rt) = rs
        /\ op \in {"SRL", "SRLV"} => ~Negative(rt) \/ (IF op = "SRL" THEN i.extra ELSE rs % WordBits) = 0
        /\ op \in {"ANDI", "ORI", "XORI"} => ~Negative(i.extra)
        /\ op \in {"MULT", "MULTU"} =>
              \A v \in {rs, rt} : v < 2^(HalfBits - 1) \/ (op = "MULT" /\ Radix - v < 2^(HalfBits - 1))
        /\ op \in {"DIV", "DIVU"} => rt # 0
        /\ op \in {"J", "JAL"} => (m.NextPC + 4) \div RegionSize = m.PC \div RegionSize
        /\ op = "JALR" => i.rd # i.rs
        /\ op \notin {"LWL", "LWR", "SWL", "SWR"}

\* Mips completes an instruction, which may be a system call: so does Execute.
Both ==
    /\ Step \/ Syscall
    /\ LET raw == code[machine.PC]
       IN  /\ portable' = (portable /\ MeansTheSame(machine, raw))
           /\ x' = IF portable' THEN runprogram(x, raw) ELSE x

Next ==
    \/ Both
    \/ Fault /\ UNCHANGED <<x, portable>>
    \/ Abort /\ UNCHANGED <<x, portable>>
    \/ Leave /\ UNCHANGED <<x, portable>>

-----------------------------------------------------------------------------
\* Page faults, restarts and delayed loads are invisible to a program: as long
\* as its instructions mean the same to both interpreters, the registers (the
\* pending load applied), HI, LO, the two program counters and the memory of
\* the Nachos machine are those of execute.c, which has none of the three.
InterpretersAgree ==
    portable =>
        /\ x.state = "running"
        /\ LET flushed == DelayedLoad(machine, 0, 0)
           IN  \A r \in 1..MaxReg : flushed.gpr[r] = x.Reg[r]
        /\ <<machine.Hi, machine.Lo>> = <<x.HI, x.LO>>
        /\ <<machine.PC, machine.NextPC>> = <<x.pc, x.npc>>
        /\ machine.memory = x.mem

\* ADD, ADDI and SUB raise OverflowException exactly when the sum or the
\* difference of the two ints is no int, although the code only looks at sign
\* bits of the wrapped result.
OverflowExact ==
    Running =>
        LET i == Decode(code[machine.PC])
            rs == Signed(machine.gpr[i.rs])
            rt == Signed(machine.gpr[i.rt])
            exact == CASE i.opCode = "ADD" -> rs + rt
                       [] i.opCode = "ADDI" -> rs + Signed(i.extra)
                       [] i.opCode = "SUB" -> rs - rt
        IN  i.opCode \in {"ADD", "ADDI", "SUB"} /\ 0 \in machine.resident =>
               (Outcome.exception = "OverflowException") = (exact \notin (-(Radix \div 2))..(Radix \div 2 - 1))

\* Mult's shift-and-add loop computes the double-length product, signed for
\* MULT and unsigned for MULTU, for all operands: the most negative int, whose
\* negation overflows, and multipliers whose arithmetic shift never gets to
\* zero included.
MultIsProduct ==
    Running =>
        LET i == Decode(code[machine.PC])
            rs == machine.gpr[i.rs]
            rt == machine.gpr[i.rt]
            value(w) == IF i.opCode = "MULT" THEN Signed(w) ELSE w
            product == (value(rs) * value(rt)) % (Radix * Radix)
        IN  i.opCode \in {"MULT", "MULTU"} =>
               Mult(rs, rt, i.opCode = "MULT") = <<product \div Radix, product % Radix>>

\* The arithmetic that the code does by hand is exact: the overflow tests and
\* the multiplication loop.
ArithmeticExact == OverflowExact /\ MultIsProduct

=============================================================================

------------------------------- MODULE Execute -------------------------------
(***************************************************************************)
(* bin/execute.c: the stand-alone interpreter for the same MIPS programs.  *)
(* It has a branch delay slot but no delayed load, no exceptions and no    *)
(* translation; memory is one array, indexed here by the addresses of      *)
(* module Mips (memoffset is taken off).  A machine x is the record of     *)
(* Reg, HI, LO, pc, npc, mem and state, which is "running", "exited"       *)
(* (u() and exit()) or "trapped" (the host's SIGFPE on a division).        *)
(***************************************************************************)
EXTENDS Words

\* encode.h
I ==
    [SPECIAL |-> 0, BCOND |-> 1, J |-> 2, JAL |-> 3, BEQ |-> 4, BNE |-> 5, BLEZ |-> 6, BGTZ |-> 7,
     ADDI |-> 8, ADDIU |-> 9, SLTI |-> 10, SLTIU |-> 11, ANDI |-> 12, ORI |-> 13, XORI |-> 14, LUI |-> 15,
     LB |-> 32, LH |-> 33, LWL |-> 34, LW |-> 35, LBU |-> 36, LHU |-> 37, LWR |-> 38,
     SB |-> 40, SH |-> 41, SW |-> 43]

S ==
    [SLL |-> 0, SRL |-> 2, SRA |-> 3, SLLV |-> 4, SRLV |-> 6, SRAV |-> 7, JR |-> 8, JALR |-> 9,
     SYSCALL |-> 12, BREAK |-> 13, MFHI |-> 16, MTHI |-> 17, MFLO |-> 18, MTLO |-> 19,
     MULT |-> 24, MULTU |-> 25, DIV |-> 26, DIVU |-> 27, ADD |-> 32, ADDU |-> 33, SUB |-> 34, SUBU |-> 35,
     AND |-> 36, OR |-> 37, XOR |-> 38, NOR |-> 39, SLT |-> 42, SLTU |-> 43]

B == [BLTZ |-> 0, BGEZ |-> 1, BLTZAL |-> 16, BGEZAL |-> 17]

immed(raw) == Extend(raw.imm, HalfBits)

fetch(x, addr) == BytesAt(x.mem, addr, 4)

Puts(x, r, v) == [x EXCEPT !.Reg[r] = v]

Exits(x) == [x EXCEPT !.state = "exited"]

\* A shift by a register is not masked: the host's shift uses the low bits of
\* the count, the compiler being free to do otherwise.
XShift(x, raw, f) ==
    LET rs == x.Reg[raw.rs] % WordBits
        rt == x.Reg[raw.rt]
        v == CASE f = S.SLL -> ShiftLeft(rt, raw.shamt)
               [] f = S.SRL -> ShiftUnsigned(rt, raw.shamt)
               [] f = S.SRA -> ShiftSigned(rt, raw.shamt)
               [] f = S.SLLV -> ShiftLeft(rt, rs)
               [] f = S.SRLV -> ShiftUnsigned(rt, rs)
               [] f = S.SRAV -> ShiftSigned(rt, rs)
    IN  Puts(x, raw.rd, v)

XJumpRegister(x, raw, xpc) ==
    LET y == [x EXCEPT !.npc = x.Reg[raw.rs]]
    IN  IF raw.funct = S.JALR THEN Puts(y, raw.rd, Wrap(xpc + 8)) ELSE y

\* HI is made of the high half products without the carry out of the low ones.
XMult(x, raw) ==
    LET half == 2^HalfBits
        negate(v) == raw.funct = S.MULT /\ Negative(v)
        positive(v) == IF negate(v) THEN Wrap(-v) ELSE v
        t1 == positive(x.Reg[raw.rs])
        t2 == positive(x.Reg[raw.rt])
        middle(h, l) == ShiftSigned(Wrap(h * l), HalfBits)
        LO == Wrap(t1 * t2)
        HI == Wrap((t1 \div half) * (t2 \div half) + middle(t1 \div half, t2 % half) + middle(t2 \div half, t1 % half))
        negLO == Wrap(Complement(LO) + 1)
    IN  IF negate(x.Reg[raw.rs]) = negate(x.Reg[raw.rt]) THEN [x EXCEPT !.HI = HI, !.LO = LO]
        ELSE [x EXCEPT !.HI = Wrap(Complement(HI) + Truth(negLO = 0)), !.LO = negLO]

XDivide(x, raw) ==
    LET rs == x.Reg[raw.rs]
        rt == x.Reg[raw.rt]
        overflow == raw.funct = S.DIV /\ rs = Radix \div 2 /\ rt = Radix - 1
    IN  IF rt = 0 \/ overflow THEN [x EXCEPT !.state = "trapped"]
        ELSE IF raw.funct = S.DIVU THEN [x EXCEPT !.LO = rs \div rt, !.HI = rs % rt]
        ELSE [x EXCEPT !.LO = Wrap(Quotient(Signed(rs), Signed(rt))),
                       !.HI = Wrap(Remainder(Signed(rs), Signed(rt)))]

XHiLo(x, raw, f) ==
    CASE f = S.MFHI -> Puts(x, raw.rd, x.HI)
      [] f = S.MTHI -> [x EXCEPT !.HI = x.Reg[raw.rs]]
      [] f = S.MFLO -> Puts(x, raw.rd, x.LO)
      [] f = S.MTLO -> [x EXCEPT !.LO = x.Reg[raw.rs]]

\* ADD and SUB do not test for overflow.
XArith(x, raw, f) ==
    LET rs == x.Reg[raw.rs]
        rt == x.Reg[raw.rt]
        v == CASE f \in {S.ADD, S.ADDU} -> Wrap(rs + rt)
               [] f \in {S.SUB, S.SUBU} -> Wrap(rs - rt)
               [] f = S.AND -> rs & rt
               [] f = S.OR -> rs | rt
               [] f = S.XOR -> rs ^^ rt
               [] f = S.NOR -> Complement(rs | rt)
               [] f = S.SLT -> Truth(Signed(rs) < Signed(rt))
               [] f = S.SLTU -> Truth(rs < rt)
    IN  Puts(x, raw.rd, v)

\* SYSCALL and BREAK are system_trap, whose calls on the host are no part of
\* the program's state.
XSpecial(x, raw, xpc) ==
    LET f == raw.funct
    IN  CASE f \in {S.SLL, S.SRL, S.SRA, S.SLLV, S.SRLV, S.SRAV} -> XShift(x, raw, f)
          [] f \in {S.JR, S.JALR} -> XJumpRegister(x, raw, xpc)
          [] f \in {S.SYSCALL, S.BREAK} -> x
          [] f \in {S.MFHI, S.MTHI, S.MFLO, S.MTLO} -> XHiLo(x, raw, f)
          [] f \in {S.MULT, S.MULTU} -> XMult(x, raw)
          [] f \in {S.DIV, S.DIVU} -> XDivide(x, raw)
          [] f \in {S.ADD, S.ADDU, S.SUB, S.SUBU, S.AND, S.OR, S.XOR, S.NOR, S.SLT, S.SLTU} -> XArith(x, raw, f)
          [] OTHER -> Exits(x)

XBcond(x, raw, xpc) ==
    LET op == raw.rt
        linked == IF op \in {B.BLTZAL, B.BGEZAL} THEN Puts(x, MaxReg, Wrap(xpc + 8)) ELSE x
        taken == Negative(linked.Reg[raw.rs]) = (op \in {B.BLTZ, B.BLTZAL})
    IN  CASE op \notin {B.BLTZ, B.BGEZ, B.BLTZAL, B.BGEZAL} -> Exits(x)
          [] OTHER -> IF taken THEN [linked EXCEPT !.npc = Wrap(xpc + 4 + IndexToAddr(immed(raw)))] ELSE linked

XRegionSize == 2^(WordBits - WordBits \div 8)

XJump(x, raw, xpc) ==
    LET y == [x EXCEPT !.npc = ((xpc \div XRegionSize) * XRegionSize) | IndexToAddr(raw.target)]
    IN  IF raw.op = I.JAL THEN Puts(y, MaxReg, Wrap(xpc + 8)) ELSE y

XBranch(x, raw, xpc) ==
    LET rs == x.Reg[raw.rs]
        taken == CASE raw.op = I.BEQ -> rs = x.Reg[raw.rt]
                   [] raw.op = I.BNE -> rs # x.Reg[raw.rt]
                   [] raw.op = I.BLEZ -> Signed(rs) <= 0
                   [] raw.op = I.BGTZ -> Signed(rs) > 0
    IN  IF taken THEN [x EXCEPT !.npc = Wrap(xpc + 4 + IndexToAddr(immed(raw)))] ELSE x

\* Every immediate is sign-extended, those of ANDI, ORI and XORI too.
XImmediate(x, raw) ==
    LET rs == x.Reg[raw.rs]
        imm == immed(raw)
        v == CASE raw.op \in {I.ADDI, I.ADDIU} -> Wrap(rs + imm)
               [] raw.op = I.SLTI -> Truth(Signed(rs) < Signed(imm))
               [] raw.op = I.SLTIU -> Truth(rs < imm)
               [] raw.op = I.ANDI -> rs & imm
               [] raw.op = I.ORI -> rs | imm
               [] raw.op = I.XORI -> rs ^^ imm
               [] raw.op = I.LUI -> ShiftLeft(raw.imm, HalfBits)
    IN  Puts(x, raw.rt, v)

\* LWL keeps some of rt even for a whole word; LWR clears rt for one.
XLoad(x, raw, addr) ==
    LET rt == x.Reg[raw.rt]
        k == addr % 4
        word == fetch(x, addr - k)
        ones == Radix - 1
        v == CASE raw.op = I.LB -> Extend(BytesAt(x.mem, addr, 1), ByteBits)
               [] raw.op = I.LH -> Extend(BytesAt(x.mem, addr, 2), HalfBits)
               [] raw.op = I.LWL -> rt | ShiftLeft(word, ByteBits * k)
               [] raw.op = I.LW -> fetch(x, addr)
               [] raw.op = I.LBU -> BytesAt(x.mem, addr, 1)
               [] raw.op = I.LHU -> BytesAt(x.mem, addr, 2)
               [] raw.op = I.LWR -> (IF k = 0 THEN 0 ELSE rt & ShiftLeft(ones, ByteBits * k))
                                      | ShiftSigned(word, ByteBits * ((4 - k) % 4))
    IN  Puts(x, raw.rt, v)

XStore(x, raw, addr) ==
    LET size == CASE raw.op = I.SB -> 1 [] raw.op = I.SH -> 2 [] raw.op = I.SW -> 4
    IN  [x EXCEPT !.mem = WithBytes(@, addr, size, x.Reg[raw.rt])]

\* An access outside the array is the host's to judge; the interpreter is only
\* followed where its accesses are inside.
XWidth(raw) ==
    CASE raw.op \in {I.LB, I.LBU, I.SB} -> 1 [] raw.op \in {I.LH, I.LHU, I.SH} -> 2 [] OTHER -> 4

XInside(raw, addr) ==
    LET first == IF raw.op \in {I.LWL, I.LWR} THEN addr - (addr % 4) ELSE addr
    IN  first..(first + XWidth(raw) - 1) \subseteq DataAddr

\* One round of runprogram's loop.  SWL, SWR, the coprocessors and every code
\* without a case end the program.
runprogram(x0, raw) ==
    LET xpc == x0.pc
        x == [x0 EXCEPT !.pc = x0.npc, !.npc = Wrap(x0.npc + 4), !.Reg[0] = 0]
        addr == Wrap(x.Reg[raw.rs] + immed(raw))
        memory == {I.LB, I.LH, I.LWL, I.LW, I.LBU, I.LHU, I.LWR, I.SB, I.SH, I.SW}
    IN  CASE raw.op = I.SPECIAL -> XSpecial(x, raw, xpc)
          [] raw.op = I.BCOND -> XBcond(x, raw, xpc)
          [] raw.op \in {I.J, I.JAL} -> XJump(x, raw, xpc)
          [] raw.op \in {I.BEQ, I.BNE, I.BLEZ, I.BGTZ} -> XBranch(x, raw, xpc)
          [] raw.op \in {I.ADDI, I.ADDIU, I.SLTI, I.SLTIU, I.ANDI, I.ORI, I.XORI, I.LUI} -> XImmediate(x, raw)
          [] raw.op \in memory /\ ~XInside(raw, addr) -> [x EXCEPT !.state = "trapped"]
          [] raw.op \in {I.LB, I.LH, I.LWL, I.LW, I.LBU, I.LHU, I.LWR} /\ XInside(raw, addr) -> XLoad(x, raw, addr)
          [] raw.op \in {I.SB, I.SH, I.SW} /\ XInside(raw, addr) -> XStore(x, raw, addr)
          [] OTHER -> Exits(x)

=============================================================================

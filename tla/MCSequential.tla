---------------------------- MODULE MCSequential ----------------------------
(***************************************************************************)
(* The parts below the kernel's concurrency, one at a time.  The           *)
(* processor: both interpreters on all one-instruction programs over       *)
(* boundary operands, and on all three-instruction programs over a few     *)
(* instructions that make delayed loads, delay slots, faults and restarts  *)
(* meet.  The disk: any requests to three tracks with four sectors.  The   *)
(* context switch: three threads on each of three machines.  The list:     *)
(* any operations on a list of four cells.  The bitmap: any operations on  *)
(* one that fills its words and on one that does not.  The command line:   *)
(* up to three options in each build.                                      *)
(***************************************************************************)
EXTENDS Interpreters, Disk, Switch, ListCells, BitMap, CommandLine

CONSTANTS Operands1, Operands2     \* boundary values of registers 1 and 2

VARIABLE part  \* which part is looked at

Instr(op, rs, rt, imm) ==
    [op |-> op, rs |-> rs, rt |-> rt, rd |-> 0, shamt |-> 0, funct |-> 0, imm |-> imm, target |-> 0]

Special(funct, rs, rt, rd, shamt) ==
    [op |-> 0, rs |-> rs, rt |-> rt, rd |-> rd, shamt |-> shamt, funct |-> funct, imm |-> 0, target |-> 0]

JumpTo(op, target) ==
    [op |-> op, rs |-> 0, rt |-> 0, rd |-> 0, shamt |-> 0, funct |-> 0, imm |-> 0, target |-> target]

Immediates == {0, 1, 2^(HalfBits - 1) - 1, 2^(HalfBits - 1), 2^HalfBits - 1}

Singles ==
         {Instr(op, 1, 2, imm) : op \in (4..15) \cup (32..47) \cup {16, 60}, imm \in Immediates}
    \cup {Instr(1, 1, rt, imm) : rt \in {0, 1, 5, 16, 17}, imm \in {0, 2^HalfBits - 1}}
    \cup {Special(funct, 1, 2, rd, shamt) : funct \in 0..48, rd \in {1, 3}, shamt \in {0, 1, WordBits - 1}}
    \cup {JumpTo(op, target) : op \in {2, 3}, target \in {0, 2}}

Nop == Special(0, 0, 0, 0, 0)

Few ==
    {Instr(35, 1, 2, 0), Instr(32, 1, 3, 1), Instr(43, 1, 2, 4), Instr(38, 1, 2, 4),  \* LW LB SW LWR
     Special(33, 1, 2, 3, 0), Instr(9, 2, 2, 1),                    \* ADDU ADDIU
     Instr(4, 2, 3, 1), JumpTo(3, 2), Special(8, 3, 0, 0, 0),       \* BEQ JAL JR
     Special(12, 0, 0, 0, 0), Special(24, 1, 2, 0, 0), Nop}         \* SYSCALL MULT

Programs1 == {[a \in {0, 4, 8, 12} |-> IF a = 0 THEN i ELSE Nop] : i \in Singles}

Programs3 ==
    {[a \in {0, 4, 8, 12} |-> CASE a = 0 -> i [] a = 4 -> j [] a = 8 -> k [] a = 12 -> Nop] :
        i \in Few, j \in Few, k \in Few}

Data == [a \in DataAddr |-> (a * a + 3 * (a \div 3) + 3) % (2^ByteBits)]

ProcessorInit ==
    \/ /\ code \in Programs1
       /\ \E v1 \in Operands1, v2 \in Operands2 :
             Blank([r \in 0..MaxReg |-> CASE r = 1 -> v1 [] r = 2 -> v2 [] OTHER -> r * 5], Data, Page)
    \/ /\ code \in Programs3
       /\ \E v2 \in {0, Radix - 1} :
             Blank([r \in 0..MaxReg |-> CASE r = 1 -> DataBase [] r = 2 -> v2 [] OTHER -> 0], Data, {})

\* The initial state of a part that is not looked at.
NoProgram == code = [a \in {0} |-> Nop] /\ Blank([r \in 0..MaxReg |-> 0], Data, Page)

MakefileDefines ==
    {{"THREADS"},                                                          \* threads/
     {"USER_PROGRAM", "FILESYS_NEEDED", "FILESYS_STUB"},                   \* userprog/, and vm/ here
     {"USER_PROGRAM", "VM", "FILESYS_NEEDED", "FILESYS"},                  \* filesys/
     {"USER_PROGRAM", "VM", "FILESYS_NEEDED", "FILESYS", "NETWORK"}}       \* network/

Options ==
    {<<"-d", "t">>, <<"-rs", "3">>, <<"-rd", "2">>, <<"-s">>, <<"-f">>, <<"-l">>, <<"-l", "0">>, <<"-m", "2">>,
     <<"-q", "2">>, <<"-z">>, <<"-x", "a">>, <<"-c", "a", "b">>, <<"-cp", "a", "b">>, <<"-p", "a">>,
     <<"-D">>, <<"-o", "2">>}

LastOptions == {<<"-d">>, <<"-rs">>, <<"-l">>, <<"-x">>, <<"-c">>, <<"-c", "a">>, <<"-cp", "a">>}

\* The initial states of the last two parts when they are not looked at.
NoBits == numBits = 4 /\ map = [w \in {0} |-> 0] /\ file = [b \in {0, 1} |-> 0] /\ marked = {} /\ saved = {}
NoCommand ==
    /\ build = {"THREADS"} /\ groups = <<>> /\ argv = <<>> /\ phase = "Initialize" /\ arg = 1
    /\ flags = NoFlags /\ testnum = 1 /\ ran = <<>>

MCInit ==
    /\ part \in {"processor", "disk", "switch", "list", "bitmap", "command"}
    /\ IF part = "bitmap" THEN BitMapInit ELSE NoBits
    /\ IF part = "command" THEN CommandInit ELSE NoCommand
    /\ IF part = "processor" THEN ProcessorInit ELSE NoProgram
    /\ DiskInit /\ SwitchInit /\ CellsInit
    /\ part = "switch" \/ arch = "i386"

MCNext ==
    /\ \/ part = "processor" /\ Next /\ UNCHANGED <<diskVars, switchVars, cellVars, bitMapVars, commandVars>>
       \/ part = "disk" /\ DiskNext /\ UNCHANGED <<vars, switchVars, cellVars, bitMapVars, commandVars>>
       \/ part = "switch" /\ SwitchNext /\ UNCHANGED <<vars, diskVars, cellVars, bitMapVars, commandVars>>
       \/ part = "list" /\ CellsNext /\ UNCHANGED <<vars, diskVars, switchVars, bitMapVars, commandVars>>
       \/ part = "bitmap" /\ BitMapNext /\ UNCHANGED <<vars, diskVars, switchVars, cellVars, commandVars>>
       \/ part = "command" /\ CommandNext /\ UNCHANGED <<vars, diskVars, switchVars, cellVars, bitMapVars>>
    /\ UNCHANGED part

MCSpec ==
    MCInit /\ [][MCNext]_<<part, vars, diskVars, switchVars, cellVars, bitMapVars, commandVars>>

=============================================================================

------------------------------- MODULE Paging -------------------------------
(***************************************************************************)
(* The reverse page table: Machine::Translate, ReadMem and WriteMem for    *)
(* single bytes, and the replacement on a page fault (machine/machine.cc,  *)
(* machine/translate.cc).                                                  *)
(*                                                                         *)
(* vm is a record: table (one entry per physical page), mainMemory, the    *)
(* array disk of the one address space that all the user threads share     *)
(* (AddrSpaceCopy copies the pointer), and crashed, set when the kernel    *)
(* follows a null pointer.  The use and LRU fields are never consulted.    *)
(***************************************************************************)
EXTENDS Loader

CONSTANTS NumPhysPages, TLBSize

ASSUME PagingAssumption == NumPhysPages \in Nat /\ TLBSize \in 1..NumPhysPages

Frame == 0..(NumPhysPages - 1)

vpn(a) == a \div PageSize

offset(a) == a % PageSize

FreeFrame == [virtualPage |-> 0, tid |-> 0, valid |-> FALSE, dirty |-> FALSE]

\* Machine::Machine; disk is the address space that is to run.
NewVm(disk) ==
    [table |-> [f \in Frame |-> FreeFrame],
     mainMemory |-> [f \in Frame |-> [o \in 0..(PageSize - 1) |-> 0]],
     disk |-> disk, crashed |-> FALSE]

\* The frames that Translate's search would stop at, for thread t.
Frames(vm, t, a) ==
    {f \in Frame : vm.table[f].valid /\ vm.table[f].virtualPage = vpn(a) /\ vm.table[f].tid = t}

Resident(vm, t, a) == Frames(vm, t, a) # {}

Byte(vm, t, a) == vm.mainMemory[Min(Frames(vm, t, a))][offset(a)]

\* WriteMem of a resident byte.
SetByte(vm, t, a, v) ==
    LET f == Min(Frames(vm, t, a))
    IN  [vm EXCEPT !.mainMemory[f][offset(a)] = v, !.table[f].dirty = TRUE]

\* A frame that is not valid is only looked for among the first TLBSize.
Victim(vm, random) ==
    LET free == {f \in 0..(TLBSize - 1) : ~vm.table[f].valid}
    IN  IF free # {} THEN Min(free) ELSE random

NeverWritten(entry) == FALSE  \* mutant: victims are taken for clean

MustWrite(entry) == entry.valid /\ entry.dirty

\* The victim's page goes to the disk of the thread whose id its entry has;
\* spaces is the set of ids whose thread and address space exist.
WriteBack(vm, position, spaces) ==
    LET entry == vm.table[position]
        page == {a \in DOMAIN vm.disk : vpn(a) = entry.virtualPage}
    IN  CASE ~MustWrite(entry) -> vm
          [] MustWrite(entry) /\ entry.tid \notin spaces -> [vm EXCEPT !.crashed = TRUE]
          [] OTHER -> [vm EXCEPT !.disk = [a \in DOMAIN vm.disk |->
                                              IF a \in page THEN vm.mainMemory[position][offset(a)] ELSE vm.disk[a]]]

ReverseTableReplace(vm, t, a, random, spaces) ==
    LET position == Victim(vm, random)
        saved == WriteBack(vm, position, spaces)
    IN  IF saved.crashed THEN saved
        ELSE [saved EXCEPT
                !.mainMemory[position] = [o \in 0..(PageSize - 1) |-> saved.disk[vpn(a) * PageSize + o]],
                !.table[position] = [virtualPage |-> vpn(a), tid |-> t, valid |-> TRUE, dirty |-> FALSE]]

\* What thread t would read at a: its frame's byte, or the disk's after a fault.
View(vm, t, a) == IF Resident(vm, t, a) THEN Byte(vm, t, a) ELSE vm.disk[a]

=============================================================================

------------------------------ MODULE SynchDisk ------------------------------
(***************************************************************************)
(* The synchronous disk (filesys/synchdisk.cc) over the raw disk           *)
(* (machine/disk.cc).                                                      *)
(*                                                                         *)
(* The raw disk serves one request at a time: a request moves the data at  *)
(* once and an interrupt reports its end later.  SynchDisk makes the       *)
(* caller wait for it, with a lock around the whole and a semaphore that   *)
(* the interrupt handler increments.  The lock and the semaphore are taken *)
(* as module Synch shows them to behave: Acquire waits until the lock is   *)
(* free, P until the value is positive.  Between two calls on them a       *)
(* thread may lose the processor, and the interrupt may come.              *)
(***************************************************************************)
EXTENDS Integers

CONSTANTS Caller, Sector, Data, Nobody

ASSUME SynchDiskAssumption == Nobody \notin Caller

VARIABLES
  contents,   \* the UNIX file that holds the disk
  active,     \* Disk::active; its interrupt is pending as long as it is set
  owner,      \* the thread that has acquired SynchDisk::lock
  signals,    \* the value of SynchDisk::semaphore
  place,      \* the statement of ReadSector or WriteSector each thread is at
  request,    \* the arguments of its call
  buffer,     \* what its latest ReadSector stored in data
  aborted     \* an ASSERT of the disk failed

synchDiskVars ==
  <<contents, active, owner, signals, place, request, buffer, aborted>>

Request == [op : {"ReadSector", "WriteSector"}, sector : Sector, data : Data]

\* Disk::Disk and SynchDisk::SynchDisk.
SynchDiskInit ==
  /\ contents \in [Sector -> Data]
  /\ active = FALSE
  /\ owner = Nobody
  /\ signals = 0
  /\ place = [t \in Caller |-> "idle"]
  /\ request \in [Caller -> Request]
  /\ buffer \in [Caller -> Data]
  /\ aborted = FALSE

-----------------------------------------------------------------------------
(* The statements of ReadSector and WriteSector                            *)

CallDisk(t, r) ==
  /\ place[t] = "idle"
  /\ place' = [place EXCEPT ![t] = "Acquire"]
  /\ request' = [request EXCEPT ![t] = r]
  /\ UNCHANGED <<contents, active, owner, signals, buffer, aborted>>

LockFree == owner = Nobody

\* lock->Acquire()
AcquireLock(t) ==
  /\ place[t] = "Acquire"
  /\ LockFree
  /\ owner' = t
  /\ place' = [place EXCEPT ![t] = "Request"]
  /\ UNCHANGED <<contents, active, signals, request, buffer, aborted>>

ReadsAlways(r) == TRUE  \* mutant: WriteSector calls ReadRequest
Reads(r) == r.op = "ReadSector"

\* disk->ReadRequest or disk->WriteRequest, with ASSERT(!active).
DiskRequest(t) ==
  LET r == request[t]
  IN  /\ place[t] = "Request"
      /\ IF active
         THEN /\ aborted' = TRUE
              /\ UNCHANGED <<contents, active, place, buffer>>
         ELSE /\ IF Reads(r)
                 THEN /\ buffer' = [buffer EXCEPT ![t] = contents[r.sector]]
                      /\ UNCHANGED contents
                 ELSE /\ contents' = [contents EXCEPT ![r.sector] = r.data]
                      /\ UNCHANGED buffer
              /\ active' = TRUE
              /\ place' = [place EXCEPT ![t] = "P"]
              /\ UNCHANGED aborted
      /\ UNCHANGED <<owner, signals, request>>

ValueAfterP == signals - 1

\* semaphore->P()
P(t) ==
  /\ place[t] = "P"
  /\ signals > 0
  /\ signals' = ValueAfterP
  /\ place' = [place EXCEPT ![t] = "Release"]
  /\ UNCHANGED <<contents, active, owner, request, buffer, aborted>>

\* lock->Release()
ReleaseLock(t) ==
  /\ place[t] = "Release"
  /\ owner' = Nobody
  /\ place' = [place EXCEPT ![t] = "idle"]
  /\ UNCHANGED <<contents, active, signals, request, buffer, aborted>>

-----------------------------------------------------------------------------
(* The interrupt                                                           *)

ActiveKept == active  \* mutant of ActiveAfter: no reset
ActiveAfter == FALSE

ValueKept == signals  \* mutant of ValueAfterV: the handler wakes a sleeper only
ValueAfterV == signals + 1

\* Disk::HandleInterrupt, SynchDisk::RequestDone.
HandleInterrupt ==
  /\ active
  /\ active' = ActiveAfter
  /\ signals' = ValueAfterV
  /\ UNCHANGED <<contents, owner, place, request, buffer, aborted>>

SynchDiskStep(t) == AcquireLock(t) \/ DiskRequest(t) \/ P(t) \/ ReleaseLock(t)

SynchDiskNext ==
  /\ ~aborted
  /\ \/ \E t \in Caller : (\E r \in Request : CallDisk(t, r)) \/ SynchDiskStep(t)
     \/ HandleInterrupt

SynchDiskSpec == SynchDiskInit /\ [][SynchDiskNext]_synchDiskVars

\* A thread that can go on does so in the end, and the disk's interrupt comes.
SynchDiskFairSpec ==
  /\ SynchDiskSpec
  /\ \A t \in Caller : WF_synchDiskVars(~aborted /\ SynchDiskStep(t))
  /\ WF_synchDiskVars(~aborted /\ HandleInterrupt)

-----------------------------------------------------------------------------
(* Properties                                                              *)

\* Every variable holds a value of its type.
SynchDiskTypeOK ==
  /\ contents \in [Sector -> Data]
  /\ active \in BOOLEAN
  /\ owner \in Caller \cup {Nobody}
  /\ signals \in {0, 1}
  /\ place \in [Caller -> {"idle", "Acquire", "Request", "P", "Release"}]
  /\ request \in [Caller -> Request]
  /\ buffer \in [Caller -> Data]
  /\ aborted \in BOOLEAN

\* The disk is never asked to serve two requests at once: ASSERT(!active) of
\* ReadRequest and WriteRequest does not fail (disk.cc).
OneRequestAtATime == ~aborted

\* The threads between their Acquire and their Release.
Inside(t) == place[t] \in {"Request", "P", "Release"}

\* The lock ties the disk and the semaphore to one thread: the disk is active,
\* or its interrupt counted, only while the holder is in P, and never both
\* (synchdisk.cc, ReadSector and WriteSector).  The conjunction is inductive.
SynchDiskInv ==
  /\ SynchDiskTypeOK
  /\ ~aborted
  /\ \A t \in Caller : Inside(t) <=> owner = t
  /\ active => signals = 0
  /\ active \/ signals = 1 => owner # Nobody /\ place[owner] = "P"
  /\ \A t \in Caller : place[t] = "P" => active \/ signals = 1

\* The interrupt of a request is used up by the P of the thread that made it:
\* as long as that thread waits there is exactly one, still to come or already
\* counted by the semaphore, and at no other time is there any, so that no
\* later request can return before it is done (synchdisk.cc, "wait for
\* interrupt").
OneInterruptPerRequest ==
  LET outstanding == (IF active THEN 1 ELSE 0) + signals
  IN  outstanding = IF \E t \in Caller : place[t] = "P" THEN 1 ELSE 0

\* A thread returns from P only when its data has been moved and the disk is
\* idle: "Return only after the data has been read".
ReturnsWhenDone == \A t \in Caller : place[t] = "Release" => ~active /\ owner = t

\* What t's caller may know of the call: it takes effect at DiskRequest.
Phase(t) == IF place[t] = "idle" THEN "idle"
            ELSE IF place[t] \in {"Acquire", "Request"} THEN "called"
            ELSE "done"

\* ReadSector and WriteSector are atomic for their callers, with any number of
\* threads calling them (synchdisk.cc, "only one disk I/O at a time").
Atomic == INSTANCE AtomicDisk WITH
  Thread <- Caller, phase <- [t \in Caller |-> Phase(t)]
ImplementsAtomicDisk == Atomic!AtomicSpec

\* A thread that has made its request is woken and releases the lock: nobody is
\* left between the two (synchdisk.cc, ReadSector and WriteSector).
RequestReturns ==
  (\E t \in Caller : place[t] = "P") ~> (\A t \in Caller : place[t] \notin {"P", "Release"})

=============================================================================

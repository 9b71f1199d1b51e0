-------------------------------- MODULE Disk --------------------------------
(***************************************************************************)
(* The timing of the simulated disk (machine/disk.cc): the position of the *)
(* head, the track buffer and the latency of a request.                    *)
(*                                                                         *)
(* Time is divided into slots of RotationTime ticks; in slot k the sector  *)
(* whose offset in its track is k % SectorsPerTrack passes under the head. *)
(***************************************************************************)
EXTENDS Integers

CONSTANTS
  NumTracks, SectorsPerTrack,
  SeekTime, RotationTime,  \* machine/stats.h
  MaxTicks                 \* bound: no request is made after it

ASSUME DiskAssumption ==
  /\ NumTracks \in Nat \ {0} /\ SectorsPerTrack \in Nat \ {0}
  /\ SeekTime \in Nat \ {0} /\ RotationTime \in Nat \ {0}
  /\ MaxTicks \in Nat

NumSectors == NumTracks * SectorsPerTrack
Sector == 0 .. NumSectors - 1

VARIABLES
  totalTicks,
  lastSector,  \* the sector requested last: where the head is
  bufferInit,  \* when the disk began to fill the track buffer
  active,      \* a request is being served
  doneAt,      \* when its interrupt is due
  hit          \* history: it is a read served from the track buffer

diskVars == <<totalTicks, lastSector, bufferInit, active, doneAt, hit>>

Abs(n) == IF n < 0 THEN -n ELSE n

\* Disk::TimeToSeek, its result and its reference parameter.
SeekTo(newSector) ==
  Abs(newSector \div SectorsPerTrack - lastSector \div SectorsPerTrack) * SeekTime

Rotation(newSector) ==
  LET over == (totalTicks + SeekTo(newSector)) % RotationTime
  IN  IF over > 0 THEN RotationTime - over ELSE 0

\* When the head is at a sector boundary of the new track.
TimeAfter(newSector) == totalTicks + SeekTo(newSector) + Rotation(newSector)

ModuloDiff(to, from) ==
  (((to % SectorsPerTrack) - (from % SectorsPerTrack)) + SectorsPerTrack)
    % SectorsPerTrack

\* The test of ComputeLatency: the track buffer holds the sector.
InTrackBufferTooSoon(newSector) ==  \* mutant: >= instead of >
  /\ SeekTo(newSector) = 0
  /\ (TimeAfter(newSector) - bufferInit) \div RotationTime
       >= ModuloDiff(newSector, bufferInit \div RotationTime)
InTrackBuffer(newSector) ==
  /\ SeekTo(newSector) = 0
  /\ (TimeAfter(newSector) - bufferInit) \div RotationTime
       > ModuloDiff(newSector, bufferInit \div RotationTime)

ComputeLatency(newSector, writing) ==
  IF ~writing /\ InTrackBuffer(newSector)
  THEN RotationTime
  ELSE SeekTo(newSector) + Rotation(newSector)
       + ModuloDiff(newSector, TimeAfter(newSector) \div RotationTime)
           * RotationTime
       + RotationTime

\* Disk::UpdateLast.
BufferInitAfter(newSector) ==
  IF SeekTo(newSector) # 0 THEN TimeAfter(newSector) ELSE bufferInit

DiskInit ==
  /\ totalTicks = 0
  /\ lastSector = 0
  /\ bufferInit = 0
  /\ active = FALSE
  /\ doneAt = 0
  /\ hit = FALSE

\* Disk::ReadRequest and Disk::WriteRequest, which assert that no request is
\* being served.
DiskRequest(newSector, writing) ==
  /\ ~active
  /\ totalTicks < MaxTicks
  /\ active' = TRUE
  /\ doneAt' = totalTicks + ComputeLatency(newSector, writing)
  /\ hit' = (~writing /\ InTrackBuffer(newSector))
  /\ lastSector' = newSector
  /\ bufferInit' = BufferInitAfter(newSector)
  /\ UNCHANGED totalTicks

\* Disk::HandleInterrupt, called when the interrupt is due.
HandleInterrupt ==
  /\ active
  /\ totalTicks' = doneAt
  /\ active' = FALSE
  /\ UNCHANGED <<lastSector, bufferInit, doneAt, hit>>

\* The kernel does something else for a while.
TimePasses ==
  /\ ~active
  /\ totalTicks < MaxTicks
  /\ totalTicks' = totalTicks + 1
  /\ UNCHANGED <<lastSector, bufferInit, active, doneAt, hit>>

AfterLastRequest == ~active /\ totalTicks >= MaxTicks /\ UNCHANGED diskVars

DiskNext ==
  \/ \E s \in Sector, w \in BOOLEAN : DiskRequest(s, w)
  \/ HandleInterrupt
  \/ TimePasses
  \/ AfterLastRequest

DiskSpec == DiskInit /\ [][DiskNext]_diskVars

-----------------------------------------------------------------------------
(* Properties                                                              *)

\* A request that is not served from the track buffer ends when the requested
\* sector has just passed under the head, whatever the head's old position and
\* the time of the request, and it does so the first time this happens after
\* the seek: the latency is at least one slot and at most seek, rounding and one
\* revolution (disk.cc, ComputeLatency).
EndsPastSector ==
  active =>
    /\ ~hit => /\ doneAt % RotationTime = 0
               /\ (doneAt \div RotationTime - 1) % SectorsPerTrack = lastSector % SectorsPerTrack
    /\ doneAt - totalTicks >= RotationTime
    /\ doneAt - totalTicks <= (NumTracks - 1) * SeekTime + RotationTime - 1
                              + SectorsPerTrack * RotationTime

\* A read is served from the track buffer only if the whole sector passed under
\* the head since the buffer was begun, the head being on that track all the
\* time (disk.cc, ComputeLatency and UpdateLast).
BufferHoldsSector ==
  active /\ hit =>
    \E k \in bufferInit \div RotationTime ..
             (totalTicks + RotationTime - 1) \div RotationTime - 1 :
      k % SectorsPerTrack = lastSector % SectorsPerTrack

\* ComputeLatency and UpdateLast of disk.cc together are a rotating disk with a
\* track buffer, after every sequence of requests.
LatencyExact == EndsPastSector /\ BufferHoldsSector

=============================================================================

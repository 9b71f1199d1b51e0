----------------------------- MODULE AtomicDisk ------------------------------
(***************************************************************************)
(* What the synchronous disk promises its callers (filesys/synchdisk.h):   *)
(* ReadSector and WriteSector, called by any number of threads, each take  *)
(* effect at one moment between the call and its return.                   *)
(***************************************************************************)
CONSTANTS Thread, Sector, Data

VARIABLES
  contents,  \* the data in each sector
  phase,     \* of each thread's call: "idle", "called", "done"
  request,   \* the arguments of its latest call
  buffer     \* the data its latest ReadSector returned

atomicVars == <<contents, phase, request, buffer>>

Request == [op : {"ReadSector", "WriteSector"}, sector : Sector, data : Data]

AtomicInit ==
  /\ contents \in [Sector -> Data]
  /\ phase = [t \in Thread |-> "idle"]
  /\ request \in [Thread -> Request]
  /\ buffer \in [Thread -> Data]

Call(t, r) ==
  /\ phase[t] = "idle"
  /\ phase' = [phase EXCEPT ![t] = "called"]
  /\ request' = [request EXCEPT ![t] = r]
  /\ UNCHANGED <<contents, buffer>>

TakeEffect(t) ==
  LET r == request[t]
  IN  /\ phase[t] = "called"
      /\ phase' = [phase EXCEPT ![t] = "done"]
      /\ IF r.op = "ReadSector"
         THEN /\ buffer' = [buffer EXCEPT ![t] = contents[r.sector]]
              /\ UNCHANGED contents
         ELSE /\ contents' = [contents EXCEPT ![r.sector] = r.data]
              /\ UNCHANGED buffer
      /\ UNCHANGED request

Return(t) ==
  /\ phase[t] = "done"
  /\ phase' = [phase EXCEPT ![t] = "idle"]
  /\ UNCHANGED <<contents, request, buffer>>

AtomicNext ==
  \E t \in Thread : (\E r \in Request : Call(t, r)) \/ TakeEffect(t) \/ Return(t)

AtomicSpec == AtomicInit /\ [][AtomicNext]_atomicVars
=============================================================================

------------------------------ MODULE MCDevices ------------------------------
(***************************************************************************)
(* Two machines.  Either both run MailTest; or two threads of machine 0    *)
(* send to two of machine 1, one of them to a box that does not exist in   *)
(* the end; or four threads use one synchronized list as they like; or a   *)
(* machine runs ConsoleTest; or the clock of a machine is looked at, with  *)
(* the tick counts of machine/stats.h scaled down, and one timer, one      *)
(* device and the console to interrupt it; or threads call the synchronous *)
(* disk.                                                                   *)
(***************************************************************************)
EXTENDS PostOffice, Console, Interrupt, SynchDisk

CONSTANTS m0, m1, plain, d1

BoxDef == 0 .. 1
ListDef == (Machine \X BoxDef) \cup {plain}
LockDef == ListDef \cup Machine

Mail(box) == [call |-> "send", to |-> m1, box |-> box, replyBox |-> 0]
Await(box) == [call |-> "receive", box |-> box]

Deliver == <<[call |-> "deliver"]>>

MailTests ==
  [host |-> [t \in Thread |-> IF t \in {"main0", "worker0", "other"} THEN m0 ELSE m1],
   calls |-> [t \in Thread |-> CASE t = "main0" -> MailTest(m1) [] t = "main1" -> MailTest(m0)
                                 [] t \in {"worker0", "worker1"} -> Deliver [] OTHER -> << >>],
   power |-> [m \in Machine |-> "off"]]

Posts ==
  [host |-> [t \in Thread |-> IF t \in {"main0", "worker0"} THEN m0 ELSE m1],
   calls |-> [t \in Thread |-> CASE t = "main0" -> <<Mail(0), Mail(0)>>
                                 [] t = "worker0" -> <<Mail(1), Mail(2)>>
                                 [] t \in {"main1", "other"} -> <<Await(0), Await(0)>>
                                 [] OTHER -> Deliver],
   power |-> [m \in Machine |-> "on"]]

Clients ==
  [host |-> [t \in Thread |-> m0],
   calls |-> [t \in Thread |-> IF t = "worker0" THEN << >> ELSE <<[call |-> "list", list |-> plain]>>],
   power |-> [m \in Machine |-> "on"]]

Nothing ==
  [host |-> [t \in Thread |-> m0], calls |-> [t \in Thread |-> << >>], power |-> [m \in Machine |-> "on"]]

SetupDef ==
  [MailTests |-> MailTests, Posts |-> Posts, Clients |-> Clients, Console |-> Nothing, Clock |-> Nothing,
   Disk |-> Nothing]

InputsDef == (UNION {[1 .. n -> {1, EOF, Q}] : n \in 0 .. 4}) \X BOOLEAN

RandomYield == {"rs"}
DiskDef == {"disk"}
ConsoleDef == {"console"}
Delays == {1, 3}

\* ConsoleTest, the clock and the disk run in the setups of their names, and
\* stay in one initial state in the others.
DevicesInit ==
  /\ PostInit /\ ConsoleInit /\ InterruptInit /\ SynchDiskInit
  /\ setup = "Console" \/ typed = <<<< >>, FALSE>>
  /\ setup = "Clock" \/ pending = Schedule(<< >>, "rs", TimerTicks, 0)
  /\ \/ setup = "Disk"
     \/ /\ contents = [s \in Sector |-> d1] /\ buffer = [t \in Caller |-> d1]
        /\ request = [t \in Caller |-> CHOOSE r \in Request : TRUE]

\* The programs may stop; the clock goes on until the machine halts, and the
\* disk as long as it is called.
DevicesNext ==
  \/ PostNext /\ UNCHANGED <<consoleVars, clockVars, synchDiskVars>>
  \/ setup = "Console" /\ ConsoleNext /\ UNCHANGED <<mailVars, clockVars, synchDiskVars>>
  \/ setup = "Clock" /\ InterruptNext /\ UNCHANGED <<mailVars, consoleVars, synchDiskVars>>
  \/ setup = "Disk" /\ SynchDiskNext /\ UNCHANGED <<mailVars, consoleVars, clockVars>>
  \/ setup \notin {"Clock", "Disk"} /\ UNCHANGED <<mailVars, consoleVars, clockVars, synchDiskVars>>

\* The fairness of PostOffice and of SynchDiskFairSpec.
DevicesSpec ==
  /\ DevicesInit /\ [][DevicesNext]_<<mailVars, consoleVars, clockVars, synchDiskVars>>
  /\ PostFairness
  /\ \A t \in Caller : WF_synchDiskVars(~aborted /\ SynchDiskStep(t))
  /\ WF_synchDiskVars(~aborted /\ HandleInterrupt)

=============================================================================

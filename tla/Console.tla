------------------------------- MODULE Console -------------------------------
(***************************************************************************)
(* The console device (machine/console.cc) and ConsoleTest                 *)
(* (userprog/progtest.cc), which echoes what is typed up to a 'q'.         *)
(*                                                                         *)
(* Characters are small numbers; EOF is (char)-1, what the device's buffer *)
(* holds when it is empty, and a byte that a file may hold too.            *)
(***************************************************************************)
EXTENDS Integers, Sequences

CONSTANTS Inputs,   \* the <<characters, whether the file ends there>> to choose from
          EOF, Q

ASSUME ConsoleAssumption == Inputs \subseteq Seq(Int) \X BOOLEAN /\ EOF \in Int

VARIABLES
  typed,                 \* the input
  read, incoming,        \* the number of characters read; the device's buffer
  putBusy, writing,      \* a ConsoleWriteDone interrupt is pending
  readAvail, writeDone,  \* the semaphores of ConsoleTest
  display,               \* what was written
  ch, line               \* the local variable of ConsoleTest, and where it is

consoleVars == <<typed, read, incoming, putBusy, writing, readAvail, writeDone, display, ch, line>>

ConsoleInit ==
  /\ typed \in Inputs
  /\ read = 0 /\ incoming = EOF
  /\ putBusy = FALSE /\ writing = FALSE
  /\ readAvail = 0 /\ writeDone = 0
  /\ display = << >> /\ ch = EOF /\ line = "P"

\* select(2) returns at once if there is a character, or if the file ends.
PollFile == read < Len(typed[1]) \/ typed[2]

\* sysdep's Read, whose ASSERT fails at the end of the file.
Read ==
  IF read < Len(typed[1])
  THEN read' = read + 1 /\ incoming' = typed[1][read'] /\ readAvail' = readAvail + 1 /\ UNCHANGED line
  ELSE line' = "asserted" /\ UNCHANGED <<read, incoming, readAvail>>

FullNever == FALSE  \* mutant: a buffered character is not looked for
Full == incoming # EOF

\* CheckCharAvail, every ConsoleTime ticks; its handler is readAvail->V().
CheckCharAvail ==
  /\ line # "asserted"
  /\ ~Full /\ PollFile
  /\ Read
  /\ UNCHANGED <<typed, putBusy, writing, writeDone, display, ch>>

WriteDone ==
  /\ line # "asserted" /\ writing
  /\ writing' = FALSE /\ putBusy' = FALSE
  /\ writeDone' = writeDone + 1
  /\ UNCHANGED <<typed, read, incoming, readAvail, display, ch, line>>

\* readAvail->P()
WaitForChar ==
  /\ line = "P" /\ readAvail > 0
  /\ readAvail' = readAvail - 1
  /\ line' = "GetChar"
  /\ UNCHANGED <<typed, read, incoming, putBusy, writing, writeDone, display, ch>>

GetChar ==
  /\ line = "GetChar"
  /\ ch' = incoming /\ incoming' = EOF
  /\ line' = "PutChar"
  /\ UNCHANGED <<typed, read, putBusy, writing, readAvail, writeDone, display>>

PutChar ==
  /\ line = "PutChar"
  /\ IF putBusy THEN line' = "busy" /\ UNCHANGED <<display, putBusy, writing>>
     ELSE display' = Append(display, ch) /\ putBusy' = TRUE /\ writing' = TRUE /\ line' = "wait"
  /\ UNCHANGED <<typed, read, incoming, readAvail, writeDone, ch>>

\* writeDone->P(), and the test for 'q'.
WaitForDone ==
  /\ line = "wait" /\ writeDone > 0
  /\ writeDone' = writeDone - 1
  /\ line' = IF ch = Q THEN "returned" ELSE "P"
  /\ UNCHANGED <<typed, read, incoming, putBusy, writing, readAvail, display, ch>>

ConsoleNext ==
  CheckCharAvail \/ WriteDone \/ WaitForChar \/ GetChar \/ PutChar \/ WaitForDone

ConsoleSpec == ConsoleInit /\ [][ConsoleNext]_consoleVars

-----------------------------------------------------------------------------
\* The echo is exact: what is on the display, in ConsoleTest's hands and in the
\* device's buffer are the characters read so far, in order, as long as none of
\* them is the byte (char)EOF, which the device takes for an empty buffer and
\* overwrites.  With that byte the number of characters is still right: every
\* one read is displayed, in hand or announced by readAvail.  And PutChar is
\* never called while the device is busy.
EchoExact ==
  LET input == SubSeq(typed[1], 1, read)
      hand == IF line = "PutChar" THEN <<ch>> ELSE << >>
      buffer == IF incoming = EOF THEN << >> ELSE <<incoming>>
  IN  /\ line # "busy"
      /\ line # "asserted" =>
        /\ (\A k \in 1 .. read : input[k] # EOF) => display \o hand \o buffer = input
        /\ Len(display) + Len(hand) + readAvail + (IF line = "GetChar" THEN 1 ELSE 0) = read

=============================================================================

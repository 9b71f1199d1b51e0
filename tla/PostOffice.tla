------------------------------ MODULE PostOffice ------------------------------
(***************************************************************************)
(* Nachos machines on a network: the device (machine/network.cc), the post *)
(* office with its mailboxes (network/post.cc), which are synchronized     *)
(* lists, and the threads that use them, among them MailTest               *)
(* (network/nettest.cc).                                                   *)
(*                                                                         *)
(* A thread has a host and a sequence of calls; a postal worker's only one *)
(* is "deliver", which does not end.  Semaphores are counters (module      *)
(* Synch has their code).  The UNIX datagram socket of a machine keeps     *)
(* packets in order and loses none; the device drops what it chooses to.   *)
(***************************************************************************)
EXTENDS SynchList

CONSTANTS Machine, Box,
          Setup,      \* the [host, calls, power] of each name in its domain
          MaxItems    \* bound: items that the clients of a plain list append

Packet == [from : Machine, to : Machine, box : Box, replyBox : Int, id : Thread \X Nat]
Item == Packet \cup 1 .. MaxItems

\* Lists, locks and items have names of their own; a machine has one postal
\* worker; mail is received from boxes that exist, and replied to once it was
\* received; the clients of a list leave the mailboxes alone.
ASSUME PostAssumption ==
  /\ IsFiniteSet(Thread) /\ MaxItems \in Nat
  /\ Condition = List /\ Machine \X Box \subseteq List
  /\ List \cup Machine \subseteq Lock /\ List \cap Machine = {}
  /\ None \notin List \cup Machine \cup Item
  /\ \A s \in DOMAIN Setup :
       /\ Setup[s].host \in [Thread -> Machine] /\ Setup[s].power \in [Machine -> {"off", "on"}]
       /\ DOMAIN Setup[s].calls = Thread
       /\ \A t \in Thread : Len(Setup[s].calls[t]) \in Nat
       /\ \A t \in Thread : \A k \in 1 .. Len(Setup[s].calls[t]) :
            LET c == Setup[s].calls[t][k] IN
            /\ c.call = "send" => c.to \in Machine
            /\ c.call \in {"send", "reply"} => c.replyBox \in Int
            /\ c.call = "reply" => \E j \in 1 .. k - 1 : Setup[s].calls[t][j].call = "receive"
            /\ c.call = "receive" => c.box \in Box
            /\ c.call = "list" => c.list \in List \ (Machine \X Box)
            /\ c.call = "deliver" =>
                 \A u \in Thread \ {t} : Setup[s].host[u] = Setup[s].host[t] =>
                   \A j \in 1 .. Len(Setup[s].calls[u]) : Setup[s].calls[u][j].call # "deliver"

VARIABLES
  setup,
  power,            \* "off", "on", "halted", or the ASSERT that failed
  step,              \* the number of calls each thread has made
  mail,              \* the mail each thread received last, or None
  socket, inbox,     \* the packets on the way; inHdr and inbox, or None
  sendDone,          \* pending NetworkSendDone interrupts
  messageAvailable, messageSent,
  sent,              \* history: packets put into each machine's socket
  drops              \* history: packets dropped

postVars == <<setup, power, step, mail, socket, inbox, sendDone, messageAvailable, messageSent, sent, drops>>
mailVars == <<monitorVars, listVars, postVars>>

Host(t) == Setup[setup].host[t]

On(t) == power[Host(t)] = "on"

Call(t) == Setup[setup].calls[t][step[t] + 1]

\* t is between calls, and its next one is this.
Calls(t, call) == On(t) /\ At(t, "idle") /\ step[t] < Len(Setup[setup].calls[t]) /\ Call(t).call = call

PostInit ==
  /\ setup \in DOMAIN Setup
  /\ power = Setup[setup].power
  /\ MonitorInit([t \in Thread |-> "idle"]) /\ SynchListInit
  /\ step = [t \in Thread |-> 0] /\ mail = [t \in Thread |-> None]
  /\ socket = [m \in Machine |-> << >>] /\ inbox = [m \in Machine |-> None]
  /\ sendDone = [m \in Machine |-> 0]
  /\ messageAvailable = [m \in Machine |-> 0] /\ messageSent = [m \in Machine |-> 0]
  /\ sent = [m \in Machine |-> << >>] /\ drops = 0

\* PostOffice::PostOffice and Network::Network: the socket has a name from now on.
Boot(m) ==
  /\ power[m] = "off"
  /\ power' = [power EXCEPT ![m] = "on"]
  /\ UNCHANGED <<monitorVars, listVars, setup, mail, step, socket, inbox, sendDone, messageAvailable, messageSent, sent, drops>>

-----------------------------------------------------------------------------
(* The device                                                              *)

\* CheckPktAvail, every NetworkTime ticks; it leaves the socket alone while a
\* packet is buffered.
NotBuffered(m) == FALSE  \* mutant: a buffered packet is not looked for
Buffered(m) == inbox[m] # None

\* PostOffice::IncomingPacket, the interrupt handler: messageAvailable->V().
NotAnnounced(m) == messageAvailable  \* mutant: the worker is not told
IncomingPacket(m) == [messageAvailable EXCEPT ![m] = @ + 1]

\* PostOffice::PacketSent: messageSent->V().
PacketSent(m) == [messageSent EXCEPT ![m] = @ + 1]

PollSocket(m) == socket[m] # << >>

ReadFromSocket(m) ==
  /\ inbox' = [inbox EXCEPT ![m] = Head(socket[m])]
  /\ socket' = [socket EXCEPT ![m] = Tail(@)]

CheckPktAvail(m) ==
  /\ power[m] = "on"
  /\ ~Buffered(m) /\ PollSocket(m)
  /\ ReadFromSocket(m)
  /\ messageAvailable' = IncomingPacket(m)
  /\ UNCHANGED <<monitorVars, listVars, setup, mail, power, step, sendDone, messageSent, sent, drops>>

SendDone(m) ==
  /\ power[m] = "on" /\ sendDone[m] > 0
  /\ sendDone' = [sendDone EXCEPT ![m] = @ - 1]
  /\ messageSent' = PacketSent(m)
  /\ UNCHANGED <<monitorVars, listVars, setup, mail, power, step, socket, inbox, messageAvailable, sent, drops>>

\* Which ASSERT of SendToSocket fails, by the state of the machine sent to.
Refusal(peer) == CASE peer = "off" -> "notYet" [] peer = "halted" -> "peerGone" [] OTHER -> "peerFailed"

\* sendto finds the socket by its name, or the ASSERT on its result fails.
SendToSocket(m, packet) ==
  LET to == packet.to IN
  IF power[to] = "on"
  THEN /\ socket' = [socket EXCEPT ![to] = Append(@, packet)]
       /\ sent' = [sent EXCEPT ![to] = Append(@, packet)]
       /\ UNCHANGED power
  ELSE /\ power' = [power EXCEPT ![m] = Refusal(power[to])]
       /\ UNCHANGED <<socket, sent>>

\* Network::Send: the interrupt is scheduled first, and comes for a packet that
\* is dropped too.
Transmit(m, packet) ==
  /\ sendDone' = [sendDone EXCEPT ![m] = @ + 1]
  /\ \/ drops' = drops + 1 /\ UNCHANGED <<socket, sent, power>>
     \/ SendToSocket(m, packet) /\ UNCHANGED drops

\* Network::Receive, called when a packet is buffered.
NetworkReceive(m) == inbox' = [inbox EXCEPT ![m] = None]

-----------------------------------------------------------------------------
(* PostOffice::PostalDelivery                                              *)

WaitForMessage(t) ==
  /\ Calls(t, "deliver")
  /\ messageAvailable[Host(t)] > 0
  /\ messageAvailable' = [messageAvailable EXCEPT ![Host(t)] = @ - 1]
  /\ Goto(t, "receive")
  /\ UNCHANGED <<listVars, setup, mail, power, step, socket, inbox, sendDone, messageSent, sent, drops>>

\* MailBox::Put and MailBox::Get: a box is a synchronized list of mail.
Put(t, m, packet) == CallAppend(t, <<m, packet.box>>, packet)

Get(t, m, box) == CallRemove(t, <<m, box>>)

PostalDelivery(t) ==
  LET m == Host(t) IN
  /\ On(t) /\ At(t, "receive")
  /\ Put(t, m, inbox[m])
  /\ NetworkReceive(m)
  /\ UNCHANGED <<setup, mail, power, step, socket, sendDone, messageAvailable, messageSent, sent, drops>>

-----------------------------------------------------------------------------
(* PostOffice::Send and Receive                                            *)

\* A reply goes where the mail that was received last came from.
Outgoing(t) ==
  LET call == Call(t) IN
  [from |-> Host(t),
   to |-> IF call.call = "reply" THEN mail[t].from ELSE call.to,
   box |-> IF call.call = "reply" THEN mail[t].replyBox ELSE call.box,
   replyBox |-> call.replyBox, id |-> <<t, step[t]>>]

\* The lock of a machine's post office has the machine's name.
SendLock(m) == m

NoSendLock(t) == Goto(t, "transmit")  \* mutant: Send does not take the lock
LockForSend(t) == Acquire(t, SendLock(Host(t)), "transmit")

\* The ASSERTs on the header, then the wait for the lock.
StartSend(t) ==
  /\ Calls(t, "send") \/ Calls(t, "reply")
  /\ IF Outgoing(t).box \in Box
     THEN LockForSend(t) /\ UNCHANGED power
     ELSE power' = [power EXCEPT ![Host(t)] = "badBox"] /\ UNCHANGED monitorVars
  /\ UNCHANGED <<listVars, setup, mail, step, socket, inbox, sendDone, messageAvailable, messageSent, sent, drops>>

NetworkSend(t) ==
  /\ On(t) /\ At(t, "transmit")
  /\ Transmit(Host(t), Outgoing(t))
  /\ Goto(t, "sent")
  /\ UNCHANGED <<listVars, setup, mail, step, inbox, messageAvailable, messageSent>>

WaitForSent(t) ==
  /\ On(t) /\ At(t, "sent")
  /\ messageSent[Host(t)] > 0
  /\ messageSent' = [messageSent EXCEPT ![Host(t)] = @ - 1]
  /\ Goto(t, "unlock")
  /\ UNCHANGED <<listVars, setup, mail, power, step, socket, inbox, sendDone, messageAvailable, sent, drops>>

EndSend(t) ==
  /\ On(t) /\ At(t, "unlock")
  /\ Release(t, SendLock(Host(t)), "idle")
  /\ step' = [step EXCEPT ![t] = @ + 1]
  /\ UNCHANGED <<listVars, setup, mail, power, socket, inbox, sendDone, messageAvailable, messageSent, sent, drops>>

Receive(t) ==
  /\ Calls(t, "receive")
  /\ Get(t, Host(t), Call(t).box)
  /\ step' = [step EXCEPT ![t] = @ + 1]
  /\ UNCHANGED <<setup, mail, power, socket, inbox, sendDone, messageAvailable, messageSent, sent, drops>>

\* interrupt->Halt, which deletes the post office and the socket's name.
Halt(t) ==
  /\ Calls(t, "halt")
  /\ power' = [power EXCEPT ![Host(t)] = "halted"]
  /\ UNCHANGED <<monitorVars, listVars, setup, mail, step, socket, inbox, sendDone, messageAvailable, messageSent, sent, drops>>

\* Clients of a plain list make any calls; every item is appended once.
Client(t) ==
  /\ Calls(t, "list")
  /\ LET l == Call(t).list IN
     \/ \E item \in 1 .. MaxItems :
           /\ \A u \in Thread : argument[u] # item
           /\ \A i \in DOMAIN appended[l] : appended[l][i] # item
           /\ CallAppend(t, l, item)
     \/ CallRemove(t, l)
     \/ MapcarLock(t, l)
  /\ UNCHANGED postVars

UsesList(t) == On(t) /\ ListStep(t) /\ UNCHANGED postVars

\* The Remove in which a thread gets an item; MailBox::Get copies the mail.
TakeItem(t) ==
  /\ On(t) /\ RemoveItem(t)
  /\ mail' = IF target[t] \in Machine \X Box THEN [mail EXCEPT ![t] = Head(list[target[t]])] ELSE mail
  /\ UNCHANGED <<setup, power, step, socket, inbox, sendDone, messageAvailable, messageSent, sent, drops>>

-----------------------------------------------------------------------------
\* MailTest: what the thread of one machine does with the other.
MailTest(far) ==
  <<[call |-> "send", to |-> far, box |-> 0, replyBox |-> 1],
    [call |-> "receive", box |-> 0],
    [call |-> "reply", replyBox |-> 1],
    [call |-> "receive", box |-> 1],
    [call |-> "halt"]>>

PostStep(t) ==
  \/ WaitForMessage(t) \/ PostalDelivery(t)
  \/ StartSend(t) \/ NetworkSend(t) \/ WaitForSent(t) \/ EndSend(t)
  \/ Receive(t) \/ Halt(t) \/ UsesList(t) \/ TakeItem(t)

PostNext ==
  \/ \E m \in Machine : Boot(m) \/ CheckPktAvail(m) \/ SendDone(m)
  \/ \E t \in Thread : PostStep(t) \/ Client(t)

PostSpec == PostInit /\ [][PostNext]_mailVars

\* A thread that can go on does so in the end, and the device interrupts.
\* Nothing is assumed of the order in which threads get a lock.
PostFairness ==
  /\ \A t \in Thread : WF_mailVars(PostStep(t))
  /\ \A m \in Machine : WF_mailVars(CheckPktAvail(m)) /\ WF_mailVars(SendDone(m)) /\ WF_mailVars(Boot(m))

-----------------------------------------------------------------------------
(* Properties                                                              *)

\* The mail that the postal worker of m is about to put into a box.
InHand(m) ==
  LET holds(t) == target[t] \in {m} \X Box /\ argument[t] # None IN
  IF \E t \in Thread : holds(t) THEN <<argument[CHOOSE t \in Thread : holds(t)]>> ELSE << >>

\* The packet in the device's buffer.
Buffer(m) == IF inbox[m] = None THEN << >> ELSE <<inbox[m]>>

\* The packets of a sequence that are for box b, in their order.
ForBox(packets, b) ==
  LET first[n \in 0 .. Len(packets)] ==  \* those among the first n
        IF n = 0 THEN << >>
        ELSE IF packets[n].box = b THEN Append(first[n - 1], packets[n]) ELSE first[n - 1]
  IN  first[Len(packets)]

\* The mail for a box, from where it was put into the socket to where Get
\* leaves it: the box's list, the postal worker's hands, the device's buffer
\* and the socket hold exactly the packets sent to it and not dropped, each
\* once and in the order of the senders.  In particular the one buffer of the
\* device is never overwritten, although the worker empties it some time after
\* the interrupt that filled it.
MailExact ==
  \A m \in Machine, b \in Box :
    appended[<<m, b>>] \o ForBox(InHand(m) \o Buffer(m) \o socket[m], b) = ForBox(sent[m], b)

\* Only one packet is between Network::Send and the interrupt that ends it, and
\* the semaphore that Send waits on counts that one only: messageSent never
\* lets a thread return before its own packet is out.
OneSendAtATime ==
  \A m \in Machine :
    sendDone[m] + messageSent[m] = Cardinality({t \in Thread : Host(t) = m /\ pc[t] = "sent"})
      /\ sendDone[m] + messageSent[m] <= 1

\* MailTest ends on both machines if no packet is dropped and neither sends
\* before the other has its socket.
MailTestEnds ==
  <>(\A m \in Machine :
       \/ power[m] = "halted" \/ Setup[setup].power[m] # "off"
       \/ drops > 0 \/ \E n \in Machine : power[n] = "notYet")

=============================================================================

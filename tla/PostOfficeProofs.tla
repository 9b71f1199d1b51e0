--------------------------- MODULE PostOfficeProofs ---------------------------
(***************************************************************************)
(* Proofs about synchronized lists and the post office, for any number of  *)
(* machines, boxes, lists and threads and any calls they make.  PostInv is *)
(* inductive: the lists (ListInv, in SynchListProofs), whose turn it is to *)
(* send (SendInv), who has mail to answer (ReceiveInv), what the postal    *)
(* workers carry (DeliverInv), and MailExact.                              *)
(***************************************************************************)
EXTENDS SynchListProofs

PostTypeOK ==
  /\ setup \in DOMAIN Setup
  /\ step \in [Thread -> Nat] /\ mail \in [Thread -> Packet \cup {None}]
  /\ socket \in [Machine -> Seq(Packet)] /\ sent \in [Machine -> Seq(Packet)]
  /\ inbox \in [Machine -> Packet \cup {None}]
  /\ sendDone \in [Machine -> Nat] /\ messageSent \in [Machine -> Nat] /\ messageAvailable \in [Machine -> Nat]
  /\ \A l \in Machine \X Box : list[l] \in Seq(Packet) /\ appended[l] \in Seq(Packet)

\* Thread t is in a call of one of these kinds, or about to make it.
Makes(t, kinds) == step[t] < Len(Setup[setup].calls[t]) /\ Call(t).call \in kinds

\* The thread between Acquire and Release of the lock of Send has a packet to
\* send, and the one interrupt that it waits for is its own.
SendInv ==
  /\ \A t \in Thread : pc[t] \in {"transmit", "sent", "unlock"} =>
       holder[SendLock(Host(t))] = t /\ Makes(t, {"send", "reply"}) /\ Outgoing(t) \in Packet
  /\ \A m \in Machine :
       \/ sendDone[m] + messageSent[m] = 1 /\ \E t \in Thread : Host(t) = m /\ pc[t] = "sent"
       \/ sendDone[m] + messageSent[m] = 0 /\ ~ \E t \in Thread : Host(t) = m /\ pc[t] = "sent"

\* A thread whose Receive returned has the mail.
ReceiveInv ==
  \A t \in Thread :
    (\E j \in 1 .. step[t] : Setup[setup].calls[t][j].call = "receive") =>
      \/ mail[t] \in Packet
      \/ pc[t] \in {"Remove", "test", "asleep", "woken"} /\ target[t] \in Machine \X Box

\* messageAvailable announces the packet in the buffer until the postal worker
\* has taken it, and only a postal worker carries mail to a box.
DeliverInv ==
  /\ \A t \in Thread : pc[t] = "receive" =>
       Makes(t, {"deliver"}) /\ inbox[Host(t)] # None /\ messageAvailable[Host(t)] = 0
  /\ \A t \in Thread : argument[t] # None /\ target[t] \in Machine \X Box =>
       Makes(t, {"deliver"}) /\ argument[t] \in Packet /\ target[t] = <<Host(t), argument[t].box>>
  /\ \A m \in Machine :
       messageAvailable[m] = 0 \/ (messageAvailable[m] = 1 /\ inbox[m] # None)

PostInv == ListInv /\ PostTypeOK /\ SendInv /\ ReceiveInv /\ DeliverInv /\ MailExact

Boxes == Machine \X Box

\* What PostAssumption says of the call that a thread is in or about to make.
LEMMA SetupOK ==
  ASSUME PostTypeOK
  PROVE  \A t \in Thread : Host(t) \in Machine /\ Len(Setup[setup].calls[t]) \in Nat
BY PostAssumption DEF PostTypeOK, Host

LEMMA CallOK ==
  ASSUME PostTypeOK, NEW t \in Thread, step[t] < Len(Setup[setup].calls[t])
  PROVE  /\ Call(t).call = "send" => Call(t).to \in Machine
         /\ Call(t).call \in {"send", "reply"} => Call(t).replyBox \in Int
         /\ Call(t).call = "reply" => \E j \in 1 .. step[t] : Setup[setup].calls[t][j].call = "receive"
         /\ Call(t).call = "receive" => Call(t).box \in Box
         /\ Call(t).call = "list" => Call(t).list \in List \ Boxes
<1> DEFINE k == step[t] + 1
<1>1. setup \in DOMAIN Setup /\ step[t] \in Nat /\ k \in 1 .. Len(Setup[setup].calls[t]) /\ k - 1 = step[t]
  BY SetupOK DEF PostTypeOK
<1>2. Call(t) = Setup[setup].calls[t][k]
  BY Zenon DEF Call
<1> HIDE DEF k
<1> QED BY <1>1, <1>2, PostAssumption DEF Boxes

LEMMA OneWorker ==
  ASSUME PostTypeOK, NEW t \in Thread, NEW u \in Thread, Makes(t, {"deliver"}), Makes(u, {"deliver"}), Host(t) = Host(u)
  PROVE  t = u
<1> DEFINE k == step[t] + 1
           j == step[u] + 1
<1>1. setup \in DOMAIN Setup /\ k \in 1 .. Len(Setup[setup].calls[t]) /\ j \in 1 .. Len(Setup[setup].calls[u])
  <2>1. setup \in DOMAIN Setup /\ step[t] \in Nat /\ step[u] \in Nat
    BY Zenon DEF PostTypeOK
  <2>2. step[t] < Len(Setup[setup].calls[t]) /\ step[u] < Len(Setup[setup].calls[u])
    BY Zenon DEF Makes
  <2> QED BY <2>1, <2>2, SetupOK, SMTT(30)
<1>2. Setup[setup].calls[t][k].call = "deliver" /\ Setup[setup].calls[u][j].call = "deliver"
  BY Zenon DEF Makes, Call
<1>3. Setup[setup].host[t] = Setup[setup].host[u]
  BY Zenon DEF Host
<1> HIDE DEF k, j
<1> QED BY <1>1, <1>2, <1>3, PostAssumption

\* InHand, as a function of the targets and the arguments.
Carried(m, tgt, arg) ==
  LET holds(t) == tgt[t] \in {m} \X Box /\ arg[t] # None IN
  IF \E t \in Thread : holds(t) THEN <<arg[CHOOSE t \in Thread : holds(t)]>> ELSE << >>

LEMMA CarriedIs == \A m : InHand(m) = Carried(m, target, argument) /\ InHand(m)' = Carried(m, target', argument')
BY Zenon DEF InHand, Carried

LEMMA CarriedOne ==
  ASSUME NEW m, NEW tgt, NEW arg, NEW t \in Thread, tgt[t] \in {m} \X Box /\ arg[t] # None,
         \A u \in Thread : tgt[u] \in {m} \X Box /\ arg[u] # None => u = t
  PROVE  Carried(m, tgt, arg) = <<arg[t]>>
<1> DEFINE holds(u) == tgt[u] \in {m} \X Box /\ arg[u] # None
           w == CHOOSE u \in Thread : holds(u)
<1>1. w \in Thread /\ holds(w)
  BY Zenon
<1>2. w = t
  BY <1>1, Zenon
<1>3. Carried(m, tgt, arg) = <<arg[w]>>
  BY Zenon DEF Carried
<1> QED BY <1>2, <1>3, Zenon

LEMMA CarriedNone ==
  ASSUME NEW m, NEW tgt, NEW arg, \A u \in Thread : ~(tgt[u] \in {m} \X Box /\ arg[u] # None)
  PROVE  Carried(m, tgt, arg) = << >>
BY Zenon DEF Carried

\* The hands of machine m in a state that satisfies the invariant.
LEMMA HandsFull ==
  ASSUME PostTypeOK, DeliverInv, NEW m \in Machine, NEW t \in Thread, target[t] \in {m} \X Box, argument[t] # None
  PROVE  InHand(m) = <<argument[t]>> /\ argument[t] \in Packet /\ Host(t) = m
<1>1. ASSUME NEW u \in Thread, target[u] \in {m} \X Box, argument[u] # None
      PROVE  Makes(u, {"deliver"}) /\ Host(u) = m /\ argument[u] \in Packet
  BY <1>1 DEF DeliverInv
<1>2. \A u \in Thread : target[u] \in {m} \X Box /\ argument[u] # None => u = t
  BY <1>1, OneWorker, Zenon
<1> QED BY <1>1, <1>2, CarriedIs, CarriedOne

LEMMA HandsEmpty ==
  ASSUME NEW m \in Machine, \A u \in Thread : ~(target[u] \in {m} \X Box /\ argument[u] # None)
  PROVE  InHand(m) = << >>
BY CarriedIs, CarriedNone, Zenon

LEMMA HandsType ==
  ASSUME PostTypeOK, DeliverInv, NEW m \in Machine
  PROVE  InHand(m) \in Seq(Packet)
<1>1. CASE \E t \in Thread : target[t] \in {m} \X Box /\ argument[t] # None
  BY <1>1, HandsFull
<1>2. CASE ~\E t \in Thread : target[t] \in {m} \X Box /\ argument[t] # None
  <2>1. InHand(m) = << >>
    BY <1>2, HandsEmpty, Zenon
  <2> QED BY <2>1
<1> QED BY <1>1, <1>2, Zenon

\* A step after which machine m's worker carries what it carried before.
LEMMA HandsKept ==
  ASSUME PostTypeOK, DeliverInv, NEW m \in Machine,
         \A u \in Thread : \/ target'[u] = target[u] /\ argument'[u] = argument[u]
                           \/ /\ ~(target[u] \in {m} \X Box /\ argument[u] # None)
                              /\ ~(target'[u] \in {m} \X Box /\ argument'[u] # None)
  PROVE  InHand(m)' = InHand(m)
<1>1. CASE \E t \in Thread : target[t] \in {m} \X Box /\ argument[t] # None
  <2>1. PICK t \in Thread : target[t] \in {m} \X Box /\ argument[t] # None
    BY <1>1, Zenon
  <2>2. \A u \in Thread : target[u] \in {m} \X Box /\ argument[u] # None => u = t
    BY <2>1, OneWorker DEF DeliverInv
  <2>3. InHand(m) = <<argument[t]>>
    BY <2>1, HandsFull, Zenon
  <2>4. target'[t] \in {m} \X Box /\ argument'[t] # None /\ argument'[t] = argument[t]
    BY <2>1, Zenon
  <2>5. \A u \in Thread : target'[u] \in {m} \X Box /\ argument'[u] # None => u = t
    BY <2>2, Zenon
  <2>6. InHand(m)' = <<argument'[t]>>
    BY <2>4, <2>5, CarriedIs, CarriedOne
  <2> QED BY <2>3, <2>4, <2>6, Zenon
<1>2. CASE ~\E t \in Thread : target[t] \in {m} \X Box /\ argument[t] # None
  <2>1. \A u \in Thread : ~(target'[u] \in {m} \X Box /\ argument'[u] # None)
    BY <1>2, Zenon
  <2> QED BY <1>2, <2>1, CarriedIs, CarriedNone
<1> QED BY <1>1, <1>2, Zenon

-----------------------------------------------------------------------------
(* Steps that leave one of the invariants alone                            *)

LEMMA SendKept ==
  ASSUME PostTypeOK, SendInv, UNCHANGED <<setup, sendDone, messageSent>>, \A m \in Machine : holder'[m] = holder[m],
         \A u \in Thread : pc[u] \in {"transmit", "sent", "unlock"} \/ pc'[u] \in {"transmit", "sent", "unlock"} =>
            pc'[u] = pc[u] /\ step'[u] = step[u] /\ mail'[u] = mail[u]
  PROVE  SendInv'
<1>1. \A u \in Thread : Host(u)' = Host(u) /\ Host(u) \in Machine
  BY SetupOK, Zenon DEF Host
<1>2. ASSUME NEW u \in Thread, pc'[u] \in {"transmit", "sent", "unlock"}
      PROVE  holder'[SendLock(Host(u)')] = u /\ Makes(u, {"send", "reply"})' /\ Outgoing(u)' \in Packet
  <2>1. pc[u] = pc'[u] /\ step'[u] = step[u] /\ mail'[u] = mail[u]
    BY <1>2, Zenon
  <2>2. Call(u)' = Call(u)
    BY <2>1, Zenon DEF Call
  <2>3. Outgoing(u)' = Outgoing(u)
    BY <1>1, <2>1, <2>2, Zenon DEF Outgoing
  <2>4. holder[SendLock(Host(u))] = u /\ Makes(u, {"send", "reply"}) /\ Outgoing(u) \in Packet
    BY <1>2, Zenon DEF SendInv
  <2> QED BY <1>1, <2>1, <2>2, <2>3, <2>4, Zenon DEF Makes, SendLock
<1>3. \A u \in Thread : pc'[u] = "sent" <=> pc[u] = "sent"
  OBVIOUS
<1>4. \A m \in Machine : (\E u \in Thread : Host(u)' = m /\ pc'[u] = "sent") <=> (\E u \in Thread : Host(u) = m /\ pc[u] = "sent")
  BY <1>1, <1>3, Zenon
<1> QED BY <1>2, <1>4, Zenon DEF SendInv

LEMMA ReceiveKept ==
  ASSUME ReceiveInv, UNCHANGED setup,
         \A u \in Thread : /\ step'[u] = step[u] /\ mail'[u] = mail[u]
                           /\ pc[u] \in {"Remove", "test", "asleep", "woken"} /\ target[u] \in Boxes =>
                                pc'[u] \in {"Remove", "test", "asleep", "woken"} /\ target'[u] = target[u]
  PROVE  ReceiveInv'
BY Zenon DEF ReceiveInv, Boxes

LEMMA DeliverKept ==
  ASSUME DeliverInv, UNCHANGED <<setup, inbox, messageAvailable>>,
         \A u \in Thread : pc'[u] = "receive" => pc[u] = "receive" /\ step'[u] = step[u],
         \A u \in Thread : argument'[u] # None /\ target'[u] \in Boxes =>
            argument'[u] = argument[u] /\ target'[u] = target[u] /\ step'[u] = step[u]
  PROVE  DeliverInv'
BY ZenonT(30) DEF DeliverInv, Makes, Call, Host, Boxes

LEMMA MailKept ==
  ASSUME PostTypeOK, DeliverInv, MailExact, UNCHANGED <<inbox, socket, sent>>,
         \A l \in Boxes : appended'[l] = appended[l],
         \A u \in Thread : \/ target'[u] = target[u] /\ argument'[u] = argument[u]
                           \/ /\ ~(target[u] \in Boxes /\ argument[u] # None)
                              /\ ~(target'[u] \in Boxes /\ argument'[u] # None)
  PROVE  MailExact'
<1>1. \A m \in Machine : InHand(m)' = InHand(m)
  <2>1. \A m \in Machine, u \in Thread : target[u] \in {m} \X Box => target[u] \in Boxes
    BY Zenon DEF Boxes
  <2>2. \A m \in Machine, u \in Thread : target'[u] \in {m} \X Box => target'[u] \in Boxes
    BY Zenon DEF Boxes
  <2> QED BY <2>1, <2>2, HandsKept, Zenon
<1>2. \A m \in Machine : Buffer(m)' = Buffer(m)
  BY Zenon DEF Buffer
<1>3. \A m \in Machine, b \in Box : appended'[<<m, b>>] = appended[<<m, b>>]
  BY Zenon DEF Boxes
<1> QED BY <1>1, <1>2, <1>3, Zenon DEF MailExact

-----------------------------------------------------------------------------
(* The steps of the device                                                 *)

LEMMA ListSame ==
  ASSUME ListInv, UNCHANGED <<monitorVars, listVars>>
  PROVE  ListInv'
<1>1. UNCHANGED <<pc, holder, waitingQueue, list, target, argument, removed, appended>>
  BY Zenon DEF monitorVars, listVars
<1>2. ListTypeOK' /\ InCall' /\ SleepersQueued'
  BY <1>1, ZenonT(30) DEF ListInv, ListTypeOK, InCall, SleepersQueued
<1>3. FirstInFirstOut'
  BY <1>1, Zenon DEF ListInv, FirstInFirstOut
<1>4. EveryItemHasTaker'
  BY <1>1, Zenon DEF ListInv, EveryItemHasTaker
<1> QED BY <1>2, <1>3, <1>4, Zenon DEF ListInv

\* Booting, halting, a refused header, and a stuttering step.
LEMMA StatusStep ==
  ASSUME PostInv,
         UNCHANGED <<monitorVars, listVars, setup, mail, step, socket, inbox, sendDone, messageAvailable, messageSent, sent>>
  PROVE  PostInv'
<1>0. ListInv /\ PostTypeOK /\ SendInv /\ ReceiveInv /\ DeliverInv /\ MailExact
  BY Zenon DEF PostInv
<1>1. UNCHANGED <<pc, holder, waitingQueue, list, target, argument, removed, appended,
                  setup, mail, step, socket, inbox, sendDone, messageAvailable, messageSent, sent>>
  BY Zenon DEF monitorVars, listVars
<1>2. ListInv'
  BY <1>0, ListSame, Zenon
<1>3. PostTypeOK'
  BY <1>0, <1>1, Zenon DEF PostTypeOK
<1>4. SendInv'
  BY <1>0, <1>1, SendKept, Zenon
<1>5. ReceiveInv'
  BY <1>0, <1>1, ReceiveKept, Zenon
<1>6. DeliverInv'
  BY <1>0, <1>1, DeliverKept, Zenon
<1>7. MailExact'
  BY <1>0, <1>1, MailKept, Zenon
<1> QED BY <1>2, <1>3, <1>4, <1>5, <1>6, <1>7, Zenon DEF PostInv

\* The packets between a sender and the boxes of machine m.
Line(m) == InHand(m) \o Buffer(m) \o socket[m]

LEMMA LineType ==
  ASSUME PostTypeOK, DeliverInv, NEW m \in Machine
  PROVE  /\ InHand(m) \in Seq(Packet) /\ Buffer(m) \in Seq(Packet) /\ socket[m] \in Seq(Packet)
         /\ Line(m) \in Seq(Packet)
<1>1. InHand(m) \in Seq(Packet) /\ socket[m] \in Seq(Packet)
  BY HandsType, Zenon DEF PostTypeOK
<1>2. Buffer(m) \in Seq(Packet)
  <2>1. inbox[m] # None => inbox[m] \in Packet
    BY Zenon DEF PostTypeOK
  <2>2. CASE inbox[m] = None
    BY <2>2 DEF Buffer
  <2>3. CASE inbox[m] # None
    BY <2>1, <2>3 DEF Buffer
  <2> QED BY <2>2, <2>3, Zenon
<1> QED BY <1>1, <1>2 DEF Line

\* Mail stays exact when no line and no box changes but those of one machine.
LEMMA MailByMachine ==
  ASSUME PostTypeOK, DeliverInv, MailExact, NEW m \in Machine,
         \A n \in Machine \ {m} : inbox'[n] = inbox[n] /\ socket'[n] = socket[n] /\ sent'[n] = sent[n] /\ InHand(n)' = InHand(n),
         \A n \in Machine \ {m}, b \in Box : appended'[<<n, b>>] = appended[<<n, b>>],
         \A b \in Box : appended'[<<m, b>>] \o ForBox(Line(m)', b) = ForBox(sent'[m], b)
  PROVE  MailExact'
<1>1. ASSUME NEW n \in Machine \ {m}, NEW b \in Box
      PROVE  appended'[<<n, b>>] \o ForBox(Line(n)', b) = ForBox(sent'[n], b)
  <2>1. Buffer(n)' = Buffer(n)
    BY Zenon DEF Buffer
  <2>2. Line(n)' = Line(n)
    BY <2>1, Zenon DEF Line
  <2>3. appended[<<n, b>>] \o ForBox(Line(n), b) = ForBox(sent[n], b)
    BY Zenon DEF MailExact, Line
  <2> QED BY <2>2, <2>3, Zenon
<1>2. \A n \in Machine, b \in Box : appended'[<<n, b>>] \o ForBox(Line(n)', b) = ForBox(sent'[n], b)
  BY <1>1, Zenon
<1> QED BY <1>2, Zenon DEF MailExact, Line

LEMMA CheckPktAvailStep ==
  ASSUME PostInv, NEW m \in Machine, CheckPktAvail(m)
  PROVE  PostInv'
<1>0. ListInv /\ PostTypeOK /\ SendInv /\ ReceiveInv /\ DeliverInv /\ MailExact
  BY Zenon DEF PostInv
<1>1. /\ inbox[m] = None /\ socket[m] # << >>
      /\ inbox' = [inbox EXCEPT ![m] = Head(socket[m])] /\ socket' = [socket EXCEPT ![m] = Tail(@)]
      /\ messageAvailable' = [messageAvailable EXCEPT ![m] = @ + 1]
  BY Zenon DEF CheckPktAvail, Buffered, PollSocket, ReadFromSocket, IncomingPacket
<1>u. UNCHANGED <<pc, holder, waitingQueue, list, target, argument, removed, appended, setup, mail, step, sendDone,
                  messageSent, sent>>
  BY Zenon DEF CheckPktAvail, monitorVars, listVars
<1>2. ListInv'
  BY <1>0, ListSame, Zenon DEF CheckPktAvail
<1>3. Head(socket[m]) \in Packet /\ Tail(socket[m]) \in Seq(Packet) /\ None \notin Packet
  BY <1>0, <1>1, NamesOK DEF PostTypeOK, Item
<1>4. PostTypeOK'
  BY <1>0, <1>1, <1>u, <1>3, SMTT(30) DEF PostTypeOK
<1>5. SendInv'
  BY <1>0, <1>u, SendKept, Zenon
<1>6. ReceiveInv'
  BY <1>0, <1>u, ReceiveKept, Zenon
<1>7. DeliverInv'
  <2>1. messageAvailable[m] = 0 /\ \A t \in Thread : pc[t] = "receive" => Host(t) # m
    BY <1>0, <1>1, Zenon DEF DeliverInv
  <2>2. messageAvailable'[m] = 1 /\ inbox'[m] # None
    BY <1>0, <1>1, <1>3, <2>1 DEF PostTypeOK
  <2>3. \A n \in Machine \ {m} : messageAvailable'[n] = messageAvailable[n] /\ inbox'[n] = inbox[n]
    BY <1>0, <1>1, Zenon DEF PostTypeOK
  <2>4. \A t \in Thread : Host(t)' = Host(t) /\ Host(t) \in Machine /\ \A kinds : Makes(t, kinds)' = Makes(t, kinds)
    BY <1>0, <1>u, SetupOK, Zenon DEF Host, Makes, Call
  <2>5. \A t \in Thread : pc[t] = "receive" =>
          Makes(t, {"deliver"}) /\ inbox'[Host(t)] # None /\ messageAvailable'[Host(t)] = 0
    BY <1>0, <2>1, <2>3, <2>4, ZenonT(30) DEF DeliverInv
  <2>6. \A n \in Machine : messageAvailable'[n] = 0 \/ (messageAvailable'[n] = 1 /\ inbox'[n] # None)
    BY <1>0, <2>2, <2>3, Zenon DEF DeliverInv
  <2> QED BY <1>0, <1>u, <2>4, <2>5, <2>6, ZenonT(30) DEF DeliverInv
<1>8. MailExact'
  <2>1. \A n \in Machine : InHand(n)' = InHand(n)
    BY <1>0, <1>u, HandsKept, Zenon
  <2>2. \A n \in Machine \ {m} : inbox'[n] = inbox[n] /\ socket'[n] = socket[n]
    BY <1>0, <1>1, Zenon DEF PostTypeOK
  <2>3. Line(m)' = Line(m)
    <3> DEFINE x == Head(socket[m])
               hand == InHand(m)
    <3>1. hand \in Seq(Packet) /\ socket[m] \in Seq(Packet) /\ Buffer(m) = << >>
      BY <1>0, <1>1, LineType, Zenon DEF Buffer
    <3>2. Buffer(m)' = <<x>> /\ socket'[m] = Tail(socket[m])
      BY <1>0, <1>1, <1>3, Zenon DEF Buffer, PostTypeOK
    <3>3. Append(hand, x) \o Tail(socket[m]) = hand \o socket[m]
      BY <1>1, <3>1, HeadGoesOver, Zenon
    <3>4. hand \o <<x>> = Append(hand, x) /\ hand \o << >> = hand
      <4> HIDE DEF hand, x
      <4> QED BY <1>3, <3>1
    <3>5. Line(m)' = Append(hand, x) \o Tail(socket[m])
      BY <2>1, <3>2, <3>4, Zenon DEF Line
    <3>6. Line(m) = hand \o socket[m]
      BY <3>1, <3>4, Zenon DEF Line
    <3> QED BY <3>3, <3>5, <3>6, Zenon
  <2>4. \A b \in Box : appended'[<<m, b>>] \o ForBox(Line(m)', b) = ForBox(sent'[m], b)
    BY <1>0, <1>u, <2>3, Zenon DEF MailExact, Line
  <2> QED BY <1>0, <1>u, <2>1, <2>2, <2>4, MailByMachine, Zenon
<1> QED BY <1>2, <1>4, <1>5, <1>6, <1>7, <1>8, Zenon DEF PostInv

LEMMA SendDoneStep ==
  ASSUME PostInv, NEW m \in Machine, SendDone(m)
  PROVE  PostInv'
<1>0. ListInv /\ PostTypeOK /\ SendInv /\ ReceiveInv /\ DeliverInv /\ MailExact
  BY Zenon DEF PostInv
<1>1. /\ sendDone[m] > 0 /\ sendDone' = [sendDone EXCEPT ![m] = @ - 1] /\ messageSent' = [messageSent EXCEPT ![m] = @ + 1]
  BY Zenon DEF SendDone, PacketSent
<1>u. UNCHANGED <<pc, holder, waitingQueue, list, target, argument, removed, appended, setup, mail, step, socket,
                  inbox, messageAvailable, sent>>
  BY Zenon DEF SendDone, monitorVars, listVars
<1>2. ListInv'
  BY <1>0, ListSame, Zenon DEF SendDone
<1>3. PostTypeOK'
  BY <1>0, <1>1, <1>u DEF PostTypeOK
<1>4. SendInv'
  <2>1. \A n \in Machine : sendDone'[n] + messageSent'[n] = sendDone[n] + messageSent[n]
    BY <1>0, <1>1 DEF PostTypeOK
  <2>2. \A t \in Thread : Host(t)' = Host(t) /\ Outgoing(t)' = Outgoing(t) /\ \A kinds : Makes(t, kinds)' = Makes(t, kinds)
    BY <1>u, ZenonT(30) DEF Host, Makes, Call, Outgoing
  <2> QED BY <1>0, <1>u, <2>1, <2>2, Zenon DEF SendInv
<1>5. ReceiveInv'
  BY <1>0, <1>u, ReceiveKept, Zenon
<1>6. DeliverInv'
  BY <1>0, <1>u, DeliverKept, Zenon
<1>7. MailExact'
  BY <1>0, <1>u, MailKept, Zenon
<1> QED BY <1>2, <1>3, <1>4, <1>5, <1>6, <1>7, Zenon DEF PostInv

-----------------------------------------------------------------------------
(* PostOffice::PostalDelivery                                              *)

LEMMA WaitForMessageStep ==
  ASSUME PostInv, NEW t \in Thread, WaitForMessage(t)
  PROVE  PostInv'
<1> DEFINE m == Host(t)
<1>0. ListInv /\ PostTypeOK /\ SendInv /\ ReceiveInv /\ DeliverInv /\ MailExact /\ m \in Machine
  BY SetupOK, Zenon DEF PostInv
<1>1. /\ pc[t] = "idle" /\ Makes(t, {"deliver"}) /\ messageAvailable[m] > 0
      /\ messageAvailable' = [messageAvailable EXCEPT ![m] = @ - 1] /\ pc' = [pc EXCEPT ![t] = "receive"]
  BY Zenon DEF WaitForMessage, Calls, At, Makes, Goto
<1>u. UNCHANGED <<holder, waitingQueue, list, target, argument, removed, appended, setup, mail, step, socket, inbox,
                  sendDone, messageSent, sent>>
  BY Zenon DEF WaitForMessage, Goto, listVars
<1>2. ListTypeOK /\ pc'[t] = "receive" /\ \A u \in Thread \ {t} : pc'[u] = pc[u]
  BY <1>0, <1>1, Zenon DEF ListInv, ListTypeOK
<1>3. ListInv'
  BY <1>0, <1>1, <1>u, <1>2, ListApart, Zenon DEF ListTypeOK, ListPlaces, MailLabels, listVars
<1>4. PostTypeOK'
  BY <1>0, <1>1, <1>u DEF PostTypeOK
<1>5. SendInv'
  BY <1>0, <1>1, <1>u, <1>2, SendKept, Zenon
<1>6. ReceiveInv'
  BY <1>0, <1>1, <1>u, <1>2, ReceiveKept, Zenon
<1>7. DeliverInv'
  <2>1. inbox[m] # None /\ messageAvailable[m] = 1 /\ messageAvailable'[m] = 0
    BY <1>0, <1>1 DEF DeliverInv, PostTypeOK
  <2>2. \A n \in Machine \ {m} : messageAvailable'[n] = messageAvailable[n]
    BY <1>0, <1>1, Zenon DEF PostTypeOK
  <2>3. \A u \in Thread : Host(u)' = Host(u) /\ Host(u) \in Machine /\ Makes(u, {"deliver"})' = Makes(u, {"deliver"})
    BY <1>0, <1>u, SetupOK, Zenon DEF Host, Makes, Call
  <2>4. ASSUME NEW u \in Thread, pc'[u] = "receive"
        PROVE  Makes(u, {"deliver"}) /\ inbox[Host(u)] # None /\ messageAvailable'[Host(u)] = 0
    <3>1. CASE u = t
      BY <1>1, <2>1, <3>1, Zenon
    <3>2. CASE u # t
      BY <1>0, <1>2, <2>1, <2>2, <2>3, <2>4, <3>2, ZenonT(30) DEF DeliverInv
    <3> QED BY <3>1, <3>2, Zenon
  <2>5. \A n \in Machine : messageAvailable'[n] = 0 \/ (messageAvailable'[n] = 1 /\ inbox[n] # None)
    BY <1>0, <2>1, <2>2, Zenon DEF DeliverInv
  <2> QED BY <1>0, <1>u, <2>3, <2>4, <2>5, ZenonT(30) DEF DeliverInv
<1>8. MailExact'
  BY <1>0, <1>u, MailKept, Zenon
<1> QED BY <1>3, <1>4, <1>5, <1>6, <1>7, <1>8, ZenonT(30) DEF PostInv

LEMMA PostalDeliveryStep ==
  ASSUME PostInv, NEW t \in Thread, PostalDelivery(t)
  PROVE  PostInv'
<1>0. ListInv /\ PostTypeOK /\ SendInv /\ ReceiveInv /\ DeliverInv /\ MailExact
  BY Zenon DEF PostInv
<1>m. PICK m \in Machine : m = Host(t)
  BY <1>0, SetupOK, Zenon
<1> DEFINE p == inbox[m]
           l == <<m, p.box>>
<1>1. /\ pc[t] = "receive" /\ CallAppend(t, l, p) /\ inbox' = [inbox EXCEPT ![m] = None]
  BY <1>m, Zenon DEF PostalDelivery, At, Put, NetworkReceive
<1>u. UNCHANGED <<setup, mail, step, socket, sendDone, messageAvailable, messageSent, sent>>
  BY <1>m, Zenon DEF PostalDelivery
<1>2. p \in Packet /\ p # None /\ p.box \in Box /\ Makes(t, {"deliver"}) /\ messageAvailable[m] = 0
  BY <1>0, <1>m, <1>1 DEF DeliverInv, PostTypeOK, Packet
<1>3. l \in Boxes /\ l \in List /\ p \in Item
  BY <1>2, NamesOK, Zenon DEF Item, Boxes
<1>4. ListInv'
  BY <1>0, <1>1, <1>3, CallAppendStep, Zenon DEF ListPlaces
<1>5. /\ target' = [target EXCEPT ![t] = l] /\ argument' = [argument EXCEPT ![t] = p] /\ pc' = [pc EXCEPT ![t] = "Append"]
      /\ UNCHANGED <<holder, waitingQueue, list, removed, appended>>
  BY <1>1, Zenon DEF CallAppend, Goto
<1>6. /\ pc'[t] = "Append" /\ target'[t] = l /\ argument'[t] = p /\ argument[t] = None
      /\ \A u \in Thread \ {t} : pc'[u] = pc[u] /\ target'[u] = target[u] /\ argument'[u] = argument[u]
  BY <1>0, <1>1, <1>5, ZenonT(30) DEF ListInv, ListTypeOK, InCall
<1> HIDE DEF l
<1>7. PostTypeOK'
  BY <1>0, <1>1, <1>u, <1>5, Zenon DEF PostTypeOK
<1>8. SendInv'
  BY <1>0, <1>1, <1>u, <1>5, <1>6, SendKept, Zenon
<1>9. ReceiveInv'
  BY <1>0, <1>1, <1>u, <1>6, ReceiveKept, Zenon
<1>10. \A n \in Machine \ {m} : inbox'[n] = inbox[n]
  BY <1>0, <1>1, Zenon DEF PostTypeOK
<1>11. \A u \in Thread : Host(u)' = Host(u) /\ Host(u) \in Machine /\ Makes(u, {"deliver"})' = Makes(u, {"deliver"})
  BY <1>0, <1>u, SetupOK, Zenon DEF Host, Makes, Call
<1>12. \A u \in Thread \ {t} : Makes(u, {"deliver"}) => Host(u) # m
  BY <1>0, <1>m, <1>2, OneWorker, Zenon
<1>13. DeliverInv'
  <2>1. ASSUME NEW u \in Thread, pc'[u] = "receive"
        PROVE  Makes(u, {"deliver"}) /\ inbox'[Host(u)] # None /\ messageAvailable[Host(u)] = 0
    BY <1>0, <1>6, <1>10, <1>11, <1>12, <2>1, ZenonT(30) DEF DeliverInv
  <2>2. ASSUME NEW u \in Thread, argument'[u] # None, target'[u] \in Machine \X Box
        PROVE  Makes(u, {"deliver"}) /\ argument'[u] \in Packet /\ target'[u] = <<Host(u), argument'[u].box>>
    <3>1. CASE u = t
      BY <1>m, <1>2, <1>6, <3>1, Zenon DEF l
    <3>2. CASE u # t
      BY <1>0, <1>6, <2>2, <3>2, ZenonT(30) DEF DeliverInv
    <3> QED BY <3>1, <3>2, Zenon
  <2>3. \A n \in Machine : messageAvailable[n] = 0 \/ (messageAvailable[n] = 1 /\ inbox'[n] # None)
    BY <1>0, <1>2, <1>10, ZenonT(30) DEF DeliverInv
  <2> QED BY <1>u, <1>11, <2>1, <2>2, <2>3, ZenonT(30) DEF DeliverInv
<1>14. MailExact'
  <2>1. \A u \in Thread : ~(target[u] \in {m} \X Box /\ argument[u] # None)
    <3>1. \A u \in Thread : target[u] \in {m} \X Box /\ argument[u] # None => Makes(u, {"deliver"}) /\ Host(u) = m
      BY <1>0 DEF DeliverInv
    <3> QED BY <1>6, <1>12, <3>1, Zenon
  <2>2. InHand(m) = << >>
    BY <2>1, HandsEmpty, Zenon
  <2>3. InHand(m)' = <<p>>
    <3>1. target'[t] \in {m} \X Box /\ argument'[t] # None
      BY <1>2, <1>6 DEF l
    <3>2. \A u \in Thread : target'[u] \in {m} \X Box /\ argument'[u] # None => u = t
      BY <1>6, <2>1, Zenon
    <3>3. Carried(m, target', argument') = <<argument'[t]>>
      BY <3>1, <3>2, CarriedOne
    <3>4. InHand(m)' = Carried(m, target', argument')
      BY CarriedIs, Zenon
    <3> QED BY <1>6, <3>3, <3>4, Zenon
  <2>4. ASSUME NEW n \in Machine \ {m}
        PROVE  InHand(n)' = InHand(n)
    <3>1. ~(target'[t] \in {n} \X Box)
      BY <1>6 DEF l
    <3> QED BY <1>0, <1>6, <3>1, HandsKept, Zenon
  <2>5. Buffer(m) = <<p>> /\ Buffer(m)' = << >>
    BY <1>0, <1>1, <1>2, Zenon DEF Buffer, PostTypeOK
  <2>6. Line(m)' = Line(m)
    BY <1>u, <1>2, <2>2, <2>3, <2>5 DEF Line
  <2>7. \A b \in Box : appended'[<<m, b>>] \o ForBox(Line(m)', b) = ForBox(sent'[m], b)
    BY <1>0, <1>u, <1>5, <2>6, Zenon DEF MailExact, Line
  <2> QED BY <1>0, <1>u, <1>5, <1>10, <2>4, <2>7, MailByMachine, Zenon
<1> QED BY <1>4, <1>7, <1>8, <1>9, <1>13, <1>14, ZenonT(30) DEF PostInv

-----------------------------------------------------------------------------
(* PostOffice::Send                                                        *)

\* Whoever is in Send holds the lock of its machine, alone.
LEMMA OneSender ==
  ASSUME SendInv, NEW t \in Thread, NEW u \in Thread, Host(t) = Host(u),
         pc[t] \in {"transmit", "sent", "unlock"}, pc[u] \in {"transmit", "sent", "unlock"}
  PROVE  t = u
BY Zenon DEF SendInv

LEMMA StartSendStep ==
  ASSUME PostInv, NEW t \in Thread, StartSend(t)
  PROVE  PostInv'
<1> DEFINE m == Host(t)
<1>0. ListInv /\ PostTypeOK /\ SendInv /\ ReceiveInv /\ DeliverInv /\ MailExact /\ m \in Machine
  BY SetupOK, Zenon DEF PostInv
<1>1. CASE Outgoing(t).box \notin Box
  BY <1>1, StatusStep, Zenon DEF StartSend
<1>2. CASE Outgoing(t).box \in Box
  <2>1. /\ pc[t] = "idle" /\ Makes(t, {"send", "reply"}) /\ holder[m] = None
        /\ holder' = [holder EXCEPT ![m] = t] /\ pc' = [pc EXCEPT ![t] = "transmit"]
    BY <1>2, Zenon DEF StartSend, LockForSend, Acquire, SendLock, Calls, At, Makes
  <2>u. UNCHANGED <<waitingQueue, list, target, argument, removed, appended, setup, mail, step, socket, inbox,
                    sendDone, messageAvailable, messageSent, sent>>
    BY <1>2, Zenon DEF StartSend, LockForSend, Acquire, SendLock, listVars
  <2>2. /\ ListTypeOK /\ pc'[t] = "transmit" /\ \A u \in Thread \ {t} : pc'[u] = pc[u]
        /\ m \in Lock /\ holder'[m] = t /\ \A k \in Lock \ {m} : holder'[k] = holder[k]
    BY <1>0, <2>1, NamesOK, Zenon DEF ListInv, ListTypeOK
  <2>3. holder' \in [Lock -> Thread \cup {None}] /\ \A k \in List : holder'[k] = holder[k]
    <3>1. holder \in [Lock -> Thread \cup {None}]
      BY <2>2, Zenon DEF ListTypeOK
    <3>2. holder' \in [Lock -> Thread \cup {None}]
      BY <1>0, <2>1, <2>2, <3>1, Zenon
    <3>3. \A k \in List : k \in Lock \ {m}
      BY <1>0, NamesOK, Zenon
    <3> QED BY <2>2, <3>2, <3>3
  <2>4. ListInv'
    BY <1>0, <2>1, <2>u, <2>3, ListApart, Zenon DEF ListPlaces, MailLabels, listVars
  <2>5. PostTypeOK'
    BY <1>0, <2>u, Zenon DEF PostTypeOK
  <2>6. Outgoing(t) \in Packet
    <3>1. step[t] < Len(Setup[setup].calls[t]) /\ Call(t).call \in {"send", "reply"} /\ step[t] \in Nat
      BY <1>0, <2>1, Zenon DEF Makes, PostTypeOK
    <3>2. Call(t).replyBox \in Int
      BY <1>0, <3>1, CallOK, Zenon
    <3>3. Call(t).call # "reply" => Call(t).to \in Machine
      BY <1>0, <3>1, CallOK, Zenon
    <3>4. Call(t).call = "reply" => mail[t] \in Packet
      BY <1>0, <2>1, <3>1, CallOK, Zenon DEF ReceiveInv
    <3>5. Call(t).call = "reply" => mail[t].from \in Machine
      BY <3>4, Zenon DEF Packet
    <3> QED BY <1>0, <1>2, <3>1, <3>2, <3>3, <3>5, ZenonT(30) DEF Outgoing, Packet
  <2>7. \A u \in Thread : /\ Host(u)' = Host(u) /\ Host(u) \in Machine /\ Outgoing(u)' = Outgoing(u)
                          /\ Makes(u, {"send", "reply"})' = Makes(u, {"send", "reply"})
    BY <1>0, <2>u, SetupOK, ZenonT(30) DEF Host, Makes, Call, Outgoing
  <2>8. SendInv'
    <3>1. ASSUME NEW u \in Thread, pc'[u] \in {"transmit", "sent", "unlock"}
          PROVE  holder'[Host(u)] = u /\ Makes(u, {"send", "reply"}) /\ Outgoing(u) \in Packet
      <4>1. CASE u = t
        BY <2>1, <2>2, <2>6, <4>1, Zenon
      <4>2. CASE u # t
        <5>1. holder[Host(u)] = u /\ Makes(u, {"send", "reply"}) /\ Outgoing(u) \in Packet
          BY <1>0, <2>2, <3>1, <4>2, ZenonT(30) DEF SendInv, SendLock
        <5>2. Host(u) # m /\ Host(u) \in Lock
          BY <2>1, <2>7, <5>1, MonitorAssumption, NamesOK, Zenon
        <5> QED BY <2>2, <5>1, <5>2, Zenon
      <4> QED BY <4>1, <4>2, Zenon
    <3>2. \A u \in Thread : pc'[u] = "sent" <=> pc[u] = "sent"
      BY <2>1, <2>2, Zenon
    <3>3. \A n \in Machine : (\E u \in Thread : Host(u)' = n /\ pc'[u] = "sent")
                             <=> (\E u \in Thread : Host(u) = n /\ pc[u] = "sent")
      BY <2>7, <3>2, Zenon
    <3> QED BY <1>0, <2>u, <2>7, <3>1, <3>3, ZenonT(30) DEF SendInv, SendLock
  <2>9. ReceiveInv'
    BY <1>0, <2>1, <2>u, <2>2, ReceiveKept, Zenon
  <2>10. DeliverInv'
    BY <1>0, <2>u, <2>2, DeliverKept, Zenon
  <2>11. MailExact'
    BY <1>0, <2>u, MailKept, Zenon
  <2> QED BY <2>4, <2>5, <2>8, <2>9, <2>10, <2>11, Zenon DEF PostInv
<1> QED BY <1>1, <1>2, Zenon

LEMMA NetworkSendStep ==
  ASSUME PostInv, NEW t \in Thread, NetworkSend(t)
  PROVE  PostInv'
<1>0. ListInv /\ PostTypeOK /\ SendInv /\ ReceiveInv /\ DeliverInv /\ MailExact
  BY Zenon DEF PostInv
<1>m. PICK m \in Machine : m = Host(t)
  BY <1>0, SetupOK, Zenon
<1> DEFINE p == Outgoing(t)
<1>1. /\ pc[t] = "transmit" /\ sendDone' = [sendDone EXCEPT ![m] = @ + 1] /\ pc' = [pc EXCEPT ![t] = "sent"]
      /\ \/ UNCHANGED <<socket, sent>>
         \/ /\ socket' = [socket EXCEPT ![p.to] = Append(@, p)]
            /\ sent' = [sent EXCEPT ![p.to] = Append(@, p)]
  BY <1>m, Zenon DEF NetworkSend, Transmit, SendToSocket, At, Goto
<1>u. UNCHANGED <<holder, waitingQueue, list, target, argument, removed, appended, setup, mail, step, inbox,
                  messageAvailable, messageSent>>
  BY <1>m, Zenon DEF NetworkSend, Goto, listVars
<1>2. /\ ListTypeOK /\ pc'[t] = "sent" /\ \A u \in Thread \ {t} : pc'[u] = pc[u]
  BY <1>0, <1>1, Zenon DEF ListInv, ListTypeOK
<1>3. p \in Packet /\ Makes(t, {"send", "reply"}) /\ holder[SendLock(m)] = t
  BY <1>0, <1>m, <1>1, Zenon DEF SendInv
<1>4. p.to \in Machine
  BY <1>3, Zenon DEF Packet
<1> HIDE DEF p
<1>5. ListInv'
  BY <1>0, <1>1, <1>u, <1>2, ListApart, Zenon DEF ListTypeOK, ListPlaces, MailLabels, listVars
<1>6. PostTypeOK'
  <2>1. socket' \in [Machine -> Seq(Packet)] /\ sent' \in [Machine -> Seq(Packet)]
    <3>1. Append(socket[p.to], p) \in Seq(Packet) /\ Append(sent[p.to], p) \in Seq(Packet)
      BY <1>0, <1>3, <1>4 DEF PostTypeOK
    <3> QED BY <1>0, <1>1, <3>1, ZenonT(30) DEF PostTypeOK
  <2>2. sendDone' \in [Machine -> Nat]
    BY <1>0, <1>1 DEF PostTypeOK
  <2> QED BY <1>0, <1>u, <2>1, <2>2, Zenon DEF PostTypeOK
<1>7. \A u \in Thread : /\ Host(u)' = Host(u) /\ Host(u) \in Machine /\ Outgoing(u)' = Outgoing(u)
                        /\ Makes(u, {"send", "reply"})' = Makes(u, {"send", "reply"})
  BY <1>0, <1>u, SetupOK, ZenonT(30) DEF Host, Makes, Call, Outgoing
<1>8. SendInv'
  <2>1. ASSUME NEW u \in Thread, pc'[u] \in {"transmit", "sent", "unlock"}
        PROVE  holder[SendLock(Host(u))] = u /\ Makes(u, {"send", "reply"}) /\ Outgoing(u) \in Packet
    BY <1>0, <1>1, <1>2, <2>1, ZenonT(30) DEF SendInv
  <2>2. \A u \in Thread : Host(u) = m /\ pc[u] \in {"transmit", "sent", "unlock"} => u = t
    BY <1>0, <1>m, <1>1, OneSender, Zenon
  <2>3. sendDone[m] + messageSent[m] = 0 /\ sendDone'[m] + messageSent[m] = 1
    <3>1. ~ \E u \in Thread : Host(u) = m /\ pc[u] = "sent"
      BY <1>1, <2>2, Zenon
    <3>2. sendDone[m] + messageSent[m] = 0
      BY <1>0, <3>1, Zenon DEF SendInv
    <3> QED BY <1>0, <1>1, <3>2 DEF PostTypeOK
  <2>4. Host(t) = m /\ pc'[t] = "sent"
    BY <1>m, <1>2, Zenon
  <2>5. ASSUME NEW n \in Machine \ {m}
        PROVE  /\ sendDone'[n] = sendDone[n]
               /\ (\E u \in Thread : Host(u) = n /\ pc'[u] = "sent") <=> (\E u \in Thread : Host(u) = n /\ pc[u] = "sent")
    <3>1. sendDone'[n] = sendDone[n]
      BY <1>0, <1>1, Zenon DEF PostTypeOK
    <3>2. \A u \in Thread : Host(u) = n => u # t /\ pc'[u] = pc[u]
      BY <1>m, <1>2, Zenon
    <3> QED BY <3>1, <3>2, Zenon
  <2>6. \A n \in Machine :
          \/ sendDone'[n] + messageSent[n] = 1 /\ \E u \in Thread : Host(u) = n /\ pc'[u] = "sent"
          \/ sendDone'[n] + messageSent[n] = 0 /\ ~ \E u \in Thread : Host(u) = n /\ pc'[u] = "sent"
    BY <1>0, <2>3, <2>4, <2>5 DEF SendInv
  <2> QED BY <1>u, <1>7, <2>1, <2>6, ZenonT(30) DEF SendInv
<1>9. ReceiveInv'
  BY <1>0, <1>1, <1>u, <1>2, ReceiveKept, Zenon
<1>10. DeliverInv'
  BY <1>0, <1>u, <1>2, DeliverKept, Zenon
<1>11. MailExact'
  <2>1. CASE UNCHANGED <<socket, sent>>
    BY <1>0, <1>u, <2>1, MailKept, Zenon
  <2>2. CASE socket' = [socket EXCEPT ![p.to] = Append(@, p)] /\ sent' = [sent EXCEPT ![p.to] = Append(@, p)]
    <3>1. PICK n \in Machine : n = p.to
      BY <1>4, Zenon
    <3>2. /\ socket'[n] = Append(socket[n], p) /\ sent'[n] = Append(sent[n], p)
          /\ \A k \in Machine \ {n} : socket'[k] = socket[k] /\ sent'[k] = sent[k]
      BY <1>0, <2>2, <3>1, Zenon DEF PostTypeOK
    <3>3. \A k \in Machine : InHand(k)' = InHand(k)
      BY <1>0, <1>u, HandsKept, Zenon
    <3>4. Line(n)' = Append(Line(n), p)
      <4> DEFINE front == InHand(n) \o Buffer(n)
      <4>1. front \in Seq(Packet) /\ socket[n] \in Seq(Packet)
        BY <1>0, LineType
      <4>2. Buffer(n)' = Buffer(n)
        BY <1>u, Zenon DEF Buffer
      <4>3. Line(n) = front \o socket[n]
        BY Zenon DEF Line
      <4>4. Line(n)' = front \o Append(socket[n], p)
        BY <3>2, <3>3, <4>2, Zenon DEF Line
      <4> HIDE DEF front
      <4>5. front \o Append(socket[n], p) = Append(front \o socket[n], p)
        BY <1>3, <4>1, AppendToBoth
      <4> QED BY <4>3, <4>4, <4>5, Zenon
    <3>5. ASSUME NEW b \in Box
          PROVE  appended'[<<n, b>>] \o ForBox(Line(n)', b) = ForBox(sent'[n], b)
      <4> DEFINE a == appended[<<n, b>>]
                 f == ForBox(Line(n), b)
      <4>1. a \in Seq(Packet) /\ f \in Seq(Packet) /\ sent[n] \in Seq(Packet) /\ Line(n) \in Seq(Packet)
        BY <1>0, LineType, ForBoxType, Zenon DEF PostTypeOK
      <4>2. a \o f = ForBox(sent[n], b)
        BY <1>0, Zenon DEF MailExact, Line
      <4>3. ForBox(Line(n)', b) = Keep(f, p, b)
        BY <1>3, <3>4, <4>1, ForBoxAppend, ZenonT(30)
      <4>4. ForBox(sent'[n], b) = Keep(a \o f, p, b)
        BY <1>3, <3>2, <4>1, <4>2, ForBoxAppend
      <4> HIDE DEF a, f
      <4>5. a \o Append(f, p) = Append(a \o f, p)
        BY <1>3, <4>1, AppendToBoth
      <4>6. a \o Keep(f, p, b) = Keep(a \o f, p, b)
        BY <4>5, Zenon DEF Keep
      <4> QED BY <1>u, <4>3, <4>4, <4>6, Zenon DEF a
    <3>6. \A k \in Machine \ {n} : inbox'[k] = inbox[k]
      BY <1>u, Zenon
    <3> QED BY <1>0, <1>u, <3>2, <3>3, <3>5, <3>6, MailByMachine, Zenon
  <2> QED BY <1>1, <2>1, <2>2, Zenon
<1> QED BY <1>5, <1>6, <1>8, <1>9, <1>10, <1>11, ZenonT(30) DEF PostInv

LEMMA WaitForSentStep ==
  ASSUME PostInv, NEW t \in Thread, WaitForSent(t)
  PROVE  PostInv'
<1>0. ListInv /\ PostTypeOK /\ SendInv /\ ReceiveInv /\ DeliverInv /\ MailExact
  BY Zenon DEF PostInv
<1>m. PICK m \in Machine : m = Host(t)
  BY <1>0, SetupOK, Zenon
<1>1. /\ pc[t] = "sent" /\ messageSent[m] > 0 /\ messageSent' = [messageSent EXCEPT ![m] = @ - 1]
      /\ pc' = [pc EXCEPT ![t] = "unlock"]
  BY <1>m, Zenon DEF WaitForSent, At, Goto
<1>u. UNCHANGED <<holder, waitingQueue, list, target, argument, removed, appended, setup, mail, step, socket, inbox,
                  sendDone, messageAvailable, sent>>
  BY <1>m, Zenon DEF WaitForSent, Goto, listVars
<1>2. /\ ListTypeOK /\ pc'[t] = "unlock" /\ \A u \in Thread \ {t} : pc'[u] = pc[u]
  BY <1>0, <1>1, Zenon DEF ListInv, ListTypeOK
<1>3. ListInv'
  BY <1>0, <1>1, <1>u, <1>2, ListApart, Zenon DEF ListTypeOK, ListPlaces, MailLabels, listVars
<1>4. PostTypeOK'
  BY <1>0, <1>1, <1>u DEF PostTypeOK
<1>5. \A u \in Thread : /\ Host(u)' = Host(u) /\ Host(u) \in Machine /\ Outgoing(u)' = Outgoing(u)
                        /\ Makes(u, {"send", "reply"})' = Makes(u, {"send", "reply"})
  BY <1>0, <1>u, SetupOK, ZenonT(30) DEF Host, Makes, Call, Outgoing
<1>6. SendInv'
  <2>1. ASSUME NEW u \in Thread, pc'[u] \in {"transmit", "sent", "unlock"}
        PROVE  holder[SendLock(Host(u))] = u /\ Makes(u, {"send", "reply"}) /\ Outgoing(u) \in Packet
    BY <1>0, <1>1, <1>2, <2>1, ZenonT(30) DEF SendInv
  <2>2. \A u \in Thread : Host(u) = m /\ pc[u] \in {"transmit", "sent", "unlock"} => u = t
    BY <1>0, <1>m, <1>1, OneSender, Zenon
  <2>3. sendDone[m] + messageSent'[m] = 0
    <3>1. sendDone[m] + messageSent[m] = 1
      BY <1>0, <1>m, <1>1, Zenon DEF SendInv
    <3> QED BY <1>0, <1>1, <3>1 DEF PostTypeOK
  <2>4. ~ \E u \in Thread : Host(u) = m /\ pc'[u] = "sent"
    BY <1>2, <2>2, Zenon
  <2>5. ASSUME NEW n \in Machine \ {m}
        PROVE  /\ messageSent'[n] = messageSent[n]
               /\ (\E u \in Thread : Host(u) = n /\ pc'[u] = "sent") <=> (\E u \in Thread : Host(u) = n /\ pc[u] = "sent")
    <3>1. messageSent'[n] = messageSent[n]
      BY <1>0, <1>1, Zenon DEF PostTypeOK
    <3>2. \A u \in Thread : Host(u) = n => u # t /\ pc'[u] = pc[u]
      BY <1>m, <1>2, Zenon
    <3> QED BY <3>1, <3>2, Zenon
  <2>6. \A n \in Machine :
          \/ sendDone[n] + messageSent'[n] = 1 /\ \E u \in Thread : Host(u) = n /\ pc'[u] = "sent"
          \/ sendDone[n] + messageSent'[n] = 0 /\ ~ \E u \in Thread : Host(u) = n /\ pc'[u] = "sent"
    BY <1>0, <2>3, <2>4, <2>5 DEF SendInv
  <2> QED BY <1>u, <1>5, <2>1, <2>6 DEF SendInv
<1>7. ReceiveInv'
  BY <1>0, <1>1, <1>u, <1>2, ReceiveKept, Zenon
<1>8. DeliverInv'
  BY <1>0, <1>u, <1>2, DeliverKept, Zenon
<1>9. MailExact'
  BY <1>0, <1>u, MailKept, Zenon
<1> QED BY <1>3, <1>4, <1>6, <1>7, <1>8, <1>9, ZenonT(30) DEF PostInv

LEMMA EndSendStep ==
  ASSUME PostInv, NEW t \in Thread, EndSend(t)
  PROVE  PostInv'
<1>0. ListInv /\ PostTypeOK /\ SendInv /\ ReceiveInv /\ DeliverInv /\ MailExact
  BY Zenon DEF PostInv
<1>m. PICK m \in Machine : m = Host(t)
  BY <1>0, SetupOK, Zenon
<1>1. /\ pc[t] = "unlock" /\ holder' = [holder EXCEPT ![m] = None] /\ pc' = [pc EXCEPT ![t] = "idle"]
      /\ step' = [step EXCEPT ![t] = @ + 1]
  BY <1>m, Zenon DEF EndSend, Release, SendLock, At
<1>u. UNCHANGED <<waitingQueue, list, target, argument, removed, appended, setup, mail, socket, inbox, sendDone,
                  messageAvailable, messageSent, sent>>
  BY <1>m, Zenon DEF EndSend, Release, listVars
<1>2. /\ ListTypeOK /\ pc'[t] = "idle" /\ \A u \in Thread \ {t} : pc'[u] = pc[u] /\ step'[u] = step[u]
      /\ step'[t] = step[t] + 1 /\ step[t] \in Nat
      /\ m \in Lock /\ \A k \in Lock \ {m} : holder'[k] = holder[k]
  BY <1>0, <1>1, NamesOK, ZenonT(30) DEF ListInv, ListTypeOK, PostTypeOK
<1>3. holder' \in [Lock -> Thread \cup {None}] /\ \A k \in List : holder'[k] = holder[k]
  BY <1>1, <1>2, NamesOK, ZenonT(30) DEF ListTypeOK
<1>4. ListInv'
  BY <1>0, <1>1, <1>u, <1>3, ListApart, Zenon DEF ListPlaces, MailLabels, listVars
<1>5. PostTypeOK'
  <2>1. step \in [Thread -> Nat]
    BY <1>0, Zenon DEF PostTypeOK
  <2>2. step' \in [Thread -> Nat]
    BY <1>1, <2>1, SMTT(30)
  <2> QED BY <1>0, <1>u, <2>2, Zenon DEF PostTypeOK
<1>6. \A u \in Thread : Host(u)' = Host(u) /\ Host(u) \in Machine
  BY <1>0, <1>u, SetupOK, Zenon DEF Host
<1>7. SendInv'
  <2>1. ASSUME NEW u \in Thread, pc'[u] \in {"transmit", "sent", "unlock"}
        PROVE  holder'[SendLock(Host(u)')] = u /\ Makes(u, {"send", "reply"})' /\ Outgoing(u)' \in Packet
    <3>1. u # t /\ pc[u] = pc'[u] /\ step'[u] = step[u]
      BY <1>2, <2>1, Zenon
    <3>2. holder[SendLock(Host(u))] = u /\ Makes(u, {"send", "reply"}) /\ Outgoing(u) \in Packet
      BY <1>0, <2>1, <3>1, Zenon DEF SendInv
    <3>3. Host(u) # m /\ Host(u) \in Lock
      BY <1>0, <1>m, <1>1, <1>6, <2>1, <3>1, OneSender, NamesOK, ZenonT(30)
    <3>4. Call(u)' = Call(u)
      BY <1>u, <3>1, Zenon DEF Call
    <3>5. Outgoing(u)' = Outgoing(u) /\ Makes(u, {"send", "reply"})' = Makes(u, {"send", "reply"})
      BY <1>u, <1>6, <3>1, <3>4, Zenon DEF Outgoing, Makes
    <3> QED BY <1>2, <1>6, <3>2, <3>3, <3>5, Zenon DEF SendLock
  <2>2. \A u \in Thread : pc'[u] = "sent" <=> pc[u] = "sent"
    BY <1>1, <1>2, Zenon
  <2>3. \A n \in Machine : (\E u \in Thread : Host(u)' = n /\ pc'[u] = "sent")
                           <=> (\E u \in Thread : Host(u) = n /\ pc[u] = "sent")
    BY <1>6, <2>2, Zenon
  <2> QED BY <1>0, <1>u, <2>1, <2>3, Zenon DEF SendInv
<1>8. ReceiveInv'
  <2>1. step[t] < Len(Setup[setup].calls[t]) /\ Setup[setup].calls[t][step[t] + 1].call # "receive"
    BY <1>0, <1>1, Zenon DEF SendInv, Makes, Call
  <2>2. \A j \in 1 .. step'[t] : Setup[setup].calls[t][j].call = "receive" => j \in 1 .. step[t]
    BY <1>2, <2>1, SMTT(30)
  <2>3. (\E j \in 1 .. step'[t] : Setup[setup].calls[t][j].call = "receive") => mail[t] \in Packet
    BY <1>0, <1>1, <2>2, Zenon DEF ReceiveInv
  <2> QED BY <1>0, <1>u, <1>2, <2>3, Zenon DEF ReceiveInv
<1>9. DeliverInv'
  <2>1. argument[t] = None
    BY <1>0, <1>1, Zenon DEF ListInv, InCall
  <2> QED BY <1>0, <1>u, <1>2, <2>1, DeliverKept, Zenon
<1>10. MailExact'
  BY <1>0, <1>u, MailKept, Zenon
<1> QED BY <1>4, <1>5, <1>7, <1>8, <1>9, <1>10, ZenonT(30) DEF PostInv

-----------------------------------------------------------------------------
(* The calls on lists                                                      *)

\* A step of t in a call on a list, or into or out of one, that leaves the
\* mailboxes and what the postal workers carry alone.
LEMMA AroundList ==
  ASSUME PostInv, ListInv', NEW t \in Thread,
         UNCHANGED <<setup, mail, step, socket, inbox, sendDone, messageAvailable, messageSent, sent>>,
         \A m \in Machine : holder'[m] = holder[m],
         \A l \in Boxes : list'[l] = list[l] /\ appended'[l] = appended[l],
         pc[t] \in ListPlaces \cup {"idle"}, pc'[t] \in ListPlaces \cup {"idle"},
         \A u \in Thread \ {t} : /\ target'[u] = target[u] /\ argument'[u] = argument[u]
                                 /\ pc'[u] = pc[u] \/ (pc[u] = "asleep" /\ pc'[u] = "woken"),
         \/ target'[t] = target[t] /\ argument'[t] = argument[t]
         \/ ~(target[t] \in Boxes /\ argument[t] # None) /\ ~(target'[t] \in Boxes /\ argument'[t] # None),
         pc[t] \in {"Remove", "test", "asleep", "woken"} /\ target[t] \in Boxes =>
           pc'[t] \in {"Remove", "test", "asleep", "woken"} /\ target'[t] = target[t]
  PROVE  PostInv'
<1>0. PostTypeOK /\ SendInv /\ ReceiveInv /\ DeliverInv /\ MailExact
  BY Zenon DEF PostInv
<1>1. PostTypeOK'
  <2>1. \A l \in Machine \X Box : list'[l] \in Seq(Packet) /\ appended'[l] \in Seq(Packet)
    BY <1>0, Zenon DEF PostTypeOK, Boxes
  <2> QED BY <1>0, <2>1, Zenon DEF PostTypeOK
<1>2. \A u \in Thread : /\ pc[u] \in {"transmit", "sent", "unlock", "receive"}
                           \/ pc'[u] \in {"transmit", "sent", "unlock", "receive"} =>
                              pc'[u] = pc[u]
                        /\ step'[u] = step[u] /\ mail'[u] = mail[u]
  BY Zenon DEF ListPlaces
<1>3. SendInv'
  BY <1>0, <1>2, SendKept, Zenon
<1>4. ReceiveInv'
  <2>1. \A u \in Thread : pc[u] \in {"Remove", "test", "asleep", "woken"} /\ target[u] \in Boxes =>
          pc'[u] \in {"Remove", "test", "asleep", "woken"} /\ target'[u] = target[u]
    OBVIOUS
  <2> QED BY <1>0, <1>2, <2>1, ReceiveKept, ZenonT(30)
<1>5. \A u \in Thread : \/ target'[u] = target[u] /\ argument'[u] = argument[u]
                        \/ ~(target[u] \in Boxes /\ argument[u] # None) /\ ~(target'[u] \in Boxes /\ argument'[u] # None)
  OBVIOUS
<1>6. DeliverInv'
  BY <1>0, <1>2, <1>5, DeliverKept, Zenon
<1>7. MailExact'
  BY <1>0, <1>5, MailKept, Zenon
<1> QED BY <1>1, <1>3, <1>4, <1>6, <1>7, Zenon DEF PostInv

LEMMA LockStep ==
  ASSUME PostInv, NEW t \in Thread, UNCHANGED postVars,
         AppendLock(t) \/ RemoveLock(t) \/ RemoveWoken(t) \/ RemoveWait(t) \/ ListRelease(t)
  PROVE  PostInv'
<1> DEFINE l == target[t]
           x == pc'[t]
<1>0. ListInv /\ ListTypeOK /\ InCall
  BY Zenon DEF PostInv, ListInv
<1>1. ListInv'
  BY <1>0, ListAcquireStep, RemoveWaitStep, ListReleaseStep, ZenonT(30)
<1>2. /\ pc[t] \in {"Append", "Remove", "woken", "test", "release", "mapcar"}
      /\ \E v \in Thread \cup {None} : holder' = [holder EXCEPT ![l] = v]
      /\ \E y \in {"append", "test", "asleep", "idle"} : pc' = [pc EXCEPT ![t] = y]
      /\ UNCHANGED <<list, argument, appended>>
      /\ pc[t] \in {"Append", "Remove", "woken", "test"} => UNCHANGED target
      /\ pc[t] \in {"release", "mapcar"} => target' = [target EXCEPT ![t] = None]
      /\ pc[t] \in {"Remove", "woken", "test"} => pc' = [pc EXCEPT ![t] = "test"] \/ pc' = [pc EXCEPT ![t] = "asleep"]
  BY Zenon DEF AppendLock, RemoveLock, RemoveWoken, RemoveWait, ListRelease, EndOfWait, Acquire, Wait, Release, At, listVars
<1>3. l \in List
  <2>1. target[t] # None
    BY <1>0, <1>2, Zenon DEF InCall, ListPlaces
  <2> QED BY <1>0, <2>1, Zenon DEF ListTypeOK
<1>4. \A m \in Machine : holder'[m] = holder[m]
  BY <1>2, <1>3, NamesOK
<1>5. pc'[t] \in {"append", "test", "asleep", "idle"} /\ \A u \in Thread \ {t} : pc'[u] = pc[u] /\ target'[u] = target[u]
  BY <1>0, <1>2, ZenonT(30) DEF ListTypeOK
<1>6. pc[t] \in {"Remove", "woken", "test"} => pc'[t] \in {"test", "asleep"} /\ target'[t] = target[t]
  BY <1>0, <1>2, ZenonT(30) DEF ListTypeOK
<1>7. \/ target'[t] = target[t] /\ argument'[t] = argument[t]
      \/ argument[t] = None /\ argument'[t] = None
  BY <1>0, <1>2, Zenon DEF InCall
<1>8. pc[t] # "asleep"
  BY <1>2, Zenon
<1>9. UNCHANGED <<setup, mail, step, socket, inbox, sendDone, messageAvailable, messageSent, sent>>
  BY Zenon DEF postVars
<1>10. pc[t] \in ListPlaces \cup {"idle"} /\ pc'[t] \in ListPlaces \cup {"idle"}
  BY <1>2, <1>5, Zenon DEF ListPlaces
<1> QED BY <1>1, <1>2, <1>4, <1>5, <1>6, <1>7, <1>8, <1>9, <1>10, AroundList, ZenonT(30)

LEMMA AppendPlainStep ==
  ASSUME PostInv, NEW t \in Thread, AppendItem(t), UNCHANGED postVars, target[t] \notin Boxes
  PROVE  PostInv'
<1> DEFINE l == target[t]
<1>0. ListInv /\ ListTypeOK /\ InCall
  BY Zenon DEF PostInv, ListInv
<1>1. /\ pc[t] = "append" /\ list' = [list EXCEPT ![l] = Append(@, argument[t])]
      /\ appended' = [appended EXCEPT ![l] = Append(@, argument[t])]
      /\ argument' = [argument EXCEPT ![t] = None] /\ UNCHANGED <<target, holder>>
  BY Zenon DEF AppendItem, Signalled, Signal, Goto, At
<1>2. /\ ListInv' /\ pc'[t] = "release"
      /\ \A u \in Thread \ {t} : pc'[u] = pc[u] \/ (pc[u] = "asleep" /\ pc'[u] = "woken")
  BY <1>0, AppendItemStep, Zenon
<1>3. \A k \in Boxes : list'[k] = list[k] /\ appended'[k] = appended[k]
  BY <1>0, <1>1, NamesOK, Zenon DEF ListTypeOK, Boxes
<1>4. \A u \in Thread \ {t} : target'[u] = target[u] /\ argument'[u] = argument[u]
  BY <1>0, <1>1, Zenon DEF ListTypeOK
<1>5. UNCHANGED <<setup, mail, step, socket, inbox, sendDone, messageAvailable, messageSent, sent>>
  BY Zenon DEF postVars
<1>6. pc[t] \in ListPlaces \cup {"idle"} /\ pc'[t] \in ListPlaces \cup {"idle"}
  BY <1>1, <1>2, Zenon DEF ListPlaces
<1>7. target[t] \notin Boxes /\ target'[t] \notin Boxes
  BY <1>1, Zenon
<1> HIDE DEF l
<1> QED BY <1>1, <1>2, <1>3, <1>4, <1>5, <1>6, <1>7, AroundList, ZenonT(30)

\* The postal worker's Append: the mail goes from its hands into the box.
LEMMA AppendMailStep ==
  ASSUME PostInv, NEW t \in Thread, AppendItem(t), UNCHANGED postVars, target[t] \in Boxes
  PROVE  PostInv'
<1>0. ListInv /\ ListTypeOK /\ InCall /\ PostTypeOK /\ SendInv /\ ReceiveInv /\ DeliverInv /\ MailExact
  BY Zenon DEF PostInv, ListInv
<1>m. PICK m \in Machine : m = Host(t)
  BY <1>0, SetupOK, Zenon
<1>p. PICK p : p = argument[t]
  OBVIOUS
<1> DEFINE l == <<m, p.box>>
<1>1. pc[t] = "append" /\ argument[t] # None
  BY <1>0, Zenon DEF InCall, AppendItem, At
<1>2. p \in Packet /\ target[t] = l /\ Makes(t, {"deliver"}) /\ p.box \in Box
  BY <1>0, <1>m, <1>p, <1>1, Zenon DEF DeliverInv, Boxes, Packet
<1>3. l \in List /\ l \in Boxes
  BY <1>2, NamesOK, Zenon
<1>4. /\ list' = [list EXCEPT ![l] = Append(@, p)] /\ appended' = [appended EXCEPT ![l] = Append(@, p)]
      /\ argument' = [argument EXCEPT ![t] = None] /\ UNCHANGED <<target, holder>>
      /\ UNCHANGED <<setup, mail, step, socket, inbox, sendDone, messageAvailable, messageSent, sent>>
  BY <1>p, <1>2, Zenon DEF AppendItem, Signalled, Signal, Goto, postVars
<1>5. /\ ListInv' /\ pc'[t] = "release"
      /\ \A u \in Thread \ {t} : pc'[u] = pc[u] \/ (pc[u] = "asleep" /\ pc'[u] = "woken")
  BY <1>0, AppendItemStep, Zenon
<1>6. /\ argument'[t] = None /\ \A u \in Thread \ {t} : argument'[u] = argument[u]
      /\ list'[l] = Append(list[l], p) /\ appended'[l] = Append(appended[l], p)
      /\ \A k \in List \ {l} : list'[k] = list[k] /\ appended'[k] = appended[k]
  BY <1>0, <1>3, <1>4, Zenon DEF ListTypeOK
<1> HIDE DEF l
<1>7. PostTypeOK'
  <2>1. \A k \in Machine \X Box : list'[k] \in Seq(Packet) /\ appended'[k] \in Seq(Packet)
    <3>1. list[l] \in Seq(Packet) /\ appended[l] \in Seq(Packet)
      BY <1>0, <1>3, Zenon DEF PostTypeOK, Boxes
    <3>2. Append(list[l], p) \in Seq(Packet) /\ Append(appended[l], p) \in Seq(Packet)
      BY <1>2, <3>1
    <3>3. \A k \in Machine \X Box : k \in List /\ list[k] \in Seq(Packet) /\ appended[k] \in Seq(Packet)
      BY <1>0, NamesOK, Zenon DEF PostTypeOK
    <3> QED BY <1>6, <3>2, <3>3, Zenon
  <2> QED BY <1>0, <1>4, <2>1, Zenon DEF PostTypeOK
<1>8. SendInv'
  BY <1>0, <1>1, <1>4, <1>5, SendKept, ZenonT(30)
<1>9. ReceiveInv'
  BY <1>0, <1>1, <1>4, <1>5, ReceiveKept, ZenonT(30)
<1>10. DeliverInv'
  BY <1>0, <1>4, <1>5, <1>6, DeliverKept, ZenonT(30)
<1>11. MailExact'
  <2>1. target[t] \in {m} \X Box /\ argument[t] # None
    BY <1>1, <1>2 DEF l
  <2>2. InHand(m) = <<p>>
    BY <1>0, <1>p, <2>1, HandsFull, Zenon
  <2>3. \A u \in Thread : ~(target'[u] \in {m} \X Box /\ argument'[u] # None)
    <3>1. ASSUME NEW u \in Thread, target[u] \in {m} \X Box, argument[u] # None
          PROVE  u = t
      BY <1>0, <1>m, <1>2, <3>1, OneWorker DEF DeliverInv
    <3> QED BY <1>4, <1>6, <3>1, Zenon
  <2>4. InHand(m)' = << >>
    <3>1. Carried(m, target', argument') = << >>
      BY <2>3, CarriedNone, Zenon
    <3> QED BY <3>1, CarriedIs, Zenon
  <2>5. ASSUME NEW n \in Machine \ {m}
        PROVE  InHand(n)' = InHand(n)
    <3>1. target[t] \notin {n} \X Box
      BY <1>2 DEF l
    <3> QED BY <1>0, <1>4, <1>6, <3>1, HandsKept, Zenon
  <2> DEFINE rest == Buffer(m) \o socket[m]
  <2>6. Buffer(m) \in Seq(Packet) /\ socket[m] \in Seq(Packet) /\ Buffer(m)' = Buffer(m)
    BY <1>0, <1>4, LineType, ZenonT(30) DEF Buffer
  <2>7. rest \in Seq(Packet) /\ Line(m) = <<p>> \o rest /\ Line(m)' = rest
    <3> DEFINE buf == Buffer(m)
               soc == socket[m]
    <3>1. Line(m) = (<<p>> \o buf) \o soc /\ Line(m)' = (<< >> \o buf) \o soc
      BY <1>4, <2>2, <2>4, <2>6, Zenon DEF Line
    <3>2. buf \in Seq(Packet) /\ soc \in Seq(Packet)
      BY <2>6, Zenon
    <3> HIDE DEF buf, soc
    <3>3. << >> \o buf = buf /\ buf \o soc \in Seq(Packet)
      BY <3>2
    <3>4. (<<p>> \o buf) \o soc = <<p>> \o (buf \o soc)
      BY <1>2, <3>2
    <3> QED BY <3>1, <3>3, <3>4, Zenon DEF buf, soc
  <2> HIDE DEF rest
  <2>8. ASSUME NEW b \in Box
        PROVE  appended'[<<m, b>>] \o ForBox(Line(m)', b) = ForBox(sent'[m], b)
    <3> DEFINE a == appended[<<m, b>>]
               f == ForBox(rest, b)
    <3>1. a \in Seq(Packet) /\ f \in Seq(Packet)
      BY <1>0, <2>7, ForBoxType, Zenon DEF PostTypeOK
    <3>2. a \o ForBox(Line(m), b) = ForBox(sent[m], b)
      BY <1>0, Zenon DEF MailExact, Line
    <3>3. ForBox(Line(m), b) = Keep(<< >>, p, b) \o f
      BY <1>2, <2>7, ForBoxCons, Zenon
    <3> HIDE DEF f
    <3>4. CASE p.box = b
      <4>1. appended'[<<m, b>>] = Append(a, p)
        BY <1>6, <3>4, Zenon DEF l
      <4>2. Keep(<< >>, p, b) = <<p>>
        BY <3>4 DEF Keep
      <4> HIDE DEF a
      <4>3. Append(a, p) \o f = a \o (<<p>> \o f)
        BY <1>2, <3>1
      <4> QED BY <1>4, <2>7, <3>2, <3>3, <4>1, <4>2, <4>3, ZenonT(30) DEF f
    <3>5. CASE p.box # b
      <4>1. appended'[<<m, b>>] = a
        BY <1>6, <3>5, NamesOK, Zenon DEF l
      <4>2. Keep(<< >>, p, b) = << >>
        BY <3>5, Zenon DEF Keep
      <4>3. << >> \o f = f
        BY <3>1
      <4> QED BY <1>4, <2>7, <3>2, <3>3, <4>1, <4>2, <4>3, ZenonT(30) DEF f
    <3> QED BY <3>4, <3>5, Zenon
  <2>9. \A n \in Machine \ {m}, b \in Box : appended'[<<n, b>>] = appended[<<n, b>>]
    BY <1>6, NamesOK, Zenon DEF l
  <2> QED BY <1>0, <1>4, <2>5, <2>8, <2>9, MailByMachine, ZenonT(30)
<1> QED BY <1>5, <1>7, <1>8, <1>9, <1>10, <1>11, Zenon DEF PostInv

\* MailBox::Get of mail, or Remove from a plain list.
LEMMA TakeItemStep ==
  ASSUME PostInv, NEW t \in Thread, TakeItem(t)
  PROVE  PostInv'
<1> DEFINE l == target[t]
<1>0. ListInv /\ ListTypeOK /\ InCall /\ PostTypeOK /\ SendInv /\ ReceiveInv /\ DeliverInv /\ MailExact
  BY Zenon DEF PostInv, ListInv
<1>1. /\ pc[t] = "test" /\ list[l] # << >> /\ pc' = [pc EXCEPT ![t] = "release"]
      /\ mail' = IF l \in Boxes THEN [mail EXCEPT ![t] = Head(list[l])] ELSE mail
      /\ list' = list \/ list' = [list EXCEPT ![l] = Tail(@)]
  BY Zenon DEF TakeItem, RemoveItem, TakeFirst, Goto, At, Boxes
<1>u. UNCHANGED <<holder, target, argument, appended, setup, step, socket, inbox, sendDone, messageAvailable,
                  messageSent, sent>>
  BY Zenon DEF TakeItem, RemoveItem, TakeFirst, Goto
<1>2. ListInv'
  BY <1>0, RemoveItemStep, Zenon DEF TakeItem
<1>3. l \in List /\ pc'[t] = "release" /\ \A u \in Thread \ {t} : pc'[u] = pc[u]
  BY <1>0, <1>1 DEF InCall, ListTypeOK, ListPlaces
<1>4. CASE l \notin Boxes
  <2>1. \A k \in Boxes : list'[k] = list[k] /\ appended'[k] = appended[k]
    BY <1>0, <1>1, <1>u, <1>3, <1>4, NamesOK, ZenonT(30) DEF ListTypeOK, Boxes
  <2>2. pc[t] \in ListPlaces \cup {"idle"} /\ pc'[t] \in ListPlaces \cup {"idle"}
    BY <1>1, <1>3, Zenon DEF ListPlaces
  <2>3. mail' = mail /\ target[t] \notin Boxes
    BY <1>1, <1>4, Zenon
  <2> HIDE DEF l
  <2> QED BY <1>u, <1>2, <1>3, <2>1, <2>2, <2>3, AroundList, Zenon
<1>5. CASE l \in Boxes
  <2>1. list[l] \in Seq(Packet) /\ Head(list[l]) \in Packet /\ Tail(list[l]) \in Seq(Packet)
    <3>1. list[l] \in Seq(Packet)
      BY <1>0, <1>5, Zenon DEF PostTypeOK, Boxes
    <3> QED BY <1>1, <3>1
  <2>2. mail'[t] = Head(list[l]) /\ \A u \in Thread \ {t} : mail'[u] = mail[u]
    BY <1>0, <1>1, <1>5, Zenon DEF PostTypeOK
  <2>3. mail' \in [Thread -> Packet \cup {None}]
    BY <1>0, <1>1, <1>5, <2>1, Zenon DEF PostTypeOK
  <2>4. \A k \in Machine \X Box : list'[k] \in Seq(Packet) /\ appended'[k] \in Seq(Packet)
    <3>1. \A k \in List \ {l} : list'[k] = list[k]
      BY <1>0, <1>1, <1>3, Zenon DEF ListTypeOK
    <3>2. list'[l] = list[l] \/ list'[l] = Tail(list[l])
      BY <1>0, <1>1, <1>3, Zenon DEF ListTypeOK
    <3> HIDE DEF l
    <3>3. \A k \in Machine \X Box : k \in List /\ list[k] \in Seq(Packet) /\ appended[k] \in Seq(Packet)
      BY <1>0, NamesOK, Zenon DEF PostTypeOK
    <3> QED BY <1>u, <2>1, <3>1, <3>2, <3>3, Zenon
  <2>5. PostTypeOK'
    BY <1>0, <1>u, <2>3, <2>4, Zenon DEF PostTypeOK
  <2>6. SendInv'
    BY <1>0, <1>1, <1>u, <1>3, <2>2, SendKept, ZenonT(30)
  <2>7. ReceiveInv'
    BY <1>0, <1>u, <1>3, <2>1, <2>2 DEF ReceiveInv
  <2>8. DeliverInv'
    BY <1>0, <1>u, <1>3, DeliverKept, Zenon
  <2>9. MailExact'
    BY <1>0, <1>u, MailKept, Zenon
  <2> QED BY <1>2, <2>5, <2>6, <2>7, <2>8, <2>9, Zenon DEF PostInv
<1> QED BY <1>4, <1>5, Zenon

\* PostOffice::Receive: the wait for mail begins, and the call counts as made.
LEMMA ReceiveStep ==
  ASSUME PostInv, NEW t \in Thread, Receive(t)
  PROVE  PostInv'
<1> DEFINE l == <<Host(t), Call(t).box>>
<1>0. ListInv /\ ListTypeOK /\ InCall /\ PostTypeOK /\ SendInv /\ ReceiveInv /\ DeliverInv /\ MailExact
  BY Zenon DEF PostInv, ListInv
<1>1. /\ pc[t] = "idle" /\ Makes(t, {"receive"}) /\ CallRemove(t, l) /\ step' = [step EXCEPT ![t] = @ + 1]
  BY Zenon DEF Receive, Get, Calls, At, Makes
<1>u. UNCHANGED <<setup, mail, socket, inbox, sendDone, messageAvailable, messageSent, sent>>
  BY Zenon DEF Receive
<1>2. l \in Boxes /\ l \in List
  BY <1>0, <1>1, SetupOK, CallOK, NamesOK, Zenon DEF Makes, Boxes
<1>3. ListInv'
  BY <1>0, <1>1, <1>2, CallRemoveStep, Zenon DEF ListPlaces
<1>4. /\ target' = [target EXCEPT ![t] = l] /\ pc' = [pc EXCEPT ![t] = "Remove"]
      /\ UNCHANGED <<holder, waitingQueue, list, argument, removed, appended>>
  BY <1>1, Zenon DEF CallRemove, Goto
<1> HIDE DEF l
<1>5. /\ pc'[t] = "Remove" /\ target'[t] = l /\ argument[t] = None
      /\ \A u \in Thread \ {t} : pc'[u] = pc[u] /\ target'[u] = target[u] /\ step'[u] = step[u]
  BY <1>0, <1>1, <1>4, ZenonT(30) DEF ListTypeOK, InCall, PostTypeOK
<1>6. PostTypeOK'
  <2>0. step \in [Thread -> Nat]
    BY <1>0, Zenon DEF PostTypeOK
  <2>1. step' \in [Thread -> Nat]
    BY <1>1, <2>0
  <2> QED BY <1>0, <1>u, <1>4, <2>1, Zenon DEF PostTypeOK
<1>7. SendInv'
  BY <1>0, <1>1, <1>u, <1>4, <1>5, SendKept, Zenon
<1>8. ReceiveInv'
  <2>1. target'[t] \in Machine \X Box
    BY <1>2, <1>5, Zenon DEF Boxes
  <2> QED BY <1>0, <1>u, <1>5, <2>1, Zenon DEF ReceiveInv
<1>9. DeliverInv'
  BY <1>0, <1>u, <1>4, <1>5, DeliverKept, Zenon
<1>10. MailExact'
  BY <1>0, <1>u, <1>4, <1>5, MailKept, ZenonT(30)
<1> QED BY <1>3, <1>6, <1>7, <1>8, <1>9, <1>10, Zenon DEF PostInv

LEMMA ClientStep ==
  ASSUME PostInv, NEW t \in Thread, Client(t)
  PROVE  PostInv'
<1> DEFINE l == Call(t).list
<1>0. ListInv /\ ListTypeOK /\ InCall /\ PostTypeOK
  BY Zenon DEF PostInv, ListInv
<1>1. /\ pc[t] = "idle" /\ Makes(t, {"list"})
      /\ (\E item \in 1 .. MaxItems : CallAppend(t, l, item)) \/ CallRemove(t, l) \/ MapcarLock(t, l)
  BY Zenon DEF Client, Calls, At, Makes
<1>u. UNCHANGED <<setup, mail, step, socket, inbox, sendDone, messageAvailable, messageSent, sent>>
  BY Zenon DEF Client, postVars
<1>2. l \in List /\ l \notin Boxes
  BY <1>0, <1>1, CallOK, Zenon DEF Makes
<1> HIDE DEF l
<1>3. ListInv'
  <2>1. \A item \in 1 .. MaxItems : item \in Item
    BY Zenon DEF Item
  <2>2. pc[t] \notin ListPlaces
    BY <1>1, Zenon DEF ListPlaces
  <2> QED BY <1>0, <1>1, <1>2, <2>1, <2>2, CallAppendStep, CallRemoveStep, MapcarStep, ZenonT(30)
<1>4. /\ target' = [target EXCEPT ![t] = l] /\ UNCHANGED <<list, appended>>
      /\ holder' = holder \/ holder' = [holder EXCEPT ![l] = t]
      /\ argument' = argument \/ \E item : argument' = [argument EXCEPT ![t] = item]
      /\ \E y \in {"Append", "Remove", "mapcar"} : pc' = [pc EXCEPT ![t] = y]
  BY <1>1, Zenon DEF CallAppend, CallRemove, MapcarLock, Acquire, Goto
<1>5. /\ target'[t] = l /\ pc'[t] \in {"Append", "Remove", "mapcar"} /\ argument[t] = None
      /\ \A u \in Thread \ {t} : pc'[u] = pc[u] /\ target'[u] = target[u] /\ argument'[u] = argument[u]
  BY <1>0, <1>1, <1>4, ZenonT(30) DEF ListTypeOK, InCall
<1>6. \A m \in Machine : holder'[m] = holder[m]
  BY <1>0, <1>2, <1>4, NamesOK DEF ListTypeOK
<1>7. pc[t] \in ListPlaces \cup {"idle"} /\ pc'[t] \in ListPlaces \cup {"idle"}
  BY <1>1, <1>5, Zenon DEF ListPlaces
<1> QED BY <1>1, <1>u, <1>2, <1>3, <1>4, <1>5, <1>6, <1>7, AroundList, ZenonT(30)

LEMMA UsesListStep ==
  ASSUME PostInv, NEW t \in Thread, UsesList(t)
  PROVE  PostInv'
BY LockStep, AppendPlainStep, AppendMailStep, Zenon DEF UsesList, ListStep

-----------------------------------------------------------------------------
(* The theorems                                                            *)

LEMMA InitPost ==
  ASSUME PostInit
  PROVE  PostInv
<1>1. /\ setup \in DOMAIN Setup
      /\ holder = [l \in Lock |-> None] /\ waitingQueue = [c \in Condition |-> << >>] /\ pc = [t \in Thread |-> "idle"]
      /\ list = [l \in List |-> << >>] /\ removed = [l \in List |-> << >>] /\ appended = [l \in List |-> << >>]
      /\ target = [t \in Thread |-> None] /\ argument = [t \in Thread |-> None]
      /\ step = [t \in Thread |-> 0] /\ mail = [t \in Thread |-> None]
      /\ socket = [m \in Machine |-> << >>] /\ inbox = [m \in Machine |-> None]
      /\ sendDone = [m \in Machine |-> 0] /\ messageSent = [m \in Machine |-> 0]
      /\ messageAvailable = [m \in Machine |-> 0] /\ sent = [m \in Machine |-> << >>]
  BY Zenon DEF PostInit, MonitorInit, SynchListInit
<1>2. ListTypeOK
  BY <1>1, NamesOK DEF ListTypeOK, MailLabels
<1>3. InCall
  BY <1>1, Zenon DEF InCall, ListPlaces
<1>4. SleepersQueued /\ EveryItemHasTaker
  <2>1. \A l \in List : waitingQueue[l] = << >>
    BY <1>1, NamesOK, Zenon
  <2> QED BY <2>1 DEF SleepersQueued, EveryItemHasTaker
<1>5. FirstInFirstOut
  BY <1>1 DEF FirstInFirstOut
<1>6. PostTypeOK
  <2>1. \A l \in Machine \X Box : list[l] = << >> /\ appended[l] = << >>
    BY <1>1, NamesOK, Zenon
  <2>2. step \in [Thread -> Nat] /\ mail \in [Thread -> Packet \cup {None}] /\ inbox \in [Machine -> Packet \cup {None}]
    BY <1>1, Zenon
  <2>3. socket \in [Machine -> Seq(Packet)] /\ sent \in [Machine -> Seq(Packet)]
    BY <1>1
  <2>4. sendDone \in [Machine -> Nat] /\ messageSent \in [Machine -> Nat] /\ messageAvailable \in [Machine -> Nat]
    BY <1>1, Zenon
  <2>5. \A l \in Machine \X Box : list[l] \in Seq(Packet) /\ appended[l] \in Seq(Packet)
    <3>1. << >> \in Seq(Packet)
      OBVIOUS
    <3> QED BY <2>1, <3>1, Zenon
  <2> QED BY <1>1, <2>2, <2>3, <2>4, <2>5, Zenon DEF PostTypeOK
<1>7. SendInv
  BY <1>1 DEF SendInv
<1>8. ReceiveInv
  BY <1>1 DEF ReceiveInv
<1>9. DeliverInv
  BY <1>1, Zenon DEF DeliverInv
<1>10. MailExact
  <2>1. ASSUME NEW m \in Machine, NEW b \in Box
        PROVE  appended[<<m, b>>] \o ForBox(InHand(m) \o Buffer(m) \o socket[m], b) = ForBox(sent[m], b)
    <3>1. InHand(m) = << >>
      BY <1>1, HandsEmpty, Zenon
    <3>2. Buffer(m) = << >> /\ socket[m] = << >> /\ sent[m] = << >> /\ appended[<<m, b>>] = << >>
      BY <1>1, NamesOK, Zenon DEF Buffer
    <3>3. << >> \o << >> \o << >> = << >>
      OBVIOUS
    <3>4. ForBox(<< >>, b) = << >>
      BY ForBoxEmpty, Zenon
    <3> QED BY <3>1, <3>2, <3>3, <3>4
  <2> QED BY <2>1, Zenon DEF MailExact
<1> QED BY <1>2, <1>3, <1>4, <1>5, <1>6, <1>7, <1>8, <1>9, <1>10, Zenon DEF PostInv, ListInv

\* In a network of any number of machines, with any threads on them that use
\* the post offices and synchronized lists, PostInv holds in every reachable
\* state.
THEOREM PostInvariant == PostSpec => []PostInv
<1>1. PostInit => PostInv
  BY InitPost, Zenon
<1>2. PostInv /\ [PostNext]_mailVars => PostInv'
  <2> SUFFICES ASSUME PostInv, [PostNext]_mailVars PROVE PostInv'
    OBVIOUS
  <2>1. CASE UNCHANGED mailVars
    BY <2>1, StatusStep, Zenon DEF mailVars, postVars
  <2>2. ASSUME NEW m \in Machine, Boot(m) PROVE PostInv'
    BY <2>2, StatusStep, Zenon DEF Boot
  <2>3. ASSUME NEW m \in Machine, CheckPktAvail(m) \/ SendDone(m) PROVE PostInv'
    BY <2>3, CheckPktAvailStep, SendDoneStep, Zenon
  <2>4. ASSUME NEW t \in Thread, WaitForMessage(t) \/ PostalDelivery(t) PROVE PostInv'
    BY <2>4, WaitForMessageStep, PostalDeliveryStep, Zenon
  <2>5. ASSUME NEW t \in Thread, StartSend(t) \/ NetworkSend(t) \/ WaitForSent(t) \/ EndSend(t) PROVE PostInv'
    BY <2>5, StartSendStep, NetworkSendStep, WaitForSentStep, EndSendStep, Zenon
  <2>6. ASSUME NEW t \in Thread, Halt(t) PROVE PostInv'
    BY <2>6, StatusStep, Zenon DEF Halt
  <2>7. ASSUME NEW t \in Thread, Receive(t) \/ UsesList(t) \/ TakeItem(t) \/ Client(t) PROVE PostInv'
    BY <2>7, ReceiveStep, UsesListStep, TakeItemStep, ClientStep, Zenon
  <2> QED BY <2>1, <2>2, <2>3, <2>4, <2>5, <2>6, <2>7, ZenonT(30) DEF PostNext, PostStep
<1> QED BY <1>1, <1>2, PTL DEF PostSpec

\* SynchList is a queue whatever its users do: what Remove returned, followed
\* by what is in the list, is what Append put in.
THEOREM ListIsQueue == PostSpec => []FirstInFirstOut
<1>1. PostInv => FirstInFirstOut
  BY Zenon DEF PostInv, ListInv
<1> QED BY <1>1, PostInvariant, PTL

\* SynchList::Append and Remove lose no wakeup: while threads sleep in Remove
\* there is a thread awake for every item in the list.
THEOREM ListNoLostWakeup == PostSpec => []EveryItemHasTaker
<1>1. PostInv => EveryItemHasTaker
  BY Zenon DEF PostInv, ListInv
<1> QED BY <1>1, PostInvariant, PTL

\* The packets sent to a box are, in order, those that were put into it, then
\* those with the postal worker, in the device and in the socket.
THEOREM MailInOrder == PostSpec => []MailExact
<1>1. PostInv => MailExact
  BY Zenon DEF PostInv
<1> QED BY <1>1, PostInvariant, PTL

\* PostOffice::Send has one packet on the way to the network at a time, and
\* returns on the interrupt of its own packet.
THEOREM SendsTakeTurns == PostSpec => []OneSendAtATime
<1>1. ASSUME PostInv PROVE OneSendAtATime
  <2>0. SendInv
    BY <1>1, Zenon DEF PostInv
  <2>1. ASSUME NEW m \in Machine
        PROVE  sendDone[m] + messageSent[m] = Cardinality({t \in Thread : Host(t) = m /\ pc[t] = "sent"})
                 /\ sendDone[m] + messageSent[m] <= 1
    <3> DEFINE S == {t \in Thread : Host(t) = m /\ pc[t] = "sent"}
    <3>1. CASE \E t \in Thread : Host(t) = m /\ pc[t] = "sent"
      <4>1. PICK t \in Thread : Host(t) = m /\ pc[t] = "sent"
        BY <3>1, Zenon
      <4>2. S = {t}
        BY <2>0, <4>1, OneSender, Zenon
      <4>3. Cardinality(S) = 1
        BY <4>2, FS_Singleton, Zenon
      <4>4. sendDone[m] + messageSent[m] = 1
        BY <2>0, <3>1, Zenon DEF SendInv
      <4> QED BY <4>3, <4>4
    <3>2. CASE ~ \E t \in Thread : Host(t) = m /\ pc[t] = "sent"
      <4>1. S = {}
        BY <3>2, Zenon
      <4>2. Cardinality(S) = 0
        BY <4>1, FS_EmptySet, Zenon
      <4>3. sendDone[m] + messageSent[m] = 0
        BY <2>0, <3>2, Zenon DEF SendInv
      <4> QED BY <4>2, <4>3
    <3> QED BY <3>1, <3>2, Zenon
  <2> QED BY <2>1, Zenon DEF OneSendAtATime
<1> QED BY <1>1, PostInvariant, PTL

=============================================================================

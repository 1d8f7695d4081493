----------------------------- MODULE HiveProofs ------------------------------
(***************************************************************************)
(* Proofs about the hive, for any number of tamas, starts, slots, screens, *)
(* datagrams under way and faults.  The server's part of each step is what *)
(* TamaServerProofs shows of a datagram that is handled or dropped.        *)
(***************************************************************************)
EXTENDS Hive, FiniteSetTheorems, SequenceTheorems, TLAPS

SP == INSTANCE TamaServerProofs
  WITH Addrs <- Sockets, Displays <- Screens, DrawsMayMiss <- TRUE

Packets == [type : {"IMAGE"}, body : Screens] \cup [type : Talk, body : Bodies]
             \cup [type : {"BYE"}, body : {0}]
Pixels  == {s.pixels : s \in Screens} \cup {NoPixels}

HiveTypeOK ==
  /\ tama \in [Tamas -> [run : Nat, olddisp : Pixels, up : BOOLEAN]]
  /\ \A t \in Tamas : tama[t].run \in 1..Starts[t]
  /\ toServer \in [Sockets -> Seq(Packets)]
  /\ faults \in 0..MaxFaults
  /\ ghosts \in Nat
  /\ astray \subseteq Tamas

LEMMA BlankIsAScreen == Blank \in Screens
  BY HiveAssumption DEF Blank

(* The assumption of the server's module, for this instance of it. *)
LEMMA ServerAssumed ==
  /\ NoAddr \notin Sockets /\ Blank \in Screens
  /\ MAXCLIENT \in Nat \ {0} /\ SEQMOD \in Nat \ {0, 1}
  /\ FRESH \in Nat /\ SeqLimit \in 1..SEQMOD /\ TRUE \in BOOLEAN
  BY HiveAssumption, BlankIsAScreen

LEMMA SocketParts ==
  ASSUME NEW a \in Sockets
  PROVE  a[1] \in Tamas /\ a[2] \in 1..Starts[a[1]] /\ a = <<a[1], a[2]>>
  BY DEF Sockets

LEMMA SocketIs ==
  ASSUME NEW t \in Tamas, NEW n \in 1..Starts[t]
  PROVE  <<t, n>> \in Sockets
  BY DEF Sockets

LEMMA OwnSocket ==
  ASSUME HiveTypeOK, NEW t \in Tamas
  PROVE  SocketOf(t) \in Sockets /\ SocketOf(t)[1] = t /\ SocketOf(t)[2] = tama[t].run
  BY SocketIs DEF HiveTypeOK, SocketOf

LEMMA PacketKinds ==
  ASSUME NEW m \in Packets
  PROVE  /\ m.type = "IMAGE" => m.body \in Screens
         /\ m.type \in {"IRSTART", "IRSTARTACK", "IRDATA"} => m.body \in Bodies
         /\ m.type \in {"IMAGE", "IRSTART", "IRSTARTACK", "IRDATA", "BYE"}
  BY ClientAssumption DEF Packets
-----------------------------------------------------------------------------
(* What is appended, lost or overtaken, by its index. *)

LEMMA Appended ==
  ASSUME NEW S, NEW q \in Seq(S), NEW r \in Seq(S)
  PROVE  /\ q \o r \in Seq(S)
         /\ Len(q \o r) = Len(q) + Len(r)
         /\ \A i \in 1..Len(q) : (q \o r)[i] = q[i]
         /\ \A i \in 1..Len(r) : (q \o r)[Len(q) + i] = r[i]
  OBVIOUS

LEMMA WithoutOne ==
  ASSUME NEW S, NEW q \in Seq(S), NEW i \in 1..Len(q)
  PROVE  /\ Without(q, i) \in Seq(S)
         /\ Len(Without(q, i)) = Len(q) - 1
         /\ \A j \in 1..(Len(q) - 1) : Without(q, i)[j] = IF j < i THEN q[j] ELSE q[j + 1]
<1> DEFINE before == SubSeq(q, 1, i - 1)
           after  == SubSeq(q, i + 1, Len(q))
<1>1. before \in Seq(S) /\ Len(before) = i - 1 /\ \A j \in 1..(i - 1) : before[j] = q[j]
  OBVIOUS
<1>2. after \in Seq(S) /\ Len(after) = Len(q) - i
      /\ \A j \in 1..(Len(q) - i) : after[j] = q[j + i]
  <2>1. \A k \in (i + 1)..Len(q) : q[k] \in S
    OBVIOUS
  <2> QED BY <2>1, SubSeqProperties
<1> HIDE DEF before, after
<1>3. Without(q, i) = before \o after
  BY DEF Without, before, after
<1>4. \A j \in 1..(Len(q) - 1) : j < i => (before \o after)[j] = q[j]
  BY <1>1, <1>2
<1>5. ASSUME NEW j \in 1..(Len(q) - 1), ~(j < i)
      PROVE  (before \o after)[j] = q[j + 1]
  <2>1. j - (i - 1) \in 1..(Len(q) - i) /\ (i - 1) + (j - (i - 1)) = j
    BY <1>5
  <2>2. (before \o after)[j] = after[j - (i - 1)]
    BY <1>1, <1>2, <2>1
  <2> QED BY <1>2, <2>1, <2>2
<1>6. before \o after \in Seq(S) /\ Len(before \o after) = Len(q) - 1
  BY <1>1, <1>2
<1>7. \A j \in 1..(Len(q) - 1) : (before \o after)[j] = IF j < i THEN q[j] ELSE q[j + 1]
  BY <1>4, <1>5
<1> QED BY <1>3, <1>6, <1>7

LEMMA Behind ==
  ASSUME NEW S, NEW q \in Seq(S), q # <<>>
  PROVE  /\ Tail(q) \in Seq(S)
         /\ Len(Tail(q)) = Len(q) - 1
         /\ \A i \in 1..(Len(q) - 1) : Tail(q)[i] = q[i + 1]
         /\ Head(q) = q[1] /\ 1 \in 1..Len(q)
  OBVIOUS
LEMMA LastOfTail ==
  ASSUME NEW S, NEW q \in Seq(S), q # <<>>
  PROVE  IF Len(q) = 1 THEN Tail(q) = <<>> /\ Head(q) = q[Len(q)]
         ELSE Tail(q) # <<>> /\ Tail(q)[Len(Tail(q))] = q[Len(q)]
<1>1. /\ Tail(q) \in Seq(S) /\ Len(Tail(q)) = Len(q) - 1
      /\ \A i \in 1..(Len(q) - 1) : Tail(q)[i] = q[i + 1]
      /\ Head(q) = q[1]
  BY Behind
<1>2. Len(q) \in Nat /\ Len(q) >= 1
  OBVIOUS
<1> DEFINE r == Tail(q)
<1> HIDE DEF r
<1>3. r \in Seq(S) /\ Len(r) = Len(q) - 1 /\ (Len(q) # 1 => r[Len(q) - 1] = q[(Len(q) - 1) + 1])
  BY <1>1, <1>2 DEF r
<1>4. r = <<>> <=> Len(r) = 0
  BY <1>3
<1>5. Len(q) # 1 => r[Len(r)] = q[Len(q)]
  BY <1>2, <1>3
<1>6. (r = <<>> <=> Len(q) = 1) /\ Head(q) = q[1]
  BY <1>1, <1>2, <1>3, <1>4
<1> QED BY <1>5, <1>6 DEF r
-----------------------------------------------------------------------------
(* The server's part.                                                       *)

HasSlot(a)  == \E i \in SP!Slots : SP!InUse(i) /\ addr[i] = a
Shown(a, p) == \E i \in SP!Slots : SP!InUse(i) /\ addr[i] = a /\ display[i].pixels = p

(* The two instances of TamaServer, that of Hive and that of its proofs,    *)
(* are one and the same.                                                    *)
LEMMA SameServer ==
  /\ Server!Slots = SP!Slots
  /\ \A i \in SP!Slots : Server!InUse(i) <=> SP!InUse(i)
  /\ Server!Init <=> SP!Init
  /\ Server!Restart <=> SP!Restart
  BY DEF Server!Slots, SP!Slots, Server!InUse, SP!InUse, Server!UNUSED, SP!UNUSED,
         Server!Init, SP!Init, Server!Restart, SP!Restart

LEMMA SameDatagrams ==
  ASSUME NEW a \in Sockets
  PROVE  /\ \A d \in Screens : Server!Image(a, d) <=> SP!Image(a, d)
         /\ \A b \in Bodies : Server!IrStart(a, b) <=> SP!IrStart(a, b)
         /\ \A b \in Bodies : Server!IrStartAck(a, b) <=> SP!IrStartAck(a, b)
         /\ \A b \in Bodies : Server!IrData(a, b) <=> SP!IrData(a, b)
         /\ Server!Bye(a) <=> SP!Bye(a)
         /\ Server!Dropped(a) <=> SP!Dropped(a)
<1>1. \A t \in SP!Slots : /\ Server!Admit(a, t) <=> SP!Admit(a, t)
                          /\ Server!Touch(t) <=> SP!Touch(t)
                          /\ Server!FirstUnused(t) <=> SP!FirstUnused(t)
  BY DEF Server!Admit, SP!Admit, Server!Touch, SP!Touch, Server!Occupies, SP!Occupies,
         Server!Unknown, SP!Unknown, Server!FirstUnused, SP!FirstUnused,
         Server!InUse, SP!InUse, Server!UNUSED, SP!UNUSED, Server!NextSeq, SP!NextSeq,
         Server!Slots, SP!Slots
<1>2. Server!Slots = SP!Slots
  BY SameServer
<1>3. \A dst, type, body : Server!SendTo(dst, type, body) <=> SP!SendTo(dst, type, body)
  BY DEF Server!SendTo, SP!SendTo
<1>4. \A t \in SP!Slots : Server!DrawResults(t) = SP!DrawResults(t)
  BY DEF Server!DrawResults, SP!DrawResults, Server!Eligible, SP!Eligible, Server!Age, SP!Age,
         Server!Counted, SP!Counted, Server!Slots, SP!Slots
<1>5. \A d \in Screens : Server!Image(a, d) <=> SP!Image(a, d)
  BY <1>1, <1>2 DEF Server!Image, SP!Image
<1>6. \A b \in Bodies : Server!IrStart(a, b) <=> SP!IrStart(a, b)
  BY <1>1, <1>2, <1>3, <1>4 DEF Server!IrStart, SP!IrStart
<1>7. \A b \in Bodies : Server!IrStartAck(a, b) <=> SP!IrStartAck(a, b)
  BY <1>1, <1>2, <1>3 DEF Server!IrStartAck, SP!IrStartAck
<1>8. \A b \in Bodies : Server!IrData(a, b) <=> SP!IrData(a, b)
  BY <1>1, <1>2, <1>3 DEF Server!IrData, SP!IrData
<1>9. Server!Bye(a) <=> SP!Bye(a)
  BY <1>1, <1>2 DEF Server!Bye, SP!Bye, Server!UNUSED, SP!UNUSED
<1>10. Server!Dropped(a) <=> SP!Dropped(a)
  BY <1>1, <1>2, SameServer DEF Server!Dropped, SP!Dropped, Server!Unknown, SP!Unknown,
                                Server!shm, SP!shm
<1> QED BY <1>5, <1>6, <1>7, <1>8, <1>9, <1>10

(* A datagram that is handled is one the server's proofs speak of.          *)
LEMMA HandledBySP ==
  ASSUME NEW a \in Sockets, NEW m \in Packets, Handle(a, m)
  PROVE  /\ SP!Handled(a)
         /\ m.type = "IMAGE" => m.body \in Screens /\ SP!Image(a, m.body)
         /\ m.type = "BYE" => SP!Bye(a)
         /\ m.type \notin {"IMAGE", "BYE"} =>
              \E b \in Bodies : SP!IrStart(a, b) \/ SP!IrStartAck(a, b) \/ SP!IrData(a, b)
<1>1. CASE m.type = "IMAGE" /\ m.body \in Screens /\ SP!Image(a, m.body)
  BY <1>1 DEF SP!Handled
<1>2. CASE m.type = "BYE" /\ SP!Bye(a)
  BY <1>2 DEF SP!Handled
<1>3. CASE /\ m.type \in {"IRSTART", "IRSTARTACK", "IRDATA"}
           /\ \E b \in Bodies : SP!IrStart(a, b) \/ SP!IrStartAck(a, b) \/ SP!IrData(a, b)
  BY <1>3 DEF SP!Handled
<1> QED BY <1>1, <1>2, <1>3, PacketKinds, SameDatagrams DEF Handle

LEMMA ReceivedType ==
  ASSUME HiveTypeOK, NEW a \in Sockets, Receive(a)
  PROVE  /\ Head(toServer[a]) \in Packets
         /\ toServer' = [toServer EXCEPT ![a] = Tail(toServer[a])]
         /\ toServer[a] \in Seq(Packets) /\ toServer[a] # <<>>
         /\ a[1] \in Tamas
  BY SocketParts DEF HiveTypeOK, Receive

LEMMA ReceiveKeepsTable ==
  ASSUME HiveTypeOK, SP!TableInv, NEW a \in Sockets, Receive(a)
  PROVE  SP!TableInv'
<1> DEFINE m == Head(toServer[a])
<1>1. m \in Packets
  BY ReceivedType
<1>2. CASE Handle(a, m)
  BY <1>1, <1>2, HandledBySP, SP!HandledKeepsTable, ServerAssumed
<1>3. CASE SP!Dropped(a)
  <2>1. SP!Next
    BY <1>3 DEF SP!Next, SP!Receive, Receive
  <2> QED BY <2>1, SP!TableInvStep, ServerAssumed
<1> QED BY <1>2, <1>3, SameDatagrams DEF Receive

(* What a datagram from a changes of the slots of the others: nothing.      *)
LEMMA ReceiveOthers ==
  ASSUME HiveTypeOK, SP!TableInv, NEW a \in Sockets, Receive(a),
         NEW b \in Sockets, b # a
  PROVE  /\ HasSlot(b)' => HasSlot(b)
         /\ \A p : Shown(b, p) => Shown(b, p)'
<1> DEFINE m == Head(toServer[a])
<1>1. m \in Packets
  BY ReceivedType
<1>2. CASE Handle(a, m)
  <2>1. \A i \in SP!Slots :
          /\ SP!InUse(i) /\ addr[i] # a =>
               SP!InUse(i)' /\ addr'[i] = addr[i] /\ display'[i] = display[i]
          /\ SP!InUse(i)' /\ addr'[i] # a => SP!InUse(i) /\ addr'[i] = addr[i]
    BY <1>1, <1>2, HandledBySP, SP!OthersKeep, ServerAssumed
  <2> QED BY <2>1 DEF HasSlot, Shown, SP!Slots
<1>3. CASE SP!Dropped(a)
  BY <1>3 DEF SP!Dropped, SP!shm, HasSlot, Shown, SP!Slots, SP!InUse, SP!UNUSED
<1> QED BY <1>2, <1>3, SameDatagrams DEF Receive

(* And what it changes of a's own.                                          *)
LEMMA ReceiveOwn ==
  ASSUME HiveTypeOK, SP!TableInv, NEW a \in Sockets, Receive(a),
         NEW m \in Packets, m = Head(toServer[a])
  PROVE  /\ HasSlot(a)' => m.type # "BYE"
         /\ astray \subseteq astray'
         /\ SeqLimit < SP!UNUSED =>
              /\ m.type = "IMAGE" => Shown(a, m.body.pixels)' \/ a[1] \in astray'
              /\ m.type \notin {"IMAGE", "BYE"} =>
                   \A p : Shown(a, p) => Shown(a, p)'
<1>2. CASE Handle(a, m) /\ UNCHANGED astray
  <2>1. HasSlot(a)' => m.type # "BYE"
    BY <1>2, HandledBySP, SP!ByeFrees, ServerAssumed DEF HasSlot, SP!Slots
  <2>2. ASSUME SeqLimit < SP!UNUSED, m.type = "IMAGE"
        PROVE  Shown(a, m.body.pixels)'
    <3>1. m.body \in Screens /\ SP!Image(a, m.body) /\ currSeq < SeqLimit
      BY <1>2, <2>2, HandledBySP DEF Receive
    <3>2. \E i \in SP!Slots : SP!InUse(i)' /\ addr'[i] = a /\ display'[i] = m.body
      BY <2>2, <3>1, SP!OwnSlot, ServerAssumed
    <3> QED BY <3>2 DEF Shown, SP!Slots
  <2>3. ASSUME SeqLimit < SP!UNUSED, m.type \notin {"IMAGE", "BYE"},
               NEW p, Shown(a, p)
        PROVE  Shown(a, p)'
    <3>1. /\ \E b \in Bodies : SP!IrStart(a, b) \/ SP!IrStartAck(a, b) \/ SP!IrData(a, b)
          /\ currSeq < SeqLimit
      BY <1>2, <2>3, HandledBySP DEF Receive
    <3>2. \A i \in SP!Slots : SP!InUse(i) /\ addr[i] = a =>
             SP!InUse(i)' /\ addr'[i] = a /\ display'[i] = display[i]
      BY <2>3, <3>1, SP!OwnSlot, ServerAssumed
    <3> QED BY <2>3, <3>2 DEF Shown, SP!Slots
  <2> QED BY <1>2, <2>1, <2>2, <2>3
<1>3. CASE /\ SP!Dropped(a)
           /\ astray' = IF m.type = "IMAGE" /\ Full THEN astray \cup {a[1]} ELSE astray
  <2>1. Full
    BY <1>3, SP!DroppedWhenFull, ServerAssumed, SameServer DEF Full
  <2>2. ~HasSlot(a) /\ ~HasSlot(a)' 
    BY <1>3 DEF SP!Dropped, SP!Unknown, SP!shm, HasSlot, SP!Slots, SP!InUse, SP!UNUSED
  <2>3. \A p : ~Shown(a, p)
    BY <2>2 DEF Shown, HasSlot
  <2> QED BY <1>3, <2>1, <2>2, <2>3
<1> QED BY <1>2, <1>3, SameDatagrams DEF Receive
-----------------------------------------------------------------------------
(* The emulator's part.                                                     *)

EndsInBye(q)  == q # <<>> /\ q[Len(q)].type = "BYE"
NoneOf(k, q)  == \A i \in 1..Len(q) : q[i].type # k

(* What t sent, and how it goes on: it has a picture on its display that it *)
(* sent now or before, or it said goodbye.                                  *)
Stays(t, s) ==
  /\ tama'[t].up /\ tama'[t].run = tama[t].run
  /\ NoneOf("BYE", s)
  /\ \/ tama'[t].olddisp = tama[t].olddisp /\ NoneOf("IMAGE", s)
     \/ /\ s # <<>> /\ s[Len(s)].type = "IMAGE"
        /\ s[Len(s)].body.pixels = tama'[t].olddisp
Leaves(t, s) ==
  /\ EndsInBye(s)
  /\ \/ ~tama'[t].up /\ tama'[t].run = tama[t].run
     \/ tama'[t].run = tama[t].run + 1 /\ tama'[t].olddisp = NoPixels

LEMMA ByeIs ==
  /\ Bye \in Seq(Packets) /\ Len(Bye) = 1 /\ Bye[1].type = "BYE"
  /\ EndsInBye(Bye)
  BY DEF Bye, Packet, Packets, EndsInBye

LEMMA ExecIs ==
  ASSUME NEW r \in [run : Nat, olddisp : Pixels, up : BOOLEAN]
  PROVE  /\ Exec(r) \in [run : Nat, olddisp : Pixels, up : BOOLEAN]
         /\ Exec(r).run = r.run + 1 /\ Exec(r).olddisp = NoPixels
<1>1. NoPixels \in Pixels
  BY DEF Pixels
<1> QED BY <1>1 DEF Exec

LEMMA TalkIs ==
  ASSUME NEW type \in Talk, NEW b \in Bodies
  PROVE  /\ Packet(type, b) \in Packets
         /\ Packet(type, b).type \notin {"IMAGE", "BYE"}
  BY ClientAssumption DEF Packet, Packets

LEMMA DisplaySent ==
  ASSUME NEW r \in [run : Nat, olddisp : Pixels, up : BOOLEAN], NEW s \in Screens
  PROVE  LET d == SendDisplay(r, s)
         IN /\ d.rec \in [run : Nat, olddisp : Pixels, up : BOOLEAN]
            /\ d.rec.run = r.run /\ d.rec.up = r.up
            /\ \/ d.packets = <<>> /\ d.rec = r
               \/ d.packets = <<Packet("IMAGE", s)>> /\ d.rec.olddisp = s.pixels
  BY DEF SendDisplay, Pixels

LEMMA FrameSends ==
  ASSUME HiveTypeOK, NEW t \in Tamas, Frame(t)
  PROVE  \E s \in Seq(Packets) :
           /\ toServer' = [toServer EXCEPT ![SocketOf(t)] = @ \o s]
           /\ \A u \in Tamas \ {t} : tama'[u] = tama[u]
           /\ tama' \in [Tamas -> [run : Nat, olddisp : Pixels, up : BOOLEAN]]
           /\ tama'[t].run \in 1..Starts[t]
           /\ Stays(t, s) \/ Leaves(t, s)
<1> DEFINE Recs == [run : Nat, olddisp : Pixels, up : BOOLEAN]
<1>1. tama[t] \in Recs /\ tama[t].run \in 1..Starts[t] /\ Starts[t] \in Nat
  BY ClientAssumption DEF HiveTypeOK
<1>2. PICK talk \in Says, d \in Shows(tama[t]), due \in BOOLEAN :
        /\ tama[t].up
        /\ due => tama[t].run < Starts[t]
        /\ tama' = [tama EXCEPT ![t] = IF due THEN Exec(d.rec) ELSE d.rec]
        /\ Send(SocketOf(t), talk \o d.packets \o (IF due THEN Bye ELSE <<>>))
  BY DEF Frame
<1> DEFINE sent == talk \o d.packets
<1>3. /\ d.rec \in Recs /\ d.rec.run = tama[t].run /\ d.rec.up = tama[t].up
      /\ \/ d.packets = <<>> /\ d.rec = tama[t]
         \/ \E scr \in Screens : d.packets = <<Packet("IMAGE", scr)>> /\ d.rec.olddisp = scr.pixels
  <2>1. CASE d = [rec |-> tama[t], packets |-> <<>>]
    BY <1>1, <2>1
  <2>2. ASSUME NEW scr \in Screens, d = SendDisplay(tama[t], scr)
        PROVE  <1>3!:
    BY <1>1, <2>2, DisplaySent
  <2> QED BY <2>1, <2>2 DEF Shows
<1>4. \A scr \in Screens :
        /\ Packet("IMAGE", scr) \in Packets
        /\ Packet("IMAGE", scr).type = "IMAGE" /\ Packet("IMAGE", scr).body = scr
  BY DEF Packet, Packets
<1>5. talk \in Seq(Packets) /\ NoneOf("BYE", talk) /\ NoneOf("IMAGE", talk) /\ Len(talk) \in {0, 1}
  <2>1. CASE talk = <<>>
    BY <2>1 DEF NoneOf
  <2>2. ASSUME NEW type \in Talk, NEW b \in Bodies, talk = <<Packet(type, b)>>
        PROVE  <1>5!:
    BY <2>2, TalkIs DEF NoneOf
  <2> QED BY <2>1, <2>2 DEF Says
<1>6. d.packets \in Seq(Packets) /\ Len(d.packets) \in {0, 1} /\ NoneOf("BYE", d.packets)
  <2>1. CASE d.packets = <<>>
    BY <2>1 DEF NoneOf
  <2>2. ASSUME NEW scr \in Screens, d.packets = <<Packet("IMAGE", scr)>>
        PROVE  <1>6!:
    BY <1>4, <2>2 DEF NoneOf
  <2> QED BY <1>3, <2>1, <2>2
<1>7. /\ sent \in Seq(Packets) /\ NoneOf("BYE", sent)
      /\ \/ d.rec = tama[t] /\ NoneOf("IMAGE", sent)
         \/ /\ sent # <<>> /\ sent[Len(sent)].type = "IMAGE"
            /\ sent[Len(sent)].body.pixels = d.rec.olddisp
  <2>1. /\ sent \in Seq(Packets) /\ Len(sent) = Len(talk) + Len(d.packets)
        /\ \A i \in 1..Len(talk) : sent[i] = talk[i]
        /\ \A i \in 1..Len(d.packets) : sent[Len(talk) + i] = d.packets[i]
    BY <1>5, <1>6, Appended
  <2>2. NoneOf("BYE", sent)
    BY <1>5, <1>6, <2>1 DEF NoneOf
  <2>3. CASE d.packets = <<>> /\ d.rec = tama[t]
    BY <1>5, <2>1, <2>2, <2>3 DEF NoneOf
  <2>4. ASSUME NEW scr \in Screens, d.packets = <<Packet("IMAGE", scr)>>, d.rec.olddisp = scr.pixels
        PROVE  <1>7!:
    <3>1. Len(d.packets) = 1 /\ d.packets[1] = Packet("IMAGE", scr)
      BY <2>4
    <3>2. sent[Len(sent)] = Packet("IMAGE", scr) /\ Len(sent) >= 1
      BY <1>5, <2>1, <3>1
    <3> QED BY <1>4, <2>1, <2>2, <2>4, <3>2
  <2> QED BY <1>3, <2>3, <2>4
<1> HIDE DEF sent
<1>8. CASE due
  <2> DEFINE s == sent \o Bye
  <2>1. s \in Seq(Packets) /\ Len(s) = Len(sent) + 1 /\ s[Len(s)].type = "BYE"
    <3>1. /\ s \in Seq(Packets) /\ Len(s) = Len(sent) + Len(Bye)
          /\ \A i \in 1..Len(Bye) : s[Len(sent) + i] = Bye[i]
      <4>1. sent \in Seq(Packets) /\ Bye \in Seq(Packets)
        BY <1>7, ByeIs
      <4> QED BY <4>1, Appended
    <3>2. Len(s) = Len(sent) + 1 /\ s[Len(sent) + 1] = Bye[1]
      BY <3>1, ByeIs
    <3> QED BY <3>1, <3>2, ByeIs
  <2>2. /\ toServer' = [toServer EXCEPT ![SocketOf(t)] = @ \o s]
        /\ tama' = [tama EXCEPT ![t] = Exec(d.rec)]
    BY <1>2, <1>8 DEF sent, Send
  <2>3. /\ Exec(d.rec).run = tama[t].run + 1 /\ Exec(d.rec).olddisp = NoPixels
        /\ Exec(d.rec) \in Recs
    BY <1>3, ExecIs
  <2>4. tama'[t] = Exec(d.rec)
    BY <2>2 DEF HiveTypeOK
  <2>5. tama[t].run + 1 \in 1..Starts[t]
    BY <1>1, <1>2, <1>8
  <2>6. Leaves(t, s)
    BY <1>7, <2>1, <2>3, <2>4 DEF Leaves, EndsInBye
  <2>7. tama' \in [Tamas -> Recs] /\ \A u \in Tamas \ {t} : tama'[u] = tama[u]
    BY <2>2, <2>3 DEF HiveTypeOK
  <2> QED BY <2>1, <2>2, <2>3, <2>4, <2>5, <2>6, <2>7
<1>9. CASE ~due
  <2>1. /\ toServer' = [toServer EXCEPT ![SocketOf(t)] = @ \o (sent \o <<>>)]
        /\ tama' = [tama EXCEPT ![t] = d.rec]
    BY <1>2, <1>9 DEF sent, Send
  <2>2. sent \o <<>> = sent
    BY <1>7
  <2>3. tama' \in [Tamas -> Recs] /\ \A u \in Tamas \ {t} : tama'[u] = tama[u]
    BY <1>3, <2>1 DEF HiveTypeOK
  <2>4. tama'[t] = d.rec
    BY <2>1 DEF HiveTypeOK
  <2>5. Stays(t, sent)
    BY <1>1, <1>2, <1>3, <1>7, <2>4 DEF Stays
  <2> QED BY <1>1, <1>3, <1>7, <2>1, <2>2, <2>3, <2>4, <2>5
<1> QED BY <1>8, <1>9

(* The same for every step of an emulator. *)
LEMMA EmulatorSends ==
  ASSUME HiveTypeOK, NEW t \in Tamas, EmulatorStep(t)
  PROVE  \E s \in Seq(Packets) :
           /\ toServer' = [toServer EXCEPT ![SocketOf(t)] = @ \o s]
           /\ \A u \in Tamas \ {t} : tama'[u] = tama[u]
           /\ tama' \in [Tamas -> [run : Nat, olddisp : Pixels, up : BOOLEAN]]
           /\ tama'[t].run \in 1..Starts[t]
           /\ Stays(t, s) \/ Leaves(t, s)
<1>1. CASE Frame(t)
  BY <1>1, FrameSends
<1>2. CASE Interrupt(t)
  <2>1. /\ tama' = [tama EXCEPT ![t].up = FALSE]
        /\ toServer' = [toServer EXCEPT ![SocketOf(t)] = @ \o Bye]
    BY <1>2 DEF Interrupt, Send
  <2>2. /\ tama' \in [Tamas -> [run : Nat, olddisp : Pixels, up : BOOLEAN]]
        /\ \A u \in Tamas \ {t} : tama'[u] = tama[u]
        /\ ~tama'[t].up /\ tama'[t].run = tama[t].run
    BY <2>1 DEF HiveTypeOK
  <2>3. Leaves(t, Bye)
    BY <2>2, ByeIs DEF Leaves
  <2> QED BY <2>1, <2>2, <2>3, ByeIs DEF HiveTypeOK
<1> QED BY <1>1, <1>2 DEF EmulatorStep
-----------------------------------------------------------------------------
(* The faults, and the type invariant.                                      *)

LEMMA IdleServer ==
  ASSUME UNCHANGED serverVars
  PROVE  /\ SP!TableInv => SP!TableInv'
         /\ \A b : HasSlot(b)' <=> HasSlot(b)
         /\ \A b, p : Shown(b, p)' <=> Shown(b, p)
<1>1. UNCHANGED SP!vars
  BY DEF serverVars, SP!vars
<1>2. SP!TableInv => SP!TableInv'
  BY <1>1, SP!TableInvStep, ServerAssumed
<1>3. \A i \in SP!Slots : SP!InUse(i)' <=> SP!InUse(i)
  BY DEF serverVars, SP!InUse, SP!UNUSED
<1>4. UNCHANGED <<addr, display>>
  BY DEF serverVars
<1> QED BY <1>2, <1>3, <1>4 DEF HasSlot, Shown, SP!Slots

LEMMA RestartedServer ==
  ASSUME SP!TableInv, ServerRestart
  PROVE  /\ SP!TableInv'
         /\ \A b : ~HasSlot(b)'
<1>1. SP!Restart
  BY SameServer DEF ServerRestart
<1>2. SP!TableInv'
  BY <1>1, SP!TableInvStep, ServerAssumed DEF SP!Next
<1>3. \A i \in SP!Slots : ~SP!InUse(i)'
  BY <1>1 DEF SP!Restart, SP!InUse
<1> QED BY <1>2, <1>3 DEF HasSlot, SP!Slots

LEMMA LoseIs ==
  ASSUME HiveTypeOK, NEW a \in Sockets, Lose(a)
  PROVE  \E i \in 1..Len(toServer[a]) :
           /\ toServer' = [toServer EXCEPT ![a] = Without(toServer[a], i)]
           /\ toServer[a] \in Seq(Packets)
           /\ astray' = IF toServer[a][i].type = "IMAGE" THEN astray \cup {a[1]} ELSE astray
           /\ ghosts' = IF toServer[a][i].type = "BYE" THEN ghosts + 1 ELSE ghosts
           /\ UNCHANGED <<tama, serverVars>>
<1>1. /\ toServer[a] \in Seq(Packets) /\ DOMAIN toServer[a] = 1..Len(toServer[a])
      /\ ghosts \in Nat /\ toServer \in [Sockets -> Seq(Packets)]
  BY DEF HiveTypeOK
<1>2. PICK i \in 1..Len(toServer[a]) :
        /\ toServer' = [toServer EXCEPT ![a] = Without(@, i)]
        /\ astray' = IF toServer[a][i].type = "IMAGE" THEN astray \cup {a[1]} ELSE astray
        /\ ghosts' = ghosts + (IF toServer[a][i].type = "BYE" THEN 1 ELSE 0)
        /\ UNCHANGED <<tama, serverVars>>
  BY <1>1 DEF Lose
<1>3. toServer' = [toServer EXCEPT ![a] = Without(toServer[a], i)]
  BY <1>1, <1>2
<1>4. ghosts' = IF toServer[a][i].type = "BYE" THEN ghosts + 1 ELSE ghosts
  BY <1>1, <1>2
<1> QED BY <1>1, <1>2, <1>3, <1>4

LEMMA OvertakeIs ==
  ASSUME HiveTypeOK, NEW a \in Sockets, Overtake(a)
  PROVE  \E i \in 1..(Len(toServer[a]) - 1), r \in Seq(Packets) :
           /\ toServer' = [toServer EXCEPT ![a] = r]
           /\ toServer[a] \in Seq(Packets) /\ Len(r) = Len(toServer[a])
           /\ r[i] = toServer[a][i + 1] /\ r[i + 1] = toServer[a][i]
           /\ \A j \in 1..Len(r) : j \notin {i, i + 1} => r[j] = toServer[a][j]
           /\ astray' = astray \cup {a[1]}
           /\ ghosts' = IF toServer[a][i + 1].type = "BYE" THEN ghosts + 1 ELSE ghosts
           /\ UNCHANGED <<tama, serverVars>>
<1> DEFINE q == toServer[a]
<1>1. q \in Seq(Packets) /\ ghosts \in Nat
  BY DEF HiveTypeOK
<1>2. PICK i \in 1..(Len(q) - 1) :
        /\ toServer' = [toServer EXCEPT ![a] = [@ EXCEPT ![i] = toServer[a][i + 1],
                                                         ![i + 1] = toServer[a][i]]]
        /\ ghosts' = ghosts + (IF toServer[a][i + 1].type = "BYE" THEN 1 ELSE 0)
  BY DEF Overtake
<1>3. i \in 1..Len(q) /\ i + 1 \in 1..Len(q) /\ i # i + 1 /\ q[i] \in Packets /\ q[i + 1] \in Packets
  BY <1>1
<1> DEFINE r == [q EXCEPT ![i] = q[i + 1], ![i + 1] = q[i]]
<1>4. /\ r \in Seq(Packets) /\ Len(r) = Len(q)
      /\ r[i] = q[i + 1] /\ r[i + 1] = q[i]
      /\ \A j \in 1..Len(r) : j \notin {i, i + 1} => r[j] = q[j]
  <2>1. q \in [1..Len(q) -> Packets] /\ Len(q) \in Nat
    BY <1>1
  <2>2. r \in [1..Len(q) -> Packets]
    <3> DEFINE r1 == [q EXCEPT ![i] = q[i + 1]]
    <3> HIDE DEF q
    <3>1. r1 \in [1..Len(q) -> Packets]
      BY <1>3, <2>1
    <3>2. r = [r1 EXCEPT ![i + 1] = q[i]]
      OBVIOUS
    <3> HIDE DEF r, r1
    <3> QED BY <1>3, <3>1, <3>2
  <2>3. r \in Seq(Packets) /\ Len(r) = Len(q)
    <3> HIDE DEF r, q
    <3> QED BY <2>1, <2>2
  <2> QED BY <1>3, <2>1, <2>3
<1>5. toServer' = [toServer EXCEPT ![a] = r]
  BY <1>2 DEF HiveTypeOK
<1>6. ghosts' = IF q[i + 1].type = "BYE" THEN ghosts + 1 ELSE ghosts
  BY <1>1, <1>2
<1>7. astray' = astray \cup {a[1]} /\ UNCHANGED <<tama, serverVars>>
  BY DEF Overtake
<1> HIDE DEF r
<1> QED BY <1>1, <1>4, <1>5, <1>6, <1>7

LEMMA HiveTypeInit == Init => HiveTypeOK
<1>1. \A t \in Tamas : 1 \in 1..Starts[t]
  BY ClientAssumption
<1> QED BY <1>1, HiveAssumption DEF Init, ClientInit, HiveTypeOK, Pixels

(* A step of the hive is one of these. *)
LEMMA StepIs ==
  ASSUME Next
  PROVE  \/ \E t \in Tamas : EmulatorStep(t)
         \/ \E a \in Sockets : Receive(a)
         \/ \E a \in Sockets : Lose(a) /\ faults' = faults + 1 /\ faults < MaxFaults
         \/ \E a \in Sockets : Overtake(a) /\ faults' = faults + 1 /\ faults < MaxFaults
         \/ \E t \in Tamas : Killed(t) /\ faults' = faults + 1 /\ faults < MaxFaults
         \/ ServerRestart /\ faults' = faults + 1 /\ faults < MaxFaults
  BY DEF Next, Fault

LEMMA TypeStep ==
  ASSUME HiveTypeOK, SP!TableInv, [Next]_vars
  PROVE  HiveTypeOK'
<1>1. ASSUME NEW t \in Tamas, EmulatorStep(t)  PROVE HiveTypeOK'
  <2>1. PICK s \in Seq(Packets) :
           /\ toServer' = [toServer EXCEPT ![SocketOf(t)] = @ \o s]
           /\ \A u \in Tamas \ {t} : tama'[u] = tama[u]
           /\ tama' \in [Tamas -> [run : Nat, olddisp : Pixels, up : BOOLEAN]]
           /\ tama'[t].run \in 1..Starts[t]
    BY <1>1, EmulatorSends
  <2>2. toServer' \in [Sockets -> Seq(Packets)]
    BY <2>1, OwnSocket DEF HiveTypeOK
  <2>3. UNCHANGED <<faults, ghosts>> /\ astray' \subseteq Tamas
    BY <1>1 DEF EmulatorStep, HiveTypeOK
  <2> QED BY <2>1, <2>2, <2>3 DEF HiveTypeOK
<1>2. ASSUME NEW a \in Sockets, Receive(a)  PROVE HiveTypeOK'
  <2>1. Tail(toServer[a]) \in Seq(Packets)
    BY <1>2, ReceivedType, Behind
  <2>2. UNCHANGED <<tama, faults, ghosts>> /\ astray' \in {astray, astray \cup {a[1]}}
    BY <1>2 DEF Receive
  <2>3. toServer' \in [Sockets -> Seq(Packets)]
    BY <1>2, <2>1, ReceivedType DEF HiveTypeOK
  <2>4. astray' \subseteq Tamas
    BY <1>2, <2>2, ReceivedType DEF HiveTypeOK
  <2> QED BY <2>2, <2>3, <2>4 DEF HiveTypeOK
<1>3. ASSUME NEW a \in Sockets, Lose(a), faults' = faults + 1, faults < MaxFaults  PROVE HiveTypeOK'
  <2>1. PICK i \in 1..Len(toServer[a]) :
           /\ toServer' = [toServer EXCEPT ![a] = Without(toServer[a], i)]
           /\ toServer[a] \in Seq(Packets)
           /\ astray' = IF toServer[a][i].type = "IMAGE" THEN astray \cup {a[1]} ELSE astray
           /\ ghosts' = IF toServer[a][i].type = "BYE" THEN ghosts + 1 ELSE ghosts
           /\ UNCHANGED <<tama, serverVars>>
    BY <1>3, LoseIs
  <2>2. Without(toServer[a], i) \in Seq(Packets)
    BY <2>1, WithoutOne
  <2>3. astray' \subseteq Tamas
    BY <1>3, <2>1, SocketParts DEF HiveTypeOK
  <2>4. ghosts' \in Nat
    BY <1>3, <2>1 DEF HiveTypeOK
  <2>5. faults' \in 0..MaxFaults
    BY <1>3, HiveAssumption DEF HiveTypeOK
  <2> QED BY <2>1, <2>2, <2>3, <2>4, <2>5 DEF HiveTypeOK
<1>4. ASSUME NEW a \in Sockets, Overtake(a), faults' = faults + 1, faults < MaxFaults  PROVE HiveTypeOK'
  <2>1. \E r \in Seq(Packets) :
           /\ toServer' = [toServer EXCEPT ![a] = r]
           /\ astray' = astray \cup {a[1]}
           /\ ghosts' \in {ghosts, ghosts + 1}
           /\ UNCHANGED <<tama, serverVars>>
    BY <1>4, OvertakeIs
  <2>2. astray' \subseteq Tamas
    BY <1>4, <2>1, SocketParts DEF HiveTypeOK
  <2>3. ghosts' \in Nat
    BY <1>4, <2>1 DEF HiveTypeOK
  <2>4. faults' \in 0..MaxFaults
    BY <1>4, HiveAssumption DEF HiveTypeOK
  <2> QED BY <2>1, <2>2, <2>3, <2>4 DEF HiveTypeOK
<1>5. ASSUME NEW t \in Tamas, Killed(t), faults' = faults + 1, faults < MaxFaults  PROVE HiveTypeOK'
  <2>1. /\ tama' = [tama EXCEPT ![t].up = FALSE] /\ UNCHANGED <<toServer, astray>>
        /\ ghosts' = ghosts + 1
    BY <1>5 DEF Killed, Kill
  <2>2. faults' \in 0..MaxFaults
    BY <1>5, HiveAssumption DEF HiveTypeOK
  <2>3. tama' \in [Tamas -> [run : Nat, olddisp : Pixels, up : BOOLEAN]]
    BY <2>1 DEF HiveTypeOK
  <2>4. \A u \in Tamas : tama'[u].run = tama[u].run
    BY <2>1 DEF HiveTypeOK
  <2> QED BY <2>1, <2>2, <2>3, <2>4 DEF HiveTypeOK
<1>6. ASSUME ServerRestart, faults' = faults + 1, faults < MaxFaults  PROVE HiveTypeOK'
  BY <1>6, HiveAssumption DEF ServerRestart, clientVars, HiveTypeOK
<1>7. CASE UNCHANGED vars
  BY <1>7 DEF vars, clientVars, HiveTypeOK
<1> QED BY <1>1, <1>2, <1>3, <1>4, <1>5, <1>6, <1>7, StepIs
-----------------------------------------------------------------------------
(* The slots that stay behind.  A process that is gone is loose when no     *)
(* goodbye of its will free its slot: the goodbye is not, or no longer, the *)
(* last thing under way from it.  Only a fault makes a process loose.       *)

IsLoose(a) == /\ ~Alive(a)
              /\ ~EndsInBye(toServer[a])
              /\ toServer[a] # <<>> \/ HasSlot(a)
Loose == {a \in Sockets : IsLoose(a)}
LooseIsCounted == IsFiniteSet(Loose) /\ Cardinality(Loose) <= ghosts

LEMMA LooseInit == Init => LooseIsCounted
<1> SUFFICES ASSUME Init PROVE LooseIsCounted
  OBVIOUS
<1>1. \A a \in Sockets : ~HasSlot(a)
  BY SameServer DEF Init, SP!Init, HasSlot, SP!InUse
<1>2. Loose = {}
  BY <1>1 DEF Loose, IsLoose, Init, ClientInit
<1>3. ghosts = 0
  BY DEF Init
<1> QED BY <1>2, <1>3, FS_EmptySet DEF LooseIsCounted

LEMMA EmulatorLoose ==
  ASSUME HiveTypeOK, NEW t \in Tamas, EmulatorStep(t), NEW b \in Sockets, IsLoose(b)'
  PROVE  IsLoose(b)
<1>1. PICK s \in Seq(Packets) :
         /\ toServer' = [toServer EXCEPT ![SocketOf(t)] = @ \o s]
         /\ \A u \in Tamas \ {t} : tama'[u] = tama[u]
         /\ Stays(t, s) \/ Leaves(t, s)
  BY EmulatorSends
<1>2. HasSlot(b)' <=> HasSlot(b)
  BY IdleServer DEF EmulatorStep
<1>3. tama[t].up /\ SocketOf(t) \in Sockets /\ toServer \in [Sockets -> Seq(Packets)]
  BY OwnSocket DEF EmulatorStep, Frame, Interrupt, HiveTypeOK
<1>4. b # SocketOf(t)
  <2> SUFFICES ASSUME b = SocketOf(t) PROVE FALSE
    OBVIOUS
  <2>1. b[1] = t /\ b[2] = tama[t].run
    BY OwnSocket
  <2>2. CASE Stays(t, s)
    BY <2>1, <2>2 DEF Stays, IsLoose, Alive
  <2>3. CASE Leaves(t, s)
    <3>1. toServer[b] \in Seq(Packets) /\ toServer'[b] = toServer[b] \o s
      BY <1>1, <1>3
    <3>2. Len(s) >= 1 /\ s[Len(s)].type = "BYE"
      BY <2>3 DEF Leaves, EndsInBye
    <3>3. Len(toServer'[b]) = Len(toServer[b]) + Len(s)
          /\ \A i \in 1..Len(s) : toServer'[b][Len(toServer[b]) + i] = s[i]
      BY <3>1, Appended
    <3>4. EndsInBye(toServer'[b])
      BY <3>1, <3>2, <3>3 DEF EndsInBye
    <3> QED BY <3>4 DEF IsLoose
  <2> QED BY <1>1, <2>2, <2>3
<1>5. toServer'[b] = toServer[b]
  BY <1>1, <1>3, <1>4
<1>6. b[1] = t => b[2] # tama[t].run
  BY <1>4, SocketParts DEF SocketOf
<1>7. b[1] \in Tamas
  BY SocketParts
<1>8. ~Alive(b)
  BY <1>1, <1>6, <1>7 DEF IsLoose, Alive
<1> QED BY <1>2, <1>5, <1>8 DEF IsLoose

LEMMA ReceiveLoose ==
  ASSUME HiveTypeOK, SP!TableInv, NEW a \in Sockets, Receive(a), NEW b \in Sockets, IsLoose(b)'
  PROVE  IsLoose(b)
<1>1. Alive(b)' <=> Alive(b)
  BY DEF Receive, Alive
<1>2. CASE b # a
  <2>1. toServer'[b] = toServer[b]
    BY <1>2 DEF Receive, HiveTypeOK
  <2> QED BY <1>1, <1>2, <2>1, ReceiveOthers DEF IsLoose
<1>3. CASE b = a
  <2> DEFINE q == toServer[a]
  <2>1. q \in Seq(Packets) /\ q # <<>> /\ toServer'[a] = Tail(q) /\ Head(q) \in Packets
    BY ReceivedType DEF HiveTypeOK
  <2>2. ASSUME q[Len(q)].type = "BYE"
        PROVE  FALSE
    <3>1. CASE Len(q) = 1
      <4>1. Tail(q) = <<>> /\ Head(q).type = "BYE"
        BY <2>1, <2>2, <3>1, LastOfTail
      <4>2. ~HasSlot(a)'
        BY <2>1, <4>1, ReceiveOwn
      <4> QED BY <1>3, <2>1, <4>1, <4>2 DEF IsLoose
    <3>2. CASE Len(q) # 1
      <4>1. Tail(q) # <<>> /\ Tail(q)[Len(Tail(q))] = q[Len(q)]
        BY <2>1, <3>2, LastOfTail
      <4>2. EndsInBye(Tail(q))
        BY <2>2, <4>1 DEF EndsInBye
      <4> QED BY <1>3, <2>1, <4>2 DEF IsLoose
    <3> QED BY <3>1, <3>2
  <2> QED BY <1>1, <1>3, <2>1, <2>2 DEF IsLoose, EndsInBye
<1> QED BY <1>2, <1>3

LEMMA LoseLoose ==
  ASSUME HiveTypeOK, NEW a \in Sockets, Lose(a), NEW b \in Sockets, IsLoose(b)'
  PROVE  /\ ghosts' \in {ghosts, ghosts + 1}
         /\ IsLoose(b) \/ (ghosts' = ghosts + 1 /\ b = a)
<1>1. PICK i \in 1..Len(toServer[a]) :
         /\ toServer' = [toServer EXCEPT ![a] = Without(toServer[a], i)]
         /\ toServer[a] \in Seq(Packets)
         /\ ghosts' = IF toServer[a][i].type = "BYE" THEN ghosts + 1 ELSE ghosts
         /\ UNCHANGED <<tama, serverVars>>
  BY LoseIs
<1>2. (HasSlot(b)' <=> HasSlot(b)) /\ (Alive(b)' <=> Alive(b))
  BY <1>1, IdleServer DEF Alive
<1>0. ghosts' \in {ghosts, ghosts + 1}
  BY <1>1
<1>3. CASE b # a
  <2>1. toServer'[b] = toServer[b]
    BY <1>1, <1>3 DEF HiveTypeOK
  <2>2. IsLoose(b)
    BY <1>2, <2>1 DEF IsLoose
  <2> QED BY <1>0, <2>2
<1>4. CASE b = a /\ toServer[a][i].type # "BYE"
  <2> DEFINE q == toServer[a]
             w == Without(toServer[a], i)
  <2>0. toServer'[b] = w /\ q \in Seq(Packets) /\ i \in 1..Len(q) /\ Len(q) \in Nat
    BY <1>1, <1>4 DEF HiveTypeOK
  <2>1. /\ toServer'[b] = w /\ w \in Seq(Packets) /\ Len(w) = Len(q) - 1
        /\ \A j \in 1..(Len(q) - 1) : w[j] = IF j < i THEN q[j] ELSE q[j + 1]
        /\ Len(q) \in Nat
    BY <2>0, WithoutOne
  <2> HIDE DEF w
  <2>2. ASSUME EndsInBye(q)
        PROVE  FALSE
    <3>1. q[Len(q)].type = "BYE" /\ i # Len(q)
      BY <1>4, <2>2 DEF EndsInBye
    <3>2. Len(w) >= 1 /\ w[Len(w)] = q[Len(q)]
      BY <2>1, <3>1
    <3>3. EndsInBye(w)
      BY <2>1, <3>1, <3>2 DEF EndsInBye
    <3> QED BY <2>1, <3>3 DEF IsLoose
  <2>3. q # <<>>
    BY <1>1
  <2> QED BY <1>1, <1>2, <1>4, <2>2, <2>3 DEF IsLoose
<1>5. CASE b = a /\ toServer[a][i].type = "BYE"
  BY <1>1, <1>5
<1> QED BY <1>3, <1>4, <1>5

LEMMA OvertakeLoose ==
  ASSUME HiveTypeOK, NEW a \in Sockets, Overtake(a), NEW b \in Sockets, IsLoose(b)'
  PROVE  /\ ghosts' \in {ghosts, ghosts + 1}
         /\ IsLoose(b) \/ (ghosts' = ghosts + 1 /\ b = a)
<1>1. PICK i \in 1..(Len(toServer[a]) - 1), r \in Seq(Packets) :
         /\ toServer' = [toServer EXCEPT ![a] = r]
         /\ toServer[a] \in Seq(Packets) /\ Len(r) = Len(toServer[a])
         /\ r[i] = toServer[a][i + 1] /\ r[i + 1] = toServer[a][i]
         /\ \A j \in 1..Len(r) : j \notin {i, i + 1} => r[j] = toServer[a][j]
         /\ ghosts' = IF toServer[a][i + 1].type = "BYE" THEN ghosts + 1 ELSE ghosts
         /\ UNCHANGED <<tama, serverVars>>
  BY OvertakeIs
<1>2. (HasSlot(b)' <=> HasSlot(b)) /\ (Alive(b)' <=> Alive(b))
  BY <1>1, IdleServer DEF Alive
<1>0. ghosts' \in {ghosts, ghosts + 1}
  BY <1>1
<1>3. CASE b # a
  <2>1. toServer'[b] = toServer[b]
    BY <1>1, <1>3 DEF HiveTypeOK
  <2>2. IsLoose(b)
    BY <1>2, <2>1 DEF IsLoose
  <2> QED BY <1>0, <2>2
<1>4. CASE b = a /\ toServer[a][i + 1].type # "BYE"
  <2> DEFINE q == toServer[a]
  <2>1. toServer'[b] = r /\ Len(q) \in Nat /\ Len(q) >= 2 /\ q # <<>> /\ r # <<>>
    BY <1>1, <1>4 DEF HiveTypeOK
  <2>2. ASSUME EndsInBye(q)
        PROVE  FALSE
    <3>1. q[Len(q)].type = "BYE" /\ i + 1 # Len(q)
      BY <1>4, <2>2 DEF EndsInBye
    <3>2. r[Len(r)] = q[Len(q)]
      BY <1>1, <2>1, <3>1
    <3>3. EndsInBye(r)
      BY <2>1, <3>1, <3>2 DEF EndsInBye
    <3> QED BY <2>1, <3>3 DEF IsLoose
  <2> QED BY <1>1, <1>2, <1>4, <2>1, <2>2 DEF IsLoose
<1>5. CASE b = a /\ toServer[a][i + 1].type = "BYE"
  BY <1>1, <1>5
<1> QED BY <1>3, <1>4, <1>5

LEMMA KilledLoose ==
  ASSUME HiveTypeOK, NEW t \in Tamas, Killed(t), NEW b \in Sockets, IsLoose(b)'
  PROVE  IsLoose(b) \/ b = SocketOf(t)
<1>1. /\ tama' = [tama EXCEPT ![t].up = FALSE] /\ UNCHANGED <<toServer, serverVars>>
  BY DEF Killed, Kill
<1>2. HasSlot(b)' <=> HasSlot(b)
  BY <1>1, IdleServer
<1>3. \A u \in Tamas : tama'[u].run = tama[u].run /\ (u # t => tama'[u].up = tama[u].up)
  BY <1>1 DEF HiveTypeOK
<1>4. b # SocketOf(t) /\ Alive(b) => Alive(b)'
  BY <1>3, SocketParts DEF Alive, SocketOf
<1> QED BY <1>1, <1>2, <1>4 DEF IsLoose

(* No step but a fault makes a process loose, and a fault makes one.        *)
LEMMA LooseAfter ==
  ASSUME HiveTypeOK, SP!TableInv, [Next]_vars
  PROVE  /\ ghosts' \in {ghosts, ghosts + 1}
         /\ \/ Loose' \subseteq Loose
            \/ ghosts' = ghosts + 1 /\ \E x : Loose' \subseteq Loose \cup {x}
<1>1. ASSUME NEW t \in Tamas, EmulatorStep(t)
      PROVE  ghosts' = ghosts /\ Loose' \subseteq Loose
  BY <1>1, EmulatorLoose DEF Loose, EmulatorStep
<1>2. ASSUME NEW a \in Sockets, Receive(a)
      PROVE  ghosts' = ghosts /\ Loose' \subseteq Loose
  BY <1>2, ReceiveLoose DEF Loose, Receive
<1>3. ASSUME NEW a \in Sockets, Lose(a) \/ Overtake(a)
      PROVE  /\ ghosts' \in {ghosts, ghosts + 1}
             /\ \/ Loose' \subseteq Loose
                \/ ghosts' = ghosts + 1 /\ Loose' \subseteq Loose \cup {a}
  <2>1. ghosts' \in {ghosts, ghosts + 1}
    BY <1>3, LoseIs, OvertakeIs
  <2>2. \A b \in Sockets : IsLoose(b)' => IsLoose(b) \/ (ghosts' = ghosts + 1 /\ b = a)
    BY <1>3, LoseLoose, OvertakeLoose
  <2>3. CASE ghosts' = ghosts + 1
    BY <2>1, <2>2, <2>3 DEF Loose
  <2>4. CASE ghosts' # ghosts + 1
    BY <2>1, <2>2, <2>4 DEF Loose
  <2> QED BY <2>3, <2>4
<1>4. ASSUME NEW t \in Tamas, Killed(t)
      PROVE  ghosts' = ghosts + 1 /\ Loose' \subseteq Loose \cup {SocketOf(t)}
  BY <1>4, KilledLoose DEF Loose, Killed
<1>5. CASE ServerRestart
  <2>1. \A b \in Sockets : IsLoose(b)' => IsLoose(b)
    BY <1>5, RestartedServer DEF IsLoose, Alive, ServerRestart, clientVars
  <2> QED BY <1>5, <2>1 DEF Loose, ServerRestart
<1>6. CASE UNCHANGED vars
  <2>1. UNCHANGED <<tama, toServer, ghosts, serverVars>>
    BY <1>6 DEF vars, clientVars
  <2>2. \A b \in Sockets : IsLoose(b)' => IsLoose(b)
    BY <2>1, IdleServer DEF IsLoose, Alive
  <2> QED BY <2>1, <2>2 DEF Loose
<1>7. \/ \E t \in Tamas : EmulatorStep(t)
      \/ \E a \in Sockets : Receive(a)
      \/ \E a \in Sockets : Lose(a) \/ Overtake(a)
      \/ \E t \in Tamas : Killed(t)
      \/ ServerRestart
      \/ UNCHANGED vars
  BY StepIs
<1> QED BY <1>1, <1>2, <1>3, <1>4, <1>5, <1>6, <1>7

LEMMA LooseStep ==
  ASSUME HiveTypeOK, SP!TableInv, LooseIsCounted, [Next]_vars
  PROVE  LooseIsCounted'
<1>1. IsFiniteSet(Loose) /\ Cardinality(Loose) \in Nat /\ Cardinality(Loose) <= ghosts /\ ghosts \in Nat
  BY FS_CardinalityType DEF LooseIsCounted, HiveTypeOK
<1>2. CASE Loose' \subseteq Loose
  <2>1. IsFiniteSet(Loose') /\ Cardinality(Loose') <= Cardinality(Loose) /\ Cardinality(Loose') \in Nat
    BY <1>1, <1>2, FS_Subset, FS_CardinalityType
  <2>2. Cardinality(Loose') <= ghosts'
    BY <1>1, <2>1, LooseAfter
  <2> QED BY <2>1, <2>2 DEF LooseIsCounted
<1>3. ASSUME NEW x, Loose' \subseteq Loose \cup {x}, ghosts' = ghosts + 1
      PROVE  LooseIsCounted'
  <2>1. /\ IsFiniteSet(Loose \cup {x})
        /\ Cardinality(Loose \cup {x}) \in Nat
        /\ Cardinality(Loose \cup {x}) <= Cardinality(Loose) + 1
    BY <1>1, FS_AddElement
  <2>2. IsFiniteSet(Loose') /\ Cardinality(Loose') \in Nat
        /\ Cardinality(Loose') <= Cardinality(Loose \cup {x})
    BY <1>3, <2>1, FS_Subset, FS_CardinalityType
  <2>3. Cardinality(Loose') <= ghosts'
    BY <1>1, <1>3, <2>1, <2>2
  <2> QED BY <2>2, <2>3 DEF LooseIsCounted
<1> QED BY <1>2, <1>3, LooseAfter

(* What the hive keeps of itself, whatever the sequence numbers do. *)
HiveInv == HiveTypeOK /\ SP!TableInv /\ LooseIsCounted

LEMMA HiveInvAlways == Spec => []HiveInv
<1>1. Init => HiveInv
  BY HiveTypeInit, LooseInit, SameServer, SP!TableInvInit, ServerAssumed DEF Init, HiveInv
<1>2. HiveInv /\ [Next]_vars => HiveInv'
  <2> SUFFICES ASSUME HiveInv, [Next]_vars PROVE HiveInv'
    OBVIOUS
  <2>1. HiveTypeOK' /\ LooseIsCounted'
    BY TypeStep, LooseStep DEF HiveInv
  <2>2. SP!TableInv'
    <3>1. CASE \E t \in Tamas : EmulatorStep(t)
      BY <3>1, IdleServer DEF HiveInv, EmulatorStep
    <3>2. CASE \E a \in Sockets : Receive(a)
      BY <3>2, ReceiveKeepsTable DEF HiveInv
    <3>3. CASE \E a \in Sockets : Lose(a) \/ Overtake(a)
      BY <3>3, IdleServer, LoseIs, OvertakeIs DEF HiveInv
    <3>4. CASE \E t \in Tamas : Killed(t)
      BY <3>4, IdleServer DEF HiveInv, Killed
    <3>5. CASE ServerRestart
      BY <3>5, RestartedServer DEF HiveInv
    <3>6. CASE UNCHANGED vars
      BY <3>6, IdleServer DEF HiveInv, vars
    <3> QED BY <3>1, <3>2, <3>3, <3>4, <3>5, <3>6, StepIs
  <2> QED BY <2>1, <2>2 DEF HiveInv
<1> QED BY <1>1, <1>2, PTL DEF Spec

(* The slots of processes that are gone, and whose goodbye is not under     *)
(* way, are never more than the faults that kept a goodbye away: every one  *)
(* belongs to a process of its own that is loose.                           *)
THEOREM GhostsAreCounted == Spec => []NoGhosts
<1>1. HiveInv => NoGhosts
  <2> SUFFICES ASSUME HiveInv PROVE NoGhosts
    OBVIOUS
  <2> DEFINE G == {i \in Server!Slots : Ghost(i)}
             f == [i \in G |-> addr[i]]
  <2>1. ASSUME NEW i \in G
        PROVE  i \in SP!Slots /\ SP!InUse(i) /\ addr[i] \in Loose
    <3>1. i \in SP!Slots /\ SP!InUse(i) /\ ~Alive(addr[i]) /\ "BYE" \notin Kinds(toServer[addr[i]])
      BY SameServer DEF Ghost
    <3>2. addr[i] \in Sockets
      BY <3>1 DEF HiveInv, SP!TableInv, SP!TypeOK, SP!UsedAreCounted, SP!LinksLeadToClients, SP!Counted
    <3>3. toServer[addr[i]] \in Seq(Packets)
      BY <3>2 DEF HiveInv, HiveTypeOK
    <3>4. ~EndsInBye(toServer[addr[i]])
      <4> DEFINE q == toServer[addr[i]]
      <4>1. q # <<>> => Len(q) \in DOMAIN q
        BY <3>3
      <4> QED BY <3>1, <4>1 DEF EndsInBye, Kinds
    <3> QED BY <3>1, <3>2, <3>4 DEF Loose, IsLoose, HasSlot
  <2>2. f \in Injection(G, Loose)
    <3>1. \A i, j \in G : f[i] = f[j] => i = j
      BY <2>1 DEF HiveInv, SP!TableInv, SP!OneSlotPerClient
    <3> QED BY <2>1, <3>1 DEF Injection, IsInjective
  <2>3. IsFiniteSet(G) /\ Cardinality(G) <= Cardinality(Loose)
    BY <2>2, FS_Injection DEF HiveInv, LooseIsCounted
  <2>4. Cardinality(G) \in Nat /\ Cardinality(Loose) \in Nat
    BY <2>3, FS_CardinalityType DEF HiveInv, LooseIsCounted
  <2>5. Cardinality(G) <= ghosts
    BY <2>3, <2>4 DEF HiveInv, LooseIsCounted, HiveTypeOK
  <2> QED BY <2>5 DEF NoGhosts
<1> QED BY <1>1, HiveInvAlways, PTL
-----------------------------------------------------------------------------
(* The picture of a tama that is up and not astray: its latest one is the   *)
(* last under way, or none is under way and its slot has it.                *)

Pending(q, p) ==
  \E i \in 1..Len(q) : /\ q[i].type = "IMAGE" /\ q[i].body.pixels = p
                       /\ \A j \in 1..Len(q) : j > i => q[j].type # "IMAGE"
Promised(a, p) ==
  Pending(toServer[a], p) \/ (NoneOf("IMAGE", toServer[a]) /\ Shown(a, p))

NotStarted == \A a \in Sockets : a[2] > tama[a[1]].run => toServer[a] = <<>>
NoByeYet   == \A a \in Sockets : Alive(a) => NoneOf("BYE", toServer[a])
Owed(a, p) == Alive(a) /\ a[1] \notin astray /\ p = tama[a[1]].olddisp /\ p # NoPixels
LastIsPromised == \A a \in Sockets, p \in Pixels : Owed(a, p) => Promised(a, p)
ShownInv == NotStarted /\ NoByeYet /\ LastIsPromised

LEMMA SeqFacts ==
  ASSUME NEW q \in Seq(Packets)
  PROVE  Len(q) \in Nat /\ \A i \in 1..Len(q) : q[i] \in Packets
  OBVIOUS

LEMMA NoneAfter ==
  ASSUME NEW q \in Seq(Packets), NEW k, NoneOf(k, q)
  PROVE  /\ \A s \in Seq(Packets) : NoneOf(k, s) => NoneOf(k, q \o s)
         /\ q # <<>> => NoneOf(k, Tail(q))
         /\ \A i \in 1..Len(q) : NoneOf(k, Without(q, i))
<1>1. ASSUME NEW s \in Seq(Packets), NoneOf(k, s)
      PROVE  NoneOf(k, q \o s)
  <2>1. /\ Len(q \o s) = Len(q) + Len(s)
        /\ \A i \in 1..Len(q) : (q \o s)[i] = q[i]
        /\ \A i \in 1..Len(s) : (q \o s)[Len(q) + i] = s[i]
    BY Appended
  <2> DEFINE r == q \o s
  <2> HIDE DEF r
  <2> SUFFICES ASSUME NEW i \in 1..Len(r) PROVE r[i].type # k
    BY DEF NoneOf, r
  <2>2. CASE i <= Len(q)
    BY <2>1, <2>2, SeqFacts DEF NoneOf, r
  <2>3. CASE ~(i <= Len(q))
    <3>1. i - Len(q) \in 1..Len(s) /\ Len(q) + (i - Len(q)) = i
      BY <2>1, <2>3, SeqFacts DEF r
    <3> QED BY <1>1, <2>1, <3>1 DEF NoneOf, r
  <2> QED BY <2>2, <2>3
<1>2. ASSUME q # <<>> PROVE NoneOf(k, Tail(q))
  <2>1. /\ Len(Tail(q)) = Len(q) - 1 /\ Len(q) \in Nat
        /\ \A i \in 1..(Len(q) - 1) : Tail(q)[i] = q[i + 1]
    BY <1>2, Behind, SeqFacts
  <2> QED BY <2>1 DEF NoneOf
<1>3. ASSUME NEW i \in 1..Len(q) PROVE NoneOf(k, Without(q, i))
  <2>1. /\ Len(Without(q, i)) = Len(q) - 1 /\ Len(q) \in Nat
        /\ \A j \in 1..(Len(q) - 1) : Without(q, i)[j] = IF j < i THEN q[j] ELSE q[j + 1]
    BY WithoutOne, SeqFacts
  <2> QED BY <2>1 DEF NoneOf
<1> QED BY <1>1, <1>2, <1>3

LEMMA PendingAppended ==
  ASSUME NEW q \in Seq(Packets), NEW s \in Seq(Packets), NEW p
  PROVE  /\ Pending(q, p) /\ NoneOf("IMAGE", s) => Pending(q \o s, p)
         /\ s # <<>> /\ s[Len(s)].type = "IMAGE" /\ s[Len(s)].body.pixels = p
              => Pending(q \o s, p)
<1> DEFINE r == q \o s
<1>1. /\ Len(r) = Len(q) + Len(s) /\ Len(q) \in Nat /\ Len(s) \in Nat
      /\ \A i \in 1..Len(q) : r[i] = q[i]
      /\ \A i \in 1..Len(s) : r[Len(q) + i] = s[i]
  BY Appended, SeqFacts
<1> HIDE DEF r
<1>2. ASSUME Pending(q, p), NoneOf("IMAGE", s)
      PROVE  Pending(r, p)
  <2>1. PICK i \in 1..Len(q) : /\ q[i].type = "IMAGE" /\ q[i].body.pixels = p
                               /\ \A j \in 1..Len(q) : j > i => q[j].type # "IMAGE"
    BY <1>2 DEF Pending
  <2>2. ASSUME NEW j \in 1..Len(r), j > i
        PROVE  r[j].type # "IMAGE"
    <3>1. CASE j <= Len(q)
      <4>1. j \in 1..Len(q) /\ r[j] = q[j]
        BY <1>1, <3>1
      <4> QED BY <2>1, <2>2, <4>1
    <3>2. CASE ~(j <= Len(q))
      <4>1. j - Len(q) \in 1..Len(s) /\ Len(q) + (j - Len(q)) = j
        BY <1>1, <3>2
      <4>2. r[j] = s[j - Len(q)]
        BY <1>1, <4>1
      <4> QED BY <1>2, <4>1, <4>2 DEF NoneOf
    <3> QED BY <3>1, <3>2
  <2>3. i \in 1..Len(r) /\ r[i] = q[i]
    BY <1>1
  <2> QED BY <2>1, <2>2, <2>3 DEF Pending
<1>3. ASSUME s # <<>>, s[Len(s)].type = "IMAGE", s[Len(s)].body.pixels = p
      PROVE  Pending(r, p)
  <2>1. Len(s) >= 1
    BY <1>3
  <2>2. Len(r) \in 1..Len(r) /\ r[Len(r)] = s[Len(s)]
    BY <1>1, <2>1
  <2>3. \A j \in 1..Len(r) : ~(j > Len(r))
    BY <1>1
  <2> QED BY <1>3, <2>2, <2>3 DEF Pending
<1> QED BY <1>2, <1>3 DEF r

LEMMA PendingBehind ==
  ASSUME NEW q \in Seq(Packets), q # <<>>, NEW p, Pending(q, p)
  PROVE  \/ Pending(Tail(q), p)
         \/ /\ Head(q).type = "IMAGE" /\ Head(q).body.pixels = p
            /\ NoneOf("IMAGE", Tail(q))
<1> DEFINE r == Tail(q)
<1>1. /\ Len(r) = Len(q) - 1 /\ Len(q) \in Nat /\ Len(q) >= 1 /\ Head(q) = q[1]
      /\ \A i \in 1..(Len(q) - 1) : r[i] = q[i + 1]
  BY Behind, SeqFacts
<1> HIDE DEF r
<1>2. PICK i \in 1..Len(q) : /\ q[i].type = "IMAGE" /\ q[i].body.pixels = p
                             /\ \A j \in 1..Len(q) : j > i => q[j].type # "IMAGE"
  BY DEF Pending
<1>3. CASE i = 1
  BY <1>1, <1>2, <1>3 DEF NoneOf, r
<1>4. CASE i # 1
  <2>1. i - 1 \in 1..Len(r) /\ r[i - 1] = q[i]
    BY <1>1, <1>4
  <2>2. ASSUME NEW j \in 1..Len(r), j > i - 1
        PROVE  r[j].type # "IMAGE"
    <3>1. j + 1 \in 1..Len(q) /\ j + 1 > i /\ r[j] = q[j + 1]
      BY <1>1, <2>2
    <3> QED BY <1>2, <3>1
  <2>3. Pending(r, p)
    BY <1>2, <2>1, <2>2 DEF Pending
  <2> QED BY <2>3 DEF r
<1> QED BY <1>3, <1>4

LEMMA PendingWithout ==
  ASSUME NEW q \in Seq(Packets), NEW i \in 1..Len(q), q[i].type # "IMAGE",
         NEW p, Pending(q, p)
  PROVE  Pending(Without(q, i), p)
<1> DEFINE w == Without(q, i)
<1>1. /\ Len(w) = Len(q) - 1 /\ Len(q) \in Nat
      /\ \A j \in 1..(Len(q) - 1) : w[j] = IF j < i THEN q[j] ELSE q[j + 1]
  BY WithoutOne, SeqFacts
<1> HIDE DEF w
<1>2. PICK k \in 1..Len(q) : /\ q[k].type = "IMAGE" /\ q[k].body.pixels = p
                             /\ \A j \in 1..Len(q) : j > k => q[j].type # "IMAGE"
  BY DEF Pending
<1>3. k # i
  BY <1>2
<1> DEFINE n == IF k < i THEN k ELSE k - 1
<1>4. n \in 1..Len(w) /\ w[n] = q[k]
  BY <1>1, <1>3
<1>5. ASSUME NEW j \in 1..Len(w), j > n
      PROVE  w[j].type # "IMAGE"
  <2>1. CASE j < i
    <3>1. j \in 1..Len(q) /\ j > k /\ w[j] = q[j]
      BY <1>1, <1>3, <1>5, <2>1
    <3> QED BY <1>2, <3>1
  <2>2. CASE ~(j < i)
    <3>1. j + 1 \in 1..Len(q) /\ j + 1 > k /\ w[j] = q[j + 1]
      BY <1>1, <1>3, <1>5, <2>2
    <3> QED BY <1>2, <3>1
  <2> QED BY <2>1, <2>2
<1> HIDE DEF n
<1> QED BY <1>2, <1>4, <1>5 DEF Pending, w


LEMMA ShownInit == Init => ShownInv
<1> SUFFICES ASSUME Init PROVE ShownInv
  OBVIOUS
<1>1. \A a \in Sockets : toServer[a] = <<>> /\ tama[a[1]].olddisp = NoPixels
  BY SocketParts DEF Init, ClientInit
<1>2. \A k : NoneOf(k, <<>>)
  BY DEF NoneOf
<1> QED BY <1>1, <1>2 DEF ShownInv, NotStarted, NoByeYet, LastIsPromised, Owed

(* Another emulator's socket is not touched; a new process has none of its  *)
(* own to look back at.                                                     *)
LEMMA EmulatorOthers ==
  ASSUME HiveTypeOK, NotStarted, NEW t \in Tamas, EmulatorStep(t),
         NEW b \in Sockets, b # SocketOf(t)
  PROVE  /\ toServer'[b] = toServer[b]
         /\ b[1] # t => tama'[b[1]] = tama[b[1]] /\ (b[1] \in astray' <=> b[1] \in astray)
         /\ b[1] = t => /\ b[2] > tama'[t].run => b[2] > tama[t].run
                        /\ Alive(b)' => toServer[b] = <<>> /\ tama'[t].olddisp = NoPixels
<1>1. PICK s \in Seq(Packets) :
         /\ toServer' = [toServer EXCEPT ![SocketOf(t)] = @ \o s]
         /\ \A u \in Tamas \ {t} : tama'[u] = tama[u]
         /\ Stays(t, s) \/ Leaves(t, s)
  BY EmulatorSends
<1>2. toServer'[b] = toServer[b]
  BY <1>1, OwnSocket DEF HiveTypeOK
<1>3. b[1] \in Tamas /\ b[2] \in Nat /\ b = <<b[1], b[2]>> /\ tama[t].run \in Nat
  BY SocketParts, ClientAssumption DEF HiveTypeOK
<1>4. b[1] # t => tama'[b[1]] = tama[b[1]] /\ (b[1] \in astray' <=> b[1] \in astray)
  BY <1>1, <1>3 DEF EmulatorStep
<1>5. b[1] = t => b[2] # tama[t].run
  BY <1>3 DEF SocketOf
<1>6. b[1] = t => (b[2] > tama'[t].run => b[2] > tama[t].run)
  BY <1>1, <1>3 DEF Stays, Leaves
<1>7. ASSUME b[1] = t, Alive(b)'
      PROVE  toServer[b] = <<>> /\ tama'[t].olddisp = NoPixels
  <2>1. tama'[t].up /\ tama'[t].run = b[2]
    BY <1>7 DEF Alive
  <2>2. tama'[t].run = tama[t].run + 1 /\ tama'[t].olddisp = NoPixels
    BY <1>1, <1>5, <1>7, <2>1 DEF Stays, Leaves
  <2>3. b[2] > tama[b[1]].run
    BY <1>3, <1>7, <2>1, <2>2
  <2> QED BY <2>2, <2>3 DEF NotStarted
<1> QED BY <1>2, <1>4, <1>6, <1>7

LEMMA EmulatorOwn ==
  ASSUME HiveTypeOK, ShownInv, NEW t \in Tamas, EmulatorStep(t),
         NEW b \in Sockets, b = SocketOf(t), Alive(b)'
  PROVE  /\ NoneOf("BYE", toServer'[b])
         /\ \A p \in Pixels : Owed(b, p)' => Promised(b, p)'
<1>1. PICK s \in Seq(Packets) :
         /\ toServer' = [toServer EXCEPT ![SocketOf(t)] = @ \o s]
         /\ Stays(t, s) \/ Leaves(t, s)
  BY EmulatorSends
<1>2. /\ tama[t].up /\ UNCHANGED serverVars
      /\ t \in astray /\ t \notin astray' =>
           /\ toServer[b] = <<>>
           /\ \E i \in DOMAIN toServer'[b] : toServer'[b][i].type = "IMAGE"
  BY DEF EmulatorStep, Frame, Interrupt
<1>3. b[1] = t /\ b[2] = tama[t].run /\ tama[t].run \in Nat
  BY OwnSocket DEF HiveTypeOK
<1>4. toServer[b] \in Seq(Packets) /\ toServer'[b] = toServer[b] \o s
  BY <1>1 DEF HiveTypeOK
<1>5. Stays(t, s)
  BY <1>1, <1>3 DEF Leaves, Alive
<1>6. NoneOf("BYE", toServer[b])
  BY <1>2, <1>3 DEF ShownInv, NoByeYet, Alive
<1>7. NoneOf("BYE", toServer'[b])
  BY <1>4, <1>5, <1>6, NoneAfter DEF Stays
<1>8. ASSUME NEW p \in Pixels, Owed(b, p)'
      PROVE  Promised(b, p)'
  <2>1. t \notin astray' /\ p = tama'[t].olddisp /\ p # NoPixels
    BY <1>3, <1>8 DEF Owed
  <2>2. CASE s # <<>> /\ s[Len(s)].type = "IMAGE" /\ s[Len(s)].body.pixels = p
    BY <1>4, <2>2, PendingAppended DEF Promised
  <2>3. CASE tama'[t].olddisp = tama[t].olddisp /\ NoneOf("IMAGE", s)
    <3>1. t \notin astray
      <4> SUFFICES ASSUME t \in astray PROVE FALSE
        OBVIOUS
      <4>1. toServer[b] = <<>> /\ \E i \in DOMAIN toServer'[b] : toServer'[b][i].type = "IMAGE"
        BY <1>2, <2>1
      <4>2. toServer'[b] = s
        BY <1>4, <4>1
      <4>3. DOMAIN s = 1..Len(s)
        OBVIOUS
      <4> QED BY <2>3, <4>1, <4>2, <4>3 DEF NoneOf
    <3>2. Owed(b, p)
      BY <1>2, <1>3, <2>1, <2>3, <3>1 DEF Owed, Alive
    <3>3. Promised(b, p)
      BY <3>2 DEF ShownInv, LastIsPromised
    <3>4. CASE Pending(toServer[b], p)
      BY <1>4, <2>3, <3>4, PendingAppended DEF Promised
    <3>5. CASE NoneOf("IMAGE", toServer[b]) /\ Shown(b, p)
      <4>1. Shown(b, p)'
        BY <1>2, <3>5, IdleServer
      <4>2. NoneOf("IMAGE", toServer'[b])
        BY <1>4, <2>3, <3>5, NoneAfter
      <4> QED BY <4>1, <4>2 DEF Promised
    <3> QED BY <3>3, <3>4, <3>5 DEF Promised
  <2> QED BY <1>5, <2>1, <2>2, <2>3 DEF Stays
<1> QED BY <1>7, <1>8

LEMMA EmulatorShown ==
  ASSUME HiveTypeOK, ShownInv, NEW t \in Tamas, EmulatorStep(t)
  PROVE  ShownInv'
<1>1. SocketOf(t) \in Sockets /\ SocketOf(t)[1] = t /\ SocketOf(t)[2] = tama[t].run
      /\ tama[t].run \in Nat /\ tama'[t].run \in Nat /\ tama'[t].run >= tama[t].run
  <2>1. \E s \in Seq(Packets) : Stays(t, s) \/ Leaves(t, s)
    BY EmulatorSends
  <2>2. tama[t].run \in Nat
    BY DEF HiveTypeOK
  <2> QED BY <2>1, <2>2, OwnSocket DEF Stays, Leaves
<1>2. NotStarted'
  <2> SUFFICES ASSUME NEW b \in Sockets, b[2] > tama'[b[1]].run
               PROVE  toServer'[b] = <<>>
    BY DEF NotStarted
  <2>1. b # SocketOf(t)
    BY <1>1
  <2>2. b[2] > tama[b[1]].run /\ toServer'[b] = toServer[b]
    BY <2>1, EmulatorOthers DEF ShownInv
  <2> QED BY <2>2 DEF ShownInv, NotStarted
<1>3. ASSUME NEW b \in Sockets, b # SocketOf(t), Alive(b)'
      PROVE  /\ NoneOf("BYE", toServer'[b])
             /\ \A p \in Pixels : Owed(b, p)' => Promised(b, p)'
  <2>1. toServer'[b] = toServer[b] /\ UNCHANGED serverVars
    BY <1>3, EmulatorOthers DEF ShownInv, EmulatorStep
  <2>2. CASE b[1] # t
    <3>1. tama'[b[1]] = tama[b[1]] /\ (b[1] \in astray' <=> b[1] \in astray)
      BY <1>3, <2>2, EmulatorOthers DEF ShownInv
    <3>2. Alive(b) /\ \A p \in Pixels : Owed(b, p)' => Owed(b, p)
      BY <1>3, <3>1 DEF Alive, Owed
    <3>3. \A p \in Pixels : Promised(b, p) => Promised(b, p)'
      BY <2>1, IdleServer DEF Promised
    <3> QED BY <2>1, <3>2, <3>3 DEF ShownInv, NoByeYet, LastIsPromised
  <2>3. CASE b[1] = t
    <3>1. toServer[b] = <<>> /\ tama'[t].olddisp = NoPixels
      BY <1>3, <2>3, EmulatorOthers DEF ShownInv
    <3>2. NoneOf("BYE", <<>>)
      BY DEF NoneOf
    <3> QED BY <2>1, <2>3, <3>1, <3>2 DEF Owed
  <2> QED BY <2>2, <2>3
<1>4. NoByeYet'
  BY <1>3, EmulatorOwn DEF NoByeYet
<1>5. LastIsPromised'
  BY <1>3, EmulatorOwn DEF LastIsPromised, Owed
<1> QED BY <1>2, <1>4, <1>5 DEF ShownInv


(* A step that leaves the tamas alone, and can at most make them stray,     *)
(* keeps what is owed to those whose queue and slot it leaves alone.        *)
LEMMA QuietKeeps ==
  ASSUME ShownInv, UNCHANGED tama, astray \subseteq astray', NEW b \in Sockets,
         toServer'[b] = toServer[b], \A p : Shown(b, p) => Shown(b, p)'
  PROVE  /\ b[2] > tama'[b[1]].run => toServer'[b] = <<>>
         /\ Alive(b)' => NoneOf("BYE", toServer'[b])
         /\ \A p \in Pixels : Owed(b, p)' => Promised(b, p)'
<1>1. Alive(b)' <=> Alive(b)
  BY DEF Alive
<1>2. \A p \in Pixels : Owed(b, p)' => Owed(b, p)
  BY <1>1 DEF Owed
<1>3. \A p \in Pixels : Promised(b, p) => Promised(b, p)'
  BY DEF Promised
<1> QED BY <1>1, <1>2, <1>3 DEF ShownInv, NotStarted, NoByeYet, LastIsPromised

LEMMA ReceiveShown ==
  ASSUME SeqLimit < SP!UNUSED, HiveTypeOK, SP!TableInv, ShownInv,
         NEW a \in Sockets, Receive(a)
  PROVE  ShownInv'
<1> DEFINE q == toServer[a]
<1>1. /\ q \in Seq(Packets) /\ q # <<>> /\ Head(q) \in Packets /\ a[1] \in Tamas
      /\ toServer' = [toServer EXCEPT ![a] = Tail(q)]
  BY ReceivedType
<1>2. toServer'[a] = Tail(q) /\ \A b \in Sockets \ {a} : toServer'[b] = toServer[b]
  BY <1>1 DEF HiveTypeOK
<1>3. UNCHANGED tama /\ astray \subseteq astray'
  BY DEF Receive
<1>4. ASSUME NEW b \in Sockets, b # a
      PROVE  /\ b[2] > tama'[b[1]].run => toServer'[b] = <<>>
             /\ Alive(b)' => NoneOf("BYE", toServer'[b])
             /\ \A p \in Pixels : Owed(b, p)' => Promised(b, p)'
  BY <1>2, <1>3, <1>4, ReceiveOthers, QuietKeeps
<1>5. ~(a[2] > tama'[a[1]].run)
  BY <1>1, <1>3 DEF ShownInv, NotStarted
<1>6. ASSUME Alive(a)'
      PROVE  NoneOf("BYE", toServer'[a]) /\ Head(q).type # "BYE"
  <2>1. NoneOf("BYE", q)
    BY <1>3, <1>6 DEF ShownInv, NoByeYet, Alive
  <2>2. Head(q) = q[1] /\ 1 \in 1..Len(q)
    BY <1>1, Behind
  <2> QED BY <1>1, <1>2, <2>1, <2>2, NoneAfter DEF NoneOf
<1>7. ASSUME NEW p \in Pixels, Owed(a, p)'
      PROVE  Promised(a, p)'
  <2>1. Owed(a, p) /\ a[1] \notin astray' /\ Head(q).type # "BYE"
    BY <1>3, <1>6, <1>7 DEF Owed, Alive
  <2>2. Promised(a, p)
    BY <2>1 DEF ShownInv, LastIsPromised
  <2>3. PICK m \in Packets : m = Head(q)
    BY <1>1
  <2>4. m.type = "IMAGE" => Shown(a, m.body.pixels)'
    BY <2>1, <2>3, ReceiveOwn
  <2>5. m.type # "IMAGE" => (Shown(a, p) => Shown(a, p)')
    BY <2>1, <2>3, ReceiveOwn
  <2>6. CASE Pending(q, p)
    <3>1. CASE Pending(Tail(q), p)
      BY <1>2, <3>1 DEF Promised
    <3>2. CASE m.type = "IMAGE" /\ m.body.pixels = p /\ NoneOf("IMAGE", Tail(q))
      BY <1>2, <2>4, <3>2 DEF Promised
    <3> QED BY <1>1, <2>3, <2>6, <3>1, <3>2, PendingBehind
  <2>7. CASE NoneOf("IMAGE", q) /\ Shown(a, p)
    <3>1. m.type # "IMAGE"
      <4>1. Head(q) = q[1] /\ 1 \in 1..Len(q)
        BY <1>1, Behind
      <4> QED BY <2>3, <2>7, <4>1 DEF NoneOf
    <3>2. NoneOf("IMAGE", Tail(q))
      BY <1>1, <2>7, NoneAfter
    <3> QED BY <1>2, <2>5, <2>7, <3>1, <3>2 DEF Promised
  <2> QED BY <2>2, <2>6, <2>7 DEF Promised
<1>8. NotStarted'
  BY <1>4, <1>5 DEF NotStarted
<1>9. NoByeYet'
  BY <1>4, <1>6 DEF NoByeYet
<1>10. LastIsPromised'
  BY <1>4, <1>7 DEF LastIsPromised
<1> QED BY <1>8, <1>9, <1>10 DEF ShownInv

LEMMA LoseShown ==
  ASSUME HiveTypeOK, ShownInv, NEW a \in Sockets, Lose(a)
  PROVE  ShownInv'
<1> DEFINE q == toServer[a]
<1>1. PICK i \in 1..Len(q) :
         /\ toServer' = [toServer EXCEPT ![a] = Without(q, i)]
         /\ q \in Seq(Packets)
         /\ astray' = IF q[i].type = "IMAGE" THEN astray \cup {a[1]} ELSE astray
         /\ UNCHANGED <<tama, serverVars>>
  BY LoseIs
<1>2. toServer'[a] = Without(q, i) /\ \A b \in Sockets \ {a} : toServer'[b] = toServer[b]
  BY <1>1 DEF HiveTypeOK
<1>3. UNCHANGED tama /\ astray \subseteq astray'
  BY <1>1
<1>4. \A b, p : Shown(b, p) => Shown(b, p)'
  BY <1>1, IdleServer
<1>5. ASSUME NEW b \in Sockets, b # a
      PROVE  /\ b[2] > tama'[b[1]].run => toServer'[b] = <<>>
             /\ Alive(b)' => NoneOf("BYE", toServer'[b])
             /\ \A p \in Pixels : Owed(b, p)' => Promised(b, p)'
  BY <1>2, <1>3, <1>4, <1>5, QuietKeeps
<1>6. ~(a[2] > tama'[a[1]].run)
  <2>1. q # <<>>
    BY <1>1
  <2> QED BY <1>3, <2>1 DEF ShownInv, NotStarted
<1>7. ASSUME Alive(a)'
      PROVE  NoneOf("BYE", toServer'[a])
  <2>1. NoneOf("BYE", q)
    BY <1>3, <1>7 DEF ShownInv, NoByeYet, Alive
  <2> QED BY <1>1, <1>2, <2>1, NoneAfter
<1>8. ASSUME NEW p \in Pixels, Owed(a, p)'
      PROVE  Promised(a, p)'
  <2>1. Owed(a, p) /\ q[i].type # "IMAGE"
    BY <1>1, <1>8 DEF Owed, Alive
  <2>2. Promised(a, p)
    BY <2>1 DEF ShownInv, LastIsPromised
  <2>3. CASE Pending(q, p)
    BY <1>1, <1>2, <2>1, <2>3, PendingWithout DEF Promised
  <2>4. CASE NoneOf("IMAGE", q) /\ Shown(a, p)
    BY <1>1, <1>2, <1>4, <2>4, NoneAfter DEF Promised
  <2> QED BY <2>2, <2>3, <2>4 DEF Promised
<1>9. NotStarted' /\ NoByeYet' /\ LastIsPromised'
  BY <1>5, <1>6, <1>7, <1>8 DEF NotStarted, NoByeYet, LastIsPromised
<1> QED BY <1>9 DEF ShownInv

LEMMA OvertakeShown ==
  ASSUME HiveTypeOK, ShownInv, NEW a \in Sockets, Overtake(a)
  PROVE  ShownInv'
<1> DEFINE q == toServer[a]
<1>1. PICK i \in 1..(Len(q) - 1), r \in Seq(Packets) :
         /\ toServer' = [toServer EXCEPT ![a] = r]
         /\ q \in Seq(Packets) /\ Len(r) = Len(q)
         /\ r[i] = q[i + 1] /\ r[i + 1] = q[i]
         /\ \A j \in 1..Len(r) : j \notin {i, i + 1} => r[j] = q[j]
         /\ astray' = astray \cup {a[1]}
         /\ UNCHANGED <<tama, serverVars>>
  BY OvertakeIs
<1>2. toServer'[a] = r /\ \A b \in Sockets \ {a} : toServer'[b] = toServer[b]
  BY <1>1 DEF HiveTypeOK
<1>3. UNCHANGED tama /\ astray \subseteq astray'
  BY <1>1
<1>4. \A b, p : Shown(b, p) => Shown(b, p)'
  BY <1>1, IdleServer
<1>5. ASSUME NEW b \in Sockets, b # a
      PROVE  /\ b[2] > tama'[b[1]].run => toServer'[b] = <<>>
             /\ Alive(b)' => NoneOf("BYE", toServer'[b])
             /\ \A p \in Pixels : Owed(b, p)' => Promised(b, p)'
  BY <1>2, <1>3, <1>4, <1>5, QuietKeeps
<1>6. ~(a[2] > tama'[a[1]].run)
  <2>1. q # <<>>
    BY <1>1
  <2> QED BY <1>3, <2>1 DEF ShownInv, NotStarted
<1>7. ASSUME Alive(a)'
      PROVE  NoneOf("BYE", toServer'[a])
  <2>1. NoneOf("BYE", q)
    BY <1>3, <1>7 DEF ShownInv, NoByeYet, Alive
  <2>2. Len(q) \in Nat /\ i \in 1..Len(q) /\ i + 1 \in 1..Len(q)
    BY <1>1, SeqFacts
  <2>3. ASSUME NEW j \in 1..Len(r)
        PROVE  r[j].type # "BYE"
    BY <1>1, <2>1, <2>2, <2>3 DEF NoneOf
  <2> QED BY <1>2, <2>3 DEF NoneOf
<1>8. \A p : ~Owed(a, p)'
  BY <1>1 DEF Owed
<1>9. NotStarted' /\ NoByeYet' /\ LastIsPromised'
  BY <1>5, <1>6, <1>7, <1>8 DEF NotStarted, NoByeYet, LastIsPromised
<1> QED BY <1>9 DEF ShownInv

LEMMA KilledShown ==
  ASSUME HiveTypeOK, ShownInv, NEW t \in Tamas, Killed(t)
  PROVE  ShownInv'
<1>1. /\ tama' = [tama EXCEPT ![t].up = FALSE] /\ UNCHANGED <<toServer, astray, serverVars>>
  BY DEF Killed, Kill
<1>2. \A u \in Tamas : /\ tama'[u].run = tama[u].run /\ tama'[u].olddisp = tama[u].olddisp
                       /\ tama'[u].up => tama[u].up
  BY <1>1 DEF HiveTypeOK
<1>3. \A b \in Sockets : (Alive(b)' => Alive(b)) /\ \A p : Owed(b, p)' => Owed(b, p)
  BY <1>1, <1>2, SocketParts DEF Alive, Owed
<1>4. \A b, p : Promised(b, p) => Promised(b, p)'
  BY <1>1, IdleServer DEF Promised
<1>5. NotStarted'
  BY <1>1, <1>2, SocketParts DEF ShownInv, NotStarted
<1> QED BY <1>1, <1>3, <1>4, <1>5 DEF ShownInv, NoByeYet, LastIsPromised

LEMMA RestartShown ==
  ASSUME HiveTypeOK, ShownInv, ServerRestart
  PROVE  ShownInv'
<1>1. UNCHANGED <<tama, toServer>> /\ astray' = Tamas
  BY DEF ServerRestart, clientVars
<1>2. \A b \in Sockets : (Alive(b)' <=> Alive(b)) /\ \A p : ~Owed(b, p)'
  BY <1>1, SocketParts DEF Alive, Owed
<1> QED BY <1>1, <1>2 DEF ShownInv, NotStarted, NoByeYet, LastIsPromised

LEMMA ShownStep ==
  ASSUME SeqLimit < SP!UNUSED, HiveTypeOK, SP!TableInv, ShownInv, [Next]_vars
  PROVE  ShownInv'
<1>1. CASE UNCHANGED vars
  <2>1. UNCHANGED <<tama, toServer, astray, serverVars>>
    BY <1>1 DEF vars, clientVars
  <2>2. \A b \in Sockets : /\ b[2] > tama'[b[1]].run => toServer'[b] = <<>>
                           /\ Alive(b)' => NoneOf("BYE", toServer'[b])
                           /\ \A p \in Pixels : Owed(b, p)' => Promised(b, p)'
    BY <2>1, IdleServer, QuietKeeps
  <2> QED BY <2>2 DEF ShownInv, NotStarted, NoByeYet, LastIsPromised
<1> QED BY <1>1, StepIs, EmulatorShown, ReceiveShown, LoseShown, OvertakeShown,
           KilledShown, RestartShown

(* With fewer datagrams than make the sequence number reach UNUSED, a tama  *)
(* that is quiet is shown as it is: what its emulator remembers as sent is  *)
(* in the slot of its socket, whatever the others, their restarts and the   *)
(* faults that did not touch its last picture do.                           *)
THEOREM QuietTamasAreShown ==
  ASSUME SeqLimit < SP!UNUSED
  PROVE  Spec => []QuietTamaIsShown
<1>1. Init => ShownInv
  BY ShownInit
<1>2. HiveInv /\ ShownInv /\ [Next]_vars => ShownInv'
  BY ShownStep DEF HiveInv
<1>3. HiveInv /\ ShownInv => QuietTamaIsShown
  <2> SUFFICES ASSUME HiveInv, ShownInv, NEW t \in Tamas, tama[t].up, t \notin astray,
                      toServer[SocketOf(t)] = <<>>, tama[t].olddisp # NoPixels
               PROVE  \E i \in Server!Slots : /\ Server!InUse(i) /\ addr[i] = SocketOf(t)
                                              /\ display[i].pixels = tama[t].olddisp
    BY DEF QuietTamaIsShown
  <2> DEFINE a == SocketOf(t)
             p == tama[t].olddisp
  <2>1. a \in Sockets /\ a[1] = t /\ a[2] = tama[t].run /\ p \in Pixels
    BY OwnSocket DEF HiveInv, HiveTypeOK
  <2>2. Promised(a, p)
    BY <2>1 DEF ShownInv, LastIsPromised, Owed, Alive
  <2>3. ~Pending(<<>>, p)
    BY DEF Pending
  <2> QED BY <2>2, <2>3, SameServer DEF Promised, Shown
<1> QED BY <1>1, <1>2, <1>3, HiveInvAlways, PTL DEF Spec
=============================================================================

------------------------------ MODULE UdpClient ------------------------------
(***************************************************************************)
(* emu/udp.c and the loop of emu/main.c: the emulators of a hive of tamas, *)
(* as processes that send datagrams to the server.  What runs inside of a  *)
(* frame - the tama, its player, and what they make of the one datagram    *)
(* that udpTick reads - is in other modules; here it puts any picture on   *)
(* the display and sends any infrared datagram.                            *)
(***************************************************************************)
EXTENDS Integers, Sequences

CONSTANTS
  Tamas,      \* the tamas of the hive, each in an emulator of its own
  Starts,     \* bound: how often the emulator of each tama is started
  Screens,    \* what lcdRender makes: [pixels, icons]
  NoPixels,   \* the zeroed olddisp of a new process
  Bodies,     \* payloads of the infrared datagrams
  Talk,       \* the infrared datagrams sent: a subset of IrTypes
  UnderWay    \* bound: an emulator goes on while fewer datagrams are under way

ASSUME ClientAssumption ==
  /\ Starts \in [Tamas -> Nat \ {0}]
  /\ Talk \subseteq {"IRSTART", "IRSTARTACK", "IRDATA"}
  /\ \A s \in Screens : DOMAIN s = {"pixels", "icons"}
  /\ UnderWay \in Nat \ {0}

VARIABLES
  tama,    \* of each tama: [run, olddisp, up] - the number of the process, what
           \* it sent last, and whether it is there
  toServer \* what is under way from each process, oldest first
clientVars == <<tama, toServer>>

\* A new process has a new socket: its address is the tama and the number of
\* the start.
Sockets == UNION {{t} \X (1..Starts[t]) : t \in Tamas}
SocketOf(t) == <<t, tama[t].run>>
Alive(a) == tama[a[1]].up /\ tama[a[1]].run = a[2]

Packet(type, body) == [type |-> type, body |-> body]
Send(a, packets) == toServer' = [toServer EXCEPT ![a] = @ \o packets]

ClientInit ==
  /\ tama = [t \in Tamas |-> [run |-> 1, olddisp |-> NoPixels, up |-> TRUE]]
  /\ toServer = [a \in Sockets |-> <<>>]

(***************************************************************************)
(* udpSendDisplay: only when the pixels differ from what was sent last.    *)
(***************************************************************************)
SendDisplay(r, s) ==
  IF s.pixels = r.olddisp THEN [rec |-> r, packets |-> <<>>]
  ELSE [rec |-> [r EXCEPT !.olddisp = s.pixels], packets |-> <<Packet("IMAGE", s)>>]

Bye == <<Packet("BYE", 0)>>   \* udpExit

\* The new process begins with zeroed statics.
Exec(r) == [run |-> r.run + 1, olddisp |-> NoPixels, up |-> TRUE]

(***************************************************************************)
(* A frame of main: the tama runs and its display is rendered; infrared    *)
(* datagrams are sent by the tama and by its player; the display is sent,  *)
(* but not in every frame when speeded up; and when the countdown that a   *)
(* hangup began has ended (due), it says goodbye and starts again.         *)
(***************************************************************************)
Says == {<<>>} \cup {<<Packet(type, b)>> : type \in Talk, b \in Bodies}
Shows(r) == {[rec |-> r, packets |-> <<>>]} \cup {SendDisplay(r, s) : s \in Screens}

Frame(t) ==
  /\ tama[t].up /\ Len(toServer[SocketOf(t)]) < UnderWay
  /\ \E talk \in Says, d \in Shows(tama[t]), due \in BOOLEAN :
       /\ due => tama[t].run < Starts[t]
       /\ tama' = [tama EXCEPT ![t] = IF due THEN Exec(d.rec) ELSE d.rec]
       /\ Send(SocketOf(t), talk \o d.packets \o (IF due THEN Bye ELSE <<>>))

\* sigintHdlr, the second time: the emulator says goodbye and ends.
Interrupt(t) ==
  /\ tama[t].up /\ Len(toServer[SocketOf(t)]) < UnderWay
  /\ tama' = [tama EXCEPT ![t].up = FALSE]
  /\ Send(SocketOf(t), Bye)

\* The emulator is killed: nobody says goodbye.
Kill(t) ==
  /\ tama[t].up
  /\ tama' = [tama EXCEPT ![t].up = FALSE]
  /\ UNCHANGED toServer
=============================================================================

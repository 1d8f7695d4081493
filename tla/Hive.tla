-------------------------------- MODULE Hive ---------------------------------
(***************************************************************************)
(* The hive: emulators (UdpClient) and the TamaServer over UDP, which may  *)
(* lose datagrams and let one overtake another.  A fault is one of these,  *)
(* or a process that is killed, or a restart of the server.                *)
(***************************************************************************)
EXTENDS UdpClient, FiniteSets

CONSTANTS MAXCLIENT, SEQMOD, FRESH, SeqLimit, NoAddr,
          MaxFaults   \* bound: faults of a behaviour

ASSUME HiveAssumption ==
  /\ \E s \in Screens : s.pixels = NoPixels
  /\ NoAddr \notin Sockets
  /\ MAXCLIENT \in Nat \ {0}
  /\ SEQMOD \in Nat \ {0, 1}
  /\ FRESH \in Nat
  /\ SeqLimit \in 1..SEQMOD
  /\ MaxFaults \in Nat

VARIABLES currSeq, noTamas, lastSeq, display, addr, connectedTo, out,
          faults,  \* how many there have been
          ghosts,  \* the faults among them after which a slot may stay behind
          astray   \* the tamas whose last picture a fault, or a full table, may
                   \* have kept away

Blank == CHOOSE s \in Screens : s.pixels = NoPixels
Server == INSTANCE TamaServer
  WITH Addrs <- Sockets, Displays <- Screens, DrawsMayMiss <- TRUE

serverVars == <<currSeq, noTamas, lastSeq, display, addr, connectedTo, out>>
vars == <<clientVars, serverVars, faults, ghosts, astray>>

Init ==
  /\ ClientInit
  /\ Server!Init
  /\ faults = 0 /\ ghosts = 0 /\ astray = {}

(***************************************************************************)
(* The server handles the oldest datagram of a, or drops it.               *)
(***************************************************************************)
Handle(a, m) ==
  \/ m.type = "IMAGE" /\ Server!Image(a, m.body)
  \/ m.type = "IRSTART" /\ Server!IrStart(a, m.body)
  \/ m.type = "IRSTARTACK" /\ Server!IrStartAck(a, m.body)
  \/ m.type = "IRDATA" /\ Server!IrData(a, m.body)
  \/ m.type = "BYE" /\ Server!Bye(a)

Full == \A i \in Server!Slots : Server!InUse(i)

Receive(a) ==
  /\ toServer[a] # <<>>
  /\ currSeq < SeqLimit
  /\ toServer' = [toServer EXCEPT ![a] = Tail(@)]
  /\ \/ Handle(a, Head(toServer[a])) /\ UNCHANGED astray
     \/ /\ Server!Dropped(a)
        /\ astray' = IF Head(toServer[a]).type = "IMAGE" /\ Full
                     THEN astray \cup {a[1]} ELSE astray
  /\ UNCHANGED <<tama, faults, ghosts>>

\* A new picture, with nothing older under way, makes good what went wrong.
EmulatorStep(t) ==
  /\ Frame(t) \/ Interrupt(t)
  /\ astray' = LET a == SocketOf(t)
               IN IF /\ toServer[a] = <<>>
                     /\ \E i \in DOMAIN toServer'[a] : toServer'[a][i].type = "IMAGE"
                  THEN astray \ {t} ELSE astray
  /\ UNCHANGED <<serverVars, faults, ghosts>>

Without(s, i) == SubSeq(s, 1, i - 1) \o SubSeq(s, i + 1, Len(s))
Kinds(s) == {s[i].type : i \in DOMAIN s}

Lose(a) ==
  /\ \E i \in DOMAIN toServer[a] :
       /\ toServer' = [toServer EXCEPT ![a] = Without(@, i)]
       /\ astray' = IF toServer[a][i].type = "IMAGE" THEN astray \cup {a[1]} ELSE astray
       /\ ghosts' = ghosts + (IF toServer[a][i].type = "BYE" THEN 1 ELSE 0)
  /\ UNCHANGED <<tama, serverVars>>

Overtake(a) ==
  /\ \E i \in 1..(Len(toServer[a]) - 1) :
       /\ toServer' = [toServer EXCEPT ![a] = [@ EXCEPT ![i] = toServer[a][i + 1],
                                                        ![i + 1] = toServer[a][i]]]
       /\ ghosts' = ghosts + (IF toServer[a][i + 1].type = "BYE" THEN 1 ELSE 0)
  /\ astray' = astray \cup {a[1]}
  /\ UNCHANGED <<tama, serverVars>>

Killed(t) ==
  /\ Kill(t)
  /\ ghosts' = ghosts + 1
  /\ UNCHANGED <<serverVars, astray>>

ServerRestart ==
  /\ Server!Restart
  /\ astray' = Tamas
  /\ UNCHANGED <<clientVars, ghosts>>

Fault ==
  /\ faults < MaxFaults
  /\ faults' = faults + 1
  /\ \/ \E a \in Sockets : Lose(a) \/ Overtake(a)
     \/ \E t \in Tamas : Killed(t)
     \/ ServerRestart

Next == \/ \E t \in Tamas : EmulatorStep(t)
        \/ \E a \in Sockets : Receive(a)
        \/ Fault

Spec == Init /\ [][Next]_vars

-----------------------------------------------------------------------------
(***************************************************************************)
(* When nothing is under way from a running tama that has sent a picture,  *)
(* the server has a slot for it that shows the pixels it sent last - in    *)
(* spite of other tamas that come, leave and restart around it, and after  *)
(* any fault, or a full table, that a later picture has made good.  (The   *)
(* icons may be older: udpSendDisplay does not compare them.)              *)
(***************************************************************************)
QuietTamaIsShown ==
  \A t \in Tamas :
    LET a == SocketOf(t)
    IN tama[t].up /\ t \notin astray /\ toServer[a] = <<>> /\ tama[t].olddisp # NoPixels
         => \E i \in Server!Slots : /\ Server!InUse(i) /\ addr[i] = a
                                    /\ display[i].pixels = tama[t].olddisp

(***************************************************************************)
(* A slot of a process that is gone is kept only until its goodbye comes,  *)
(* unless a fault has kept that away or brought something after it: the    *)
(* restarts of the emulators alone never fill the table.                   *)
(***************************************************************************)
Ghost(i) == /\ Server!InUse(i)
            /\ ~Alive(addr[i])
            /\ "BYE" \notin Kinds(toServer[addr[i]])
NoGhosts == Cardinality({i \in Server!Slots : Ghost(i)}) <= ghosts
=============================================================================

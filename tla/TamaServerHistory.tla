------------------------- MODULE TamaServerHistory -------------------------
(***************************************************************************)
(* TamaServer with the history of its introductions: which clients an      *)
(* invitation has brought together since the server started, and which     *)
(* have said BYE.  The table itself only keeps slot numbers, so it cannot  *)
(* tell a partner from the client that took over the partner's slot.       *)
(***************************************************************************)
EXTENDS TamaServer

VARIABLES
  met,        \* pairs {a, b} of addresses an IRSTART went between
  gone        \* addresses that said BYE: udpExit closes the socket after it

hvars == <<vars, met, gone>>

HInit == Init /\ met = {} /\ gone = {}

(* Two clients are introduced when the invitation of one reaches another    *)
(* that is still there: not the sender itself, which the draw may return,   *)
(* and not a socket that was closed.                                        *)
Introduced(a) ==
  {{a, m.dst} : m \in {n \in out' : n.type = "IRSTART"
                                    /\ n.dst \notin {a, NoAddr} \cup gone}}

HReceive(a) ==
  /\ a \notin gone
  /\ Receive(a)
  /\ met' = met \cup Introduced(a)
  /\ gone' = IF Bye(a) THEN gone \cup {a} ELSE gone

HNext ==
  \/ Restart /\ met' = {} /\ UNCHANGED gone
  \/ \E a \in Addrs : HReceive(a)

HSpec == HInit /\ [][HNext]_hvars

(* A tama that was introduced to others since the server started sends its  *)
(* infrared data to one of them (or to nobody else than itself), never to a *)
(* stranger.                                                                *)
DataStaysBetweenPartners ==
  [][\A a \in Addrs : HReceive(a) /\ (\E p \in met : a \in p) =>
       \A m \in out' :
         m.type = "IRDATA" => m.dst = a \/ {a, m.dst} \in met]_hvars
=============================================================================

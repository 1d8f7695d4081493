------------------------------- MODULE IrLoop -------------------------------
(***************************************************************************)
(* The modem in front of a mirror: what it plays to the tama's receiver is *)
(* what it sees ("seenLight=recvActive; //HACK" in irTick, there to try    *)
(* the modem out).  A datagram may come in while another is being played.  *)
(***************************************************************************)
EXTENDS IrModem

CONSTANTS
  MAXSEND,       \* bound: bytes in a datagram
  PLAYS,         \* bound: datagrams played
  ARRIVALS,      \* bound: a datagram interrupts another at these values of sendTick
  MAXDARK        \* bound: ticks are counted up to here in the dark

ASSUME LoopAssumption == MAXSEND \in Nat /\ PLAYS \in Nat /\ MAXDARK \in Nat

VARIABLES
  plays,         \* how many datagrams have been played so far
  owed,          \* what of them can be heard
  latest,        \* what of the latest one can be heard, <<bytes>> or Nothing
  heard,         \* the datagrams that came out
  interrupted    \* was a datagram interrupted by the next one?

history == <<plays, owed, latest, interrupted>>
lvars   == <<modem, history, heard>>

(* What of a datagram can be heard: the modem collects no more than         *)
(* MAXLEN - 1 bytes, and sends no datagram without any.                     *)
Hearable(data) == SubSeq(data, 1, IF Len(data) < MAXLEN THEN Len(data) ELSE MAXLEN - 1)
Audible(data)  == IF Len(Hearable(data)) = 0 THEN Nothing ELSE <<Hearable(data)>>

LInit ==
  /\ ModemInit
  /\ plays = 0 /\ owed = <<>> /\ latest = Nothing /\ heard = <<>> /\ interrupted = FALSE

Quiet == sendPos = INACTIVE /\ ticks = MAXDARK

Play ==
  /\ Quiet \/ (sendPos # INACTIVE /\ sendTick \in ARRIVALS)
  /\ plays < PLAYS
  /\ \E n \in 0..MAXSEND : \E data \in [1..n -> Byte] :
       IrRecv(data) /\ latest' = Audible(data) /\ owed' = owed \o Audible(data)
  /\ plays' = plays + 1
  /\ interrupted' = (interrupted \/ ~Quiet)
  /\ UNCHANGED heard

Look ==
  /\ ~Quiet
  /\ Sender /\ Decoder(recvActive')
  /\ heard' = heard \o sent'
  /\ UNCHANGED history

(* In the dark only the tick counter goes on, uncounted beyond MAXDARK. *)
Dark == Quiet /\ UNCHANGED lvars

LNext == Play \/ Look \/ Dark

LSpec == LInit /\ [][LNext]_lvars /\ WF_lvars(Look)

-----------------------------------------------------------------------------
(* What comes out is what was played, byte for byte and in order, whatever  *)
(* an earlier datagram left in the buffer: the pulse that ends the data is  *)
(* long enough whichever bit lies behind it, and no byte of one datagram    *)
(* turns up in the next.                                                    *)
HeardIsPlayed ==
  \/ interrupted
  \/ heard = owed
  \/ ~Quiet /\ heard \o latest = owed

(* A datagram that interrupts another is still heard in full, and last: the *)
(* torso of the one before it cannot spoil it.                              *)
LatestIsHeard ==
  Quiet /\ latest # Nothing => heard # <<>> /\ heard[Len(heard)] = latest[1]

(* Every datagram is played to its end. *)
PlayingEnds == (sendPos # INACTIVE) ~> (sendPos = INACTIVE)
=============================================================================

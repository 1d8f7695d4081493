------------------------------ MODULE IrModem ------------------------------
(***************************************************************************)
(* The emulator's infrared modem (emu/ir.c).  irTick() runs about every    *)
(* 421 clock cycles.  One half plays the bytes that came over the network  *)
(* as pulses to the tama's receiver, the other half turns the pulses of    *)
(* the tama's LED into bytes and sends them to the network; the tama is    *)
(* then frozen (irNX) to make up for the time that took.                   *)
(***************************************************************************)
EXTENDS Integers, Sequences

CONSTANTS
  Byte,          \* the bytes played, each a sequence of BITS bits, lowest first
  BITS,          \* 8
  MAXLEN         \* sizeof(sendData), sizeof(recvData): 32

ASSUME ModemAssumption ==
  /\ BITS \in Nat /\ BITS >= 2
  /\ MAXLEN \in Nat \ {0}
  /\ Byte \subseteq [1..BITS -> {0, 1}]

TICKS_HI_IDLE_TH == 150
TICKS_LO_ZERO_TH == 17
TICKS_SENDHI     == 10
TICKS_SENDLOZERO == 12
TICKS_SENDLOONE  == 24
TICKS_START_HI   == 180
TICKS_START_LO   == 42
TICKS_END_HI     == 24
TICKS_END_HI_TH  == 21

INACTIVE == -2       \* sendPos
SYNC     == -1       \* sendPos
NOSTART  == -1       \* recvPos
Nothing  == <<>>     \* no datagram

VARIABLES
  sendData,      \* sendData[MAXLEN] is the byte behind the array
  sendLen, sendPos, sendTick,
  recvActive,    \* what the tama's receiver sees
  oldLight, ticks, hiTime,
  val,           \* the bits of the byte being received
  recvPos, recvData, totalTicks,
  irNX,          \* ticks the tama is stopped for, in tenths
  sent           \* the datagram sent in the latest tick, <<bytes>> or Nothing

sender  == <<sendData, sendLen, sendPos, sendTick, recvActive>>
decoder == <<oldLight, ticks, hiTime, val, recvPos, recvData, totalTicks, irNX, sent>>
modem   == <<sender, decoder>>

ModemInit ==
  /\ \E behind \in Byte :
       sendData = [i \in 0..MAXLEN |-> IF i = MAXLEN THEN behind ELSE [k \in 1..BITS |-> 0]]
  /\ sendLen = 0
  /\ sendPos = INACTIVE /\ sendTick = 0 /\ recvActive = 0
  /\ oldLight = 0 /\ ticks = 0 /\ hiTime = 0
  /\ val = <<>> /\ recvPos = NOSTART /\ recvData = <<>> /\ totalTicks = 0
  /\ irNX = 0 /\ sent = Nothing

-----------------------------------------------------------------------------
(* Mutant: the tick counter is not reset. *)
IrRecv_KeepsTick(data) ==
  /\ Len(data) <= MAXLEN
  /\ sendData' = [i \in 0..MAXLEN |-> IF i < Len(data) THEN data[i + 1] ELSE sendData[i]]
  /\ sendLen' = Len(data) /\ sendPos' = SYNC
  /\ UNCHANGED <<sendTick, recvActive, decoder>>

(* A datagram with infrared data: it is played from the start, whatever was *)
(* being played; what an earlier, longer one left behind it stays.          *)
IrRecv(data) ==
  /\ Len(data) <= MAXLEN
  /\ sendData' = [i \in 0..MAXLEN |-> IF i < Len(data) THEN data[i + 1] ELSE sendData[i]]
  /\ sendLen' = Len(data) /\ sendPos' = SYNC /\ sendTick' = 0
  /\ UNCHANGED <<recvActive, decoder>>

(* The bit at sendPos; behind the data, the lowest bit of whatever is there. *)
SendBit == sendData[sendPos \div BITS][1 + (sendPos % BITS)]

(* Mutant: the sync pulse is played over and over again. *)
Sync_Repeats(t) ==
  /\ sendPos = SYNC
  /\ recvActive' = IF t < TICKS_START_HI THEN 1 ELSE 0
  /\ sendTick' = IF t = TICKS_START_HI + TICKS_START_LO THEN 0 ELSE t
  /\ UNCHANGED sendPos

Sync(t) ==
  /\ sendPos = SYNC
  /\ recvActive' = CASE t < TICKS_START_HI -> 1
                     [] t = TICKS_START_HI -> 0
                     [] t = TICKS_START_HI + TICKS_START_LO -> 1
                     [] OTHER -> recvActive
  /\ IF t = TICKS_START_HI + TICKS_START_LO THEN sendPos' = 0 /\ sendTick' = 0
                                            ELSE sendTick' = t /\ UNCHANGED sendPos

BitTime == TICKS_SENDHI + (IF SendBit = 1 THEN TICKS_SENDLOONE ELSE TICKS_SENDLOZERO)

(* Mutant: the pulse that ends the data is as long as the others. *)
HighTime_NoEnd == TICKS_SENDHI
HighTime == IF sendPos # sendLen * BITS THEN TICKS_SENDHI ELSE TICKS_END_HI

DataBit(t) ==
  /\ sendPos >= 0
  /\ IF t = BitTime
     THEN /\ sendTick' = 0
          /\ IF sendPos < sendLen * BITS
             THEN recvActive' = 1 /\ sendPos' = sendPos + 1
             ELSE recvActive' = 0 /\ sendPos' = INACTIVE
     ELSE /\ sendTick' = t
          /\ recvActive' = IF t = HighTime THEN 0 ELSE recvActive
          /\ UNCHANGED sendPos

Sender ==
  /\ \/ sendPos = INACTIVE /\ UNCHANGED <<sendPos, sendTick, recvActive>>
     \/ Sync(sendTick + 1)
     \/ DataBit(sendTick + 1)
  /\ UNCHANGED <<sendData, sendLen>>

-----------------------------------------------------------------------------
(* The light went out.  A long pulse behind some bytes ends the datagram.   *)
HighToLow ==
  /\ hiTime' = ticks
  /\ IF ticks > TICKS_END_HI_TH /\ recvPos > 0
     THEN /\ sent' = <<SubSeq(recvData, 1, recvPos)>> /\ recvPos' = NOSTART
          /\ irNX' = irNX + 11 * (totalTicks + ticks)
          /\ totalTicks' = totalTicks + ticks + ticks
     ELSE /\ sent' = Nothing /\ totalTicks' = totalTicks + ticks
          /\ UNCHANGED <<recvPos, irNX>>
  /\ UNCHANGED <<val, recvData>>

NewBit == IF ticks > TICKS_LO_ZERO_TH THEN 1 ELSE 0

StoreByte(b) ==
  /\ recvData' = [i \in 1..(recvPos + 1) |-> IF i = recvPos + 1 THEN b ELSE recvData[i]]
  /\ recvPos' = IF recvPos + 1 = MAXLEN THEN MAXLEN - 1 ELSE recvPos + 1

(* The light went on.  A pulse longer than any bit starts a datagram; else  *)
(* the dark time before it was a bit.                                       *)
LowToHigh ==
  /\ sent' = Nothing
  /\ IF hiTime > TICKS_HI_IDLE_TH
     THEN /\ val' = <<>> /\ recvPos' = 0 /\ totalTicks' = ticks /\ UNCHANGED recvData
     ELSE /\ totalTicks' = totalTicks + ticks
          /\ IF recvPos = NOSTART THEN UNCHANGED <<val, recvPos, recvData>>
             ELSE IF Len(val) + 1 = BITS
             THEN val' = <<>> /\ StoreByte(Append(val, NewBit))
             ELSE val' = Append(val, NewBit) /\ UNCHANGED <<recvPos, recvData>>
  /\ UNCHANGED <<hiTime, irNX>>

Decoder(light) ==
  /\ oldLight' = light
  /\ IF light # oldLight
     THEN /\ ticks' = 1
          /\ \/ oldLight = 1 /\ HighToLow
             \/ oldLight = 0 /\ LowToHigh
     ELSE /\ ticks' = ticks + 1 /\ sent' = Nothing
          /\ UNCHANGED <<hiTime, val, recvPos, recvData, totalTicks, irNX>>

IrTick(light) == Sender /\ Decoder(light)
=============================================================================

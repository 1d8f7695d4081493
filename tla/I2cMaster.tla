------------------------------ MODULE I2cMaster ------------------------------
(***************************************************************************)
(* A program that uses the EEPROM over port B by the rules of the bus: it  *)
(* writes and reads bytes in random-access transactions.  (The tama's      *)
(* program is in the ROM, not in the repository's source.)  The emulator   *)
(* may be started again at any moment, which leaves only the file the      *)
(* EEPROM's memory is mapped to.                                           *)
(***************************************************************************)
EXTENDS I2cEeprom

CONSTANTS
  Blank,           \* the contents of a new file
  Transactions,    \* what the program does
  TRANSACTIONS     \* bound: transactions, complete or not

(* data are the bytes written, or as many as are to be read. *)
ASSUME MasterAssumption ==
  /\ Blank \in [Cells -> Bytes]
  /\ Transactions \subseteq
       [dev : 0..(Base \div 2 - 1), kind : {"write", "read"}, at : Cells, data : Seq(Bytes)]
  /\ TRANSACTIONS \in Nat

VARIABLES
  bus,         \* the bus and the EEPROM
  tr,          \* the transaction being carried out
  frame, bit,  \* the frame of it that comes next or goes on, the bits of it done
  shift,       \* the bits of it that were read
  got,         \* the bytes read in this transaction
  believed,    \* the memory as it was acknowledged
  pending,     \* the cell and byte of an abandoned write that the next clock stores
  count        \* transactions begun

program == <<tr, frame, bit, shift, got>>
mvars   == <<bus, program, believed, pending, count>>

(* A transaction is made of frames: conditions of the bus and bytes.        *)
Condition(kind) == [kind |-> kind, byte |-> 0]
Send(x) == [kind |-> "send", byte |-> x]
Read    == [kind |-> "read", byte |-> 0]

Address(t) ==
  <<Condition("start"), Send(2 * t.dev), Send(t.at \div Base), Send(t.at % Base)>>
Body(t) ==
  IF t.kind = "write" THEN [i \in 1..Len(t.data) |-> Send(t.data[i])]
  ELSE <<Condition("start"), Send(2 * t.dev + 1)>> \o [i \in 1..Len(t.data) |-> Read]
Frames(t) == Address(t) \o Body(t) \o <<Condition("stop")>>

BitOf(x, i) == (x \div Two[WIDTH - i]) % 2        \* the highest is bit 1

(* A clock pulse with this level on the data line; the lines up to the      *)
(* moment at which the other side is listened to.                           *)
Pulse(b, sda) == Handle(Handle(b, 0, sda), 1, sda)

NoTransaction == [dev |-> 0, kind |-> "none", at |-> 0, data |-> <<>>]

AtRest == tr = NoTransaction /\ frame = 1 /\ bit = 0 /\ shift = 0 /\ got = <<>>
Rest   == tr' = NoTransaction /\ frame' = 1 /\ bit' = 0 /\ shift' = 0 /\ got' = <<>>

MInit ==
  /\ \E p \in Cells : bus = Opened(Blank, p)
  /\ AtRest
  /\ believed = Blank /\ count = 0 /\ pending = {}

Busy    == tr # NoTransaction
Talking == Busy /\ frame <= Len(Frames(tr))
Frame   == Frames(tr)[frame]

Begin(t) ==
  /\ ~Busy /\ count < TRANSACTIONS
  /\ tr' = t /\ count' = count + 1
  /\ UNCHANGED <<bus, frame, bit, shift, got, believed, pending>>

WrapAt(a, i) == (a - (a % PAGE)) + (((a % PAGE) + i) % PAGE)

(* The cell a byte of data goes to, and the byte: the next place in the     *)
(* page.                                                                    *)
Writing ==
  IF frame > 4 /\ tr.kind = "write" /\ Frame.kind = "send"
  THEN {<<WrapAt(tr.at, frame - 5), Frame.byte>>} ELSE {}

Store(m, stores) == [c \in Cells |-> IF \E x \in stores : x[1] = c
                                     THEN (CHOOSE x \in stores : x[1] = c)[2] ELSE m[c]]

(* A start or a stop.  An abandoned byte whose bits were all sent is stored *)
(* by the clock of the start condition.                                     *)
SetCondition ==
  /\ Talking
  /\ \/ Frame.kind = "start" /\ bus' = Handle(Pulse(bus, 1), 1, 0)
     \/ Frame.kind = "stop"  /\ bus' = Handle(Pulse(bus, 0), 1, 1)
  /\ believed' = Store(believed, pending) /\ pending' = {}
  /\ frame' = frame + 1
  /\ UNCHANGED <<tr, bit, shift, got, count>>

(* A bit of a byte. *)
Bit ==
  /\ Talking /\ bit < WIDTH
  /\ \/ Frame.kind = "send" /\ bus' = Pulse(bus, BitOf(Frame.byte, bit + 1)) /\ UNCHANGED shift
     \/ Frame.kind = "read" /\ bus' = Pulse(bus, 1) /\ shift' = 2 * shift + PortBit(bus')
  /\ bit' = bit + 1
  /\ UNCHANGED <<tr, frame, got, believed, pending, count>>

(* The acknowledgement of a byte: by the EEPROM, which has then stored it,  *)
(* or by the program, which wants no more bytes before the stop.            *)
Acknowledge ==
  /\ Talking /\ bit = WIDTH
  /\ \/ /\ Frame.kind = "send" /\ bus' = Pulse(bus, 1) /\ UNCHANGED got
        /\ believed' = Store(believed, IF PortBit(bus') = 0 THEN Writing ELSE {})
     \/ /\ Frame.kind = "read" /\ got' = Append(got, shift) /\ UNCHANGED believed
        /\ bus' = Pulse(bus, IF frame + 1 = Len(Frames(tr)) THEN 1 ELSE 0)
  /\ frame' = frame + 1 /\ bit' = 0 /\ shift' = 0
  /\ UNCHANGED <<tr, pending, count>>

Done ==
  /\ Busy /\ ~Talking
  /\ Rest
  /\ UNCHANGED <<bus, believed, pending, count>>

(* The program breaks off: the bus is left in the middle of things. *)
Abandon ==
  /\ Talking
  /\ pending' = pending \cup (IF bit = WIDTH /\ tr.dev = DEV THEN Writing ELSE {})
  /\ Rest
  /\ UNCHANGED <<bus, believed, count>>

(* The emulator is started again (execvp after SIGHUP): the file survives.  *)
Restart ==
  /\ \E p \in Cells : bus' = Opened(bus.mem, p)
  /\ Rest /\ pending' = {}
  /\ UNCHANGED <<believed, count>>

MNext ==
  \/ SetCondition \/ Bit \/ Acknowledge \/ Done \/ Abandon \/ Restart
  \/ \E t \in Transactions : Begin(t)

MSpec == MInit /\ [][MNext]_mvars

-----------------------------------------------------------------------------
MTypeOK == bus \in Buses

(* The memory holds what was acknowledged and nothing else: also after the  *)
(* end of a page was passed, after transactions broken off anywhere, after  *)
(* restarts and after talking to devices that are not there.                *)
StoredIffAcknowledged == bus.mem = believed

(* A read delivers the bytes from the address it asked for on, across page  *)
(* borders and round the end of the memory, and as many as it asked for; a  *)
(* device that is not there reads as ones.                                  *)
ReadsAreRight ==
  Busy /\ tr.kind = "read" =>
    /\ \A i \in 1..Len(got) :
         got[i] = IF tr.dev = DEV THEN believed[(tr.at + i - 1) % SIZE] ELSE Base - 1
    /\ ~Talking => Len(got) = Len(tr.data)
==============================================================================

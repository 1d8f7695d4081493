------------------------------ MODULE I2cEeprom ------------------------------
(***************************************************************************)
(* The emulated I2C bus (emu/i2c.c) with the EEPROM on it                  *)
(* (emu/i2ceeprom.c), as the CPU sees them behind port B (emu/tamaemu.c).  *)
(* The bus is called with the levels of the two lines whenever the CPU     *)
(* writes the port; it finds out from their changes what is going on.      *)
(***************************************************************************)
EXTENDS Integers, Sequences

CONSTANTS
  WIDTH,        \* bits of a byte: 8
  PAGE,        \* bytes of an EEPROM page: 32
  DEV          \* address of the EEPROM on the bus: 0xA0/2

(* The powers of two, as far as they are needed. *)
Two[n \in 0..WIDTH] == IF n = 0 THEN 1 ELSE 2 * Two[n - 1]

Base  == Two[WIDTH]
SIZE  == Base * Base                \* cells of the memory
Bytes == 0..(Base - 1)
Cells == 0..(SIZE - 1)              \* their addresses

ASSUME BusAssumption ==
  /\ WIDTH \in Nat \ {0}
  /\ PAGE \in Nat \ {0} /\ SIZE % PAGE = 0
  /\ DEV \in Nat

IDLE  == -1                         \* I2C_IDLE; 0 to WIDTH - 1 are I2C_B0 and on
ACK   == WIDTH                       \* I2C_ACK

Line == {0, 1}

(* The bus together with the EEPROM: I2cBus and I2cEeprom. *)
Buses == [oldScl : Line, oldSda : Line, oldOut : Line, state : -1..WIDTH,
          byte : Bytes, byteCnt : 0..3, dirOut : BOOLEAN, adr : Bytes,
          mem : [Cells -> Bytes], ptr : Cells]

(* i2cInit() and i2ceepromInit() with the contents of the file: the bus is  *)
(* zeroed, the EEPROM's address is whatever malloc() left there.            *)
Opened(contents, p) ==
  [oldScl |-> 0, oldSda |-> 0, oldOut |-> 0, state |-> IDLE, byte |-> 0,
   byteCnt |-> 0, dirOut |-> FALSE, adr |-> 0, mem |-> contents, ptr |-> p]

(* byteCnt is compared with 0, 1 and 2 only: it is counted up to 3. *)
Counted(b) == IF b.byteCnt = 3 THEN 3 ELSE b.byteCnt + 1

(* Mutant: no rollover within the page. *)
NextInPage_Linear(p) == (p + 1) % SIZE
NextInPage(p) == (p - (p % PAGE)) + ((p + 1) % PAGE)

(* i2ceepromWrite() for the byte just received: two address bytes, then     *)
(* data.                                                                    *)
EepromWrite(b) ==
  CASE b.byteCnt = 1 -> [b EXCEPT !.ptr = b.byte * Base]
    [] b.byteCnt = 2 -> [b EXCEPT !.ptr = b.ptr - (b.ptr % Base) + b.byte]
    [] b.byteCnt > 2 -> [b EXCEPT !.mem[b.ptr] = b.byte, !.ptr = NextInPage(b.ptr)]

(* Mutant: the address does not advance. *)
EepromRead_Stays(b) == [b EXCEPT !.byte = b.mem[b.ptr]]

(* i2ceepromRead(): fetches the byte to be clocked out. *)
EepromRead(b) == [b EXCEPT !.byte = b.mem[b.ptr], !.ptr = (b.ptr + 1) % SIZE]

Selected(b) == b.adr \div 2 = DEV

-----------------------------------------------------------------------------
(* A rising clock while the bus sends: at the first bit of a byte the       *)
(* device is asked for it.                                                  *)
ClockOut(b) ==
  IF b.state = ACK
  THEN [b EXCEPT !.byteCnt = Counted(b), !.state = 0, !.oldOut = 1]
  ELSE LET f == IF b.state # 0 THEN b
                ELSE IF Selected(b) THEN EepromRead(b)
                ELSE [b EXCEPT !.byte = Base - 1]
       IN  [f EXCEPT !.oldOut = f.byte \div (Base \div 2),
                     !.byte = (2 * f.byte) % Base, !.state = f.state + 1]

(* A rising clock while the bus receives: a bit, or the acknowledgement of  *)
(* a complete byte, the first of which is the address.                      *)
ClockIn(b, sda) ==
  IF b.state # ACK
  THEN [b EXCEPT !.byte = (2 * b.byte + sda) % Base, !.state = b.state + 1, !.oldOut = 1]
  ELSE LET d == IF b.byteCnt = 0
                THEN [b EXCEPT !.adr = b.byte, !.dirOut = (b.byte % 2 = 1)]
                ELSE IF Selected(b) THEN EepromWrite(b) ELSE b
       IN  [d EXCEPT !.oldOut = IF Selected(d) THEN 0 ELSE 1,
                     !.byteCnt = Counted(b), !.state = 0]

StopSeen(b, scl, sda)  == b.oldScl = 1 /\ scl = 1 /\ b.oldSda = 0 /\ sda = 1
StartSeen(b, scl, sda) == b.oldScl = 1 /\ scl = 1 /\ b.oldSda = 1 /\ sda = 0
ClockUp(b, scl, sda)   == b.oldScl = 0 /\ scl = 1 /\ b.oldSda = sda /\ b.state # IDLE

Started(b) ==
  [b EXCEPT !.state = 0, !.byteCnt = 0, !.dirOut = FALSE, !.oldOut = 1]

(* i2cHandle(): the lines now have these levels.  oldOut is what it returns. *)
Handle(b, scl, sda) ==
  LET h == CASE StopSeen(b, scl, sda)  -> [b EXCEPT !.state = IDLE, !.oldOut = 1]
             [] StartSeen(b, scl, sda) -> Started(b)
             [] ClockUp(b, scl, sda)   -> IF b.dirOut THEN ClockOut(b) ELSE ClockIn(b, sda)
             [] OTHER                  -> b
  IN  [h EXCEPT !.oldScl = scl, !.oldSda = sda]

(* What bit 0 of the port reads after a write to it: low when either side   *)
(* pulls the line low.                                                      *)
PortBit(b) == IF b.oldOut = 1 /\ b.oldSda = 1 THEN 1 ELSE 0
==============================================================================

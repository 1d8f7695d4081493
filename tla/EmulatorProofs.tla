--------------------------- MODULE EmulatorProofs ---------------------------
(***************************************************************************)
(* Proofs about the emulated devices, which share no state.  First the     *)
(* hardware, for any buttons, timers, values the program writes and times: *)
(* the clock that stops and is woken, and the lines of port A that are     *)
(* inverted while a button is held.  Then the infrared modem in front of a *)
(* mirror, for bytes of any width, datagrams of any length and any         *)
(* arrivals.  Last the EEPROM on the I2C bus, for bytes and pages of any   *)
(* size and any transactions, abandoned and restarted anywhere.            *)
(***************************************************************************)
EXTENDS TamaHw, IrLoop, I2cMaster, TLAPS, SequenceTheorems, WellFoundedInduction

(* Only the value OFF stops the CPU. *)
LEMMA Divider ==
  /\ \A c \in 0..7 : ccdiv[c] = 0 <=> c = OFF
  /\ \A c \in 0..7 : ccdiv[c] \in {ccdiv[k] : k \in 0..7}
  /\ WAKEUP \in 0..7 /\ OFF \in 0..7 /\ WAKEUP # OFF
  BY DEF ccdiv, OFF, WAKEUP

(* A CPU that stands still was stopped by the register that is checked when *)
(* something could wake it.  (The other way round does not hold: the value  *)
(* stays in the register when there is already something to wake up for.)   *)
StoppedByOff == cpuDiv = 0 => clkctl = OFF

(* The program, which alone flashes the LED, does not run while the tama    *)
(* makes up for the time a datagram took.                                   *)
FrozenIsDark == irnx # 0 => ~lit /\ ~running

(* The safety half of ButtonsAreReleased: the line of a button is low       *)
(* exactly while it is the one that is held.                                *)
OnlyHeldIsLow == \A b \in Buttons : b \notin portA <=> btnReleaseTm # 0 /\ btnPressed = b

HeldIsAButton == btnReleaseTm # 0 => btnPressed \in Buttons

HwInv == TypeOK /\ StoppedByOff /\ FrozenIsDark /\ OnlyHeldIsLow /\ HeldIsAButton

LEMMA HwInit == Init => HwInv
<1> SUFFICES ASSUME Init PROVE HwInv
  OBVIOUS
<1>1. clkctl \in 0..7 /\ cpuDiv \in {ccdiv[c] : c \in 0..7} /\ StoppedByOff
  BY Divider DEF Init, StoppedByOff
<1>2. portA \subseteq Lines /\ lastRead \subseteq Lines
  BY DEF Init, Lines
<1>3. btnPressed \in Buttons \cup {NoButton} /\ btnReleaseTm \in 0..RELEASETIME
      /\ irnx \in 0..FREEZE
  BY HwAssumption DEF Init
<1>4. ien \in (SUBSET IntLo) \X (SUBSET IntMi)
  BY DEF Init
<1>5. TypeOK
  BY <1>1, <1>2, <1>3, <1>4 DEF Init, TypeOK
<1>6. FrozenIsDark /\ OnlyHeldIsLow /\ HeldIsAButton
  BY DEF Init, FrozenIsDark, OnlyHeldIsLow, HeldIsAButton
<1> QED BY <1>1, <1>5, <1>6 DEF HwInv
-----------------------------------------------------------------------------
(* What the parts of a tick do. *)

LEMMA WakeSrcStep ==
  ASSUME HwInv, NEW srcs \in SUBSET WakeSrcs, WakeSrc(srcs)
  PROVE  /\ clkctl' \in 0..7 /\ cpuDiv' \in {ccdiv[c] : c \in 0..7}
         /\ wakefl' \subseteq WakeSrcs
         /\ StoppedByOff'
         /\ wakeen' = wakeen /\ (Asleep /\ Pending)' => Asleep /\ Pending
<1>1. clkctl' \in 0..7 /\ cpuDiv' \in {ccdiv[c] : c \in 0..7} /\ wakefl' \subseteq WakeSrcs
  BY Divider DEF WakeSrc, clock, HwInv, TypeOK
<1>2. CASE clkctl = OFF /\ wakeen \cap srcs # {}
  BY <1>1, <1>2, Divider DEF WakeSrc, StoppedByOff, Asleep
<1>3. CASE ~(clkctl = OFF /\ wakeen \cap srcs # {})
  <2>1. UNCHANGED <<clkctl, cpuDiv>> /\ wakefl' = wakefl \cup srcs
    BY <1>3 DEF WakeSrc, clock
  <2>2. cpuDiv = 0 => wakeen \cap srcs = {}
    BY <1>3 DEF HwInv, StoppedByOff
  <2> QED BY <1>1, <2>1, <2>2 DEF HwInv, StoppedByOff, Asleep, Pending
<1> QED BY <1>1, <1>2, <1>3

LEMMA TakeType ==
  ASSUME NEW asked \in SUBSET (IntLo \cup IntMi), Take(asked), masked \in BOOLEAN
  PROVE  masked' \in BOOLEAN /\ taken' \in IntLo \cup IntMi \cup {NoInt}
  BY DEF Take

LEMMA InterruptsType ==
  ASSUME HwInv, NEW due \in SUBSET Timers, Interrupts(due)
  PROVE  /\ iflags' \subseteq IntLo \cup IntMi
         /\ ien' \in (SUBSET IntLo) \X (SUBSET IntMi)
         /\ masked' \in BOOLEAN
         /\ nmictl' \subseteq {"NMIEN", "T1"} /\ nmiflags' \subseteq {"T1"}
         /\ taken' \in IntLo \cup IntMi \cup {NoInt}
<1>1. due \subseteq IntLo \cup IntMi
  BY HwAssumption
<1>2. (iflags \cup due) \cap Enabled \in SUBSET (IntLo \cup IntMi)
  BY <1>1 DEF HwInv, TypeOK
<1>3. masked' \in BOOLEAN /\ taken' \in IntLo \cup IntMi \cup {NoInt}
  BY <1>2, TakeType DEF Interrupts, HwInv, TypeOK
<1> QED BY <1>1, <1>3 DEF Interrupts, HwInv, TypeOK

LEMMA EmulateStep ==
  ASSUME HwInv, ~running, irnx = 0, NEW due \in SUBSET Timers,
         NEW lines \in SUBSET Lines, \A b \in Buttons : b \in lines <=> b \in portA,
         Emulate(lines, due)
  PROVE  HwInv' /\ ((Asleep /\ Pending)' => Asleep /\ Pending)
<1> DEFINE seen == IF Released THEN Toggled(lines, btnPressed) ELSE lines
           srcs == (due \cap WakeTimers) \cup (IF Released \/ lastRead # seen THEN {"BTN"} ELSE {})
<1>1. /\ portA' = seen /\ btnReleaseTm' = Left /\ WakeSrc(srcs) /\ Interrupts(due)
      /\ running' \in {FALSE, cpuDiv # 0}
      /\ irnx' = 0 /\ UNCHANGED <<lit, btnPressed, lastRead, wakeen>>
  BY DEF Emulate
<1>2. srcs \in SUBSET WakeSrcs
  BY DEF WakeSrcs
<1>3. /\ clkctl' \in 0..7 /\ cpuDiv' \in {ccdiv[c] : c \in 0..7} /\ wakefl' \subseteq WakeSrcs
      /\ StoppedByOff' /\ ((Asleep /\ Pending)' => Asleep /\ Pending)
  BY <1>1, <1>2, WakeSrcStep
<1>4. RELEASETIME \in Nat /\ btnReleaseTm \in 0..RELEASETIME /\ btnPressed \in Buttons \cup {NoButton}
  BY HwAssumption DEF HwInv, TypeOK
<1>5. /\ Left \in 0..RELEASETIME
      /\ btnReleaseTm = 0 => Left = 0
      /\ btnReleaseTm # 0 => (Left = 0 <=> Released)
      /\ btnReleaseTm = 0 => ~Released
  BY <1>4 DEF Left, Released
<1>6. Released => (btnPressed \in Buttons => seen \subseteq Lines)
  BY DEF Toggled, Lines
<1>7. \A b \in Buttons : b \notin lines <=> btnReleaseTm # 0 /\ btnPressed = b
  BY DEF HwInv, OnlyHeldIsLow
<1>8. OnlyHeldIsLow'
  <2>1. CASE Released
    <3>1. Left = 0 /\ btnReleaseTm # 0
      BY <1>4, <2>1 DEF Left, Released
    <3>2. \A b \in Buttons : b \in seen
      BY <1>7, <2>1, <3>1 DEF Toggled
    <3> QED BY <1>1, <3>1, <3>2 DEF OnlyHeldIsLow
  <2>2. CASE ~Released
    <3>1. Left = 0 <=> btnReleaseTm = 0
      BY <1>5, <2>2
    <3> QED BY <1>1, <1>7, <2>2, <3>1 DEF OnlyHeldIsLow
  <2> QED BY <2>1, <2>2
<1>9. seen \subseteq Lines /\ HeldIsAButton'
  <2>1. Released => btnPressed \in Buttons
    BY <1>5 DEF HwInv, HeldIsAButton
  <2> QED BY <1>1, <1>5, <1>6, <2>1 DEF HwInv, HeldIsAButton
<1> QED BY <1>1, <1>3, <1>5, <1>8, <1>9, InterruptsType DEF HwInv, TypeOK, FrozenIsDark
-----------------------------------------------------------------------------
(* The steps. *)

HwKept == HwInv' /\ ((Asleep /\ Pending)' => (Asleep /\ Pending) \/ wakeen' # wakeen)

LEMMA PressStep ==
  ASSUME HwInv, NEW b \in Buttons, PressBtn(b)
  PROVE  HwKept
<1>1. {"BTN"} \in SUBSET WakeSrcs
  BY DEF WakeSrcs
<1>2. /\ ~running /\ btnReleaseTm = 0
      /\ portA' = Toggled(portA, b) /\ WakeSrc({"BTN"})
      /\ btnPressed' = b /\ btnReleaseTm' = RELEASETIME
      /\ UNCHANGED <<wakeen, lastRead, ir, irq, running>>
  BY DEF PressBtn
<1>3. /\ clkctl' \in 0..7 /\ cpuDiv' \in {ccdiv[c] : c \in 0..7} /\ wakefl' \subseteq WakeSrcs
      /\ StoppedByOff' /\ ((Asleep /\ Pending)' => Asleep /\ Pending)
  BY <1>1, <1>2, WakeSrcStep
<1>4. RELEASETIME \in Nat /\ RELEASETIME # 0
  BY HwAssumption
<1>5. portA' = portA \ {b} /\ \A c \in Buttons : c \in portA
  BY <1>2 DEF HwInv, OnlyHeldIsLow, Toggled
<1>6. OnlyHeldIsLow' /\ HeldIsAButton'
  BY <1>2, <1>4, <1>5 DEF OnlyHeldIsLow, HeldIsAButton
<1>7. FrozenIsDark'
  BY <1>2 DEF HwInv, FrozenIsDark, ir
<1>8. portA' \subseteq Lines /\ btnPressed' \in Buttons \cup {NoButton} /\ btnReleaseTm' \in 0..RELEASETIME
  BY <1>2, <1>4, <1>5 DEF HwInv, TypeOK
<1>9. TypeOK'
  BY <1>2, <1>3, <1>8 DEF HwInv, TypeOK, ir, irq
<1> QED BY <1>3, <1>6, <1>7, <1>9 DEF HwInv, HwKept

LEMMA FrozenStep ==
  ASSUME HwInv, ~running, NEW lines \in SUBSET Lines,
         \A b \in Buttons : b \in lines <=> b \in portA,
         NEW nx \in {irnx} \cup (IF lit THEN {irnx + FREEZE} ELSE {}), nx # 0,
         Frozen(lines, nx), lit' = (lit /\ nx = irnx)
  PROVE  HwKept
<1>1. /\ portA' = lines /\ irnx' = nx - 1
      /\ UNCHANGED <<clkctl, cpuDiv, wakefl, wakeen, lastRead, btnPressed, btnReleaseTm, running>>
      /\ UNCHANGED irq
  BY DEF Frozen, clock, wake, button
<1>2. irnx \in 0..FREEZE /\ FREEZE \in Nat /\ lit \in BOOLEAN /\ (irnx # 0 => ~lit)
  BY HwAssumption DEF HwInv, TypeOK, FrozenIsDark
<1>3. nx = irnx \/ (lit /\ nx = irnx + FREEZE)
  OBVIOUS
<1>4. irnx' \in 0..FREEZE
  <2>1. CASE nx = irnx
    BY <1>1, <1>2, <2>1
  <2>2. CASE lit /\ nx = irnx + FREEZE
    <3>1. irnx = 0
      BY <1>2, <2>2
    <3> QED BY <1>1, <1>2, <2>2, <3>1
  <2> QED BY <1>3, <2>1, <2>2
<1>5. ~lit'
  <2>1. CASE nx = irnx
    BY <1>2, <2>1
  <2>2. CASE nx # irnx
    BY <2>2
  <2> QED BY <2>1, <2>2
<1>6. lit' \in BOOLEAN
  BY <1>5
<1>7. TypeOK'
  BY <1>1, <1>4, <1>6 DEF HwInv, TypeOK, irq
<1>8. StoppedByOff' /\ FrozenIsDark' /\ OnlyHeldIsLow' /\ HeldIsAButton'
  BY <1>1, <1>5 DEF HwInv, StoppedByOff, FrozenIsDark, OnlyHeldIsLow, HeldIsAButton
<1>9. (Asleep /\ Pending)' => (Asleep /\ Pending)
  BY <1>1 DEF Asleep, Pending
<1> QED BY <1>7, <1>8, <1>9 DEF HwInv, HwKept

LEMMA TickStep ==
  ASSUME HwInv, HwTick
  PROVE  HwKept
<1>1. PICK light \in BOOLEAN, nx \in {irnx} \cup (IF lit THEN {irnx + FREEZE} ELSE {}) :
        LET lines == IF light THEN portA \ {"IR"} ELSE portA \cup {"IR"}
        IN  IF nx # 0
            THEN Frozen(lines, nx) /\ lit' = (lit /\ nx = irnx)
            ELSE \E due \in SUBSET Timers : Emulate(lines, due)
  BY DEF HwTick
<1> DEFINE lines == IF light THEN portA \ {"IR"} ELSE portA \cup {"IR"}
<1>2. ~running /\ lines \in SUBSET Lines /\ \A b \in Buttons : b \in lines <=> b \in portA
  BY HwAssumption DEF HwTick, HwInv, TypeOK, Lines
<1>3. CASE nx # 0
  <2>1. Frozen(lines, nx) /\ lit' = (lit /\ nx = irnx)
    BY <1>1, <1>3
  <2> HIDE DEF lines
  <2> QED BY <1>2, <1>3, <2>1, FrozenStep
<1>4. CASE nx = 0
  <2>1. PICK due \in SUBSET Timers : Emulate(lines, due)
    BY <1>1, <1>4
  <2> HIDE DEF lines
  <2>2. irnx = 0
    <3>1. irnx \in Nat /\ FREEZE \in Nat
      BY HwAssumption DEF HwInv, TypeOK
    <3>2. nx = irnx \/ nx = irnx + FREEZE
      OBVIOUS
    <3> QED BY <1>4, <3>1, <3>2
  <2>3. HwInv' /\ ((Asleep /\ Pending)' => Asleep /\ Pending)
    BY <1>2, <2>1, <2>2, EmulateStep
  <2> QED BY <2>3 DEF HwKept
<1> QED BY <1>3, <1>4

(* What the program leaves alone of what the invariant is about. *)
LEMMA ProgramKeeps ==
  ASSUME HwInv, running, TypeOK',
         UNCHANGED <<portA, btnPressed, btnReleaseTm, irnx, running>>
  PROVE  FrozenIsDark' /\ OnlyHeldIsLow' /\ HeldIsAButton'
  BY DEF HwInv, FrozenIsDark, OnlyHeldIsLow, HeldIsAButton

LEMMA ClockWritten ==
  ASSUME HwInv, (\E c \in ClkValues : WriteClkCtl(c)) \/ WriteTimCtl
  PROVE  HwKept
<1>1. /\ running /\ UNCHANGED <<wakefl, wakeen, portA, lastRead, lit, irq, btnPressed,
                                btnReleaseTm, irnx, running>>
  BY DEF WriteClkCtl, WriteTimCtl, KeepAllBut, wake, port
<1>2. clkctl \in 0..7 /\ ClkValues \subseteq 0..7
  BY HwAssumption DEF HwInv, TypeOK
<1>3. clkctl' \in 0..7 /\ cpuDiv' \in {ccdiv[c] : c \in 0..7}
      /\ (cpuDiv' = 0 => clkctl' = OFF /\ ~Pending)
  <2>1. CASE \E c \in ClkValues : WriteClkCtl(c)
    BY <1>2, <2>1, Divider DEF WriteClkCtl
  <2>2. CASE WriteTimCtl
    BY <1>2, <2>2, Divider DEF WriteTimCtl
  <2> QED BY <2>1, <2>2
<1>4. TypeOK'
  BY <1>1, <1>3 DEF HwInv, TypeOK, irq
<1>5. (Asleep /\ Pending)' => (Asleep /\ Pending)
  BY <1>1, <1>3 DEF Asleep, Pending
<1> QED BY <1>1, <1>3, <1>4, <1>5, ProgramKeeps DEF HwInv, HwKept, StoppedByOff

LEMMA ProgramStep ==
  ASSUME HwInv, Program
  PROVE  HwKept
<1>1. CASE (\E c \in ClkValues : WriteClkCtl(c)) \/ WriteTimCtl
  BY <1>1, ClockWritten
<1>2. CASE \E s \in WakeEnValues : WriteWakeEn(s)
  <2>1. /\ running /\ wakeen' \subseteq WakeSrcs
        /\ UNCHANGED <<clkctl, cpuDiv, wakefl, portA, lastRead, lit, irq, btnPressed,
                       btnReleaseTm, irnx, running>>
    BY <1>2, HwAssumption DEF WriteWakeEn, KeepAllBut, clock, port
  <2>2. TypeOK'
    BY <2>1 DEF HwInv, TypeOK, irq
  <2>3. (Asleep /\ Pending)' => (Asleep /\ Pending) \/ wakeen' # wakeen
    BY <2>1 DEF Asleep, Pending
  <2> QED BY <2>1, <2>2, <2>3, ProgramKeeps DEF HwInv, HwKept, StoppedByOff
<1>3. CASE \E s \in SUBSET wakefl : WriteWakeFl(s)
  <2>1. /\ running /\ wakefl' \subseteq wakefl
        /\ UNCHANGED <<clkctl, cpuDiv, wakeen, portA, lastRead, lit, irq, btnPressed,
                       btnReleaseTm, irnx, running>>
    BY <1>3 DEF WriteWakeFl, KeepAllBut, clock, port
  <2>2. TypeOK'
    BY <2>1 DEF HwInv, TypeOK, irq
  <2>3. (Asleep /\ Pending)' => (Asleep /\ Pending)
    BY <2>1 DEF Asleep, Pending
  <2> QED BY <2>1, <2>2, <2>3, ProgramKeeps DEF HwInv, HwKept, StoppedByOff
<1>4. CASE ReadPortA \/ Flash
  <2>1. /\ running /\ lastRead' \in {lastRead, portA} /\ lit' \in {lit, TRUE}
        /\ UNCHANGED <<clkctl, cpuDiv, wakefl, wakeen, portA, irq, btnPressed,
                       btnReleaseTm, irnx, running>>
    BY <1>4 DEF ReadPortA, Flash, KeepAllBut, clock, wake, port
  <2>2. TypeOK'
    BY <2>1 DEF HwInv, TypeOK, irq
  <2>3. (Asleep /\ Pending)' => (Asleep /\ Pending)
    BY <2>1 DEF Asleep, Pending
  <2> QED BY <2>1, <2>2, <2>3, ProgramKeeps DEF HwInv, HwKept, StoppedByOff
<1>5. CASE \/ \E lo \in LoValues, mi \in MiValues : WriteIntCtl(lo, mi)
           \/ \E i \in iflags : ClearInt({i})
           \/ \E s \in {{}, {"NMIEN", "T1"}} : WriteNmiCtl(s)
           \/ \E m \in BOOLEAN : SetMask(m)
  <2>1. /\ running
        /\ UNCHANGED <<clkctl, cpuDiv, wakefl, wakeen, portA, lastRead, lit, btnPressed,
                       btnReleaseTm, irnx, running, taken>>
    BY <1>5 DEF WriteIntCtl, ClearInt, WriteNmiCtl, SetMask, KeepAllBut, clock, wake, port
  <2>2. iflags' \subseteq IntLo \cup IntMi
    BY <1>5 DEF HwInv, TypeOK, WriteIntCtl, ClearInt, WriteNmiCtl, SetMask, KeepAllBut
  <2>3. ien' \in (SUBSET IntLo) \X (SUBSET IntMi)
    BY <1>5, HwAssumption DEF HwInv, TypeOK, WriteIntCtl, ClearInt, WriteNmiCtl, SetMask, KeepAllBut
  <2>4. masked' \in BOOLEAN
    BY <1>5 DEF HwInv, TypeOK, WriteIntCtl, ClearInt, WriteNmiCtl, SetMask, KeepAllBut
  <2>5. nmictl' \subseteq {"NMIEN", "T1"} /\ nmiflags' \subseteq {"T1"}
    BY <1>5 DEF HwInv, TypeOK, WriteIntCtl, ClearInt, WriteNmiCtl, SetMask, KeepAllBut
  <2>6. TypeOK'
    BY <2>1, <2>2, <2>3, <2>4, <2>5 DEF HwInv, TypeOK
  <2>7. (Asleep /\ Pending)' => (Asleep /\ Pending)
    BY <2>1 DEF Asleep, Pending
  <2> QED BY <2>1, <2>6, <2>7, ProgramKeeps DEF HwInv, HwKept, StoppedByOff
<1> QED BY <1>1, <1>2, <1>3, <1>4, <1>5 DEF Program

LEMMA HwStep == HwInv /\ [Next]_vars => HwKept
<1> SUFFICES ASSUME HwInv, [Next]_vars PROVE HwKept
  OBVIOUS
<1>1. CASE EndBatch \/ UNCHANGED vars
  <2>1. /\ UNCHANGED <<clkctl, cpuDiv, wakefl, wakeen, portA, lastRead, btnPressed,
                       btnReleaseTm, irnx, lit, irq>>
        /\ running' \in {FALSE, running}
    BY <1>1 DEF EndBatch, vars, clock, wake, port, button, ir
  <2>2. TypeOK'
    BY <2>1 DEF HwInv, TypeOK, irq
  <2>3. (Asleep /\ Pending)' => (Asleep /\ Pending)
    BY <2>1 DEF Asleep, Pending
  <2>4. FrozenIsDark'
    BY <2>1 DEF HwInv, FrozenIsDark
  <2>5. StoppedByOff' /\ OnlyHeldIsLow' /\ HeldIsAButton'
    BY <2>1 DEF HwInv, StoppedByOff, OnlyHeldIsLow, HeldIsAButton
  <2> QED BY <2>2, <2>3, <2>4, <2>5 DEF HwInv, HwKept
<1> QED BY <1>1, TickStep, ProgramStep, PressStep DEF Next

(* The inductive invariant holds for ever. *)
THEOREM HwInvAlways == Spec => []HwInv
<1>1. HwInv /\ [Next]_vars => HwInv'
  BY HwStep DEF HwKept
<1> QED BY <1>1, HwInit, PTL DEF Spec

(* Types, among them that the time the tama stands still never adds up: the *)
(* next datagram is sent after it has gone on.                              *)
THEOREM TypeCorrect == Spec => []TypeOK
<1>1. HwInv => TypeOK
  BY DEF HwInv
<1> QED BY <1>1, HwInvAlways, PTL

(* Only the held button's line is low, and only while it is held: the       *)
(* toggling of press and release never gets out of step, whatever the       *)
(* player presses meanwhile.                                                *)
THEOREM OnlyTheHeldButtonIsLow == Spec => []OnlyHeldIsLow
<1>1. HwInv => OnlyHeldIsLow
  BY DEF HwInv
<1> QED BY <1>1, HwInvAlways, PTL

(* No step but a write of the wake enables leaves the CPU asleep with       *)
(* something to wake up for, in whichever order the sources, the enables    *)
(* and the clock are written.                                               *)
THEOREM WakeupsAreNotLost == Spec => NoLostWakeup
<1>1. HwInv /\ [Next]_vars => [(Asleep /\ Pending)' => (Asleep /\ Pending) \/ wakeen' # wakeen]_vars
  BY HwStep DEF HwKept
<1> QED BY <1>1, HwInvAlways, PTL DEF Spec, NoLostWakeup

-----------------------------------------------------------------------------
(* The modem.  A byte is any sequence of BITS bits. *)
Octet == [1..BITS -> {0, 1}]

LoopType ==
  /\ sendData \in [0..MAXLEN -> Octet] /\ sendLen \in 0..MAXLEN
  /\ sendPos \in Int /\ sendTick \in Nat /\ recvActive \in {0, 1}
  /\ oldLight = recvActive /\ ticks \in Nat /\ hiTime \in Nat
  /\ val \in Seq({0, 1}) /\ Len(val) < BITS
  /\ recvPos \in {NOSTART} \cup 0..(MAXLEN - 1)
  /\ recvData \in Seq(Octet) /\ recvPos <= Len(recvData)
  /\ totalTicks \in Nat /\ irNX \in Nat
  /\ heard \in Seq(Seq(Octet)) /\ owed \in Seq(Seq(Octet))
  /\ interrupted \in BOOLEAN

(* The datagram being played, and how many of its bytes are collected.      *)
Played  == [i \in 1..sendLen |-> sendData[i - 1]]
Kept(q) == IF q < MAXLEN THEN q ELSE MAXLEN - 1

(* Nothing has been heard of the latest datagram; or all of it has.         *)
Awaited   == interrupted \/ heard \o latest = owed
Delivered ==
  /\ recvPos \in {NOSTART, 0} /\ Len(val) = 0
  /\ interrupted \/ heard = owed
  /\ latest # Nothing => heard # <<>> /\ heard[Len(heard)] = latest[1]

(* The sync pulse drives out whatever a torso has left in the decoder.      *)
InSync ==
  /\ sendPos = SYNC /\ sendTick < TICKS_START_HI + TICKS_START_LO
  /\ sendTick \in 1..(TICKS_START_HI - 1) => recvActive = 1 /\ ticks >= sendTick
  /\ sendTick >= TICKS_START_HI =>
        recvActive = 0 /\ hiTime > TICKS_HI_IDLE_TH /\ recvPos \in {NOSTART, 0}
  /\ ~interrupted => recvPos \in {NOSTART, 0} /\ (sendTick = 0 => Len(val) = 0)
  /\ Awaited

(* The decoder has r bits of byte q, and the q bytes before it.             *)
Collected(q, r) ==
  /\ Len(val) = r /\ \A i \in 1..r : val[i] = sendData[q][i]
  /\ recvPos = Kept(q) /\ \A i \in 1..Kept(q) : recvData[i] = sendData[i - 1]

At(q, r) ==
  /\ q \in 0..sendLen /\ r \in 0..(BITS - 1) /\ (q = sendLen => r = 0)
  /\ sendPos = q * BITS + r

High(q)    == IF q = sendLen THEN TICKS_END_HI ELSE TICKS_SENDHI
Time(q, r) == TICKS_SENDHI + (IF sendData[q][1 + r] = 1 THEN TICKS_SENDLOONE ELSE TICKS_SENDLOZERO)

InBit(q, r) ==
  /\ At(q, r) /\ Collected(q, r) /\ sendTick < Time(q, r) /\ Awaited
  /\ sendTick < High(q)  => recvActive = 1 /\ ticks = sendTick + 1
  /\ sendTick >= High(q) => /\ q < sendLen /\ recvActive = 0 /\ hiTime = High(q)
                            /\ ticks = sendTick - High(q) + 1

InBits == \E q, r \in Nat : InBit(q, r)

(* Behind the pulse that ends the data, and between datagrams.              *)
InTail ==
  /\ At(sendLen, 0) /\ sendTick >= TICKS_END_HI /\ sendTick < Time(sendLen, 0)
  /\ recvActive = 0 /\ Delivered
Idle == sendPos = INACTIVE /\ recvActive = 0 /\ Delivered

LoopInv == LoopType /\ latest = Audible(Played) /\ (InSync \/ InBits \/ InTail \/ Idle)

USE DEF TICKS_HI_IDLE_TH, TICKS_LO_ZERO_TH, TICKS_SENDHI, TICKS_SENDLOZERO, TICKS_SENDLOONE,
        TICKS_START_HI, TICKS_START_LO, TICKS_END_HI, TICKS_END_HI_TH,
        INACTIVE, SYNC, NOSTART, Nothing
-----------------------------------------------------------------------------
(* Numbers. *)
LEMMA Constants ==
  BITS \in Nat /\ BITS >= 2 /\ MAXLEN \in Nat /\ MAXLEN > 0 /\ Byte \subseteq Octet
BY ModemAssumption DEF Octet

LEMMA Multiples ==
  ASSUME NEW B \in Nat, NEW q \in Nat
  PROVE  q * B \in Nat /\ (q + 1) * B = q * B + B
OBVIOUS

LEMMA Division ==
  ASSUME NEW B \in Nat, B > 0, NEW q \in Nat, NEW r \in 0..(B - 1)
  PROVE  (q * B + r) \div B = q /\ (q * B + r) % B = r
<1>1. q * B \in Nat
  BY Multiples
<1> QED BY <1>1

LEMMA Ordered ==
  ASSUME NEW B \in Nat, NEW L \in Nat, NEW q \in Nat, q < L
  PROVE  q * B + B <= L * B
<1>1. PICK d \in Nat : L = (q + 1) + d
  <2>1. L - (q + 1) \in Nat /\ L = (q + 1) + (L - (q + 1))
    OBVIOUS
  <2> QED BY <2>1
<1>2. L * B = (q + 1) * B + d * B
  BY <1>1
<1>3. d * B \in Nat /\ (q + 1) * B = q * B + B /\ q * B \in Nat
  BY Multiples
<1> QED BY <1>2, <1>3

(* What the sender does at a place of the data. *)
LEMMA Place ==
  ASSUME LoopType, NEW q \in Nat, NEW r \in Nat, At(q, r)
  PROVE  /\ sendPos \in Nat /\ SendBit = sendData[q][1 + r] /\ SendBit \in {0, 1}
         /\ BitTime = Time(q, r) /\ HighTime = High(q)
         /\ sendPos < sendLen * BITS <=> q < sendLen
         /\ q < sendLen => IF r + 1 = BITS THEN sendPos + 1 = (q + 1) * BITS + 0
                                           ELSE sendPos + 1 = q * BITS + (r + 1)
<1>1. BITS \in Nat /\ BITS > 0 /\ sendLen \in Nat /\ q \in 0..sendLen /\ r \in 0..(BITS - 1)
      /\ q \in 0..MAXLEN /\ 1 + r \in 1..BITS
  BY Constants DEF At, LoopType
<1>2. q * BITS \in Nat /\ (q + 1) * BITS = q * BITS + BITS /\ sendLen * BITS \in Nat
  BY <1>1, Multiples
<1>3. sendPos \div BITS = q /\ sendPos % BITS = r
  BY <1>1, Division DEF At
<1>4. SendBit = sendData[q][1 + r] /\ SendBit \in {0, 1}
  BY <1>1, <1>3 DEF SendBit, LoopType, Octet
<1>5. q < sendLen => q * BITS + BITS <= sendLen * BITS
  BY <1>1, Ordered
<1>6. sendPos \in Nat /\ (sendPos < sendLen * BITS <=> q < sendLen)
      /\ (sendPos = sendLen * BITS <=> q = sendLen)
  BY <1>1, <1>2, <1>5 DEF At
<1>7. BitTime = Time(q, r) /\ HighTime = High(q)
  BY <1>4, <1>6 DEF BitTime, Time, HighTime, High
<1>8. q < sendLen => IF r + 1 = BITS THEN sendPos + 1 = (q + 1) * BITS + 0
                                     ELSE sendPos + 1 = q * BITS + (r + 1)
  BY <1>1, <1>2 DEF At
<1> QED BY <1>4, <1>6, <1>7, <1>8
-----------------------------------------------------------------------------
(* What is played, and what comes out. *)
LEMMA PlayedIs ==
  ASSUME sendData \in [0..MAXLEN -> Octet], sendLen \in 0..MAXLEN
  PROVE  /\ Played \in Seq(Octet) /\ Len(Played) = sendLen
         /\ Hearable(Played) \in Seq(Octet) /\ Len(Hearable(Played)) = Kept(sendLen)
         /\ \A i \in 1..Kept(sendLen) : Hearable(Played)[i] = sendData[i - 1]
         /\ Kept(sendLen) \in 0..(MAXLEN - 1)
<1>1. \A i \in 1..sendLen : i - 1 \in 0..MAXLEN
  BY Constants
<1>2. Played \in [1..sendLen -> Octet] /\ sendLen \in Nat
  BY <1>1, Constants DEF Played
<1>3. Played \in Seq(Octet) /\ Len(Played) = sendLen
  BY <1>2, IsASeq
<1>4. Kept(sendLen) \in 0..(MAXLEN - 1) /\ Kept(sendLen) <= sendLen /\ Kept(sendLen) \in Nat
  BY Constants DEF Kept
<1>5. Hearable(Played) = SubSeq(Played, 1, Kept(sendLen))
  BY <1>3 DEF Hearable, Kept
<1>6. \A i \in 1..Kept(sendLen) : Played[i] = sendData[i - 1]
  BY <1>4, Constants DEF Played
<1> HIDE DEF Played
<1>7. /\ SubSeq(Played, 1, Kept(sendLen)) \in Seq(Octet)
      /\ Len(SubSeq(Played, 1, Kept(sendLen))) = Kept(sendLen)
      /\ \A i \in 1..Kept(sendLen) : SubSeq(Played, 1, Kept(sendLen))[i] = Played[i]
  BY <1>3, <1>4, Constants
<1> QED BY <1>3, <1>4, <1>5, <1>6, <1>7

LEMMA AudibleIs ==
  ASSUME LoopType
  PROVE  /\ Kept(sendLen) = 0 => Audible(Played) = Nothing
         /\ Kept(sendLen) # 0 => Audible(Played) = <<Hearable(Played)>>
         /\ Audible(Played) \in Seq(Seq(Octet))
         /\ Audible(Played) # Nothing => Audible(Played) = <<Hearable(Played)>>
<1>1. Hearable(Played) \in Seq(Octet) /\ Len(Hearable(Played)) = Kept(sendLen)
  BY PlayedIs DEF LoopType
<1> QED BY <1>1 DEF Audible

(* The datagram that has been collected is the one that is played.          *)
LEMMA CollectedAll ==
  ASSUME LoopType, Collected(sendLen, 0)
  PROVE  /\ recvPos > 0 => <<SubSeq(recvData, 1, recvPos)>> = Audible(Played)
         /\ ~(recvPos > 0) => Audible(Played) = Nothing /\ recvPos = 0
<1>1. recvPos = Kept(sendLen) /\ \A i \in 1..recvPos : recvData[i] = sendData[i - 1]
  BY DEF Collected
<1>2. /\ Hearable(Played) \in Seq(Octet) /\ Len(Hearable(Played)) = recvPos /\ recvPos \in Nat
      /\ \A i \in 1..recvPos : Hearable(Played)[i] = sendData[i - 1]
  BY <1>1, PlayedIs DEF LoopType
<1> DEFINE h == Hearable(Played)
           d == SubSeq(recvData, 1, recvPos)
<1>3. recvData \in Seq(Octet) /\ recvPos <= Len(recvData)
  BY DEF LoopType
<1> HIDE DEF h
<1>4. d \in Seq(Octet) /\ Len(d) = recvPos /\ \A i \in 1..recvPos : d[i] = recvData[i]
  BY <1>2, <1>3
<1> HIDE DEF d
<1>5. d = h
  BY <1>1, <1>2, <1>4, SeqEqual DEF h
<1> QED BY <1>1, <1>2, <1>5, AudibleIs DEF d, h

(* Appending to what was heard. *)
LEMMA HeardLast ==
  ASSUME NEW S, NEW h \in Seq(S), NEW x \in S
  PROVE  /\ h \o <<x>> \in Seq(S) /\ h \o <<x>> # <<>>
         /\ (h \o <<x>>)[Len(h \o <<x>>)] = x
         /\ h \o <<>> = h
OBVIOUS
-----------------------------------------------------------------------------
(* The decoder, by what it sees. *)
LEMMA NoEdge ==
  ASSUME LoopType, Decoder(recvActive)
  PROVE  /\ ticks' = ticks + 1 /\ sent' = Nothing /\ oldLight' = recvActive
         /\ hiTime' = hiTime /\ val' = val /\ recvPos' = recvPos /\ recvData' = recvData
         /\ totalTicks' = totalTicks /\ irNX' = irNX
BY DEF Decoder, LoopType

LEMMA LightOff ==
  ASSUME LoopType, recvActive = 1, Decoder(0)
  PROVE  /\ ticks' = 1 /\ hiTime' = ticks /\ oldLight' = 0
         /\ val' = val /\ recvData' = recvData /\ totalTicks' \in Nat /\ irNX' \in Nat
         /\ IF ticks > TICKS_END_HI_TH /\ recvPos > 0
            THEN sent' = <<SubSeq(recvData, 1, recvPos)>> /\ recvPos' = NOSTART
            ELSE sent' = Nothing /\ recvPos' = recvPos
<1>1. HighToLow /\ ticks' = 1 /\ oldLight' = 0
  BY DEF Decoder, LoopType
<1> QED BY <1>1 DEF HighToLow, LoopType

LEMMA LightOn ==
  ASSUME LoopType, recvActive = 0, Decoder(1)
  PROVE  /\ ticks' = 1 /\ hiTime' = hiTime /\ oldLight' = 1 /\ sent' = Nothing
         /\ totalTicks' \in Nat /\ irNX' \in Nat
         /\ IF hiTime > TICKS_HI_IDLE_TH
            THEN val' = <<>> /\ recvPos' = 0 /\ recvData' = recvData
            ELSE IF recvPos = NOSTART
            THEN val' = val /\ recvPos' = recvPos /\ recvData' = recvData
            ELSE IF Len(val) + 1 = BITS
            THEN val' = <<>> /\ StoreByte(Append(val, NewBit))
            ELSE val' = Append(val, NewBit) /\ recvPos' = recvPos /\ recvData' = recvData
<1>1. LowToHigh /\ ticks' = 1 /\ oldLight' = 1
  BY DEF Decoder, LoopType
<1> QED BY <1>1 DEF LowToHigh, LoopType

LEMMA NewBits ==
  ASSUME LoopType
  PROVE  /\ NewBit \in {0, 1} /\ Append(val, NewBit) \in Seq({0, 1})
         /\ Len(Append(val, NewBit)) = Len(val) + 1
         /\ \A i \in 1..(Len(val) + 1) :
               Append(val, NewBit)[i] = IF i = Len(val) + 1 THEN NewBit ELSE val[i]
BY DEF NewBit, LoopType

LEMMA Stored ==
  ASSUME LoopType, recvPos # NOSTART, NEW b \in Octet, StoreByte(b)
  PROVE  /\ recvData' \in Seq(Octet) /\ Len(recvData') = recvPos + 1
         /\ recvPos' \in 0..(MAXLEN - 1) /\ recvPos' <= recvPos + 1
         /\ recvPos' = IF recvPos + 1 = MAXLEN THEN MAXLEN - 1 ELSE recvPos + 1
         /\ \A i \in 1..(recvPos + 1) :
               recvData'[i] = IF i = recvPos + 1 THEN b ELSE recvData[i]
<1>1. recvPos \in 0..(MAXLEN - 1) /\ recvPos + 1 \in Nat
  BY Constants DEF LoopType
<1>2. \A i \in 1..(recvPos + 1) : i # recvPos + 1 => recvData[i] \in Octet
  BY <1>1 DEF LoopType
<1>3. recvData' = [i \in 1..(recvPos + 1) |-> IF i = recvPos + 1 THEN b ELSE recvData[i]]
  BY DEF StoreByte
<1>4. recvData' \in [1..(recvPos + 1) -> Octet]
  BY <1>2, <1>3
<1>5. recvData' \in Seq(Octet) /\ Len(recvData') = recvPos + 1
  BY <1>1, <1>4, IsASeq
<1> QED BY <1>1, <1>3, <1>5, Constants DEF StoreByte

LEMMA SeqIsFunction ==
  ASSUME NEW S, NEW s \in Seq(S)
  PROVE  s \in [1..Len(s) -> S]
OBVIOUS

LEMMA DecoderIs ==
  ASSUME LoopType
  PROVE  /\ val \in Seq({0, 1}) /\ Len(val) \in Nat /\ Len(val) < BITS
         /\ recvPos \in {NOSTART} \cup 0..(MAXLEN - 1) /\ recvPos \in Int
         /\ recvData \in Seq(Octet) /\ recvPos <= Len(recvData)
         /\ ticks \in Nat /\ hiTime \in Nat /\ totalTicks \in Nat /\ irNX \in Nat
         /\ oldLight = recvActive /\ recvActive \in {0, 1}
BY Constants DEF LoopType

LEMMA FullByte ==
  ASSUME LoopType, Len(val) + 1 = BITS
  PROVE  Append(val, NewBit) \in Octet
<1>1. Append(val, NewBit) \in Seq({0, 1}) /\ Len(Append(val, NewBit)) = BITS
  BY NewBits
<1> QED BY <1>1, SeqIsFunction DEF Octet

(* Whatever is decoded, the decoder's variables keep their types.           *)
LEMMA DecoderType ==
  ASSUME LoopType, NEW l \in {0, 1}, Decoder(l)
  PROVE  /\ oldLight' = l /\ ticks' \in Nat /\ hiTime' \in Nat
         /\ val' \in Seq({0, 1}) /\ Len(val') < BITS
         /\ recvPos' \in {NOSTART} \cup 0..(MAXLEN - 1)
         /\ recvData' \in Seq(Octet) /\ recvPos' <= Len(recvData')
         /\ totalTicks' \in Nat /\ irNX' \in Nat
         /\ sent' = Nothing \/ \E d \in Seq(Octet) : sent' = <<d>>
<1>1. CASE l = recvActive
  <2>1. Decoder(recvActive)
    BY <1>1
  <2> QED BY <1>1, <2>1, NoEdge, DecoderIs
<1>2. CASE l = 0 /\ recvActive = 1
  <2>1. recvPos > 0 => SubSeq(recvData, 1, recvPos) \in Seq(Octet)
    BY DEF LoopType
  <2>2. Decoder(0)
    BY <1>2
  <2>3. /\ ticks' = 1 /\ hiTime' = ticks /\ oldLight' = 0
        /\ val' = val /\ recvData' = recvData /\ totalTicks' \in Nat /\ irNX' \in Nat
    BY <1>2, <2>2, LightOff
  <2>4. \/ recvPos > 0 /\ sent' = <<SubSeq(recvData, 1, recvPos)>> /\ recvPos' = NOSTART
        \/ sent' = Nothing /\ recvPos' = recvPos
    BY <1>2, <2>2, LightOff
  <2>5. recvPos' <= Len(recvData) /\ recvPos' \in {NOSTART} \cup 0..(MAXLEN - 1)
    BY <2>4, DecoderIs
  <2> QED BY <1>2, <2>1, <2>3, <2>4, <2>5, DecoderIs
<1>3. CASE l = 1 /\ recvActive = 0
  <2>0. Decoder(1)
    BY <1>3
  <2>1. <<>> \in Seq({0, 1}) /\ Len(<<>>) = 0
    OBVIOUS
  <2>2. CASE hiTime > TICKS_HI_IDLE_TH \/ recvPos = NOSTART
    <3>1. /\ recvData' = recvData
          /\ \/ val' = <<>> /\ recvPos' = 0
             \/ val' = val /\ recvPos' = recvPos
      <4>1. CASE hiTime > TICKS_HI_IDLE_TH
        BY <1>3, <2>0, <4>1, LightOn, DecoderIs
      <4>2. CASE ~(hiTime > TICKS_HI_IDLE_TH) /\ recvPos = NOSTART
        BY <1>3, <2>0, <4>2, LightOn
      <4> QED BY <2>2, <4>1, <4>2
    <3>2. /\ val' \in Seq({0, 1}) /\ Len(val') < BITS
          /\ recvPos' \in {NOSTART} \cup 0..(MAXLEN - 1)
          /\ recvData' \in Seq(Octet) /\ recvPos' <= Len(recvData')
      <4>1. Len(recvData) \in Nat
        BY DecoderIs
      <4>2. CASE val' = <<>> /\ recvPos' = 0
        BY <2>1, <3>1, <4>1, <4>2, DecoderIs, Constants
      <4>3. CASE val' = val /\ recvPos' = recvPos
        BY <3>1, <4>3, DecoderIs
      <4> QED BY <3>1, <4>2, <4>3
    <3> QED BY <1>3, <2>0, <3>2, LightOn, DecoderIs
  <2>3. CASE ~(hiTime > TICKS_HI_IDLE_TH) /\ recvPos # NOSTART /\ Len(val) + 1 = BITS
    <3>1. val' = <<>> /\ StoreByte(Append(val, NewBit))
      BY <1>3, <2>0, <2>3, LightOn
    <3>2. /\ recvData' \in Seq(Octet) /\ recvPos' <= Len(recvData')
          /\ recvPos' \in 0..(MAXLEN - 1)
      BY <2>3, <3>1, FullByte, Stored
    <3> QED BY <1>3, <2>0, <2>1, <3>1, <3>2, LightOn, DecoderIs, Constants
  <2>4. CASE ~(hiTime > TICKS_HI_IDLE_TH) /\ recvPos # NOSTART /\ Len(val) + 1 # BITS
    <3>1. val' = Append(val, NewBit) /\ recvPos' = recvPos /\ recvData' = recvData
      BY <1>3, <2>0, <2>4, LightOn
    <3>2. Len(val) \in Nat /\ Len(val) + 1 < BITS
      BY <2>4, DecoderIs, Constants
    <3> QED BY <1>3, <2>0, <3>1, <3>2, NewBits, LightOn, DecoderIs
  <2> QED BY <2>2, <2>3, <2>4
<1> QED BY <1>1, <1>2, <1>3 DEF LoopType

(* So do those of the sender, and the histories.                            *)
LEMMA SenderType ==
  ASSUME LoopType, Sender
  PROVE  /\ sendData' = sendData /\ sendLen' = sendLen
         /\ sendPos' \in Int /\ sendTick' \in Nat /\ recvActive' \in {0, 1}
<1>1. UNCHANGED <<sendData, sendLen>>
  BY DEF Sender
<1>2. sendPos \in Int /\ sendTick \in Nat /\ recvActive \in {0, 1}
  BY DEF LoopType
<1>3. CASE UNCHANGED <<sendPos, sendTick, recvActive>>
  BY <1>1, <1>2, <1>3
<1>4. CASE Sync(sendTick + 1)
  BY <1>1, <1>2, <1>4 DEF Sync
<1>5. CASE DataBit(sendTick + 1)
  BY <1>1, <1>2, <1>5 DEF DataBit
<1> QED BY <1>3, <1>4, <1>5 DEF Sender

LEMMA LookType ==
  ASSUME LoopType, Look
  PROVE  LoopType'
<1>1. Sender /\ Decoder(recvActive') /\ heard' = heard \o sent' /\ UNCHANGED history
  BY DEF Look
<1>2. recvActive' \in {0, 1}
  BY <1>1, SenderType
<1>3. heard' \in Seq(Seq(Octet))
  BY <1>1, <1>2, DecoderType, HeardLast DEF LoopType
<1> QED BY <1>1, <1>2, <1>3, SenderType, DecoderType DEF LoopType, history
-----------------------------------------------------------------------------
(* Look, phase by phase. *)
LEMMA LookIs ==
  ASSUME LoopType, Look
  PROVE  /\ Sender /\ Decoder(recvActive') /\ heard' = heard \o sent'
         /\ owed' = owed /\ latest' = latest /\ interrupted' = interrupted
         /\ sendData' = sendData /\ sendLen' = sendLen /\ Played' = Played
         /\ sent' = Nothing => heard' = heard
<1>1. /\ Sender /\ Decoder(recvActive') /\ heard' = heard \o sent'
      /\ owed' = owed /\ latest' = latest /\ interrupted' = interrupted
  BY DEF Look, history
<1>2. sendData' = sendData /\ sendLen' = sendLen
  BY <1>1, SenderType
<1>3. Played' = Played
  BY <1>2 DEF Played
<1>4. sent' = Nothing => heard' = heard
  BY <1>1, HeardLast DEF LoopType
<1> QED BY <1>1, <1>2, <1>3, <1>4

LEMMA IdleStep ==
  ASSUME LoopType, Look, Idle
  PROVE  Idle'
<1>1. sendPos' = INACTIVE /\ recvActive' = recvActive
  BY LookIs DEF Idle, Sender, Sync, DataBit
<1>2. Decoder(recvActive)
  BY <1>1, LookIs
<1> QED BY <1>1, <1>2, LookIs, NoEdge DEF Idle, Delivered

(* The sync pulse. *)
LEMMA SyncMoves ==
  ASSUME LoopType, Look, InSync
  PROVE  /\ recvActive' = CASE sendTick + 1 < TICKS_START_HI -> 1
                            [] sendTick + 1 = TICKS_START_HI -> 0
                            [] sendTick + 1 = TICKS_START_HI + TICKS_START_LO -> 1
                            [] OTHER -> recvActive
         /\ IF sendTick + 1 = TICKS_START_HI + TICKS_START_LO
            THEN sendPos' = 0 /\ sendTick' = 0
            ELSE sendTick' = sendTick + 1 /\ sendPos' = SYNC
<1>1. Sync(sendTick + 1)
  BY LookIs DEF InSync, Sender, DataBit
<1> QED BY <1>1 DEF Sync

LEMMA SyncStep ==
  ASSUME LoopType, latest = Audible(Played), Look, InSync
  PROVE  (InSync \/ InBits)'
<1>0. sendTick \in 0..(TICKS_START_HI + TICKS_START_LO - 1) /\ recvActive \in {0, 1}
  BY DEF InSync, LoopType
<1>1. CASE sendTick + 1 < TICKS_START_HI
  <2>1. recvActive' = 1 /\ sendTick' = sendTick + 1 /\ sendPos' = SYNC
    BY <1>0, <1>1, SyncMoves
  <2>2. CASE recvActive = 1
    <3>1. Decoder(recvActive)
      BY <2>1, <2>2, LookIs
    <3>2. ticks' >= sendTick'
      <4>1. ticks >= sendTick
        BY <1>0, <1>1, DecoderIs DEF InSync
      <4> QED BY <1>0, <2>1, <3>1, <4>1, NoEdge, DecoderIs
    <3> QED BY <1>0, <1>1, <2>1, <3>1, <3>2, NoEdge, LookIs DEF InSync, Awaited
  <2>3. CASE recvActive = 0
    <3>1. Decoder(1)
      BY <2>1, LookIs
    <3>2. sendTick = 0
      BY <1>0, <1>1, <2>3 DEF InSync
    <3>3. ticks' = 1 /\ sent' = Nothing
      BY <2>3, <3>1, LightOn
    <3>4. ~interrupted => recvPos' \in {NOSTART, 0}
      <4> SUFFICES ASSUME ~interrupted PROVE recvPos' \in {NOSTART, 0}
        OBVIOUS
      <4>1. recvPos \in {NOSTART, 0} /\ Len(val) + 1 # BITS
        BY <3>2, Constants DEF InSync
      <4> QED BY <2>3, <3>1, <4>1, LightOn
    <3> QED BY <1>1, <2>1, <3>2, <3>3, <3>4, LookIs DEF InSync, Awaited
  <2> QED BY <1>0, <2>2, <2>3
<1>2. CASE sendTick + 1 = TICKS_START_HI
  <2>1. recvActive' = 0 /\ sendTick' = TICKS_START_HI /\ sendPos' = SYNC
    BY <1>0, <1>2, SyncMoves
  <2>2. recvActive = 1 /\ ticks >= TICKS_START_HI - 1
    BY <1>0, <1>2 DEF InSync
  <2>3. Decoder(0)
    BY <2>1, LookIs
  <2>4. hiTime' > TICKS_HI_IDLE_TH /\ recvPos' \in {NOSTART, 0}
    BY <2>2, <2>3, LightOff, DecoderIs
  <2>5. ~interrupted => sent' = Nothing
    BY <2>2, <2>3, LightOff DEF InSync
  <2>6. Awaited'
    BY <2>5, LookIs DEF InSync, Awaited
  <2> QED BY <2>1, <2>4, <2>6 DEF InSync
<1>3. CASE sendTick >= TICKS_START_HI /\ sendTick + 1 # TICKS_START_HI + TICKS_START_LO
  <2>1. recvActive' = recvActive /\ sendTick' = sendTick + 1 /\ sendPos' = SYNC
    BY <1>0, <1>3, SyncMoves
  <2>2. Decoder(recvActive)
    BY <2>1, LookIs
  <2> QED BY <1>0, <1>3, <2>1, <2>2, NoEdge, LookIs DEF InSync, Awaited
<1>4. CASE sendTick + 1 = TICKS_START_HI + TICKS_START_LO
  <2>1. recvActive' = 1 /\ sendTick' = 0 /\ sendPos' = 0
    BY <1>0, <1>4, SyncMoves
  <2>2. recvActive = 0 /\ hiTime > TICKS_HI_IDLE_TH
    BY <1>0, <1>4 DEF InSync
  <2>3. Decoder(1)
    BY <2>1, LookIs
  <2>4. val' = <<>> /\ recvPos' = 0 /\ ticks' = 1 /\ sent' = Nothing
    BY <2>2, <2>3, LightOn, DecoderIs
  <2>5. Awaited'
    BY <2>4, LookIs DEF InSync, Awaited
  <2>6. At(0, 0)'
    <3>1. sendLen' \in Nat /\ 0 * BITS = 0
      BY LookIs, Constants DEF LoopType
    <3> QED BY <2>1, <3>1, Constants DEF At
  <2>7. Collected(0, 0)'
    <3>1. Kept(0) = 0 /\ 1..0 = {}
      BY Constants DEF Kept
    <3> QED BY <2>4, <3>1 DEF Collected
  <2>8. Time(0, 0)' \in Nat \ {0} /\ High(0)' \in Nat \ {0}
    BY DEF Time, High
  <2>9. InBit(0, 0)'
    BY <2>1, <2>4, <2>5, <2>6, <2>7, <2>8 DEF InBit
  <2> QED BY <2>9 DEF InBits
<1> QED BY <1>0, <1>1, <1>2, <1>3, <1>4

(* The bits.  A dark time has passed: one bit more.                         *)
LEMMA BitMoves ==
  ASSUME LoopType, Look, NEW q \in Nat, NEW r \in Nat, At(q, r)
  PROVE  IF sendTick + 1 = Time(q, r)
         THEN /\ sendTick' = 0
              /\ IF q < sendLen THEN recvActive' = 1 /\ sendPos' = sendPos + 1
                                ELSE recvActive' = 0 /\ sendPos' = INACTIVE
         ELSE /\ sendTick' = sendTick + 1 /\ sendPos' = sendPos
              /\ recvActive' = IF sendTick + 1 = High(q) THEN 0 ELSE recvActive
<1>1. sendPos >= 0 /\ sendPos \in Nat
  BY Place
<1>2. DataBit(sendTick + 1)
  BY <1>1, LookIs DEF Sender, Sync
<1>3. BitTime = Time(q, r) /\ HighTime = High(q) /\ (sendPos < sendLen * BITS <=> q < sendLen)
  BY Place
<1> QED BY <1>2, <1>3 DEF DataBit

LEMMA BitRange ==
  ASSUME LoopType, NEW q \in Nat, NEW r \in Nat, At(q, r)
  PROVE  /\ Time(q, r) = TICKS_SENDHI + (IF sendData[q][1 + r] = 1 THEN TICKS_SENDLOONE
                                         ELSE TICKS_SENDLOZERO)
         /\ sendData[q][1 + r] \in {0, 1} /\ sendTick \in Nat
         /\ q \in 0..sendLen /\ q \in 0..MAXLEN /\ r \in 0..(BITS - 1)
         /\ (q = sendLen => r = 0 /\ High(q) = TICKS_END_HI)
         /\ (q < sendLen => q # sendLen /\ High(q) = TICKS_SENDHI)
         /\ recvActive \in {0, 1} /\ ticks \in Nat
<1>1. sendLen \in 0..MAXLEN /\ MAXLEN \in Nat
  BY Constants DEF LoopType
<1>2. q \in 0..sendLen /\ r \in 0..(BITS - 1) /\ (q = sendLen => r = 0)
  BY DEF At
<1>3. sendData[q][1 + r] \in {0, 1}
  BY Place
<1>4. sendTick \in Nat /\ recvActive \in {0, 1} /\ ticks \in Nat
  BY DEF LoopType
<1> QED BY <1>1, <1>2, <1>3, <1>4 DEF Time, High

LEMMA Received ==
  ASSUME LoopType, NEW q \in Nat, NEW r \in Nat, At(q, r), Collected(q, r), q < sendLen,
         Look, recvActive = 0, recvActive' = 1, hiTime = TICKS_SENDHI,
         ticks = Time(q, r) - TICKS_SENDHI
  PROVE  /\ sent' = Nothing /\ ticks' = 1
         /\ IF r + 1 = BITS THEN Collected(q + 1, 0)' ELSE Collected(q, r + 1)'
<1>1. Decoder(1)
  BY LookIs
<1>2. /\ Len(val) = r /\ \A i \in 1..r : val[i] = sendData[q][i]
      /\ recvPos = Kept(q) /\ \A i \in 1..Kept(q) : recvData[i] = sendData[i - 1]
  BY DEF Collected
<1>3. NewBit = sendData[q][1 + r]
  BY BitRange DEF NewBit
<1>4. /\ q \in Nat /\ q < MAXLEN /\ q + 1 <= MAXLEN /\ MAXLEN \in Nat /\ r \in Nat /\ BITS \in Nat
      /\ sendData' = sendData /\ Kept(q) = q
  <2>1. MAXLEN \in Nat /\ BITS \in Nat
    BY Constants
  <2>2. q \in Nat /\ q < MAXLEN /\ r \in Nat
    <3>1. sendLen \in 0..MAXLEN
      BY DEF LoopType
    <3> QED BY <2>1, <3>1
  <2>3. sendData' = sendData
    BY LookIs
  <2>4. q + 1 <= MAXLEN
    BY <2>1, <2>2
  <2>5. Kept(q) = q
    BY <2>1, <2>2 DEF Kept
  <2> QED BY <2>1, <2>2, <2>3, <2>4, <2>5
<1>5. sent' = Nothing /\ ticks' = 1
  BY <1>1, LightOn
<1>6. /\ Len(Append(val, NewBit)) = r + 1
      /\ \A i \in 1..(r + 1) : Append(val, NewBit)[i] = sendData[q][i]
  <2>1. Len(val) = r /\ \A i \in 1..r : val[i] = sendData[q][i]
    BY <1>2
  <2>2. /\ Len(Append(val, NewBit)) = r + 1
        /\ \A i \in 1..(r + 1) : Append(val, NewBit)[i] = IF i = r + 1 THEN NewBit ELSE val[i]
    BY <2>1, NewBits
  <2>3. ASSUME NEW i \in 1..(r + 1)
        PROVE  Append(val, NewBit)[i] = sendData[q][i]
    <3>1. CASE i = r + 1
      BY <1>3, <2>2, <3>1
    <3>2. CASE i # r + 1
      BY <1>4, <2>1, <2>2, <3>2
    <3> QED BY <3>1, <3>2
  <2> QED BY <2>2, <2>3
<1>7. CASE r + 1 = BITS
  <2> DEFINE b == Append(val, NewBit)
  <2>1. val' = <<>> /\ StoreByte(b)
    BY <1>1, <1>2, <1>4, <1>7, LightOn, DecoderIs
  <2>2. b \in Octet
    BY <1>2, <1>7, FullByte
  <2>3. sendData[q] \in Octet
    BY <1>4 DEF LoopType
  <2>4. b = sendData[q]
    <3>1. PICK x \in Octet, y \in Octet : x = b /\ y = sendData[q]
      BY <2>2, <2>3
    <3>2. \A i \in 1..BITS : x[i] = y[i]
      <4>1. \A i \in 1..(r + 1) : b[i] = sendData[q][i]
        BY <1>6
      <4>2. 1..(r + 1) = 1..BITS
        BY <1>7
      <4> HIDE DEF b
      <4> QED BY <3>1, <4>1, <4>2
    <3>3. x = [i \in 1..BITS |-> x[i]] /\ y = [i \in 1..BITS |-> y[i]]
      BY DEF Octet
    <3>4. x = y
      BY <3>2, <3>3
    <3> QED BY <3>1, <3>4
  <2> HIDE DEF b
  <2>5. /\ recvPos' = Kept(q + 1)
        /\ \A i \in 1..(q + 1) : recvData'[i] = IF i = q + 1 THEN b ELSE recvData[i]
    BY <1>2, <1>4, <2>1, <2>2, Stored DEF Kept
  <2>6. \A i \in 1..(q + 1) : recvData'[i] = sendData[i - 1]
    BY <1>2, <1>4, <2>4, <2>5
  <2>7. Kept(q + 1) \in Nat /\ Kept(q + 1) <= q + 1
    BY <1>4 DEF Kept
  <2>8. Collected(q + 1, 0)'
    BY <1>4, <2>1, <2>5, <2>6, <2>7 DEF Collected
  <2> QED BY <1>5, <1>7, <2>8
<1>8. CASE r + 1 # BITS
  <2>1. val' = Append(val, NewBit) /\ recvPos' = recvPos /\ recvData' = recvData
    BY <1>1, <1>2, <1>4, <1>8, LightOn, DecoderIs
  <2> QED BY <1>2, <1>4, <1>5, <1>6, <1>8, <2>1 DEF Collected
<1> QED BY <1>7, <1>8

(* The light goes out at the end of the data: what is there is sent.        *)
LEMMA Ends ==
  ASSUME LoopType, latest = Audible(Played), Awaited, Collected(sendLen, 0),
         Look, recvActive = 1, recvActive' = 0, ticks > TICKS_END_HI_TH
  PROVE  Delivered' /\ ticks' = 1
<1>1. Decoder(0)
  BY LookIs
<1>2. Len(val') = 0 /\ val' = val /\ ticks' = 1
  BY <1>1, LightOff DEF Collected
<1>3. CASE recvPos > 0
  <2>1. sent' = latest /\ recvPos' = NOSTART
    BY <1>1, <1>3, LightOff, CollectedAll
  <2>2. heard' = heard \o latest
    BY <2>1, LookIs
  <2>3. ~interrupted => heard' = owed
    <3>1. CASE heard \o latest = owed
      BY <2>2, <3>1
    <3> QED BY <3>1 DEF Awaited
  <2>4. latest # Nothing => heard' # <<>> /\ heard'[Len(heard')] = latest[1]
    <3> SUFFICES ASSUME latest # Nothing
                 PROVE  heard' # <<>> /\ heard'[Len(heard')] = latest[1]
      OBVIOUS
    <3>1. latest = <<Hearable(Played)>> /\ Hearable(Played) \in Seq(Octet)
      BY AudibleIs, PlayedIs DEF LoopType
    <3>2. latest[1] = Hearable(Played)
      BY <3>1
    <3> QED BY <2>2, <3>1, <3>2, HeardLast DEF LoopType
  <2> QED BY <1>2, <2>1, <2>3, <2>4, LookIs DEF Delivered
<1>4. CASE ~(recvPos > 0)
  <2>1. latest = Nothing /\ recvPos = 0
    BY <1>4, CollectedAll
  <2>2. sent' = Nothing /\ recvPos' = recvPos
    BY <1>1, <1>4, LightOff
  <2>3. heard' = heard /\ latest' = Nothing
    BY <2>1, <2>2, LookIs
  <2>4. heard \o latest = heard
    BY <2>1, HeardLast DEF LoopType
  <2> QED BY <1>2, <2>1, <2>2, <2>3, <2>4, LookIs DEF Delivered, Awaited
<1> QED BY <1>3, <1>4

LEMMA BitStep ==
  ASSUME LoopType, latest = Audible(Played), Look, NEW q \in Nat, NEW r \in Nat, InBit(q, r)
  PROVE  (InBits \/ InTail \/ Idle)'
<1>1. /\ At(q, r) /\ Collected(q, r) /\ sendTick < Time(q, r) /\ Awaited
      /\ sendTick < High(q)  => recvActive = 1 /\ ticks = sendTick + 1
      /\ sendTick >= High(q) => /\ q < sendLen /\ recvActive = 0 /\ hiTime = High(q)
                                /\ ticks = sendTick - High(q) + 1
  BY DEF InBit
<1>2. /\ Time(q, r)' = Time(q, r) /\ High(q)' = High(q) /\ sendLen' = sendLen
      /\ (At(q, r)' <=> IF sendPos' = sendPos THEN At(q, r) ELSE At(q, r)')
  BY LookIs DEF Time, High, At
<1>3. sent' = Nothing => Awaited'
  BY <1>1, LookIs DEF Awaited
<1>4. q <= sendLen /\ q \in Nat /\ sendLen \in Nat
  BY <1>1, BitRange DEF LoopType
<1>5. CASE sendTick + 1 # Time(q, r) /\ sendTick + 1 # High(q)
  <2>1. sendTick' = sendTick + 1 /\ sendPos' = sendPos /\ recvActive' = recvActive
    BY <1>1, <1>5, BitMoves
  <2>2. Decoder(recvActive)
    BY <2>1, LookIs
  <2>3. Collected(q, r)'
    BY <1>1, <2>2, NoEdge, LookIs DEF Collected
  <2>4. At(q, r)' /\ Awaited'
    BY <1>1, <1>2, <1>3, <2>1, <2>2, NoEdge
  <2>5. sendTick' < Time(q, r)
    BY <1>1, <1>5, <2>1, BitRange
  <2>6. CASE sendTick < High(q)
    <3>1. sendTick' < High(q) /\ ~(sendTick' >= High(q))
      BY <1>1, <1>4, <1>5, <2>1, <2>6, BitRange
    <3>2. ticks' = sendTick' + 1 /\ recvActive' = 1
      BY <1>1, <2>1, <2>2, <2>6, NoEdge, BitRange
    <3>3. InBit(q, r)'
      BY <1>2, <2>3, <2>4, <2>5, <3>1, <3>2 DEF InBit
    <3> QED BY <3>3 DEF InBits
  <2>7. CASE sendTick >= High(q)
    <3>1. sendTick' >= High(q) /\ ~(sendTick' < High(q))
      BY <1>1, <1>4, <2>1, <2>7, BitRange
    <3>2. ticks' = sendTick' - High(q) + 1 /\ recvActive' = 0 /\ hiTime' = High(q) /\ q < sendLen
      BY <1>1, <2>1, <2>2, <2>7, NoEdge, BitRange
    <3>3. InBit(q, r)'
      BY <1>2, <2>3, <2>4, <2>5, <3>1, <3>2 DEF InBit
    <3> QED BY <3>3 DEF InBits
  <2> QED BY <1>1, <1>4, <2>6, <2>7, BitRange
<1>6. CASE sendTick + 1 # Time(q, r) /\ sendTick + 1 = High(q)
  <2>1. sendTick' = sendTick + 1 /\ sendPos' = sendPos /\ recvActive' = 0
    BY <1>1, <1>6, BitMoves
  <2>2. recvActive = 1 /\ ticks = High(q)
    BY <1>1, <1>4, <1>6, BitRange
  <2>3. Decoder(0)
    BY <2>1, LookIs
  <2>4. sendTick' < Time(q, r)
    BY <1>1, <1>6, <2>1, BitRange
  <2>5. CASE q < sendLen
    <3>1. High(q) = TICKS_SENDHI
      BY <1>1, <2>5, BitRange
    <3>2. /\ ticks' = 1 /\ hiTime' = High(q) /\ sent' = Nothing
          /\ val' = val /\ recvPos' = recvPos /\ recvData' = recvData
      BY <2>2, <2>3, <3>1, LightOff
    <3>3. Collected(q, r)' /\ Awaited' /\ At(q, r)'
      BY <1>1, <1>2, <1>3, <2>1, <3>2, LookIs DEF Collected
    <3>4. InBit(q, r)'
      BY <1>2, <1>6, <2>1, <2>4, <2>5, <3>1, <3>2, <3>3 DEF InBit
    <3> QED BY <3>4 DEF InBits
  <2>6. CASE q = sendLen
    <3>1. High(q) = TICKS_END_HI /\ r = 0
      BY <1>1, <2>6, BitRange
    <3>2. Delivered'
      BY <1>1, <2>1, <2>2, <2>6, <3>1, Ends
    <3>3. At(sendLen, 0)' /\ sendTick' < Time(sendLen, 0)' /\ sendTick' >= TICKS_END_HI
      BY <1>1, <1>2, <1>6, <2>1, <2>4, <2>6, <3>1
    <3> QED BY <2>1, <3>2, <3>3 DEF InTail
  <2> QED BY <1>4, <2>5, <2>6
<1>7. CASE sendTick + 1 = Time(q, r) /\ q < sendLen
  <2>1. sendTick' = 0 /\ recvActive' = 1 /\ sendPos' = sendPos + 1
    BY <1>1, <1>7, BitMoves
  <2>2. High(q) = TICKS_SENDHI /\ sendTick >= High(q)
    BY <1>1, <1>7, BitRange
  <2>3. recvActive = 0 /\ hiTime = TICKS_SENDHI /\ ticks = Time(q, r) - TICKS_SENDHI
    BY <1>1, <1>7, <2>2, BitRange
  <2>4. /\ sent' = Nothing /\ ticks' = 1
        /\ IF r + 1 = BITS THEN Collected(q + 1, 0)' ELSE Collected(q, r + 1)'
    BY <1>1, <1>7, <2>1, <2>3, Received
  <2>5. Awaited'
    BY <1>3, <2>4
  <2>6. \A x, y : Time(x, y)' \in Nat \ {0} /\ High(x)' \in Nat \ {0}
    BY DEF Time, High
  <2>7. CASE r + 1 = BITS
    <3>1. At(q + 1, 0)'
      BY <1>1, <1>2, <1>4, <1>7, <2>1, <2>7, Place, Constants DEF At
    <3>2. InBit(q + 1, 0)'
      BY <2>1, <2>4, <2>5, <2>6, <2>7, <3>1 DEF InBit
    <3> QED BY <3>2 DEF InBits
  <2>8. CASE r + 1 # BITS
    <3>1. At(q, r + 1)'
      BY <1>1, <1>2, <1>4, <1>7, <2>1, <2>8, Place, Constants DEF At
    <3>2. InBit(q, r + 1)'
      BY <2>1, <2>4, <2>5, <2>6, <2>8, <3>1 DEF InBit
    <3> QED BY <3>2 DEF InBits
  <2> QED BY <2>7, <2>8
<1>8. CASE sendTick + 1 = Time(q, r) /\ q = sendLen
  <2>1. recvActive' = 0 /\ sendPos' = INACTIVE
    BY <1>1, <1>8, BitMoves
  <2>2. High(q) = TICKS_END_HI /\ r = 0
    BY <1>1, <1>8, BitRange
  <2>3. recvActive = 1 /\ ticks > TICKS_END_HI_TH
    BY <1>1, <1>8, <2>2, BitRange
  <2>4. Delivered'
    BY <1>1, <1>8, <2>1, <2>2, <2>3, Ends
  <2> QED BY <2>1, <2>4 DEF Idle
<1> QED BY <1>4, <1>5, <1>6, <1>7, <1>8

LEMMA TailStep ==
  ASSUME LoopType, Look, InTail
  PROVE  (InTail \/ Idle)'
<1>1. /\ At(sendLen, 0) /\ sendTick >= TICKS_END_HI /\ sendTick < Time(sendLen, 0)
      /\ recvActive = 0 /\ Delivered /\ sendLen \in Nat
  BY Constants DEF InTail, LoopType
<1>2. 0 \in Nat /\ High(sendLen) = TICKS_END_HI /\ sendTick \in Nat /\ Time(sendLen, 0) \in Nat
  BY <1>1, BitRange
<1>3. recvActive' = 0
  BY <1>1, <1>2, BitMoves
<1>4. Decoder(recvActive)
  BY <1>1, <1>3, LookIs
<1>5. Delivered'
  BY <1>1, <1>4, NoEdge, LookIs DEF Delivered
<1>6. CASE sendTick + 1 = Time(sendLen, 0)
  BY <1>1, <1>2, <1>3, <1>5, <1>6, BitMoves DEF Idle
<1>7. CASE sendTick + 1 # Time(sendLen, 0)
  <2>1. sendTick' = sendTick + 1 /\ sendPos' = sendPos
    BY <1>1, <1>2, <1>7, BitMoves
  <2>2. At(sendLen, 0)' /\ Time(sendLen, 0)' = Time(sendLen, 0)
    BY <1>1, <2>1, LookIs DEF At, Time
  <2>3. sendTick' >= TICKS_END_HI /\ sendTick' < Time(sendLen, 0)
    BY <1>1, <1>2, <1>7, <2>1
  <2> QED BY <1>3, <1>5, <2>2, <2>3 DEF InTail
<1> QED BY <1>6, <1>7

(* A datagram comes in, at rest or in the middle of another.                *)
LEMMA PlayIs ==
  ASSUME LoopType, NEW n \in 0..MAXSEND, NEW data \in [1..n -> Byte], IrRecv(data)
  PROVE  /\ sendData' \in [0..MAXLEN -> Octet] /\ sendLen' \in 0..MAXLEN
         /\ Played' = data /\ sendPos' = SYNC /\ sendTick' = 0
         /\ UNCHANGED <<recvActive, decoder>>
<1>1. n \in Nat /\ data \in [1..n -> Octet]
  BY LoopAssumption, Constants
<1>2. Len(data) = n
  BY <1>1, IsASeq
<1>3. /\ n <= MAXLEN /\ sendLen' = n /\ sendPos' = SYNC /\ sendTick' = 0
      /\ sendData' = [i \in 0..MAXLEN |-> IF i < n THEN data[i + 1] ELSE sendData[i]]
      /\ UNCHANGED <<recvActive, decoder>>
  BY <1>2 DEF IrRecv
<1>4. \A i \in 0..MAXLEN : i < n => data[i + 1] \in Octet
  BY <1>1, Constants
<1>5. sendData' \in [0..MAXLEN -> Octet]
  BY <1>3, <1>4 DEF LoopType
<1>6. \A i \in 1..n : i - 1 \in 0..MAXLEN /\ sendData'[i - 1] = data[i]
  BY <1>1, <1>3, Constants
<1>7. Played' = [i \in 1..n |-> data[i]]
  BY <1>3, <1>6 DEF Played
<1> QED BY <1>1, <1>3, <1>5, <1>7, Constants

LEMMA AudibleType ==
  ASSUME NEW d \in Seq(Octet)
  PROVE  Audible(d) \in Seq(Seq(Octet))
<1>1. Hearable(d) \in Seq(Octet)
  BY Constants DEF Hearable
<1> QED BY <1>1 DEF Audible

LEMMA Resting ==
  ASSUME LoopInv, sendPos = INACTIVE
  PROVE  Idle
<1>1. \A q, r \in Nat : At(q, r) => sendPos \in Nat
  BY Place DEF LoopInv
<1>2. ~InSync
  BY DEF InSync
<1>3. ~InBits
  BY <1>1 DEF InBits, InBit
<1>4. ~InTail
  BY <1>1 DEF InTail, LoopInv, LoopType
<1> QED BY <1>2, <1>3, <1>4 DEF LoopInv

LEMMA PlayStep ==
  ASSUME LoopInv, Play
  PROVE  LoopInv'
<1>0. PICK n \in 0..MAXSEND : \E data \in [1..n -> Byte] :
        IrRecv(data) /\ latest' = Audible(data) /\ owed' = owed \o Audible(data)
  BY DEF Play
<1>1. PICK data \in [1..n -> Byte] :
        IrRecv(data) /\ latest' = Audible(data) /\ owed' = owed \o Audible(data)
  BY <1>0
<1>2. LoopType
  BY DEF LoopInv
<1>3. /\ sendData' \in [0..MAXLEN -> Octet] /\ sendLen' \in 0..MAXLEN
      /\ Played' = data /\ sendPos' = SYNC /\ sendTick' = 0
      /\ UNCHANGED <<recvActive, decoder>>
  BY <1>1, <1>2, PlayIs
<1>4. latest' = Audible(Played)'
  BY <1>1, <1>3 DEF Audible, Hearable
<1>5. heard' = heard /\ interrupted' = (interrupted \/ ~Quiet)
  BY DEF Play
<1>6. Audible(Played)' \in Seq(Seq(Octet))
  <2>1. data \in Seq(Octet)
    BY IsASeq, LoopAssumption, Constants
  <2> QED BY <1>1, <1>4, <2>1, AudibleType
<1>7. owed' \in Seq(Seq(Octet))
  <2>1. owed' = owed \o latest' /\ latest' \in Seq(Seq(Octet)) /\ owed \in Seq(Seq(Octet))
    BY <1>1, <1>2, <1>4, <1>6 DEF LoopType
  <2> QED BY <2>1, ConcatProperties
<1>8. LoopType'
  BY <1>2, <1>3, <1>5, <1>7 DEF LoopType, decoder
<1>9. ~interrupted' => Idle
  BY <1>5, Resting DEF Quiet
<1>10. InSync'
  <2>1. ~interrupted' => recvPos' \in {NOSTART, 0} /\ Len(val') = 0
    BY <1>3, <1>9 DEF Idle, Delivered, decoder
  <2>2. ~interrupted' => heard' \o latest' = owed'
    BY <1>1, <1>5, <1>9 DEF Idle, Delivered
  <2> QED BY <1>3, <2>1, <2>2 DEF InSync, Awaited
<1> QED BY <1>4, <1>8, <1>10 DEF LoopInv

LEMMA LookStep ==
  ASSUME LoopInv, Look
  PROVE  LoopInv'
<1>1. LoopType /\ latest = Audible(Played) /\ LoopType'
  BY LookType DEF LoopInv
<1>2. latest' = Audible(Played)'
  <2>1. latest' = latest /\ Played' = Played
    BY <1>1, LookIs
  <2> QED BY <1>1, <2>1 DEF Audible, Hearable
<1>3. CASE InSync
  BY <1>1, <1>2, <1>3, SyncStep DEF LoopInv
<1>4. CASE InBits
  BY <1>1, <1>2, <1>4, BitStep DEF LoopInv, InBits
<1>5. CASE InTail
  BY <1>1, <1>2, <1>5, TailStep DEF LoopInv
<1>6. CASE Idle
  BY <1>1, <1>2, <1>6, IdleStep DEF LoopInv
<1> QED BY <1>3, <1>4, <1>5, <1>6 DEF LoopInv

LEMMA LoopInit == LInit => LoopInv
<1> SUFFICES ASSUME LInit PROVE LoopInv
  OBVIOUS
<1>1. PICK behind \in Byte :
        sendData = [i \in 0..MAXLEN |-> IF i = MAXLEN THEN behind ELSE [k \in 1..BITS |-> 0]]
  BY DEF LInit, ModemInit
<1>2. behind \in Octet /\ [k \in 1..BITS |-> 0] \in Octet
  BY Constants DEF Octet
<1>3. sendData \in [0..MAXLEN -> Octet]
  BY <1>1, <1>2
<1>4. sendLen = 0 /\ latest = Nothing
  BY DEF LInit, ModemInit
<1>5. LoopType
  <2>1. <<>> \in Seq({0, 1}) /\ Len(<<>>) = 0 /\ <<>> \in Seq(Octet) /\ <<>> \in Seq(Seq(Octet))
    OBVIOUS
  <2>2. /\ sendPos = INACTIVE /\ sendTick = 0 /\ recvActive = 0
        /\ oldLight = 0 /\ ticks = 0 /\ hiTime = 0
        /\ val = <<>> /\ recvPos = NOSTART /\ recvData = <<>> /\ totalTicks = 0
        /\ irNX = 0 /\ plays = 0 /\ owed = <<>> /\ heard = <<>> /\ interrupted = FALSE
    BY DEF LInit, ModemInit
  <2> HIDE DEF INACTIVE, NOSTART
  <2>3. INACTIVE = -2 /\ NOSTART = -1
    BY DEF INACTIVE, NOSTART
  <2>4. /\ sendLen \in 0..MAXLEN /\ sendPos \in Int /\ sendTick \in Nat /\ recvActive \in {0, 1}
        /\ oldLight = recvActive /\ ticks \in Nat /\ hiTime \in Nat /\ totalTicks \in Nat /\ irNX \in Nat
    BY <1>4, <2>2, <2>3, Constants
  <2>5. val \in Seq({0, 1}) /\ recvData \in Seq(Octet) /\ heard \in Seq(Seq(Octet)) /\ owed \in Seq(Seq(Octet))
    BY <2>1, <2>2
  <2>6. Len(val) = 0 /\ Len(recvData) = 0
    BY <2>1, <2>2
  <2>7. Len(val) < BITS
    BY <2>6, Constants
  <2>8. recvPos = -1 /\ recvPos <= Len(recvData)
    BY <2>2, <2>3, <2>6
  <2>9. recvPos \in {NOSTART} \cup 0..(MAXLEN - 1) /\ interrupted \in BOOLEAN
    BY <2>2
  <2> QED BY <1>3, <2>4, <2>5, <2>7, <2>8, <2>9 DEF LoopType
<1>6. Kept(sendLen) = 0
  BY <1>4, Constants DEF Kept
<1>7. latest = Audible(Played)
  BY <1>4, <1>5, <1>6, AudibleIs
<1>8. Idle
  BY DEF LInit, ModemInit, Idle, Delivered
<1> QED BY <1>5, <1>7, <1>8 DEF LoopInv

LEMMA LoopStep ==
  ASSUME LoopInv, [LNext]_lvars
  PROVE  LoopInv'
<1>1. CASE Play
  BY <1>1, PlayStep
<1>2. CASE Look
  BY <1>2, LookStep
<1>3. CASE UNCHANGED lvars
  <2>1. /\ UNCHANGED <<sendData, sendLen, sendPos, sendTick, recvActive, oldLight, ticks, hiTime>>
        /\ UNCHANGED <<val, recvPos, recvData, totalTicks, irNX, owed, latest, heard, interrupted>>
    BY <1>3 DEF lvars, modem, sender, decoder, history
  <2>2. LoopType' = LoopType
    BY <2>1 DEF LoopType
  <2>3. (latest = Audible(Played))' = (latest = Audible(Played))
    BY <2>1 DEF Audible, Hearable, Played
  <2>4. Awaited' = Awaited /\ Delivered' = Delivered
    BY <2>1 DEF Awaited, Delivered
  <2>5. InSync' = InSync /\ Idle' = Idle
    BY <2>1, <2>4 DEF InSync, Idle
  <2>6. \A q, r : At(q, r)' = At(q, r) /\ Collected(q, r)' = Collected(q, r)
    BY <2>1 DEF At, Collected
  <2>7. \A q, r : InBit(q, r)' = InBit(q, r)
    BY <2>1, <2>4, <2>6 DEF InBit, Time, High
  <2>8. InTail' = InTail
    BY <2>1, <2>4, <2>6 DEF InTail, Time
  <2> QED BY <2>2, <2>3, <2>5, <2>7, <2>8 DEF LoopInv, InBits
<1> QED BY <1>1, <1>2, <1>3 DEF LNext, Dark

(***************************************************************************)
(* What comes out is what was played, byte for byte, for bytes of any      *)
(* width, datagrams of any length and whatever lies behind them (irTick):  *)
(* the decoder is at every tick where the sender is.                       *)
(***************************************************************************)
THEOREM PlayedIsHeard == LSpec => []HeardIsPlayed
<1>1. LoopInv => HeardIsPlayed
  <2>1. ASSUME LoopInv, ~interrupted, Quiet
        PROVE  heard = owed
    BY <2>1, Resting DEF Quiet, Idle, Delivered
  <2>2. ASSUME LoopInv, ~interrupted, ~Quiet
        PROVE  heard = owed \/ heard \o latest = owed
    BY <2>2 DEF LoopInv, InSync, InBits, InBit, InTail, Idle, Awaited, Delivered
  <2> QED BY <2>1, <2>2 DEF HeardIsPlayed
<1> QED BY <1>1, LoopInit, LoopStep, PTL DEF LSpec

(***************************************************************************)
(* A datagram that interrupts another, at whatever tick, is heard in full: *)
(* the sync pulse is longer than anything the torso can look like.         *)
(***************************************************************************)
THEOREM TheLatestIsHeard == LSpec => []LatestIsHeard
<1>1. LoopInv => LatestIsHeard
  BY Resting DEF LatestIsHeard, Quiet, Idle, Delivered
<1> QED BY <1>1, LoopInit, LoopStep, PTL DEF LSpec

-----------------------------------------------------------------------------
(***************************************************************************)
(* The EEPROM on the I2C bus.  First arithmetic: the powers of two, a byte *)
(* that is shifted in or out of a register bit by bit, the place in a page *)
(* and in the memory.                                                      *)
(***************************************************************************)

LEMMA LeastNumber ==
  ASSUME NEW T, T \subseteq Nat, T # {}
  PROVE  \E x \in T : \A y \in T : x <= y
<1>1. PICK x \in T : \A y \in T : ~ (<<y, x>> \in OpToRel(<, Nat))
  BY NatLessThanWellFounded, WFMin
<1>2. ASSUME NEW y \in T
      PROVE  ~(y < x)
  BY <1>1, <1>2 DEF OpToRel
<1> QED BY <1>2

LEMMA DivMod ==
  ASSUME NEW a \in Nat, NEW d \in Nat \ {0}
  PROVE  /\ a \div d \in Nat /\ a % d \in 0..(d - 1)
         /\ a = d * (a \div d) + (a % d)
OBVIOUS

LEMMA Products ==
  ASSUME NEW a \in Nat, NEW b \in Nat
  PROVE  /\ a * b \in Nat /\ a * b = b * a
         /\ (a + 1) * b = a * b + b /\ a * (b + 1) = a * b + a
OBVIOUS

LEMMA Unique ==
  ASSUME NEW d \in Nat \ {0}, NEW q \in Nat, NEW r \in 0..(d - 1), NEW a \in Nat, a = d * q + r
  PROVE  a \div d = q /\ a % d = r
OBVIOUS

(* Quotients and remainders by products.  With a = (2q)u + r, ... *)
LEMMA Halves ==
  ASSUME NEW x \in Nat, NEW q \in Nat \ {0}
  PROVE  /\ x \div q \in Nat /\ x \div (2 * q) \in Nat
         /\ x \div q = 2 * (x \div (2 * q)) + ((x \div q) % 2)
<1> DEFINE u == x \div q  h == u \div 2  s == u % 2
<1>1. u \in Nat /\ x % q \in 0..(q - 1) /\ x = q * u + (x % q)
  BY DivMod
<1>2. h \in Nat /\ s \in 0..1 /\ u = 2 * h + s
  BY <1>1, DivMod
<1> DEFINE r == q * s + (x % q)
<1>3. r \in 0..(2 * q - 1)
  <2>1. q * s \in {0, q}
    BY <1>2
  <2> QED BY <1>1, <2>1
<1>4. x = (2 * q) * h + r
  <2>1. q * u = q * (2 * h) + q * s
    BY <1>2
  <2>2. q * (2 * h) = (2 * q) * h
    BY <1>2
  <2> QED BY <1>1, <1>2, <2>1, <2>2
<1>5. x \div (2 * q) = h
  <2> HIDE DEF r, h
  <2> QED BY <1>2, <1>3, <1>4, Unique
<1> QED BY <1>1, <1>2, <1>5

(* The remainder by a factor. *)
LEMMA Factor ==
  ASSUME NEW a \in Nat, NEW m \in Nat \ {0}, NEW n \in Nat \ {0}
  PROVE  (a % (m * n)) % m = a % m
<1>1. PICK M \in Nat \ {0} : M = m * n
  OBVIOUS
<1>2. PICK q \in Nat, r \in 0..(M - 1) : a = M * q + r /\ a % M = r
  BY DivMod
<1>3. PICK u \in Nat, v \in 0..(m - 1) : r = m * u + v /\ r % m = v
  <2>1. r \in Nat
    BY <1>1
  <2> QED BY <2>1, DivMod
<1>4. PICK w \in Nat : w = n * q
  OBVIOUS
<1>5. M * q = m * w
  BY <1>1, <1>4
<1>6. m * (w + u) = m * w + m * u
  OBVIOUS
<1>7. a = m * (w + u) + v
  BY <1>2, <1>3, <1>5, <1>6
<1>8. a % m = v
  BY <1>7, Unique
<1> QED BY <1>1, <1>2, <1>3, <1>8

(* A bit is shifted in from below. *)
LEMMA ShiftIn ==
  ASSUME NEW a \in Nat, NEW s \in {0, 1}, NEW m \in Nat \ {0}
  PROVE  (2 * a + s) % (2 * m) = 2 * (a % m) + s
<1>1. PICK q \in Nat, r \in 0..(m - 1) : a = m * q + r /\ a % m = r
  BY DivMod
<1>2. PICK M \in Nat \ {0} : M = 2 * m
  OBVIOUS
<1>3. M * q = 2 * (m * q)
  BY <1>2
<1>4. PICK c \in Nat : c = 2 * a + s
  OBVIOUS
<1>5. PICK t \in 0..(M - 1) : t = 2 * r + s
  BY <1>2
<1>6. c = M * q + t
  BY <1>1, <1>3, <1>4, <1>5
<1>7. c % M = t
  BY <1>6, Unique
<1> QED BY <1>1, <1>2, <1>4, <1>5, <1>7

(* c consists of s pieces of M and w. *)
Splits(c, M, s, w) == s \in Nat /\ w \in 0..(M - 1) /\ c = M * s + w

LEMMA Quotient ==
  ASSUME NEW M \in Nat \ {0}, NEW s, NEW w, NEW c \in Nat, Splits(c, M, s, w)
  PROVE  c \div M = s /\ c % M = w
BY Unique DEF Splits

(* The top bit of a register of 2M values, and the register without it.     *)
LEMMA TopBit ==
  ASSUME NEW M \in Nat \ {0}, NEW s, NEW w, NEW c \in Nat, Splits(c, M, s, w)
  PROVE  c \div M = s /\ (2 * c) % (2 * M) = 2 * w
<1>0. s \in Nat /\ w \in 0..(M - 1) /\ c = M * s + w
  BY DEF Splits
<1>1. c \div M = s
  BY <1>0, Unique
<1>2. PICK N \in Nat \ {0} : N = 2 * M
  OBVIOUS
<1>3. PICK d \in Nat : d = 2 * c
  OBVIOUS
<1>4. PICK t \in 0..(N - 1) : t = 2 * w
  BY <1>0, <1>2
<1>5. d = N * s + t
  <2>1. N * s = 2 * (M * s)
    BY <1>2, <1>0
  <2> QED BY <1>0, <1>3, <1>4, <2>1
<1>6. d % N = t
  <2>1. Splits(d, N, s, t)
    BY <1>0, <1>5 DEF Splits
  <2> QED BY <2>1, Quotient
<1> QED BY <1>1, <1>2, <1>3, <1>4, <1>6

(* A bit is shifted out at the top of a register of 2pq values that holds   *)
(* the low bits of y: the next bit of y comes out.                          *)
LEMMA ShiftOut ==
  ASSUME NEW y \in Nat, NEW p \in Nat \ {0}, NEW q \in Nat \ {0}
  PROVE  LET c == (y % (2 * q)) * p
         IN  /\ c \div (p * q) = (y \div q) % 2
             /\ (2 * c) % (2 * (p * q)) = (y % q) * (2 * p)
<1>1. PICK Q \in Nat \ {0} : Q = 2 * q
  OBVIOUS
<1>2. PICK h \in Nat, r \in 0..(Q - 1) : y = Q * h + r /\ y % Q = r
  BY DivMod
<1>3. PICK s \in Nat, v \in 0..(q - 1) : r = q * s + v /\ r \div q = s
  BY DivMod
<1>4. s \in {0, 1}
  <2>1. q * s < 2 * q
    BY <1>1, <1>2, <1>3
  <2>2. CASE s >= 2
    <3>1. PICK e \in Nat : s = e + 2
      BY <2>2
    <3>2. q * s = q * e + 2 * q /\ q * e \in Nat
      BY <3>1
    <3> QED BY <2>1, <3>2
  <2> QED BY <2>2
<1>5. PICK z \in Nat : z = 2 * h + s
  OBVIOUS
<1>6. y = q * z + v
  <2>1. Q * h = q * (2 * h)
    BY <1>1
  <2>2. q * z = q * (2 * h) + q * s
    BY <1>5
  <2> QED BY <1>2, <1>3, <2>1, <2>2
<1>7. y \div q = z /\ y % q = v
  BY <1>6, Unique
<1>8. z % 2 = s
  BY <1>4, <1>5
<1>9. PICK M \in Nat \ {0} : M = p * q
  OBVIOUS
<1>10. PICK w \in 0..(M - 1) : w = v * p
  <2>1. v * p \in Nat
    OBVIOUS
  <2>2. PICK e \in Nat : q = v + 1 + e
    <3>1. q - v - 1 \in Nat /\ q = v + 1 + (q - v - 1)
      OBVIOUS
    <3> QED BY <3>1
  <2>3. p * q = p * v + p + p * e /\ p * e \in Nat
    BY <2>2
  <2>4. v * p < M
    BY <1>9, <2>1, <2>3
  <2> QED BY <1>9, <2>1, <2>4
<1>11. PICK c \in Nat : c = r * p
  OBVIOUS
<1>12. c = M * s + w
  <2>1. c = (q * s + v) * p
    BY <1>3, <1>11
  <2>2. (q * s + v) * p = (q * s) * p + v * p
    OBVIOUS
  <2>3. (q * s) * p = (p * q) * s
    OBVIOUS
  <2> QED BY <1>9, <1>10, <2>1, <2>2, <2>3
<1>13. c \div M = s /\ (2 * c) % (2 * M) = 2 * w
  <2>1. Splits(c, M, s, w)
    BY <1>12 DEF Splits
  <2> QED BY <2>1, TopBit
<1>14. 2 * w = v * (2 * p)
  BY <1>10
<1> QED BY <1>1, <1>2, <1>7, <1>8, <1>9, <1>11, <1>13, <1>14

-----------------------------------------------------------------------------
(* The powers of two. *)
IsTwo(f, k) == f = [n \in 0..k |-> IF n = 0 THEN 1 ELSE 2 * f[n - 1]]

LEMMA TwoExists ==
  ASSUME NEW N \in Nat
  PROVE  \E f : IsTwo(f, N)
<1> DEFINE Bad == {k \in Nat : ~\E f : IsTwo(f, k)}
<1> SUFFICES ASSUME Bad # {} PROVE FALSE
  OBVIOUS
<1>1. PICK k \in Bad : \A j \in Bad : k <= j
  BY LeastNumber
<1>2. CASE k = 0
  <2> DEFINE g == [n \in 0..0 |-> 1]
  <2>1. IsTwo(g, k)
    BY <1>2 DEF IsTwo
  <2> QED BY <2>1
<1>3. CASE k # 0
  <2>1. k - 1 \in Nat /\ k - 1 \notin Bad
    BY <1>1, <1>3
  <2>2. PICK f : IsTwo(f, k - 1)
    BY <2>1
  <2> DEFINE g == [n \in 0..k |-> IF n < k THEN f[n] ELSE 2 * f[n - 1]]
  <2>3. IsTwo(g, k)
    BY <2>2, <1>3 DEF IsTwo
  <2> QED BY <2>3
<1> QED BY <1>2, <1>3

LEMMA TwoStep ==
  Two[0] = 1 /\ \A n \in 1..WIDTH : Two[n] = 2 * Two[n - 1]
<1>1. Two = CHOOSE f : IsTwo(f, WIDTH)
  BY DEF Two, IsTwo
<1>2. IsTwo(Two, WIDTH)
  BY <1>1, TwoExists, BusAssumption
<1>3. Two = [n \in 0..WIDTH |-> IF n = 0 THEN 1 ELSE 2 * Two[n - 1]]
  BY <1>2 DEF IsTwo
<1>4. 0 \in 0..WIDTH /\ \A n \in 1..WIDTH : n \in 0..WIDTH /\ n # 0
  BY BusAssumption
<1> HIDE DEF Two
<1> QED BY <1>3, <1>4

LEMMA TwoPositive == \A n \in 0..WIDTH : Two[n] \in Nat \ {0}
<1> DEFINE Bad == {n \in 0..WIDTH : Two[n] \notin Nat \ {0}}
<1> SUFFICES ASSUME Bad # {} PROVE FALSE
  OBVIOUS
<1>1. PICK n \in Bad : \A m \in Bad : n <= m
  <2>1. Bad \subseteq Nat
    BY BusAssumption
  <2> HIDE DEF Bad
  <2> QED BY <2>1, LeastNumber
<1>2. n # 0
  BY <1>1, TwoStep
<1>3. n \in 1..WIDTH /\ n - 1 \in 0..WIDTH /\ n - 1 \notin Bad
  BY <1>1, <1>2, BusAssumption
<1>4. Two[n - 1] \in Nat \ {0} /\ Two[n] = 2 * Two[n - 1]
  BY <1>3, TwoStep
<1> QED BY <1>1, <1>4

(* A byte of k and of the other bits. *)
LEMMA TwoProduct == \A k \in 0..WIDTH : Two[k] * Two[WIDTH - k] = Base
<1> DEFINE Bad == {n \in 0..WIDTH : Two[n] * Two[WIDTH - n] # Base}
<1> SUFFICES ASSUME Bad # {} PROVE FALSE
  OBVIOUS
<1>1. PICK n \in Bad : \A m \in Bad : n <= m
  <2>1. Bad \subseteq Nat
    BY BusAssumption
  <2> HIDE DEF Bad
  <2> QED BY <2>1, LeastNumber
<1>2. n # 0
  <2>1. Two[WIDTH - 0] = Base /\ Base \in Nat
    BY TwoPositive, BusAssumption DEF Base
  <2> QED BY <1>1, <2>1, TwoStep
<1>3. n \in 1..WIDTH /\ n - 1 \in 0..WIDTH /\ n - 1 \notin Bad
  BY <1>1, <1>2, BusAssumption
<1>4. PICK m \in 0..(WIDTH - 1) : m = n - 1
  BY <1>3, BusAssumption
<1>5. WIDTH - m \in 1..WIDTH /\ WIDTH - m - 1 = WIDTH - n /\ WIDTH - n \in 0..WIDTH /\ m \in 0..WIDTH
  BY <1>3, <1>4, BusAssumption
<1>6. PICK a \in Nat, b \in Nat : a = Two[m] /\ b = Two[WIDTH - n]
  BY <1>5, TwoPositive
<1>7. Two[n] = 2 * a /\ Two[WIDTH - m] = 2 * b
  BY <1>3, <1>4, <1>5, <1>6, TwoStep
<1>8. a * (2 * b) = (2 * a) * b
  OBVIOUS
<1>9. Two[m] * Two[WIDTH - m] = Base
  BY <1>3, <1>4
<1> QED BY <1>1, <1>6, <1>7, <1>8, <1>9

LEMMA Width ==
  /\ WIDTH \in Nat /\ WIDTH >= 1 /\ 0 \in 0..WIDTH /\ WIDTH \in 0..WIDTH
  /\ Base \in Nat \ {0} /\ Base = Two[WIDTH] /\ Two[0] = 1
<1>1. WIDTH \in Nat \ {0}
  BY BusAssumption
<1>2. Two[WIDTH] \in Nat \ {0}
  BY <1>1, TwoPositive
<1> QED BY <1>1, <1>2, TwoStep DEF Base

LEMMA AtBit ==
  ASSUME NEW k \in 0..(WIDTH - 1)
  PROVE  \E p, q \in Nat \ {0} :
           /\ Two[k] = p /\ Two[k + 1] = 2 * p
           /\ Two[WIDTH - k - 1] = q /\ Two[WIDTH - (k + 1)] = q /\ Two[WIDTH - k] = 2 * q
           /\ Base = 2 * (p * q) /\ Base = (2 * p) * q /\ Base \div 2 = p * q
<1>1. /\ k \in 0..WIDTH /\ k + 1 \in 1..WIDTH /\ k + 1 \in 0..WIDTH /\ (k + 1) - 1 = k
      /\ WIDTH - k - 1 \in 0..WIDTH /\ WIDTH - k \in 1..WIDTH /\ (WIDTH - k) - 1 = WIDTH - k - 1
      /\ WIDTH - (k + 1) = WIDTH - k - 1
  BY Width
<1>2. PICK p \in Nat \ {0} : p = Two[k]
  BY <1>1, TwoPositive
<1>3. PICK q \in Nat \ {0} : q = Two[WIDTH - k - 1]
  BY <1>1, TwoPositive
<1>4. Two[k + 1] = 2 * p /\ Two[WIDTH - k] = 2 * q
  BY <1>1, <1>2, <1>3, TwoStep
<1>5. Base = p * (2 * q)
  BY <1>1, <1>2, <1>4, TwoProduct
<1>6. PICK M \in Nat \ {0} : M = p * q
  OBVIOUS
<1>7. p * (2 * q) = 2 * M /\ (2 * p) * q = 2 * M
  BY <1>6
<1>8. (2 * M) \div 2 = M
  OBVIOUS
<1> QED BY <1>1, <1>2, <1>3, <1>4, <1>5, <1>6, <1>7, <1>8

(* A byte is shifted in: k bits of x are in the register b. *)
Taken(b, x, k) == b % Two[k] = x \div Two[WIDTH - k]

LEMMA TakenFirst ==
  ASSUME NEW b \in Bytes, NEW x \in Bytes
  PROVE  Taken(b, x, 0)
<1>1. b \in Nat /\ b % 1 = 0
  BY Width DEF Bytes
<1>2. x \in Nat /\ x \in 0..(Base - 1) /\ x = Base * 0 + x
  BY Width DEF Bytes
<1>3. x \div Base = 0
  BY <1>2, Width, Unique
<1> QED BY <1>1, <1>3, Width DEF Taken

LEMMA ABit ==
  ASSUME NEW x \in Nat, NEW k \in 0..(WIDTH - 1)
  PROVE  /\ BitOf(x, k + 1) \in {0, 1}
         /\ x \div Two[WIDTH - (k + 1)] = 2 * (x \div Two[WIDTH - k]) + BitOf(x, k + 1)
<1>1. PICK p \in Nat \ {0}, q \in Nat \ {0} : Two[WIDTH - (k + 1)] = q /\ Two[WIDTH - k] = 2 * q
  BY AtBit
<1>2. BitOf(x, k + 1) = (x \div q) % 2
  BY <1>1 DEF BitOf
<1>3. x \div q \in Nat /\ x \div q = 2 * (x \div (2 * q)) + ((x \div q) % 2)
  BY Halves
<1>4. (x \div q) % 2 \in {0, 1}
  BY <1>3
<1> QED BY <1>1, <1>2, <1>3, <1>4

LEMMA TakenNext ==
  ASSUME NEW b \in Bytes, NEW x \in Bytes, NEW k \in 0..(WIDTH - 1), Taken(b, x, k)
  PROVE  Taken((2 * b + BitOf(x, k + 1)) % Base, x, k + 1)
<1>1. PICK p \in Nat \ {0}, q \in Nat \ {0} :
        /\ Two[k] = p /\ Two[k + 1] = 2 * p /\ Two[WIDTH - (k + 1)] = q /\ Two[WIDTH - k] = 2 * q
        /\ Base = (2 * p) * q
  BY AtBit
<1>2. x \in Nat /\ b \in Nat
  BY Width DEF Bytes
<1>3. PICK s \in {0, 1} : s = BitOf(x, k + 1) /\ x \div q = 2 * (x \div (2 * q)) + s
  <2>1. PICK s \in {0, 1} : s = BitOf(x, k + 1)
    BY <1>2, ABit
  <2>2. x \div Two[WIDTH - (k + 1)] = 2 * (x \div Two[WIDTH - k]) + BitOf(x, k + 1)
    BY <1>2, ABit
  <2>3. x \div q = 2 * (x \div (2 * q)) + s
    BY <1>1, <2>1, <2>2
  <2> QED BY <2>1, <2>3
<1>4. b % p = x \div (2 * q)
  BY <1>1 DEF Taken
<1>5. PICK P \in Nat \ {0}, c \in Nat : P = 2 * p /\ c = 2 * b + s
  BY <1>2
<1>6. (c % (P * q)) % P = c % P
  BY Factor
<1>7. c % P = 2 * (b % p) + s
  BY <1>2, <1>5, ShiftIn
<1> QED BY <1>1, <1>3, <1>4, <1>5, <1>6, <1>7 DEF Taken

LEMMA TakenAll ==
  ASSUME NEW b \in Bytes, NEW x \in Bytes, Taken(b, x, WIDTH)
  PROVE  b = x
<1>1. Two[WIDTH - WIDTH] = 1
  BY Width
<1>2. b % Base = b
  <2>1. b \in Nat /\ b \in 0..(Base - 1) /\ b = Base * 0 + b
    BY Width DEF Bytes
  <2> QED BY <2>1, Width, Unique
<1>3. x \div 1 = x
  BY Width DEF Bytes
<1> QED BY <1>1, <1>2, <1>3, Width DEF Taken

(* A byte is shifted out: the register when k bits of y have left it. *)
Remaining(y, k) == (y % Two[WIDTH - k]) * Two[k]

LEMMA RestFirst ==
  ASSUME NEW y \in Bytes
  PROVE  Remaining(y, 0) = y
<1>1. Two[WIDTH - 0] = Base
  BY Width
<1>2. y % Base = y
  <2>1. y \in Nat /\ y \in 0..(Base - 1) /\ y = Base * 0 + y
    BY Width DEF Bytes
  <2> QED BY <2>1, Width, Unique
<1>3. y * 1 = y
  BY Width DEF Bytes
<1> QED BY <1>1, <1>2, <1>3, Width DEF Remaining

LEMMA RestNext ==
  ASSUME NEW y \in Bytes, NEW k \in 0..(WIDTH - 1)
  PROVE  /\ Remaining(y, k) \div (Base \div 2) = BitOf(y, k + 1)
         /\ (2 * Remaining(y, k)) % Base = Remaining(y, k + 1)
<1>1. PICK p \in Nat \ {0}, q \in Nat \ {0} :
        /\ Two[k] = p /\ Two[k + 1] = 2 * p /\ Two[WIDTH - (k + 1)] = q /\ Two[WIDTH - k] = 2 * q
        /\ Base = 2 * (p * q) /\ Base \div 2 = p * q
  BY AtBit
<1>2. y \in Nat
  BY Width DEF Bytes
<1>3. /\ ((y % (2 * q)) * p) \div (p * q) = (y \div q) % 2
      /\ (2 * ((y % (2 * q)) * p)) % (2 * (p * q)) = (y % q) * (2 * p)
  BY <1>2, ShiftOut
<1> QED BY <1>1, <1>3 DEF Remaining, BitOf

-----------------------------------------------------------------------------
(* Addresses. *)
LEMMA Memory ==
  /\ SIZE \in Nat \ {0} /\ SIZE = Base * Base
  /\ PAGE \in Nat \ {0} /\ \E n \in Nat \ {0} : SIZE = PAGE * n
<1>1. SIZE \in Nat \ {0} /\ SIZE = Base * Base
  BY Width DEF SIZE
<1>2. PAGE \in Nat \ {0} /\ SIZE % PAGE = 0
  BY BusAssumption
<1>3. PICK n \in Nat : SIZE = PAGE * n
  <2>1. SIZE \div PAGE \in Nat /\ SIZE = PAGE * (SIZE \div PAGE) + (SIZE % PAGE)
    BY <1>1, <1>2, DivMod
  <2>2. PICK n \in Nat : n = SIZE \div PAGE
    BY <2>1
  <2>3. SIZE = PAGE * n + 0
    BY <1>2, <2>1, <2>2
  <2> QED BY <1>1, <1>2, <2>3
<1>4. n # 0
  BY <1>1, <1>2, <1>3
<1> QED BY <1>1, <1>2, <1>3, <1>4

(* The cells from a multiple of m on, where m divides the memory. *)
LEMMA Block ==
  ASSUME NEW m \in Nat \ {0}, NEW n \in Nat \ {0}, SIZE = m * n,
         NEW a \in Cells, NEW r \in 0..(m - 1)
  PROVE  /\ (a - (a % m)) + r \in Cells
         /\ ((a - (a % m)) + r) % m = r
         /\ ((a - (a % m)) + r) - r = a - (a % m)
<1>1. a \in Nat /\ a < SIZE
  BY Memory DEF Cells
<1>2. PICK d \in Nat : a = m * d + (a % m) /\ a % m \in 0..(m - 1)
  BY <1>1, DivMod
<1>3. PICK e \in Nat : e = m * d
  OBVIOUS
<1>4. a - (a % m) = e
  BY <1>1, <1>2, <1>3
<1>5. d < n
  <2>1. CASE d >= n
    <3>1. PICK j \in Nat : d = n + j
      BY <2>1
    <3>2. m * d = m * n + m * j /\ m * j \in Nat
      BY <3>1
    <3> QED BY <1>1, <1>2, <3>2
  <2> QED BY <2>1
<1>6. e + m <= SIZE
  <2>1. PICK j \in Nat : n = d + 1 + j
    <3>1. n - d - 1 \in Nat /\ n = d + 1 + (n - d - 1)
      BY <1>5
    <3> QED BY <3>1
  <2>2. m * n = m * d + m + m * j /\ m * j \in Nat
    BY <2>1
  <2> QED BY <1>3, <2>2, Memory
<1>7. e + r \in Cells
  BY <1>6, Memory DEF Cells
<1>8. (e + r) % m = r
  <2>1. PICK c \in Nat : c = e + r
    OBVIOUS
  <2>2. c = m * d + r
    BY <1>3, <2>1
  <2>3. c % m = r
    BY <2>2, Unique
  <2> QED BY <2>1, <2>3
<1> QED BY <1>4, <1>7, <1>8

(* The remainder of the next number. *)
LEMMA NextRemainder ==
  ASSUME NEW a \in Nat, NEW m \in Nat \ {0}
  PROVE  ((a % m) + 1) % m = (a + 1) % m
<1>1. PICK q \in Nat, r \in 0..(m - 1) : a = m * q + r /\ a % m = r
  BY DivMod
<1>2. CASE r + 1 < m
  <2>1. PICK c \in Nat, t \in 0..(m - 1) : c = a + 1 /\ t = r + 1
    BY <1>2
  <2>2. c = m * q + t
    BY <1>1, <2>1
  <2>3. c % m = t
    BY <2>2, Unique
  <2>4. t % m = t
    BY <2>1
  <2> QED BY <1>1, <2>1, <2>3, <2>4
<1>3. CASE r + 1 = m
  <2>1. PICK c \in Nat, j \in Nat : c = a + 1 /\ j = q + 1
    OBVIOUS
  <2>2. c = m * j + 0
    BY <1>1, <1>3, <2>1
  <2>3. c % m = 0
    BY <2>2, Unique
  <2>4. m % m = 0
    <3>1. m = m * 1 + 0
      OBVIOUS
    <3> QED BY <3>1, Unique
  <2> QED BY <1>1, <1>3, <2>1, <2>3, <2>4
<1> QED BY <1>2, <1>3

LEMMA WrapFirst ==
  ASSUME NEW a \in Cells
  PROVE  WrapAt(a, 0) = a
<1>1. a \in Nat
  BY Memory DEF Cells
<1>2. a % PAGE \in 0..(PAGE - 1)
  BY <1>1, Memory, DivMod
<1>3. (a % PAGE) % PAGE = a % PAGE
  BY <1>2, Memory
<1> QED BY <1>1, <1>2, <1>3 DEF WrapAt

LEMMA WrapNext ==
  ASSUME NEW a \in Cells, NEW i \in Nat
  PROVE  /\ WrapAt(a, i) \in Cells
         /\ NextInPage(WrapAt(a, i)) = WrapAt(a, i + 1)
<1>1. PICK n \in Nat \ {0} : SIZE = PAGE * n
  BY Memory
<1>2. a \in Nat /\ a % PAGE \in Nat
  BY Memory, DivMod DEF Cells
<1>3. PICK j \in Nat : j = (a % PAGE) + i
  BY <1>2
<1>4. PICK r \in 0..(PAGE - 1) : r = j % PAGE
  BY Memory, DivMod
<1>5. PICK w \in Cells : w = (a - (a % PAGE)) + r /\ w % PAGE = r /\ w - r = a - (a % PAGE)
  BY <1>1, Block, Memory
<1>6. WrapAt(a, i) = w
  BY <1>3, <1>4, <1>5 DEF WrapAt
<1>7. (w + 1) % PAGE = (j + 1) % PAGE
  <2>1. w \in Nat
    BY Memory DEF Cells
  <2>2. ((w % PAGE) + 1) % PAGE = (w + 1) % PAGE
    BY <2>1, Memory, NextRemainder
  <2>3. ((j % PAGE) + 1) % PAGE = (j + 1) % PAGE
    BY Memory, NextRemainder
  <2> QED BY <1>4, <1>5, <2>2, <2>3
<1>8. (a % PAGE) + (i + 1) = j + 1
  BY <1>2, <1>3
<1>9. NextInPage(w) = (a - (a % PAGE)) + ((j + 1) % PAGE)
  BY <1>5, <1>7 DEF NextInPage
<1> QED BY <1>6, <1>8, <1>9 DEF WrapAt

LEMMA ReadNext ==
  ASSUME NEW a \in Cells, NEW i \in Nat
  PROVE  /\ (a + i) % SIZE \in Cells
         /\ (((a + i) % SIZE) + 1) % SIZE = (a + (i + 1)) % SIZE
<1>1. a \in Nat
  BY Memory DEF Cells
<1>2. PICK c \in Nat : c = a + i
  BY <1>1
<1>3. c % SIZE \in 0..(SIZE - 1)
  BY Memory, DivMod
<1>4. ((c % SIZE) + 1) % SIZE = (c + 1) % SIZE
  BY Memory, NextRemainder
<1>5. a + (i + 1) = c + 1
  BY <1>1, <1>2
<1> QED BY <1>2, <1>3, <1>4, <1>5 DEF Cells

LEMMA ReadFirst ==
  ASSUME NEW a \in Cells
  PROVE  (a + 0) % SIZE = a
<1>1. a \in Nat /\ a \in 0..(SIZE - 1) /\ a + 0 = a
  BY Memory DEF Cells
<1>2. a = SIZE * 0 + a
  BY <1>1, Memory
<1>3. a % SIZE = a
  BY <1>1, <1>2, Memory, Unique
<1> QED BY <1>1, <1>3

(* The two address bytes. *)
LEMMA TwoBytes ==
  ASSUME NEW a \in Cells
  PROVE  /\ a \div Base \in Bytes /\ a % Base \in Bytes
         /\ ((a \div Base) * Base - (((a \div Base) * Base) % Base)) + (a % Base) = a
<1>1. a \in Nat /\ a < SIZE
  BY Memory DEF Cells
<1>2. PICK h \in Nat, l \in 0..(Base - 1) : a = Base * h + l /\ a \div Base = h /\ a % Base = l
  BY <1>1, Width, DivMod
<1>3. h < Base
  <2>1. CASE h >= Base
    <3>1. PICK j \in Nat : h = Base + j
      <4>1. h - Base \in Nat /\ h = Base + (h - Base)
        BY <2>1, Width
      <4> QED BY <4>1
    <3>2. Base * h = Base * Base + Base * j /\ Base * j \in Nat
      BY <3>1, Width
    <3> QED BY <1>1, <1>2, <3>2, Memory
  <2> QED BY <2>1, Width
<1>4. PICK e \in Nat : e = h * Base
  BY Width
<1>5. e = Base * h + 0
  BY <1>4, Width
<1>6. e % Base = 0
  <2>1. 0 \in 0..(Base - 1)
    BY Width
  <2> QED BY <1>5, <2>1, Width, Unique
<1>7. (e - 0) + l = a
  BY <1>2, <1>5, Width
<1>8. h \in Bytes /\ l \in Bytes
  BY <1>3, Width DEF Bytes
<1>9. (h * Base - ((h * Base) % Base)) + l = a
  BY <1>4, <1>6, <1>7
<1> QED BY <1>2, <1>8, <1>9

LEMMA HighByte ==
  ASSUME NEW x \in Bytes
  PROVE  x * Base \in Cells
<1>1. x \in Nat /\ x < Base
  BY Width DEF Bytes
<1>2. PICK j \in Nat : Base = x + 1 + j
  <2>1. Base - x - 1 \in Nat /\ Base = x + 1 + (Base - x - 1)
    BY <1>1, Width
  <2> QED BY <2>1
<1>3. PICK B \in Nat \ {0} : B = Base
  BY Width
<1>4. B * B = x * B + B + j * B /\ j * B \in Nat /\ x * B \in Nat
  BY <1>1, <1>2, <1>3
<1>5. x * B < SIZE
  BY <1>3, <1>4, Memory
<1> QED BY <1>3, <1>4, <1>5, Memory DEF Cells

(* The address of a device, and the bit that says what is to be done.       *)
LEMMA DeviceByte ==
  ASSUME NEW d \in 0..(Base \div 2 - 1)
  PROVE  /\ d \in Nat
         /\ 2 * d \in Bytes /\ (2 * d) \div 2 = d /\ (2 * d) % 2 = 0
         /\ 2 * d + 1 \in Bytes /\ (2 * d + 1) \div 2 = d /\ (2 * d + 1) % 2 = 1
<1>1. PICK M \in Nat \ {0} : Base = 2 * M /\ Base \div 2 = M
  <2>1. 0 \in 0..(WIDTH - 1)
    BY Width
  <2>2. PICK p \in Nat \ {0}, q \in Nat \ {0} : Base = 2 * (p * q) /\ Base \div 2 = p * q
    BY <2>1, AtBit
  <2>3. PICK M \in Nat \ {0} : M = p * q
    OBVIOUS
  <2> QED BY <2>2, <2>3
<1>2. d \in Nat /\ d < M
  BY <1>1
<1>3. 2 * d \in 0..(Base - 1) /\ 2 * d + 1 \in 0..(Base - 1)
  BY <1>1, <1>2
<1>4. (2 * d) \div 2 = d /\ (2 * d) % 2 = 0 /\ (2 * d + 1) \div 2 = d /\ (2 * d + 1) % 2 = 1
  BY <1>2
<1> QED BY <1>2, <1>3, <1>4 DEF Bytes

-----------------------------------------------------------------------------
(* The bus. *)
WouldStore(b) == b.state = ACK /\ ~b.dirOut /\ b.byteCnt = 3 /\ Selected(b)
Storing(b)    == IF WouldStore(b) THEN {<<b.ptr, b.byte>>} ELSE {}

LEMMA BusType ==
  ASSUME NEW b \in Buses
  PROVE  /\ b.oldScl \in Line /\ b.oldSda \in Line /\ b.oldOut \in Line
         /\ b.state \in -1..WIDTH /\ b.byte \in Bytes /\ b.byteCnt \in 0..3
         /\ b.dirOut \in BOOLEAN /\ b.adr \in Bytes
         /\ b.mem \in [Cells -> Bytes] /\ b.ptr \in Cells
BY DEF Buses

(* The lines change while the clock is low, or nothing is going on.         *)
SetLines(b, scl, sda) == [b EXCEPT !.oldScl = scl, !.oldSda = sda]

LEMMA LinesAreSet ==
  ASSUME NEW b \in Buses, NEW scl \in Line, NEW sda \in Line
  PROVE  /\ SetLines(b, scl, sda) \in Buses
         /\ SetLines(b, scl, sda).oldScl = scl /\ SetLines(b, scl, sda).oldSda = sda
         /\ SetLines(b, scl, sda).oldOut = b.oldOut
         /\ SetLines(b, scl, sda).state = b.state /\ SetLines(b, scl, sda).byte = b.byte
         /\ SetLines(b, scl, sda).byteCnt = b.byteCnt /\ SetLines(b, scl, sda).dirOut = b.dirOut
         /\ SetLines(b, scl, sda).adr = b.adr /\ SetLines(b, scl, sda).mem = b.mem
         /\ SetLines(b, scl, sda).ptr = b.ptr
BY DEF Buses, SetLines

LEMMA ClockLow ==
  ASSUME NEW b \in Buses, NEW sda \in Line
  PROVE  Handle(b, 0, sda) = SetLines(b, 0, sda)
BY DEF Handle, StopSeen, StartSeen, ClockUp, SetLines

(* What a rising clock does. *)
Clocked(b, sda) ==
  IF b.state = IDLE THEN b ELSE IF b.dirOut THEN ClockOut(b) ELSE ClockIn(b, sda)

LEMMA ClockHigh ==
  ASSUME NEW b \in Buses, NEW sda \in Line, b.oldScl = 0, b.oldSda = sda
  PROVE  Handle(b, 1, sda) = SetLines(Clocked(b, sda), 1, sda)
<1>1. ~StopSeen(b, 1, sda) /\ ~StartSeen(b, 1, sda)
  BY DEF StopSeen, StartSeen
<1>2. CASE b.state = IDLE
  <2>1. ~ClockUp(b, 1, sda)
    BY <1>2 DEF ClockUp
  <2> QED BY <1>1, <1>2, <2>1 DEF Handle, SetLines, Clocked
<1>3. CASE b.state # IDLE
  <2>1. ClockUp(b, 1, sda)
    BY <1>3 DEF ClockUp
  <2> QED BY <1>1, <1>3, <2>1 DEF Handle, SetLines, Clocked
<1> QED BY <1>2, <1>3

LEMMA PulseIs ==
  ASSUME NEW b \in Buses, NEW sda \in Line
  PROVE  Pulse(b, sda) = SetLines(Clocked(SetLines(b, 0, sda), sda), 1, sda)
<1>1. Handle(b, 0, sda) = SetLines(b, 0, sda)
  BY ClockLow
<1>2. SetLines(b, 0, sda) \in Buses /\ SetLines(b, 0, sda).oldScl = 0 /\ SetLines(b, 0, sda).oldSda = sda
  BY LinesAreSet DEF Line
<1>3. Handle(SetLines(b, 0, sda), 1, sda) = SetLines(Clocked(SetLines(b, 0, sda), sda), 1, sda)
  BY <1>2, ClockHigh
<1> QED BY <1>1, <1>3 DEF Pulse

(* The program of the EEPROM. *)
LEMMA WriteKeeps ==
  ASSUME NEW b \in Buses, b.byteCnt # 0
  PROVE  LET w == EepromWrite(b)
         IN  /\ w \in Buses
             /\ w.oldScl = b.oldScl /\ w.oldSda = b.oldSda /\ w.oldOut = b.oldOut
             /\ w.state = b.state /\ w.byte = b.byte /\ w.byteCnt = b.byteCnt
             /\ w.dirOut = b.dirOut /\ w.adr = b.adr
             /\ b.byteCnt = 1 => w.ptr = b.byte * Base
             /\ b.byteCnt = 2 => w.ptr = (b.ptr - (b.ptr % Base)) + b.byte
             /\ b.byteCnt = 3 => w.ptr = NextInPage(b.ptr)
             /\ w.mem = IF b.byteCnt = 3 THEN [b.mem EXCEPT ![b.ptr] = b.byte] ELSE b.mem
<1>1. /\ b.ptr \in Cells /\ b.byte \in Bytes /\ b.byteCnt \in 1..3 /\ b.mem \in [Cells -> Bytes]
  BY BusType
<1>2. CASE b.byteCnt = 1
  <2>1. EepromWrite(b) = [b EXCEPT !.ptr = b.byte * Base]
    BY <1>2 DEF EepromWrite
  <2>2. b.byte * Base \in Cells
    BY <1>1, HighByte
  <2> QED BY <1>2, <2>1, <2>2 DEF Buses
<1>3. CASE b.byteCnt = 2
  <2>1. EepromWrite(b) = [b EXCEPT !.ptr = (b.ptr - (b.ptr % Base)) + b.byte]
    BY <1>3 DEF EepromWrite
  <2>2. (b.ptr - (b.ptr % Base)) + b.byte \in Cells
    BY <1>1, Block, Memory, Width DEF Bytes
  <2> QED BY <1>3, <2>1, <2>2 DEF Buses
<1>4. CASE b.byteCnt = 3
  <2>1. EepromWrite(b) = [b EXCEPT !.mem[b.ptr] = b.byte, !.ptr = NextInPage(b.ptr)]
    BY <1>4 DEF EepromWrite
  <2>2. NextInPage(b.ptr) \in Cells
    BY <1>1, WrapFirst, WrapNext
  <2>3. [b.mem EXCEPT ![b.ptr] = b.byte] \in [Cells -> Bytes]
    BY <1>1
  <2>4. PICK m \in [Cells -> Bytes] : m = [b.mem EXCEPT ![b.ptr] = b.byte]
    BY <2>3
  <2>5. EepromWrite(b) = [b EXCEPT !.mem = m, !.ptr = NextInPage(b.ptr)]
    BY <2>1, <2>4
  <2>6. PICK p \in Cells : p = NextInPage(b.ptr)
    BY <2>2
  <2>7. EepromWrite(b) = [b EXCEPT !.mem = m, !.ptr = p]
    BY <2>5, <2>6
  <2> DEFINE w == [b EXCEPT !.mem = m, !.ptr = p]
  <2>8. /\ w \in Buses
        /\ w.oldScl = b.oldScl /\ w.oldSda = b.oldSda /\ w.oldOut = b.oldOut
        /\ w.state = b.state /\ w.byte = b.byte /\ w.byteCnt = b.byteCnt
        /\ w.dirOut = b.dirOut /\ w.adr = b.adr /\ w.ptr = p /\ w.mem = m
    BY DEF Buses
  <2>9. EepromWrite(b) = w
    BY <2>7
  <2> HIDE DEF w
  <2> QED BY <1>4, <2>4, <2>6, <2>8, <2>9
<1> QED BY <1>1, <1>2, <1>3, <1>4

LEMMA SelectedIs ==
  ASSUME NEW b, NEW c, c.adr = b.adr
  PROVE  Selected(c) <=> Selected(b)
BY DEF Selected

(* A register is shifted. *)
LEMMA RegisterType ==
  ASSUME NEW x \in Bytes, NEW s \in Line
  PROVE  (2 * x + s) % Base \in Bytes /\ (2 * x) % Base \in Bytes
<1>1. 2 * x + s \in Nat /\ 2 * x \in Nat
  BY Width DEF Bytes, Line
<1> QED BY <1>1, Width, DivMod DEF Bytes

LEMMA TopBitType ==
  ASSUME NEW x \in Bytes
  PROVE  x \div (Base \div 2) \in Line
<1>1. 0 \in 0..(WIDTH - 1) /\ x \in Nat
  BY Width DEF Bytes
<1>2. Remaining(x, 0) = x
  BY RestFirst
<1>3. Remaining(x, 0) \div (Base \div 2) = BitOf(x, 0 + 1) /\ BitOf(x, 0 + 1) \in {0, 1}
  BY <1>1, RestNext, ABit
<1> QED BY <1>2, <1>3 DEF Line

LEMMA ReceivesBit ==
  ASSUME NEW b \in Buses, NEW s \in Line, ~b.dirOut, b.state \in 0..(WIDTH - 1)
  PROVE  LET c == Clocked(b, s)
         IN  /\ c \in Buses
             /\ c.state = b.state + 1 /\ c.byte = (2 * b.byte + s) % Base /\ c.oldOut = 1
             /\ c.byteCnt = b.byteCnt /\ c.dirOut = b.dirOut /\ c.adr = b.adr
             /\ c.mem = b.mem /\ c.ptr = b.ptr
<1>1. b.state # ACK /\ b.state # IDLE /\ b.state + 1 \in -1..WIDTH
  BY Width DEF ACK, IDLE
<1>2. PICK y \in Bytes : y = (2 * b.byte + s) % Base
  BY RegisterType, BusType
<1>3. PICK k \in -1..WIDTH : k = b.state + 1
  BY <1>1
<1> DEFINE c == [b EXCEPT !.byte = y, !.state = k, !.oldOut = 1]
<1>4. Clocked(b, s) = c
  BY <1>1, <1>2, <1>3 DEF Clocked, ClockIn
<1>5. /\ c \in Buses
      /\ c.state = k /\ c.byte = y /\ c.oldOut = 1
      /\ c.byteCnt = b.byteCnt /\ c.dirOut = b.dirOut /\ c.adr = b.adr
      /\ c.mem = b.mem /\ c.ptr = b.ptr
  BY DEF Buses, Line
<1> HIDE DEF c
<1> QED BY <1>2, <1>3, <1>4, <1>5

LEMMA ReceivesAddress ==
  ASSUME NEW b \in Buses, NEW s \in Line, ~b.dirOut, b.state = ACK, b.byteCnt = 0
  PROVE  LET c == Clocked(b, s)
         IN  /\ c \in Buses
             /\ c.state = 0 /\ c.byte = b.byte /\ c.byteCnt = 1
             /\ c.adr = b.byte /\ (c.dirOut <=> b.byte % 2 = 1)
             /\ c.mem = b.mem /\ c.ptr = b.ptr
<1>1. b.state # IDLE /\ 0 \in -1..WIDTH
  BY Width DEF ACK, IDLE
<1>2. PICK d \in BOOLEAN : d = (b.byte % 2 = 1)
  OBVIOUS
<1>3. PICK a \in Bytes : a = b.byte
  BY BusType
<1>4. PICK o \in Line : o = IF a \div 2 = DEV THEN 0 ELSE 1
  BY DEF Line
<1> DEFINE r == [b EXCEPT !.adr = a, !.dirOut = d]
           c == [r EXCEPT !.oldOut = o, !.byteCnt = 1, !.state = 0]
<1>5. Selected(r) <=> a \div 2 = DEV
  BY DEF Selected, Buses
<1>6. Counted(b) = 1
  BY DEF Counted
<1>7. ClockIn(b, s) = [r EXCEPT !.oldOut = IF Selected(r) THEN 0 ELSE 1, !.byteCnt = Counted(b), !.state = 0]
  BY <1>2, <1>3 DEF ClockIn
<1>8. Clocked(b, s) = c
  BY <1>1, <1>4, <1>5, <1>6, <1>7 DEF Clocked
<1>9. /\ c \in Buses
      /\ c.state = 0 /\ c.byte = b.byte /\ c.byteCnt = 1
      /\ c.adr = a /\ c.dirOut = d /\ c.mem = b.mem /\ c.ptr = b.ptr
  <2>1. /\ r \in Buses /\ r.byte = b.byte /\ r.adr = a /\ r.dirOut = d
        /\ r.mem = b.mem /\ r.ptr = b.ptr
    BY DEF Buses
  <2>2. PICK n \in 0..3 : n = 1
    OBVIOUS
  <2>3. c = [r EXCEPT !.oldOut = o, !.byteCnt = n, !.state = 0]
    BY <2>2
  <2> HIDE DEF r, c
  <2> QED BY <1>1, <2>1, <2>2, <2>3 DEF Buses
<1> HIDE DEF c
<1> QED BY <1>2, <1>3, <1>8, <1>9

LEMMA ReceivesData ==
  ASSUME NEW b \in Buses, NEW s \in Line, ~b.dirOut, b.state = ACK, b.byteCnt # 0
  PROVE  LET c == Clocked(b, s)
         IN  /\ c \in Buses
             /\ c.state = 0 /\ c.byte = b.byte /\ c.byteCnt = IF b.byteCnt = 3 THEN 3 ELSE b.byteCnt + 1
             /\ c.adr = b.adr /\ c.dirOut = b.dirOut
             /\ c.oldOut = (IF Selected(b) THEN 0 ELSE 1)
             /\ ~Selected(b) => c.ptr = b.ptr
             /\ Selected(b) =>
                  /\ b.byteCnt = 1 => c.ptr = b.byte * Base
                  /\ b.byteCnt = 2 => c.ptr = (b.ptr - (b.ptr % Base)) + b.byte
                  /\ b.byteCnt = 3 => c.ptr = NextInPage(b.ptr)
             /\ c.mem = IF WouldStore(b) THEN [b.mem EXCEPT ![b.ptr] = b.byte] ELSE b.mem
<1>1. b.state # IDLE /\ 0 \in -1..WIDTH
  BY Width DEF ACK, IDLE
<1> DEFINE d == IF Selected(b) THEN EepromWrite(b) ELSE b
<1>2. /\ d \in Buses
      /\ d.byte = b.byte /\ d.adr = b.adr /\ d.dirOut = b.dirOut
  BY WriteKeeps
<1>3. /\ ~Selected(b) => d.ptr = b.ptr
      /\ Selected(b) =>
           /\ b.byteCnt = 1 => d.ptr = b.byte * Base
           /\ b.byteCnt = 2 => d.ptr = (b.ptr - (b.ptr % Base)) + b.byte
           /\ b.byteCnt = 3 => d.ptr = NextInPage(b.ptr)
  BY WriteKeeps
<1>4. d.mem = IF WouldStore(b) THEN [b.mem EXCEPT ![b.ptr] = b.byte] ELSE b.mem
  BY WriteKeeps DEF WouldStore
<1>5. PICK o \in Line : o = IF Selected(b) THEN 0 ELSE 1
  BY DEF Line
<1>6. PICK n \in 0..3 : n = (IF b.byteCnt = 3 THEN 3 ELSE b.byteCnt + 1) /\ n = Counted(b)
  BY BusType DEF Counted
<1>7. Clocked(b, s) = [d EXCEPT !.oldOut = IF Selected(d) THEN 0 ELSE 1, !.byteCnt = Counted(b), !.state = 0]
  BY <1>1 DEF Clocked, ClockIn
<1>8. Selected(d) <=> Selected(b)
  BY <1>2, SelectedIs
<1> HIDE DEF d
<1> DEFINE c == [d EXCEPT !.oldOut = o, !.byteCnt = n, !.state = 0]
<1>9. Clocked(b, s) = c
  BY <1>5, <1>6, <1>7, <1>8
<1>10. /\ c \in Buses
       /\ c.state = 0 /\ c.byte = d.byte /\ c.byteCnt = n /\ c.adr = d.adr /\ c.dirOut = d.dirOut
       /\ c.oldOut = o /\ c.mem = d.mem /\ c.ptr = d.ptr
  BY <1>1, <1>2 DEF Buses
<1> HIDE DEF c
<1> QED BY <1>2, <1>3, <1>4, <1>5, <1>6, <1>9, <1>10

(* The byte that is being sent. *)
Fetched(b) == IF b.state # 0 THEN b.byte ELSE IF Selected(b) THEN b.mem[b.ptr] ELSE Base - 1

LEMMA SendsBit ==
  ASSUME NEW b \in Buses, NEW s \in Line, b.dirOut, b.state \in 0..(WIDTH - 1)
  PROVE  LET c == Clocked(b, s)
         IN  /\ c \in Buses /\ Fetched(b) \in Bytes
             /\ c.state = b.state + 1 /\ c.byte = (2 * Fetched(b)) % Base
             /\ c.oldOut = Fetched(b) \div (Base \div 2)
             /\ c.byteCnt = b.byteCnt /\ c.dirOut = b.dirOut /\ c.adr = b.adr /\ c.mem = b.mem
             /\ c.ptr = IF b.state = 0 /\ Selected(b) THEN (b.ptr + 1) % SIZE ELSE b.ptr
<1>1. b.state # ACK /\ b.state # IDLE /\ b.state + 1 \in -1..WIDTH
  BY Width DEF ACK, IDLE
<1>2. PICK x \in Bytes : x = Fetched(b)
  <2>1. Base - 1 \in Bytes /\ b.byte \in Bytes /\ b.mem[b.ptr] \in Bytes
    BY BusType, Width DEF Bytes
  <2> QED BY <2>1 DEF Fetched
<1>3. PICK p \in Cells : p = IF b.state = 0 /\ Selected(b) THEN (b.ptr + 1) % SIZE ELSE b.ptr
  <2>1. b.ptr \in Cells /\ (b.ptr + 1) % SIZE \in Cells
    BY BusType, ReadNext
  <2> QED BY <2>1
<1> DEFINE f == IF b.state # 0 THEN b
                ELSE IF Selected(b) THEN EepromRead(b) ELSE [b EXCEPT !.byte = Base - 1]
<1>4. /\ f \in Buses
      /\ f.byte = x /\ f.ptr = p /\ f.state = b.state /\ f.byteCnt = b.byteCnt
      /\ f.dirOut = b.dirOut /\ f.adr = b.adr /\ f.mem = b.mem
  <2>1. CASE b.state # 0
    BY <1>2, <1>3, <2>1 DEF Fetched
  <2>2. CASE b.state = 0 /\ Selected(b)
    <3>1. EepromRead(b) = [b EXCEPT !.byte = x, !.ptr = p]
      BY <1>2, <1>3, <2>2 DEF EepromRead, Fetched
    <3>2. f = [b EXCEPT !.byte = x, !.ptr = p]
      BY <2>2, <3>1
    <3> HIDE DEF f
    <3> QED BY <3>2 DEF Buses
  <2>3. CASE b.state = 0 /\ ~Selected(b)
    <3>1. f = [b EXCEPT !.byte = x]
      BY <1>2, <2>3 DEF Fetched
    <3>2. b.ptr = p
      BY <1>3, <2>3
    <3> HIDE DEF f
    <3> QED BY <3>1, <3>2 DEF Buses
  <2> QED BY <2>1, <2>2, <2>3
<1>5. Clocked(b, s) = [f EXCEPT !.oldOut = f.byte \div (Base \div 2),
                               !.byte = (2 * f.byte) % Base, !.state = f.state + 1]
  BY <1>1 DEF Clocked, ClockOut
<1> HIDE DEF f
<1>6. PICK o \in Line, y \in Bytes : o = x \div (Base \div 2) /\ y = (2 * x) % Base
  BY RegisterType, TopBitType DEF Line
<1>7. PICK k \in -1..WIDTH : k = b.state + 1
  BY <1>1
<1> DEFINE c == [f EXCEPT !.oldOut = o, !.byte = y, !.state = k]
<1>8. Clocked(b, s) = c
  BY <1>4, <1>5, <1>6, <1>7
<1>9. /\ c \in Buses
      /\ c.state = k /\ c.byte = y /\ c.oldOut = o /\ c.byteCnt = f.byteCnt
      /\ c.dirOut = f.dirOut /\ c.adr = f.adr /\ c.mem = f.mem /\ c.ptr = f.ptr
  BY <1>4 DEF Buses
<1> HIDE DEF c
<1> QED BY <1>2, <1>3, <1>4, <1>6, <1>7, <1>8, <1>9

LEMMA SendsNext ==
  ASSUME NEW b \in Buses, NEW s \in Line, b.dirOut, b.state = ACK
  PROVE  LET c == Clocked(b, s)
         IN  /\ c \in Buses
             /\ c.state = 0 /\ c.dirOut = b.dirOut /\ c.adr = b.adr
             /\ c.mem = b.mem /\ c.ptr = b.ptr
<1>1. b.state # IDLE /\ 0 \in -1..WIDTH
  BY Width DEF ACK, IDLE
<1>2. PICK n \in 0..3 : n = Counted(b)
  BY BusType DEF Counted
<1> DEFINE c == [b EXCEPT !.byteCnt = n, !.state = 0, !.oldOut = 1]
<1>3. Clocked(b, s) = c
  BY <1>1, <1>2 DEF Clocked, ClockOut
<1>4. /\ c \in Buses
      /\ c.state = 0 /\ c.dirOut = b.dirOut /\ c.adr = b.adr
      /\ c.mem = b.mem /\ c.ptr = b.ptr
  BY <1>1 DEF Buses, Line
<1> HIDE DEF c
<1> QED BY <1>3, <1>4

(* A clock pulse. *)
LEMMA PulseLines ==
  ASSUME NEW b \in Buses, NEW s \in Line
  PROVE  \E l \in Buses :
           /\ Pulse(b, s) = SetLines(Clocked(l, s), 1, s)
           /\ l.state = b.state /\ l.byte = b.byte /\ l.byteCnt = b.byteCnt /\ l.dirOut = b.dirOut
           /\ l.adr = b.adr /\ l.mem = b.mem /\ l.ptr = b.ptr
           /\ (Selected(l) <=> Selected(b)) /\ (WouldStore(l) <=> WouldStore(b))
           /\ Fetched(l) = Fetched(b)
<1> DEFINE l == SetLines(b, 0, s)
<1>1. Pulse(b, s) = SetLines(Clocked(l, s), 1, s)
  BY PulseIs
<1>2. /\ l \in Buses
      /\ l.state = b.state /\ l.byte = b.byte /\ l.byteCnt = b.byteCnt /\ l.dirOut = b.dirOut
      /\ l.adr = b.adr /\ l.mem = b.mem /\ l.ptr = b.ptr
  BY LinesAreSet DEF Line
<1> HIDE DEF l
<1>3. Selected(l) <=> Selected(b)
  BY <1>2, SelectedIs
<1>4. (WouldStore(l) <=> WouldStore(b)) /\ Fetched(l) = Fetched(b)
  BY <1>2, <1>3 DEF WouldStore, Fetched
<1> QED BY <1>1, <1>2, <1>3, <1>4

LEMMA PulseTakesBit ==
  ASSUME NEW b \in Buses, NEW s \in Line, ~b.dirOut, b.state \in 0..(WIDTH - 1)
  PROVE  LET c == Pulse(b, s)
         IN  /\ c \in Buses /\ c.oldScl = 1 /\ c.oldSda = s
             /\ c.state = b.state + 1 /\ c.byte = (2 * b.byte + s) % Base
             /\ c.byteCnt = b.byteCnt /\ c.dirOut = b.dirOut /\ c.adr = b.adr
             /\ c.mem = b.mem /\ c.ptr = b.ptr
<1>1. PICK l \in Buses :
        /\ Pulse(b, s) = SetLines(Clocked(l, s), 1, s)
        /\ l.state = b.state /\ l.byte = b.byte /\ l.byteCnt = b.byteCnt /\ l.dirOut = b.dirOut
        /\ l.adr = b.adr /\ l.mem = b.mem /\ l.ptr = b.ptr
  BY PulseLines
<1>2. PICK c : c = Clocked(l, s)
  OBVIOUS
<1>3. /\ c \in Buses
      /\ c.state = l.state + 1 /\ c.byte = (2 * l.byte + s) % Base
      /\ c.byteCnt = l.byteCnt /\ c.dirOut = l.dirOut /\ c.adr = l.adr
      /\ c.mem = l.mem /\ c.ptr = l.ptr
  BY <1>1, <1>2, ReceivesBit
<1> QED BY <1>1, <1>2, <1>3, LinesAreSet DEF Line

LEMMA PulseTakesAddress ==
  ASSUME NEW b \in Buses, NEW s \in Line, ~b.dirOut, b.state = ACK, b.byteCnt = 0
  PROVE  LET c == Pulse(b, s)
         IN  /\ c \in Buses /\ c.oldScl = 1 /\ c.oldSda = s
             /\ c.state = 0 /\ c.byte = b.byte /\ c.byteCnt = 1
             /\ c.adr = b.byte /\ (c.dirOut <=> b.byte % 2 = 1)
             /\ c.mem = b.mem /\ c.ptr = b.ptr
<1>1. PICK l \in Buses :
        /\ Pulse(b, s) = SetLines(Clocked(l, s), 1, s)
        /\ l.state = b.state /\ l.byte = b.byte /\ l.byteCnt = b.byteCnt /\ l.dirOut = b.dirOut
        /\ l.adr = b.adr /\ l.mem = b.mem /\ l.ptr = b.ptr
  BY PulseLines
<1>2. PICK c : c = Clocked(l, s)
  OBVIOUS
<1>3. /\ c \in Buses
      /\ c.state = 0 /\ c.byte = l.byte /\ c.byteCnt = 1
      /\ c.adr = l.byte /\ (c.dirOut <=> l.byte % 2 = 1)
      /\ c.mem = l.mem /\ c.ptr = l.ptr
  BY <1>1, <1>2, ReceivesAddress
<1> QED BY <1>1, <1>2, <1>3, LinesAreSet DEF Line

LEMMA PulseTakesData ==
  ASSUME NEW b \in Buses, NEW s \in Line, ~b.dirOut, b.state = ACK, b.byteCnt # 0
  PROVE  LET c == Pulse(b, s)
         IN  /\ c \in Buses /\ c.oldScl = 1 /\ c.oldSda = s
             /\ c.state = 0 /\ c.byte = b.byte /\ c.byteCnt = IF b.byteCnt = 3 THEN 3 ELSE b.byteCnt + 1
             /\ c.adr = b.adr /\ c.dirOut = b.dirOut
             /\ c.oldOut = (IF Selected(b) THEN 0 ELSE 1)
             /\ ~Selected(b) => c.ptr = b.ptr
             /\ Selected(b) =>
                  /\ b.byteCnt = 1 => c.ptr = b.byte * Base
                  /\ b.byteCnt = 2 => c.ptr = (b.ptr - (b.ptr % Base)) + b.byte
                  /\ b.byteCnt = 3 => c.ptr = NextInPage(b.ptr)
             /\ c.mem = IF WouldStore(b) THEN [b.mem EXCEPT ![b.ptr] = b.byte] ELSE b.mem
<1>1. PICK l \in Buses :
        /\ Pulse(b, s) = SetLines(Clocked(l, s), 1, s)
        /\ l.state = b.state /\ l.byte = b.byte /\ l.byteCnt = b.byteCnt /\ l.dirOut = b.dirOut
        /\ l.adr = b.adr /\ l.mem = b.mem /\ l.ptr = b.ptr
        /\ (Selected(l) <=> Selected(b)) /\ (WouldStore(l) <=> WouldStore(b))
  BY PulseLines
<1>2. PICK c : c = Clocked(l, s)
  OBVIOUS
<1>3. /\ c \in Buses
      /\ c.state = 0 /\ c.byte = l.byte /\ c.byteCnt = IF l.byteCnt = 3 THEN 3 ELSE l.byteCnt + 1
      /\ c.adr = l.adr /\ c.dirOut = l.dirOut
      /\ c.oldOut = (IF Selected(l) THEN 0 ELSE 1)
      /\ ~Selected(l) => c.ptr = l.ptr
      /\ Selected(l) =>
           /\ l.byteCnt = 1 => c.ptr = l.byte * Base
           /\ l.byteCnt = 2 => c.ptr = (l.ptr - (l.ptr % Base)) + l.byte
           /\ l.byteCnt = 3 => c.ptr = NextInPage(l.ptr)
      /\ c.mem = IF WouldStore(l) THEN [l.mem EXCEPT ![l.ptr] = l.byte] ELSE l.mem
  BY <1>1, <1>2, ReceivesData
<1> QED BY <1>1, <1>2, <1>3, LinesAreSet DEF Line

LEMMA PulseSendsBit ==
  ASSUME NEW b \in Buses, NEW s \in Line, b.dirOut, b.state \in 0..(WIDTH - 1)
  PROVE  LET c == Pulse(b, s)
         IN  /\ c \in Buses /\ c.oldScl = 1 /\ c.oldSda = s /\ Fetched(b) \in Bytes
             /\ c.state = b.state + 1 /\ c.byte = (2 * Fetched(b)) % Base
             /\ c.oldOut = Fetched(b) \div (Base \div 2)
             /\ c.byteCnt = b.byteCnt /\ c.dirOut = b.dirOut /\ c.adr = b.adr /\ c.mem = b.mem
             /\ c.ptr = IF b.state = 0 /\ Selected(b) THEN (b.ptr + 1) % SIZE ELSE b.ptr
<1>1. PICK l \in Buses :
        /\ Pulse(b, s) = SetLines(Clocked(l, s), 1, s)
        /\ l.state = b.state /\ l.byte = b.byte /\ l.byteCnt = b.byteCnt /\ l.dirOut = b.dirOut
        /\ l.adr = b.adr /\ l.mem = b.mem /\ l.ptr = b.ptr
        /\ (Selected(l) <=> Selected(b)) /\ Fetched(l) = Fetched(b)
  BY PulseLines
<1>2. PICK c : c = Clocked(l, s)
  OBVIOUS
<1>3. /\ c \in Buses /\ Fetched(l) \in Bytes
      /\ c.state = l.state + 1 /\ c.byte = (2 * Fetched(l)) % Base
      /\ c.oldOut = Fetched(l) \div (Base \div 2)
      /\ c.byteCnt = l.byteCnt /\ c.dirOut = l.dirOut /\ c.adr = l.adr /\ c.mem = l.mem
      /\ c.ptr = IF l.state = 0 /\ Selected(l) THEN (l.ptr + 1) % SIZE ELSE l.ptr
  BY <1>1, <1>2, SendsBit
<1>4. PICK d : d = SetLines(c, 1, s)
  OBVIOUS
<1>5. /\ d \in Buses /\ d.oldScl = 1 /\ d.oldSda = s /\ d.oldOut = c.oldOut
      /\ d.state = c.state /\ d.byte = c.byte /\ d.byteCnt = c.byteCnt /\ d.dirOut = c.dirOut
      /\ d.adr = c.adr /\ d.mem = c.mem /\ d.ptr = c.ptr
  BY <1>3, <1>4, LinesAreSet DEF Line
<1>6. PICK x, o, n, q : /\ x = Fetched(b) /\ n = (2 * x) % Base /\ o = x \div (Base \div 2)
                        /\ q = (b.ptr + 1) % SIZE
  OBVIOUS
<1>7. /\ x \in Bytes /\ c.byte = n /\ c.oldOut = o
      /\ c.ptr = IF b.state = 0 /\ Selected(b) THEN q ELSE b.ptr
  BY <1>1, <1>3, <1>6
<1>8. d = Pulse(b, s)
  BY <1>1, <1>2, <1>4
<1>9. /\ d.state = b.state + 1 /\ d.byteCnt = b.byteCnt /\ d.dirOut = b.dirOut
      /\ d.adr = b.adr /\ d.mem = b.mem
  BY <1>1, <1>3, <1>5
<1>10. d.byte = n /\ d.oldOut = o /\ d.ptr = IF b.state = 0 /\ Selected(b) THEN q ELSE b.ptr
  BY <1>5, <1>7
<1> QED BY <1>5, <1>6, <1>7, <1>8, <1>9, <1>10

LEMMA PulseSendsNext ==
  ASSUME NEW b \in Buses, NEW s \in Line, b.dirOut, b.state = ACK
  PROVE  LET c == Pulse(b, s)
         IN  /\ c \in Buses /\ c.oldScl = 1 /\ c.oldSda = s
             /\ c.state = 0 /\ c.dirOut = b.dirOut /\ c.adr = b.adr
             /\ c.mem = b.mem /\ c.ptr = b.ptr
<1>1. PICK l \in Buses :
        /\ Pulse(b, s) = SetLines(Clocked(l, s), 1, s)
        /\ l.state = b.state /\ l.byte = b.byte /\ l.byteCnt = b.byteCnt /\ l.dirOut = b.dirOut
        /\ l.adr = b.adr /\ l.mem = b.mem /\ l.ptr = b.ptr
  BY PulseLines
<1>2. PICK c : c = Clocked(l, s)
  OBVIOUS
<1>3. /\ c \in Buses
      /\ c.state = 0 /\ c.dirOut = l.dirOut /\ c.adr = l.adr
      /\ c.mem = l.mem /\ c.ptr = l.ptr
  BY <1>1, <1>2, SendsNext
<1>4. PICK d : d = SetLines(c, 1, s)
  OBVIOUS
<1>5. /\ d \in Buses /\ d.oldScl = 1 /\ d.oldSda = s /\ d.oldOut = c.oldOut
      /\ d.state = c.state /\ d.byte = c.byte /\ d.byteCnt = c.byteCnt /\ d.dirOut = c.dirOut
      /\ d.adr = c.adr /\ d.mem = c.mem /\ d.ptr = c.ptr
  BY <1>3, <1>4, LinesAreSet DEF Line
<1>6. d = Pulse(b, s)
  BY <1>1, <1>2, <1>4
<1>7. /\ d.state = 0 /\ d.dirOut = b.dirOut /\ d.adr = b.adr
      /\ d.mem = b.mem /\ d.ptr = b.ptr
  BY <1>1, <1>3, <1>5
<1> QED BY <1>5, <1>6, <1>7

LEMMA PulseIdle ==
  ASSUME NEW b \in Buses, NEW s \in Line, b.state = IDLE
  PROVE  LET c == Pulse(b, s)
         IN  c \in Buses /\ c.oldScl = 1 /\ c.oldSda = s /\ c.mem = b.mem
<1>1. PICK l \in Buses :
        Pulse(b, s) = SetLines(Clocked(l, s), 1, s) /\ l.state = b.state /\ l.mem = b.mem
  BY PulseLines
<1>2. Clocked(l, s) = l
  BY <1>1 DEF Clocked
<1> QED BY <1>1, <1>2, LinesAreSet DEF Line

(* In any state, the memory only changes as a byte of data is acknowledged. *)
LEMMA PulseMemory ==
  ASSUME NEW b \in Buses, NEW s \in Line
  PROVE  LET c == Pulse(b, s)
         IN  /\ c \in Buses /\ c.oldScl = 1 /\ c.oldSda = s
             /\ c.mem = IF WouldStore(b) THEN [b.mem EXCEPT ![b.ptr] = b.byte] ELSE b.mem
<1>1. b.state \in -1..WIDTH /\ b.dirOut \in BOOLEAN /\ WIDTH # -1 /\ WIDTH \in Nat
  BY BusType, Width
<1>2. CASE b.state = IDLE
  BY <1>1, <1>2, PulseIdle DEF WouldStore, IDLE, ACK
<1>3. CASE b.state \in 0..(WIDTH - 1) /\ b.dirOut
  BY <1>1, <1>3, PulseSendsBit DEF WouldStore, ACK
<1>4. CASE b.state \in 0..(WIDTH - 1) /\ ~b.dirOut
  BY <1>1, <1>4, PulseTakesBit DEF WouldStore, ACK
<1>5. CASE b.state = ACK /\ b.dirOut
  BY <1>5, PulseSendsNext DEF WouldStore
<1>6. CASE b.state = ACK /\ ~b.dirOut /\ b.byteCnt = 0
  BY <1>6, PulseTakesAddress DEF WouldStore
<1>7. CASE b.state = ACK /\ ~b.dirOut /\ b.byteCnt # 0
  BY <1>7, PulseTakesData
<1>8. b.state = IDLE \/ b.state \in 0..(WIDTH - 1) \/ b.state = ACK
  BY <1>1 DEF IDLE, ACK
<1> QED BY <1>1, <1>2, <1>3, <1>4, <1>5, <1>6, <1>7, <1>8

LEMMA StartIs ==
  ASSUME NEW b \in Buses
  PROVE  LET c == Handle(Pulse(b, 1), 1, 0)
         IN  /\ c \in Buses
             /\ c.state = 0 /\ c.byteCnt = 0 /\ ~c.dirOut
             /\ c.mem = Pulse(b, 1).mem /\ c.ptr = Pulse(b, 1).ptr /\ c.adr = Pulse(b, 1).adr
<1>1. PICK p \in Buses : p = Pulse(b, 1) /\ p.oldScl = 1 /\ p.oldSda = 1
  BY PulseMemory DEF Line
<1>2. StartSeen(p, 1, 0) /\ ~StopSeen(p, 1, 0) /\ ~ClockUp(p, 1, 0)
  BY <1>1 DEF StartSeen, StopSeen, ClockUp
<1>3. Handle(p, 1, 0) = [Started(p) EXCEPT !.oldScl = 1, !.oldSda = 0]
  BY <1>2 DEF Handle
<1> DEFINE s == [p EXCEPT !.state = 0, !.byteCnt = 0, !.dirOut = FALSE, !.oldOut = 1]
<1>4. Started(p) = s
  BY DEF Started
<1>5. /\ s \in Buses /\ s.state = 0 /\ s.byteCnt = 0 /\ ~s.dirOut
      /\ s.mem = p.mem /\ s.ptr = p.ptr /\ s.adr = p.adr
  <2>1. PICK z \in -1..WIDTH : z = 0
    BY Width
  <2>2. PICK n \in 0..3, o \in Line : n = 0 /\ o = 1
    BY DEF Line
  <2>3. s = [p EXCEPT !.state = z, !.byteCnt = n, !.dirOut = FALSE, !.oldOut = o]
    BY <2>1, <2>2
  <2> HIDE DEF s
  <2> QED BY <2>1, <2>2, <2>3 DEF Buses
<1> HIDE DEF s
<1>6. Handle(p, 1, 0) = SetLines(s, 1, 0)
  BY <1>3, <1>4 DEF SetLines
<1>7. PICK c : c = SetLines(s, 1, 0)
  OBVIOUS
<1>8. /\ c \in Buses /\ c.state = s.state /\ c.byteCnt = s.byteCnt /\ c.dirOut = s.dirOut
      /\ c.mem = s.mem /\ c.ptr = s.ptr /\ c.adr = s.adr
  BY <1>5, <1>7, LinesAreSet DEF Line
<1> QED BY <1>1, <1>5, <1>6, <1>7, <1>8

LEMMA StopIs ==
  ASSUME NEW b \in Buses
  PROVE  LET c == Handle(Pulse(b, 0), 1, 1)
         IN  c \in Buses /\ c.state = IDLE /\ c.mem = Pulse(b, 0).mem
<1>1. PICK p \in Buses : p = Pulse(b, 0) /\ p.oldScl = 1 /\ p.oldSda = 0
  BY PulseMemory DEF Line
<1>2. StopSeen(p, 1, 1) /\ ~StartSeen(p, 1, 1) /\ ~ClockUp(p, 1, 1)
  BY <1>1 DEF StartSeen, StopSeen, ClockUp
<1> DEFINE s == [p EXCEPT !.state = IDLE, !.oldOut = 1]
<1>3. Handle(p, 1, 1) = SetLines(s, 1, 1)
  BY <1>2 DEF Handle, SetLines
<1>4. s \in Buses /\ s.state = IDLE /\ s.mem = p.mem
  <2>1. PICK z \in -1..WIDTH, o \in Line : z = IDLE /\ o = 1
    BY Width DEF Line, IDLE
  <2>2. s = [p EXCEPT !.state = z, !.oldOut = o]
    BY <2>1
  <2> HIDE DEF s
  <2> QED BY <2>1, <2>2 DEF Buses
<1> HIDE DEF s
<1>5. PICK c : c = SetLines(s, 1, 1)
  OBVIOUS
<1>6. c \in Buses /\ c.state = s.state /\ c.mem = s.mem
  BY <1>4, <1>5, LinesAreSet DEF Line
<1> QED BY <1>1, <1>3, <1>4, <1>5, <1>6

-----------------------------------------------------------------------------
(* The program. *)
LEMMA StoreIs ==
  ASSUME NEW m \in [Cells -> Bytes]
  PROVE  /\ Store(m, {}) = m
         /\ \A a \in Cells, x \in Bytes : Store(m, {<<a, x>>}) = [m EXCEPT ![a] = x]
<1>1. Store(m, {}) = m
  BY DEF Store
<1>2. ASSUME NEW a \in Cells, NEW x \in Bytes
      PROVE  Store(m, {<<a, x>>}) = [m EXCEPT ![a] = x]
  <2> DEFINE stores == {<<a, x>>}
  <2>1. \A c : (\E p \in stores : p[1] = c) <=> c = a
    OBVIOUS
  <2>2. (CHOOSE p \in stores : p[1] = a) = <<a, x>>
    OBVIOUS
  <2>3. (CHOOSE p \in stores : p[1] = a)[2] = x
    BY <2>2
  <2> HIDE DEF stores
  <2>4. Store(m, stores) = [c \in Cells |-> IF c = a THEN x ELSE m[c]]
    BY <2>1, <2>3 DEF Store
  <2>5. [m EXCEPT ![a] = x] = [c \in Cells |-> IF c = a THEN x ELSE m[c]]
    OBVIOUS
  <2> QED BY <2>4, <2>5 DEF stores
<1> QED BY <1>1, <1>2

LEMMA TransactionType ==
  ASSUME NEW t \in Transactions
  PROVE  /\ t.dev \in 0..(Base \div 2 - 1) /\ t.kind \in {"write", "read"} /\ t.at \in Cells
         /\ t.data \in Seq(Bytes) /\ Len(t.data) \in Nat /\ t # NoTransaction
         /\ \A i \in 1..Len(t.data) : t.data[i] \in Bytes
<1>1. t \in [dev : 0..(Base \div 2 - 1), kind : {"write", "read"}, at : Cells, data : Seq(Bytes)]
  BY MasterAssumption
<1>2. t.kind # "none" /\ t.data \in Seq(Bytes)
  BY <1>1
<1>3. Len(t.data) \in Nat /\ \A i \in 1..Len(t.data) : t.data[i] \in Bytes
  BY <1>2
<1> QED BY <1>1, <1>2, <1>3 DEF NoTransaction

(* The frames of a transaction, one by one. *)
LEMMA WriteFrames ==
  ASSUME NEW t \in Transactions, t.kind = "write"
  PROVE  /\ Len(Frames(t)) = 5 + Len(t.data)
         /\ Frames(t)[1] = Condition("start") /\ Frames(t)[2] = Send(2 * t.dev)
         /\ Frames(t)[3] = Send(t.at \div Base) /\ Frames(t)[4] = Send(t.at % Base)
         /\ \A f \in 5..(4 + Len(t.data)) : Frames(t)[f] = Send(t.data[f - 4])
         /\ Frames(t)[5 + Len(t.data)] = Condition("stop")
<1>1. PICK n \in Nat : n = Len(t.data)
  BY TransactionType
<1> DEFINE A == Address(t)  D == [i \in 1..n |-> Send(t.data[i])]  S == <<Condition("stop")>>
<1>2. Frames(t) = A \o D \o S
  BY <1>1 DEF Frames, Body
<1>3. /\ A = <<Condition("start"), Send(2 * t.dev), Send(t.at \div Base), Send(t.at % Base)>>
      /\ Len(S) = 1 /\ S[1] = Condition("stop")
  BY DEF Address
<1>4. Len(D) = n /\ \A i \in 1..n : D[i] = Send(t.data[i])
  OBVIOUS
<1> DEFINE AnyFrame == {A[i] : i \in 1..4} \cup {D[i] : i \in 1..n} \cup {S[1]}
<1>5. A \in Seq(AnyFrame) /\ D \in Seq(AnyFrame) /\ S \in Seq(AnyFrame)
  BY <1>3, <1>4
<1>6. Len(A) = 4
  BY <1>3
<1> HIDE DEF D, S, A, AnyFrame
<1>7. PICK H \in Seq(AnyFrame) : H = A \o D
  BY <1>5, ConcatProperties
<1>8. /\ Len(H) = 4 + n
      /\ \A i \in 1..4 : H[i] = A[i]
      /\ \A i \in 5..(4 + n) : H[i] = D[i - 4]
  <2>1. \A i \in 1..(Len(A) + Len(D)) : H[i] = IF i <= Len(A) THEN A[i] ELSE D[i - Len(A)]
    BY <1>5, <1>7, ConcatProperties
  <2>2. Len(H) = Len(A) + Len(D)
    BY <1>5, <1>7, ConcatProperties
  <2> QED BY <1>4, <1>6, <2>1, <2>2
<1>9. /\ Len(H \o S) = 5 + n
      /\ \A i \in 1..(4 + n) : (H \o S)[i] = H[i]
      /\ (H \o S)[5 + n] = S[1]
  <2>1. \A i \in 1..(Len(H) + Len(S)) : (H \o S)[i] = IF i <= Len(H) THEN H[i] ELSE S[i - Len(H)]
    BY <1>5, <1>7, ConcatProperties
  <2>2. Len(H \o S) = Len(H) + Len(S)
    BY <1>5, <1>7, ConcatProperties
  <2>3. Len(H) = 4 + n /\ Len(S) = 1 /\ n \in Nat
    BY <1>3, <1>8
  <2> DEFINE q == H \o S
  <2>4. Len(q) = 5 + n /\ \A i \in 1..(5 + n) : q[i] = IF i <= 4 + n THEN H[i] ELSE S[i - (4 + n)]
    BY <2>1, <2>2, <2>3
  <2> HIDE DEF q
  <2>5. /\ Len(q) = 5 + n
        /\ \A i \in 1..(4 + n) : q[i] = H[i]
        /\ q[5 + n] = S[1]
    BY <2>3, <2>4
  <2> QED BY <2>5 DEF q
<1>10. \A f \in 5..(4 + n) : f - 4 \in 1..n
  OBVIOUS
<1> QED BY <1>1, <1>2, <1>3, <1>4, <1>6, <1>7, <1>8, <1>9, <1>10

LEMMA ReadFrames ==
  ASSUME NEW t \in Transactions, t.kind = "read"
  PROVE  /\ Len(Frames(t)) = 7 + Len(t.data)
         /\ Frames(t)[1] = Condition("start") /\ Frames(t)[2] = Send(2 * t.dev)
         /\ Frames(t)[3] = Send(t.at \div Base) /\ Frames(t)[4] = Send(t.at % Base)
         /\ Frames(t)[5] = Condition("start") /\ Frames(t)[6] = Send(2 * t.dev + 1)
         /\ \A f \in 7..(6 + Len(t.data)) : Frames(t)[f] = Read
         /\ Frames(t)[7 + Len(t.data)] = Condition("stop")
<1>1. PICK n \in Nat : n = Len(t.data)
  BY TransactionType
<1> DEFINE A == Address(t)
           B == <<Condition("start"), Send(2 * t.dev + 1)>>
           D == [i \in 1..n |-> Read]
           S == <<Condition("stop")>>
<1>2. Frames(t) = A \o (B \o D) \o S
  <2>1. t.kind # "write"
    OBVIOUS
  <2> QED BY <1>1, <2>1 DEF Frames, Body
<1>3. /\ A = <<Condition("start"), Send(2 * t.dev), Send(t.at \div Base), Send(t.at % Base)>>
      /\ Len(S) = 1 /\ S[1] = Condition("stop")
      /\ Len(B) = 2 /\ B[1] = Condition("start") /\ B[2] = Send(2 * t.dev + 1)
  BY DEF Address
<1>4. Len(D) = n /\ \A i \in 1..n : D[i] = Read
  OBVIOUS
<1> DEFINE AnyFrame == {A[i] : i \in 1..4} \cup {B[1], B[2]} \cup {Read} \cup {S[1]}
<1>5. A \in Seq(AnyFrame) /\ B \in Seq(AnyFrame) /\ D \in Seq(AnyFrame) /\ S \in Seq(AnyFrame)
  <2>1. A \in Seq(AnyFrame)
    BY <1>3
  <2>2. B \in Seq(AnyFrame) /\ S \in Seq(AnyFrame)
    OBVIOUS
  <2>3. D \in Seq(AnyFrame)
    OBVIOUS
  <2> QED BY <2>1, <2>2, <2>3
<1>6. Len(A) = 4
  BY <1>3
<1> HIDE DEF D, S, A, B, AnyFrame
<1>7. PICK E \in Seq(AnyFrame) : E = B \o D
  BY <1>5, ConcatProperties
<1>8. /\ Len(E) = 2 + n /\ E[1] = B[1] /\ E[2] = B[2]
      /\ \A i \in 3..(2 + n) : E[i] = D[i - 2]
  <2>1. \A i \in 1..(Len(B) + Len(D)) : E[i] = IF i <= Len(B) THEN B[i] ELSE D[i - Len(B)]
    BY <1>5, <1>7, ConcatProperties
  <2>2. Len(E) = Len(B) + Len(D)
    BY <1>5, <1>7, ConcatProperties
  <2>3. Len(E) = 2 + n
    BY <1>3, <1>4, <2>2
  <2>4. \A i \in 1..(2 + n) : E[i] = IF i <= 2 THEN B[i] ELSE D[i - 2]
    BY <1>3, <1>4, <2>1
  <2>5. E[1] = B[1] /\ E[2] = B[2]
    BY <2>4
  <2>6. \A i \in 3..(2 + n) : E[i] = D[i - 2]
    BY <2>4
  <2> QED BY <2>3, <2>5, <2>6
<1>9. PICK H \in Seq(AnyFrame) : H = A \o E
  BY <1>5, <1>7, ConcatProperties
<1>10. /\ Len(H) = 6 + n
       /\ \A i \in 1..4 : H[i] = A[i]
       /\ \A i \in 5..(6 + n) : H[i] = E[i - 4]
  <2>1. \A i \in 1..(Len(A) + Len(E)) : H[i] = IF i <= Len(A) THEN A[i] ELSE E[i - Len(A)]
    BY <1>5, <1>7, <1>9, ConcatProperties
  <2>2. Len(H) = Len(A) + Len(E)
    BY <1>5, <1>7, <1>9, ConcatProperties
  <2> QED BY <1>6, <1>8, <2>1, <2>2
<1>11. /\ Len(H \o S) = 7 + n
       /\ \A i \in 1..(6 + n) : (H \o S)[i] = H[i]
       /\ (H \o S)[7 + n] = S[1]
  <2>1. \A i \in 1..(Len(H) + Len(S)) : (H \o S)[i] = IF i <= Len(H) THEN H[i] ELSE S[i - Len(H)]
    BY <1>5, <1>9, ConcatProperties
  <2>2. Len(H \o S) = Len(H) + Len(S)
    BY <1>5, <1>9, ConcatProperties
  <2> QED BY <1>3, <1>10, <2>1, <2>2
<1>12. PICK F : F = Frames(t) /\ F = H \o S
  BY <1>2, <1>7, <1>9
<1>13. F[5] = B[1] /\ F[6] = B[2]
  BY <1>8, <1>10, <1>11, <1>12
<1>14. \A f \in 7..(6 + n) : F[f] = Read
  <2> TAKE f \in 7..(6 + n)
  <2>1. F[f] = H[f] /\ H[f] = E[f - 4]
    BY <1>10, <1>11, <1>12
  <2>2. PICK i \in 3..(2 + n) : i = f - 4
    OBVIOUS
  <2>3. E[i] = D[i - 2] /\ i - 2 \in 1..n
    BY <1>8
  <2> QED BY <1>4, <2>1, <2>2, <2>3
<1>15. F[1] = A[1] /\ F[2] = A[2] /\ F[3] = A[3] /\ F[4] = A[4]
  BY <1>10, <1>11, <1>12
<1> QED BY <1>1, <1>3, <1>11, <1>12, <1>13, <1>14, <1>15

(* Frames in which the program sends a byte, and in which it reads one.     *)
Sends(t) == 2..4 \cup (IF t.kind = "write" THEN 5..(4 + Len(t.data)) ELSE {6})
Reads(t) == IF t.kind = "write" THEN {} ELSE 7..(6 + Len(t.data))

LEMMA FrameKinds ==
  ASSUME NEW t \in Transactions
  PROVE  /\ Len(Frames(t)) \in Nat /\ Len(Frames(t)) >= 5
         /\ Frames(t)[1].kind = "start" /\ Frames(t)[Len(Frames(t))].kind = "stop"
         /\ \A f \in Sends(t) :
              /\ f \in Nat /\ f >= 2 /\ f < Len(Frames(t))
              /\ Frames(t)[f].kind = "send" /\ Frames(t)[f].byte \in Bytes
         /\ \A f \in Reads(t) :
              f \in Nat /\ f >= 7 /\ f < Len(Frames(t)) /\ Frames(t)[f].kind = "read"
         /\ t.kind = "read" => Frames(t)[5].kind = "start" /\ 5 < Len(Frames(t))
<1>1. PICK n \in Nat : n = Len(t.data)
  BY TransactionType
<1>2. 2 * t.dev \in Bytes /\ 2 * t.dev + 1 \in Bytes /\ t.at \div Base \in Bytes /\ t.at % Base \in Bytes
  BY TransactionType, DeviceByte, TwoBytes
<1>3. CASE t.kind = "write"
  <2>1. /\ Len(Frames(t)) = 5 + n
        /\ Frames(t)[1] = Condition("start") /\ Frames(t)[2] = Send(2 * t.dev)
        /\ Frames(t)[3] = Send(t.at \div Base) /\ Frames(t)[4] = Send(t.at % Base)
        /\ \A f \in 5..(4 + n) : Frames(t)[f] = Send(t.data[f - 4])
        /\ Frames(t)[5 + n] = Condition("stop")
    BY <1>1, <1>3, WriteFrames
  <2>2. \A f \in 5..(4 + n) : t.data[f - 4] \in Bytes
    BY <1>1, TransactionType
  <2>3. Sends(t) = 2..4 \cup 5..(4 + n) /\ Reads(t) = {}
    BY <1>1, <1>3 DEF Sends, Reads
  <2>4. ASSUME NEW f \in Sends(t)
        PROVE  Frames(t)[f].kind = "send" /\ Frames(t)[f].byte \in Bytes
    <3>1. CASE f \in 5..(4 + n)
      <4>1. Frames(t)[f] = Send(t.data[f - 4]) /\ t.data[f - 4] \in Bytes
        BY <2>1, <2>2, <3>1
      <4> QED BY <4>1 DEF Send
    <3>2. CASE f \in 2..4
      BY <1>2, <2>1, <3>2 DEF Send
    <3> QED BY <2>3, <3>1, <3>2
  <2>5. \A f \in Sends(t) : f \in Nat /\ f >= 2 /\ f < Len(Frames(t))
    BY <2>1, <2>3
  <2> QED BY <1>3, <2>1, <2>3, <2>4, <2>5 DEF Condition
<1>4. CASE t.kind = "read"
  <2>1. /\ Len(Frames(t)) = 7 + n
        /\ Frames(t)[1] = Condition("start") /\ Frames(t)[2] = Send(2 * t.dev)
        /\ Frames(t)[3] = Send(t.at \div Base) /\ Frames(t)[4] = Send(t.at % Base)
        /\ Frames(t)[5] = Condition("start") /\ Frames(t)[6] = Send(2 * t.dev + 1)
        /\ \A f \in 7..(6 + n) : Frames(t)[f] = Read
        /\ Frames(t)[7 + n] = Condition("stop")
    BY <1>1, <1>4, ReadFrames
  <2>2. Sends(t) = 2..4 \cup {6} /\ Reads(t) = 7..(6 + n)
    BY <1>1, <1>4 DEF Sends, Reads
  <2>3. ASSUME NEW f \in Sends(t)
        PROVE  Frames(t)[f].kind = "send" /\ Frames(t)[f].byte \in Bytes
    BY <1>2, <2>1, <2>2 DEF Send
  <2>4. \A f \in Reads(t) : Frames(t)[f].kind = "read"
    BY <2>1, <2>2 DEF Read
  <2>5. \A f \in Sends(t) : f \in Nat /\ f >= 2 /\ f < Len(Frames(t))
    BY <2>1, <2>2
  <2>6. \A f \in Reads(t) : f \in Nat /\ f >= 7 /\ f < Len(Frames(t))
    BY <2>1, <2>2
  <2> QED BY <2>1, <2>3, <2>4, <2>5, <2>6 DEF Condition
<1> QED BY <1>3, <1>4, TransactionType

(* The byte in a transaction, counted from the start condition before it.   *)
ByteNo(t, f) == IF f <= 4 THEN f - 2 ELSE IF t.kind = "write" THEN 3 ELSE 0

(* What the EEPROM has been told about the address before frame f.          *)
Addressed(t, f, b) ==
  /\ f >= 3 => b.adr = 2 * t.dev
  /\ t.dev = DEV =>
       /\ f = 4 => b.ptr = (t.at \div Base) * Base
       /\ f >= 5 => b.ptr = IF t.kind = "write" THEN WrapAt(t.at, f - 5) ELSE t.at

(* The bus after k bits of a frame.                                         *)
Sending(t, f, k, b) ==
  /\ f \in Sends(t) /\ k \in 0..WIDTH
  /\ b.state = k /\ ~b.dirOut /\ b.byteCnt = ByteNo(t, f)
  /\ Taken(b.byte, Frames(t)[f].byte, k) /\ Addressed(t, f, b)

Turning(t, f, k, b) ==
  t.kind = "read" /\ f = 5 /\ k = 0 /\ b.state = 0 /\ ~b.dirOut /\ Addressed(t, f, b)

(* The i-th byte a read is to deliver, counted from 0.                      *)
Wanted(t, i, m) == IF t.dev = DEV THEN m[(t.at + i) % SIZE] ELSE Base - 1

Reading(t, f, k, b, sh) ==
  /\ f \in Reads(t) /\ k \in 0..WIDTH
  /\ b.state = k /\ b.dirOut /\ b.adr = 2 * t.dev + 1
  /\ t.dev = DEV => b.ptr = (t.at + (f - 7 + (IF k = 0 THEN 0 ELSE 1))) % SIZE
  /\ k > 0 => b.byte = Remaining(Wanted(t, f - 7, b.mem), k)
  /\ sh = Wanted(t, f - 7, b.mem) \div Two[WIDTH - k]

Stopping(t, f, k, b) == f = Len(Frames(t)) /\ k = 0 /\ b.state = 0
Ended(t, f, k, b)    == f = Len(Frames(t)) + 1 /\ k = 0 /\ b.state = IDLE

Progress(t, f, k, b, sh) ==
  \/ sh = 0 /\ (Sending(t, f, k, b) \/ Turning(t, f, k, b) \/ Stopping(t, f, k, b) \/ Ended(t, f, k, b))
  \/ Reading(t, f, k, b, sh)

(* What a read has delivered.                                               *)
ReadSoFar(t, f, m, bytes) ==
  /\ bytes \in Seq(Bytes)
  /\ Len(bytes) = IF t.kind = "write" \/ f < 7 THEN 0
                  ELSE IF f <= 7 + Len(t.data) THEN f - 7 ELSE Len(t.data)
  /\ \A i \in 1..Len(bytes) : bytes[i] = Wanted(t, i - 1, m)

(* The program is at rest or has not got beyond its first start condition,  *)
(* or the bus is where the program is.                                      *)
AtStart == frame = 1 /\ bit = 0 /\ shift = 0 /\ got = <<>> /\ pending = Storing(bus)

Midway ==
  /\ tr \in Transactions /\ pending = {}
  /\ Progress(tr, frame, bit, bus, shift) /\ ReadSoFar(tr, frame, bus.mem, got)

EepromInv ==
  /\ bus \in Buses /\ believed = bus.mem
  /\ \/ tr \in Transactions \cup {NoTransaction} /\ AtStart
     \/ Midway

-----------------------------------------------------------------------------
(* What each step of the program does to the bus.                           *)

LEMMA RightDevice ==
  ASSUME NEW t \in Transactions, NEW b, b.adr = 2 * t.dev \/ b.adr = 2 * t.dev + 1
  PROVE  Selected(b) <=> t.dev = DEV
<1>1. (2 * t.dev) \div 2 = t.dev /\ (2 * t.dev + 1) \div 2 = t.dev
  BY TransactionType, DeviceByte
<1> QED BY <1>1 DEF Selected

LEMMA FrameType ==
  ASSUME NEW t \in Transactions, NEW f \in Sends(t)
  PROVE  f \in Nat /\ f >= 2 /\ ByteNo(t, f) \in 0..3 /\ Frames(t)[f].byte \in Bytes
<1>1. f \in Nat /\ f >= 2 /\ Frames(t)[f].byte \in Bytes
  BY FrameKinds
<1> QED BY <1>1 DEF ByteNo

LEMMA FirstStart ==
  ASSUME NEW t \in Transactions, NEW b \in Buses
  PROVE  Sending(t, 2, 0, Handle(Pulse(b, 1), 1, 0))
<1>1. PICK c \in Buses : /\ c = Handle(Pulse(b, 1), 1, 0)
                         /\ c.state = 0 /\ c.byteCnt = 0 /\ ~c.dirOut
  BY StartIs
<1>2. 2 \in Sends(t)
  BY DEF Sends
<1>3. Taken(c.byte, Frames(t)[2].byte, 0)
  BY <1>2, FrameType, TakenFirst, BusType
<1>4. ByteNo(t, 2) = 0 /\ Addressed(t, 2, c)
  BY DEF ByteNo, Addressed
<1>5. Sending(t, 2, 0, c)
  BY <1>1, <1>2, <1>3, <1>4, Width DEF Sending
<1> QED BY <1>1, <1>5

LEMMA SecondStart ==
  ASSUME NEW t \in Transactions, NEW b \in Buses, Turning(t, 5, 0, b)
  PROVE  LET c == Handle(Pulse(b, 1), 1, 0)
         IN  c \in Buses /\ c.mem = b.mem /\ Sending(t, 6, 0, c)
<1>1. t.kind = "read" /\ b.state = 0 /\ ~b.dirOut /\ Addressed(t, 5, b)
  BY DEF Turning
<1>2. 0 \in 0..(WIDTH - 1)
  BY Width
<1>3. PICK p : p = Pulse(b, 1) /\ p.adr = b.adr /\ p.mem = b.mem /\ p.ptr = b.ptr
  BY <1>1, <1>2, PulseTakesBit DEF Line
<1>4. PICK c \in Buses : /\ c = Handle(Pulse(b, 1), 1, 0)
                         /\ c.state = 0 /\ c.byteCnt = 0 /\ ~c.dirOut
                         /\ c.mem = p.mem /\ c.ptr = p.ptr /\ c.adr = p.adr
  BY <1>3, StartIs
<1>5. 6 \in Sends(t)
  BY <1>1 DEF Sends
<1>6. Taken(c.byte, Frames(t)[6].byte, 0)
  BY <1>5, FrameType, TakenFirst, BusType
<1>7. ByteNo(t, 6) = 0
  BY <1>1 DEF ByteNo
<1>8. Addressed(t, 6, c)
  BY <1>1, <1>3, <1>4 DEF Addressed
<1>9. Sending(t, 6, 0, c)
  BY <1>4, <1>5, <1>6, <1>7, <1>8, Width DEF Sending
<1> QED BY <1>3, <1>4, <1>9

LEMMA BitSent ==
  ASSUME NEW t \in Transactions, NEW f, NEW k \in 0..(WIDTH - 1), NEW b \in Buses,
         Sending(t, f, k, b)
  PROVE  LET c == Pulse(b, BitOf(Frames(t)[f].byte, k + 1))
         IN  c \in Buses /\ c.mem = b.mem /\ Sending(t, f, k + 1, c)
<1>1. /\ f \in Sends(t) /\ b.state = k /\ ~b.dirOut /\ b.byteCnt = ByteNo(t, f)
      /\ Taken(b.byte, Frames(t)[f].byte, k) /\ Addressed(t, f, b)
  BY DEF Sending
<1>2. PICK x \in Bytes : x = Frames(t)[f].byte
  BY <1>1, FrameType
<1>3. PICK s \in Line : s = BitOf(x, k + 1)
  BY <1>2, ABit DEF Line, Bytes
<1>4. PICK c \in Buses :
        /\ c = Pulse(b, s) /\ c.state = k + 1 /\ c.byte = (2 * b.byte + s) % Base
        /\ c.byteCnt = b.byteCnt /\ c.dirOut = b.dirOut /\ c.adr = b.adr
        /\ c.mem = b.mem /\ c.ptr = b.ptr
  BY <1>1, PulseTakesBit
<1>5. Taken(c.byte, x, k + 1)
  BY <1>1, <1>2, <1>3, <1>4, TakenNext, BusType
<1>6. Addressed(t, f, c)
  BY <1>1, <1>4 DEF Addressed
<1>7. k + 1 \in 0..WIDTH
  BY Width
<1>8. Sending(t, f, k + 1, c)
  BY <1>1, <1>2, <1>4, <1>5, <1>6, <1>7 DEF Sending
<1> QED BY <1>2, <1>3, <1>4, <1>8

LEMMA WantedType ==
  ASSUME NEW t \in Transactions, NEW i \in Nat, NEW m \in [Cells -> Bytes]
  PROVE  Wanted(t, i, m) \in Bytes
<1>1. (t.at + i) % SIZE \in Cells
  BY TransactionType, ReadNext
<1>2. Base - 1 \in Bytes
  BY Width DEF Bytes
<1> QED BY <1>1, <1>2 DEF Wanted

LEMMA BitRead ==
  ASSUME NEW t \in Transactions, NEW f, NEW k \in 0..(WIDTH - 1), NEW b \in Buses, NEW sh,
         Reading(t, f, k, b, sh)
  PROVE  LET c == Pulse(b, 1)
         IN  c \in Buses /\ c.mem = b.mem /\ Reading(t, f, k + 1, c, 2 * sh + PortBit(c))
<1>1. /\ f \in Reads(t) /\ b.state = k /\ b.dirOut /\ b.adr = 2 * t.dev + 1
      /\ sh = Wanted(t, f - 7, b.mem) \div Two[WIDTH - k]
  BY DEF Reading
<1>2. f \in Nat /\ f >= 7 /\ f - 7 \in Nat
  BY <1>1, FrameKinds
<1>3. PICK y \in Bytes : y = Wanted(t, f - 7, b.mem)
  BY <1>2, WantedType, BusType
<1>4. Fetched(b) = Remaining(y, k)
  <2>1. CASE k > 0
    BY <1>1, <1>3, <2>1 DEF Reading, Fetched
  <2>2. CASE k = 0
    <3>1. t.dev = DEV => b.ptr = (t.at + (f - 7)) % SIZE
      BY <1>2, <2>2 DEF Reading
    <3>2. Selected(b) <=> t.dev = DEV
      BY <1>1, RightDevice
    <3>3. Fetched(b) = y
      BY <1>1, <1>3, <2>2, <3>1, <3>2 DEF Fetched, Wanted
    <3> QED BY <2>2, <3>3, RestFirst
  <2> QED BY <2>1, <2>2, Width
<1>5. PICK c \in Buses :
        /\ c = Pulse(b, 1) /\ c.oldSda = 1
        /\ c.state = k + 1 /\ c.byte = (2 * Fetched(b)) % Base
        /\ c.oldOut = Fetched(b) \div (Base \div 2)
        /\ c.dirOut = b.dirOut /\ c.adr = b.adr /\ c.mem = b.mem
        /\ c.ptr = IF k = 0 /\ Selected(b) THEN (b.ptr + 1) % SIZE ELSE b.ptr
  <2>1. b.dirOut /\ b.state \in 0..(WIDTH - 1) /\ 1 \in Line
    BY <1>1 DEF Line
  <2>2. PICK c \in Buses : c = Pulse(b, 1)
    BY <2>1, PulseSendsBit
  <2>3. /\ c.oldSda = 1 /\ c.state = b.state + 1 /\ c.byte = (2 * Fetched(b)) % Base
        /\ c.oldOut = Fetched(b) \div (Base \div 2)
        /\ c.dirOut = b.dirOut /\ c.adr = b.adr /\ c.mem = b.mem
        /\ c.ptr = IF b.state = 0 /\ Selected(b) THEN (b.ptr + 1) % SIZE ELSE b.ptr
    <3> DEFINE d == Pulse(b, 1)
    <3>1. /\ d.oldSda = 1 /\ d.state = b.state + 1 /\ d.byte = (2 * Fetched(b)) % Base
          /\ d.oldOut = Fetched(b) \div (Base \div 2)
          /\ d.dirOut = b.dirOut /\ d.adr = b.adr /\ d.mem = b.mem
          /\ d.ptr = IF b.state = 0 /\ Selected(b) THEN (b.ptr + 1) % SIZE ELSE b.ptr
      BY <2>1, PulseSendsBit
    <3> HIDE DEF d
    <3> QED BY <2>2, <3>1 DEF d
  <2>4. b.state = k
    BY <1>1
  <2> QED BY <2>2, <2>3, <2>4
<1>6. c.byte = Remaining(y, k + 1) /\ c.oldOut = BitOf(y, k + 1)
  BY <1>4, <1>5, RestNext
<1>7. PortBit(c) = BitOf(y, k + 1)
  <2>1. BitOf(y, k + 1) \in {0, 1}
    BY ABit DEF Bytes
  <2> QED BY <1>5, <1>6, <2>1 DEF PortBit
<1>8. 2 * sh + PortBit(c) = y \div Two[WIDTH - (k + 1)]
  <2>1. y \div Two[WIDTH - (k + 1)] = 2 * (y \div Two[WIDTH - k]) + BitOf(y, k + 1)
    BY ABit DEF Bytes
  <2> QED BY <1>1, <1>3, <1>7, <2>1
<1>9. t.dev = DEV => c.ptr = (t.at + ((f - 7) + 1)) % SIZE
  <2> SUFFICES ASSUME t.dev = DEV
               PROVE  c.ptr = (t.at + ((f - 7) + 1)) % SIZE
    OBVIOUS
  <2>1. Selected(b)
    BY <1>1, RightDevice
  <2>2. CASE k = 0
    <3>1. b.ptr = (t.at + (f - 7)) % SIZE
      BY <1>2, <2>2 DEF Reading
    <3>2. c.ptr = (b.ptr + 1) % SIZE
      BY <1>5, <2>1, <2>2
    <3>3. (((t.at + (f - 7)) % SIZE) + 1) % SIZE = (t.at + ((f - 7) + 1)) % SIZE
      BY <1>2, TransactionType, ReadNext
    <3> QED BY <3>1, <3>2, <3>3
  <2>3. CASE k # 0
    BY <1>5, <2>3 DEF Reading
  <2> QED BY <2>2, <2>3
<1>10. Reading(t, f, k + 1, c, 2 * sh + PortBit(c))
  <2>1. k + 1 \in 0..WIDTH /\ k + 1 # 0
    BY Width
  <2>2. Wanted(t, f - 7, c.mem) = y
    BY <1>3, <1>5
  <2> QED BY <1>1, <1>5, <1>6, <1>8, <1>9, <2>1, <2>2 DEF Reading
<1> QED BY <1>5, <1>10

(* The bytes of the address.                                                *)
LEMMA SentIs ==
  ASSUME NEW x
  PROVE  Send(x).kind = "send" /\ Send(x).byte = x
BY DEF Send

LEMMA AddressBytes ==
  ASSUME NEW t \in Transactions
  PROVE  /\ Frames(t)[2].byte = 2 * t.dev
         /\ Frames(t)[3].byte = t.at \div Base /\ Frames(t)[4].byte = t.at % Base
         /\ t.kind = "read" => Frames(t)[6].byte = 2 * t.dev + 1
<1>1. PICK a, b, c, d : a = 2 * t.dev /\ b = t.at \div Base /\ c = t.at % Base /\ d = 2 * t.dev + 1
  OBVIOUS
<1>2. Frames(t)[2] = Send(a) /\ Frames(t)[3] = Send(b) /\ Frames(t)[4] = Send(c)
  BY <1>1, WriteFrames, ReadFrames, TransactionType
<1>3. t.kind = "read" => Frames(t)[6] = Send(d)
  BY <1>1, ReadFrames
<1>4. Frames(t)[2].byte = a /\ Frames(t)[3].byte = b /\ Frames(t)[4].byte = c
  BY <1>2, SentIs
<1>5. t.kind = "read" => Frames(t)[6].byte = d
  BY <1>3, SentIs
<1> QED BY <1>1, <1>4, <1>5

(* The frame after a byte that was sent.                                    *)
LEMMA NextSends ==
  ASSUME NEW t \in Transactions
  PROVE  /\ 3 \in Sends(t) /\ 4 \in Sends(t)
         /\ t.kind = "write" => \A f \in Sends(t) :
              /\ f >= 5 => f - 5 \in Nat
              /\ f >= 4 => f + 1 \in Sends(t) \/ f + 1 = Len(Frames(t))
         /\ t.kind = "read" => 7 \in Reads(t) \/ 7 = Len(Frames(t))
         /\ \A f \in Reads(t) : f + 1 \in Reads(t) \/ f + 1 = Len(Frames(t))
<1>1. PICK n \in Nat : n = Len(t.data)
  BY TransactionType
<1>2. CASE t.kind = "write"
  <2>1. Len(Frames(t)) = 5 + n /\ Sends(t) = 2..4 \cup 5..(4 + n) /\ Reads(t) = {}
    BY <1>1, <1>2, WriteFrames DEF Sends, Reads
  <2> QED BY <1>2, <2>1
<1>3. CASE t.kind = "read"
  <2>1. Len(Frames(t)) = 7 + n /\ Sends(t) = 2..4 \cup {6} /\ Reads(t) = 7..(6 + n)
    BY <1>1, <1>3, ReadFrames DEF Sends, Reads
  <2> QED BY <1>3, <2>1
<1> QED BY <1>2, <1>3, TransactionType

LEMMA WholeByte ==
  ASSUME NEW t \in Transactions, NEW f, NEW b \in Buses, Sending(t, f, WIDTH, b)
  PROVE  /\ b.byte = Frames(t)[f].byte /\ b.state = ACK /\ ~b.dirOut
         /\ f \in Sends(t) /\ b.byteCnt = ByteNo(t, f) /\ Addressed(t, f, b)
<1>1. f \in Sends(t) /\ Taken(b.byte, Frames(t)[f].byte, WIDTH)
  BY DEF Sending
<1>2. b.byte = Frames(t)[f].byte
  BY <1>1, FrameType, BusType, TakenAll
<1> QED BY <1>2 DEF Sending, ACK

LEMMA DeviceSent ==
  ASSUME NEW t \in Transactions, NEW b \in Buses, Sending(t, 2, WIDTH, b)
  PROVE  LET c == Pulse(b, 1)
         IN  c \in Buses /\ c.mem = b.mem /\ Sending(t, 3, 0, c)
<1>1. b.byte = 2 * t.dev /\ b.state = ACK /\ ~b.dirOut /\ b.byteCnt = 0
  <2>1. Frames(t)[2].byte = 2 * t.dev
    BY AddressBytes
  <2> QED BY <2>1, WholeByte DEF ByteNo
<1>2. PICK c \in Buses :
        /\ c = Pulse(b, 1) /\ c.state = 0 /\ c.byteCnt = 1
        /\ c.adr = b.byte /\ (c.dirOut <=> b.byte % 2 = 1) /\ c.mem = b.mem
  BY <1>1, PulseTakesAddress DEF Line
<1>3. ~c.dirOut
  BY <1>1, <1>2, TransactionType, DeviceByte
<1>4. 3 \in Sends(t) /\ Taken(c.byte, Frames(t)[3].byte, 0)
  BY NextSends, FrameType, TakenFirst, BusType
<1>5. ByteNo(t, 3) = 1 /\ Addressed(t, 3, c)
  BY <1>1, <1>2 DEF ByteNo, Addressed
<1>6. Sending(t, 3, 0, c)
  BY <1>2, <1>3, <1>4, <1>5, Width DEF Sending
<1> QED BY <1>2, <1>6

LEMMA HighSent ==
  ASSUME NEW t \in Transactions, NEW b \in Buses, Sending(t, 3, WIDTH, b)
  PROVE  LET c == Pulse(b, 1)
         IN  c \in Buses /\ c.mem = b.mem /\ Sending(t, 4, 0, c)
<1>1. /\ b.byte = t.at \div Base /\ b.state = ACK /\ ~b.dirOut /\ b.byteCnt = 1
      /\ b.adr = 2 * t.dev
  <2>1. Frames(t)[3].byte = t.at \div Base
    BY AddressBytes
  <2> QED BY <2>1, WholeByte DEF ByteNo, Addressed
<1>2. (Selected(b) <=> t.dev = DEV) /\ ~WouldStore(b)
  BY <1>1, RightDevice DEF WouldStore
<1>3. PICK c \in Buses :
        /\ c = Pulse(b, 1) /\ c.state = 0 /\ c.byteCnt = 2
        /\ c.adr = b.adr /\ c.dirOut = b.dirOut /\ c.mem = b.mem
        /\ Selected(b) => c.ptr = b.byte * Base
  <2>1. ~b.dirOut /\ b.state = ACK /\ b.byteCnt # 0 /\ 1 \in Line
    BY <1>1 DEF Line
  <2>2. PICK c \in Buses : c = Pulse(b, 1)
    BY <2>1, PulseTakesData
  <2>3. /\ c.state = 0 /\ c.byteCnt = IF b.byteCnt = 3 THEN 3 ELSE b.byteCnt + 1
        /\ c.adr = b.adr /\ c.dirOut = b.dirOut
        /\ c.mem = IF WouldStore(b) THEN [b.mem EXCEPT ![b.ptr] = b.byte] ELSE b.mem
    BY <2>1, <2>2, PulseTakesData
  <2>4. Selected(b) /\ b.byteCnt = 1 => c.ptr = b.byte * Base
    BY <2>1, <2>2, PulseTakesData
  <2>5. b.byteCnt = 1
    BY <1>1
  <2>6. c.mem = b.mem
    BY <1>2, <2>3
  <2> QED BY <2>2, <2>3, <2>4, <2>5, <2>6
<1>4. 4 \in Sends(t) /\ Taken(c.byte, Frames(t)[4].byte, 0)
  BY NextSends, FrameType, TakenFirst, BusType
<1>5. ByteNo(t, 4) = 2 /\ Addressed(t, 4, c)
  BY <1>1, <1>2, <1>3 DEF ByteNo, Addressed
<1>6. Sending(t, 4, 0, c)
  BY <1>1, <1>3, <1>4, <1>5, Width DEF Sending
<1> QED BY <1>3, <1>6

LEMMA LowSent ==
  ASSUME NEW t \in Transactions, NEW b \in Buses, Sending(t, 4, WIDTH, b)
  PROVE  LET c == Pulse(b, 1)
         IN  c \in Buses /\ c.mem = b.mem /\ Progress(t, 5, 0, c, 0)
<1>1. /\ b.byte = t.at % Base /\ b.state = ACK /\ ~b.dirOut /\ b.byteCnt = 2
      /\ b.adr = 2 * t.dev /\ (t.dev = DEV => b.ptr = (t.at \div Base) * Base)
  <2>1. Frames(t)[4].byte = t.at % Base
    BY AddressBytes
  <2> QED BY <2>1, WholeByte DEF ByteNo, Addressed
<1>2. (Selected(b) <=> t.dev = DEV) /\ ~WouldStore(b)
  BY <1>1, RightDevice DEF WouldStore
<1>3. PICK c \in Buses :
        /\ c = Pulse(b, 1) /\ c.state = 0 /\ c.byteCnt = 3
        /\ c.adr = b.adr /\ c.dirOut = b.dirOut /\ c.mem = b.mem
        /\ Selected(b) => c.ptr = (b.ptr - (b.ptr % Base)) + b.byte
  <2>1. ~b.dirOut /\ b.state = ACK /\ b.byteCnt # 0 /\ 1 \in Line
    BY <1>1 DEF Line
  <2>2. PICK c \in Buses : c = Pulse(b, 1)
    BY <2>1, PulseTakesData
  <2>3. /\ c.state = 0 /\ c.byteCnt = IF b.byteCnt = 3 THEN 3 ELSE b.byteCnt + 1
        /\ c.adr = b.adr /\ c.dirOut = b.dirOut
        /\ c.mem = IF WouldStore(b) THEN [b.mem EXCEPT ![b.ptr] = b.byte] ELSE b.mem
    BY <2>1, <2>2, PulseTakesData
  <2>4. Selected(b) /\ b.byteCnt = 2 => c.ptr = (b.ptr - (b.ptr % Base)) + b.byte
    BY <2>1, <2>2, PulseTakesData
  <2>5. b.byteCnt = 2
    BY <1>1
  <2>6. c.mem = b.mem
    BY <1>2, <2>3
  <2> QED BY <2>2, <2>3, <2>4, <2>5, <2>6
<1>4. t.dev = DEV => c.ptr = t.at
  <2> SUFFICES ASSUME t.dev = DEV PROVE c.ptr = t.at
    OBVIOUS
  <2>1. b.ptr = (t.at \div Base) * Base /\ c.ptr = (b.ptr - (b.ptr % Base)) + b.byte
    BY <1>1, <1>2, <1>3
  <2>2. (((t.at \div Base) * Base) - (((t.at \div Base) * Base) % Base)) + (t.at % Base) = t.at
    BY TransactionType, TwoBytes
  <2> QED BY <1>1, <2>1, <2>2
<1>5. Addressed(t, 5, c)
  <2>1. WrapAt(t.at, 5 - 5) = t.at
    BY TransactionType, WrapFirst
  <2> QED BY <1>1, <1>3, <1>4, <2>1 DEF Addressed
<1>6. CASE t.kind = "read"
  <2>1. Turning(t, 5, 0, c)
    BY <1>1, <1>3, <1>5, <1>6 DEF Turning
  <2> QED BY <1>3, <2>1 DEF Progress
<1>7. CASE t.kind = "write" /\ 5 \in Sends(t)
  <2>1. Taken(c.byte, Frames(t)[5].byte, 0)
    BY <1>7, FrameType, TakenFirst, BusType
  <2>2. ByteNo(t, 5) = 3
    BY <1>7 DEF ByteNo
  <2>3. Sending(t, 5, 0, c)
    BY <1>1, <1>3, <1>5, <1>7, <2>1, <2>2, Width DEF Sending
  <2> QED BY <1>3, <2>3 DEF Progress
<1>8. CASE 5 = Len(Frames(t))
  <2>1. Stopping(t, 5, 0, c)
    BY <1>3, <1>8 DEF Stopping
  <2> QED BY <1>3, <2>1 DEF Progress
<1>9. t.kind = "write" => 5 \in Sends(t) \/ 5 = Len(Frames(t))
  <2>1. PICK f \in Sends(t) : f = 4
    BY NextSends
  <2>2. t.kind = "write" => f + 1 \in Sends(t) \/ f + 1 = Len(Frames(t))
    <3>1. f >= 4
      BY <2>1
    <3> SUFFICES ASSUME t.kind = "write" PROVE f + 1 \in Sends(t) \/ f + 1 = Len(Frames(t))
      OBVIOUS
    <3>2. \A g \in Sends(t) : g >= 4 => g + 1 \in Sends(t) \/ g + 1 = Len(Frames(t))
      BY NextSends
    <3> QED BY <3>1, <3>2
  <2>3. f + 1 = 5
    BY <2>1
  <2> QED BY <2>2, <2>3
<1> QED BY <1>6, <1>7, <1>8, <1>9, TransactionType

LEMMA DataSent ==
  ASSUME NEW t \in Transactions, t.kind = "write", NEW f, f >= 5,
         NEW b \in Buses, Sending(t, f, WIDTH, b)
  PROVE  LET c == Pulse(b, 1)
         IN  /\ c \in Buses /\ Progress(t, f + 1, 0, c, 0)
             /\ PortBit(c) = 0 <=> t.dev = DEV
             /\ c.mem = IF t.dev = DEV
                        THEN [b.mem EXCEPT ![WrapAt(t.at, f - 5)] = Frames(t)[f].byte]
                        ELSE b.mem
<1>1. f \in Sends(t) /\ f \in Nat /\ f >= 5 /\ f - 5 \in Nat
  BY WholeByte, FrameType, NextSends
<1>2. /\ b.byte = Frames(t)[f].byte /\ b.state = ACK /\ ~b.dirOut /\ b.byteCnt = 3
      /\ b.adr = 2 * t.dev /\ (t.dev = DEV => b.ptr = WrapAt(t.at, f - 5))
  BY <1>1, WholeByte DEF ByteNo, Addressed
<1>3. (Selected(b) <=> t.dev = DEV) /\ (WouldStore(b) <=> t.dev = DEV)
  BY <1>2, RightDevice DEF WouldStore
<1>4. PICK c \in Buses :
        /\ c = Pulse(b, 1) /\ c.oldSda = 1 /\ c.state = 0 /\ c.byteCnt = 3
        /\ c.adr = b.adr /\ c.dirOut = b.dirOut
        /\ c.oldOut = (IF Selected(b) THEN 0 ELSE 1)
        /\ Selected(b) => c.ptr = NextInPage(b.ptr)
        /\ c.mem = IF WouldStore(b) THEN [b.mem EXCEPT ![b.ptr] = b.byte] ELSE b.mem
  BY <1>2, PulseTakesData DEF Line
<1>5. PortBit(c) = 0 <=> t.dev = DEV
  BY <1>3, <1>4 DEF PortBit
<1>6. c.mem = IF t.dev = DEV
              THEN [b.mem EXCEPT ![WrapAt(t.at, f - 5)] = Frames(t)[f].byte]
              ELSE b.mem
  BY <1>2, <1>3, <1>4
<1>7. t.dev = DEV => c.ptr = WrapAt(t.at, (f - 5) + 1)
  BY <1>1, <1>2, <1>3, <1>4, TransactionType, WrapNext
<1>8. Addressed(t, f + 1, c)
  <2>1. (f - 5) + 1 = (f + 1) - 5
    BY <1>1
  <2> QED BY <1>1, <1>2, <1>4, <1>7, <2>1 DEF Addressed
<1>9. CASE f + 1 \in Sends(t)
  <2>1. Taken(c.byte, Frames(t)[f + 1].byte, 0)
    BY <1>9, FrameType, TakenFirst, BusType
  <2>2. ByteNo(t, f + 1) = 3
    BY <1>1 DEF ByteNo
  <2>3. Sending(t, f + 1, 0, c)
    BY <1>2, <1>4, <1>8, <1>9, <2>1, <2>2, Width DEF Sending
  <2> QED BY <1>4, <1>5, <1>6, <2>3 DEF Progress
<1>10. CASE f + 1 = Len(Frames(t))
  <2>1. Stopping(t, f + 1, 0, c)
    BY <1>4, <1>10 DEF Stopping
  <2> QED BY <1>4, <1>5, <1>6, <2>1 DEF Progress
<1> QED BY <1>1, <1>9, <1>10, NextSends

(* Whole bytes read shift out of the register.                              *)
LEMMA NothingRead ==
  ASSUME NEW y \in Bytes
  PROVE  y \div Two[WIDTH - 0] = 0 /\ y \div Two[WIDTH - WIDTH] = y
<1>1. PICK B \in Nat \ {0} : B = Base /\ Two[WIDTH - 0] = B /\ Two[WIDTH - WIDTH] = 1
  BY Width
<1>2. y \in 0..(B - 1) /\ y = B * 0 + y /\ y = 1 * y + 0
  BY <1>1 DEF Bytes
<1>3. y \div B = 0
  BY <1>2, Unique
<1>4. y \div 1 = y
  BY <1>2, Unique
<1> QED BY <1>1, <1>3, <1>4

LEMMA ReadingStarts ==
  ASSUME NEW t \in Transactions, NEW f \in Reads(t), NEW c \in Buses,
         c.state = 0, c.dirOut, c.adr = 2 * t.dev + 1,
         t.dev = DEV => c.ptr = (t.at + (f - 7)) % SIZE
  PROVE  Reading(t, f, 0, c, 0)
<1>1. f \in Nat /\ f - 7 \in Nat
  BY FrameKinds
<1>2. PICK y \in Bytes : y = Wanted(t, f - 7, c.mem)
  BY <1>1, WantedType, BusType
<1>3. 0 = Wanted(t, f - 7, c.mem) \div Two[WIDTH - 0]
  BY <1>2, NothingRead
<1>4. f - 7 + 0 = f - 7
  BY <1>1
<1> QED BY <1>3, <1>4, Width DEF Reading

LEMMA ReadAsked ==
  ASSUME NEW t \in Transactions, t.kind = "read", NEW b \in Buses, Sending(t, 6, WIDTH, b)
  PROVE  LET c == Pulse(b, 1)
         IN  c \in Buses /\ c.mem = b.mem /\ Progress(t, 7, 0, c, 0)
<1>1. /\ b.byte = 2 * t.dev + 1 /\ b.state = ACK /\ ~b.dirOut /\ b.byteCnt = 0
      /\ (t.dev = DEV => b.ptr = t.at)
  <2>1. Frames(t)[6].byte = 2 * t.dev + 1
    BY AddressBytes
  <2> QED BY <2>1, WholeByte DEF ByteNo, Addressed
<1>2. PICK c \in Buses :
        /\ c = Pulse(b, 1) /\ c.state = 0
        /\ c.adr = b.byte /\ (c.dirOut <=> b.byte % 2 = 1) /\ c.mem = b.mem /\ c.ptr = b.ptr
  BY <1>1, PulseTakesAddress DEF Line
<1>3. c.dirOut
  BY <1>1, <1>2, TransactionType, DeviceByte
<1>4. t.dev = DEV => c.ptr = (t.at + (7 - 7)) % SIZE
  BY <1>1, <1>2, TransactionType, ReadFirst
<1>5. CASE 7 \in Reads(t)
  <2>1. Reading(t, 7, 0, c, 0)
    BY <1>1, <1>2, <1>3, <1>4, <1>5, ReadingStarts
  <2> QED BY <1>2, <2>1 DEF Progress
<1>6. CASE 7 = Len(Frames(t))
  <2>1. Stopping(t, 7, 0, c)
    BY <1>2, <1>6 DEF Stopping
  <2> QED BY <1>2, <2>1 DEF Progress
<1> QED BY <1>5, <1>6, NextSends

LEMMA ByteRead ==
  ASSUME NEW t \in Transactions, NEW f, NEW b \in Buses, NEW sh, NEW s \in Line,
         Reading(t, f, WIDTH, b, sh)
  PROVE  LET c == Pulse(b, s)
         IN  /\ c \in Buses /\ c.mem = b.mem /\ Progress(t, f + 1, 0, c, 0)
             /\ sh = Wanted(t, f - 7, b.mem)
<1>1. /\ f \in Reads(t) /\ b.state = ACK /\ b.dirOut /\ b.adr = 2 * t.dev + 1
      /\ t.dev = DEV => b.ptr = (t.at + ((f - 7) + 1)) % SIZE
      /\ sh = Wanted(t, f - 7, b.mem) \div Two[WIDTH - WIDTH]
  BY Width DEF Reading, ACK
<1>2. f \in Nat /\ f - 7 \in Nat /\ (f - 7) + 1 = (f + 1) - 7
  BY <1>1, FrameKinds
<1>3. PICK c \in Buses :
        /\ c = Pulse(b, s) /\ c.state = 0 /\ c.dirOut = b.dirOut /\ c.adr = b.adr
        /\ c.mem = b.mem /\ c.ptr = b.ptr
  BY <1>1, PulseSendsNext
<1>4. sh = Wanted(t, f - 7, b.mem)
  BY <1>1, <1>2, WantedType, BusType, NothingRead
<1>5. CASE f + 1 \in Reads(t)
  <2>1. t.dev = DEV => c.ptr = (t.at + ((f + 1) - 7)) % SIZE
    BY <1>1, <1>2, <1>3
  <2>2. Reading(t, f + 1, 0, c, 0)
    BY <1>1, <1>3, <1>5, <2>1, ReadingStarts
  <2> QED BY <1>3, <1>4, <2>2 DEF Progress
<1>6. CASE f + 1 = Len(Frames(t))
  <2>1. Stopping(t, f + 1, 0, c)
    BY <1>3, <1>6 DEF Stopping
  <2> QED BY <1>3, <1>4, <2>1 DEF Progress
<1> QED BY <1>1, <1>5, <1>6, NextSends

LEMMA StopSent ==
  ASSUME NEW t \in Transactions, NEW f, NEW b \in Buses, Stopping(t, f, 0, b)
  PROVE  LET c == Handle(Pulse(b, 0), 1, 1)
         IN  c \in Buses /\ c.mem = b.mem /\ Ended(t, f + 1, 0, c)
<1>1. f = Len(Frames(t)) /\ ~WouldStore(b)
  BY Width DEF Stopping, WouldStore, ACK
<1>2. Pulse(b, 0).mem = b.mem
  BY <1>1, PulseMemory DEF Line
<1>3. PICK c \in Buses : c = Handle(Pulse(b, 0), 1, 1) /\ c.state = IDLE /\ c.mem = Pulse(b, 0).mem
  BY StopIs
<1> QED BY <1>1, <1>2, <1>3 DEF Ended

(* What was delivered, from frame to frame.                                 *)
LEMMA ReceivesNothing ==
  ASSUME NEW t \in Transactions, NEW f \in Nat, NEW m, t.kind = "write" \/ f <= 7
  PROVE  ReadSoFar(t, f, m, <<>>)
<1>1. PICK n \in Nat : n = Len(t.data)
  BY TransactionType
<1>2. <<>> \in Seq(Bytes) /\ Len(<<>>) = 0
  OBVIOUS
<1> QED BY <1>1, <1>2 DEF ReadSoFar

LEMMA NothingReceived ==
  ASSUME NEW t \in Transactions, NEW f \in Nat, NEW m, NEW bytes,
         ReadSoFar(t, f, m, bytes), t.kind = "write" \/ f <= 7
  PROVE  bytes = <<>>
<1>1. PICK n \in Nat : n = Len(t.data)
  BY TransactionType
<1>2. bytes \in Seq(Bytes) /\ Len(bytes) = 0
  BY <1>1 DEF ReadSoFar
<1> QED BY <1>2, EmptySeq

LEMMA ReceivesByte ==
  ASSUME NEW t \in Transactions, NEW f \in Reads(t), NEW m \in [Cells -> Bytes], NEW bytes,
         ReadSoFar(t, f, m, bytes)
  PROVE  ReadSoFar(t, f + 1, m, Append(bytes, Wanted(t, f - 7, m)))
<1>1. PICK n \in Nat : n = Len(t.data)
  BY TransactionType
<1>2. f \in 7..(6 + n) /\ t.kind # "write"
  BY <1>1 DEF Reads
<1>3. PICK y \in Bytes : y = Wanted(t, f - 7, m)
  BY <1>2, WantedType
<1>4. bytes \in Seq(Bytes) /\ Len(bytes) = f - 7
  BY <1>1, <1>2 DEF ReadSoFar
<1>5. PICK a : a = Append(bytes, y)
  OBVIOUS
<1>6. /\ a \in Seq(Bytes) /\ Len(a) = f - 6 /\ a[f - 6] = y
      /\ \A i \in 1..(f - 7) : a[i] = bytes[i]
  BY <1>2, <1>4, <1>5
<1>7. \A i \in 1..(f - 7) : bytes[i] = Wanted(t, i - 1, m)
  BY <1>4 DEF ReadSoFar
<1>8. \A i \in 1..(f - 6) : a[i] = Wanted(t, i - 1, m)
  <2> SUFFICES ASSUME NEW i \in 1..(f - 6)
               PROVE  a[i] = Wanted(t, i - 1, m)
    OBVIOUS
  <2>1. CASE i = f - 6
    <3>1. i - 1 = f - 7
      BY <1>2, <2>1
    <3> QED BY <1>3, <1>6, <2>1, <3>1
  <2>2. CASE i # f - 6
    <3>1. i \in 1..(f - 7)
      BY <1>2, <2>2
    <3> QED BY <1>6, <1>7, <3>1
  <2> QED BY <2>1, <2>2
<1>9. PICK g \in Nat : g = f + 1 /\ g = Len(a) + 7 /\ g <= 7 + n
  BY <1>2, <1>6
<1>10. ReadSoFar(t, g, m, a)
  <2>1. \A i \in 1..Len(a) : a[i] = Wanted(t, i - 1, m)
    BY <1>6, <1>8
  <2>2. a \in Seq(Bytes) /\ Len(a) \in Nat
    BY <1>6
  <2>3. ~(t.kind = "write" \/ g < 7) /\ g <= 7 + Len(t.data) /\ Len(a) = g - 7
    BY <1>1, <1>2, <1>9, <2>2
  <2> QED BY <2>1, <2>2, <2>3 DEF ReadSoFar
<1> QED BY <1>3, <1>5, <1>9, <1>10

LEMMA ReceivedAll ==
  ASSUME NEW t \in Transactions, NEW m, NEW bytes,
         ReadSoFar(t, Len(Frames(t)), m, bytes)
  PROVE  ReadSoFar(t, Len(Frames(t)) + 1, m, bytes)
<1>1. PICK n \in Nat : n = Len(t.data)
  BY TransactionType
<1>2. t.kind = "read" => Len(Frames(t)) = 7 + n
  BY <1>1, ReadFrames
<1>3. t.kind = "read" \/ t.kind = "write"
  BY TransactionType
<1> QED BY <1>1, <1>2, <1>3 DEF ReadSoFar

(* What an abandoned byte leaves to be stored.                              *)
LEMMA StoringIs ==
  ASSUME NEW t \in Transactions, NEW f, NEW k, NEW b \in Buses, Sending(t, f, k, b)
  PROVE  Storing(b) = IF k = WIDTH /\ t.dev = DEV /\ f > 4 /\ t.kind = "write"
                      THEN {<<WrapAt(t.at, f - 5), Frames(t)[f].byte>>} ELSE {}
<1>1. f \in Sends(t) /\ f \in Nat /\ f >= 2 /\ b.byteCnt = ByteNo(t, f)
  BY FrameType DEF Sending
<1>2. CASE k # WIDTH
  BY <1>2 DEF Sending, Storing, WouldStore, ACK
<1>3. CASE k = WIDTH /\ ~(f > 4 /\ t.kind = "write")
  <2>1. b.byteCnt # 3
    BY <1>1, <1>3 DEF ByteNo
  <2> QED BY <1>3, <2>1 DEF Storing, WouldStore
<1>4. CASE k = WIDTH /\ f > 4 /\ t.kind = "write"
  <2>1. /\ b.byte = Frames(t)[f].byte /\ b.state = ACK /\ ~b.dirOut /\ Addressed(t, f, b)
    BY <1>4, WholeByte
  <2>2. b.byteCnt = 3 /\ f >= 5
    BY <1>1, <1>4 DEF ByteNo
  <2>3. b.adr = 2 * t.dev /\ (t.dev = DEV => b.ptr = WrapAt(t.at, f - 5))
    BY <1>1, <1>4, <2>1, <2>2 DEF Addressed
  <2>4. Selected(b) <=> t.dev = DEV
    BY <2>3, RightDevice
  <2> QED BY <1>4, <2>1, <2>2, <2>3, <2>4 DEF Storing, WouldStore
<1> QED BY <1>2, <1>3, <1>4

LEMMA OpenedIs ==
  ASSUME NEW m \in [Cells -> Bytes], NEW p \in Cells
  PROVE  Opened(m, p) \in Buses /\ Opened(m, p).mem = m /\ Storing(Opened(m, p)) = {}
<1>1. PICK l \in Line, z \in -1..WIDTH, x \in Bytes, n \in 0..3 :
        l = 0 /\ z = IDLE /\ x = 0 /\ n = 0
  BY Width DEF Line, IDLE, Bytes
<1>2. Opened(m, p) = [oldScl |-> l, oldSda |-> l, oldOut |-> l, state |-> z, byte |-> x,
                      byteCnt |-> n, dirOut |-> FALSE, adr |-> x, mem |-> m, ptr |-> p]
  BY <1>1 DEF Opened
<1>3. Opened(m, p) \in Buses /\ Opened(m, p).mem = m /\ Opened(m, p).state = IDLE
  BY <1>1, <1>2 DEF Buses
<1> QED BY <1>3, Width DEF Storing, WouldStore, ACK, IDLE

(* The frames in which the program is.                                      *)
LEMMA KindIs ==
  ASSUME NEW t \in Transactions, NEW f, NEW k, NEW b, NEW sh, Progress(t, f, k, b, sh)
  PROVE  \/ Sending(t, f, k, b) /\ sh = 0 /\ f \in Nat /\ f <= Len(Frames(t)) /\ Frames(t)[f].kind = "send"
         \/ Reading(t, f, k, b, sh) /\ f \in Nat /\ f <= Len(Frames(t)) /\ Frames(t)[f].kind = "read"
         \/ Turning(t, f, k, b) /\ sh = 0 /\ f = 5 /\ k = 0 /\ f <= Len(Frames(t)) /\ Frames(t)[f].kind = "start"
         \/ Stopping(t, f, k, b) /\ sh = 0 /\ k = 0 /\ f <= Len(Frames(t)) /\ Frames(t)[f].kind = "stop"
         \/ Ended(t, f, k, b) /\ sh = 0 /\ k = 0 /\ ~(f <= Len(Frames(t)))
<1>1. PICK l \in Nat : l = Len(Frames(t)) /\ l >= 5
  BY FrameKinds
<1>2. CASE Sending(t, f, k, b) /\ sh = 0
  <2>1. f \in Sends(t)
    BY <1>2 DEF Sending
  <2> QED BY <1>1, <1>2, <2>1, FrameKinds
<1>3. CASE Reading(t, f, k, b, sh)
  <2>1. f \in Reads(t)
    BY <1>3 DEF Reading
  <2> QED BY <1>1, <1>3, <2>1, FrameKinds
<1>4. CASE Turning(t, f, k, b) /\ sh = 0
  <2>1. t.kind = "read" /\ f = 5 /\ k = 0
    BY <1>4 DEF Turning
  <2> QED BY <1>1, <1>4, <2>1, FrameKinds
<1>5. CASE Stopping(t, f, k, b) /\ sh = 0
  <2>1. f = Len(Frames(t)) /\ k = 0
    BY <1>5 DEF Stopping
  <2> QED BY <1>1, <1>5, <2>1, FrameKinds
<1>6. CASE Ended(t, f, k, b) /\ sh = 0
  <2>1. f = Len(Frames(t)) + 1 /\ k = 0
    BY <1>6 DEF Ended
  <2> QED BY <1>1, <1>6, <2>1
<1> QED BY <1>2, <1>3, <1>4, <1>5, <1>6 DEF Progress

-----------------------------------------------------------------------------
(* EepromInv is inductive: one lemma per step of the program.               *)

LEMMA WhereItIs ==
  ASSUME EepromInv
  PROVE  /\ bus \in Buses /\ bus.mem \in [Cells -> Bytes] /\ believed = bus.mem
         /\ Busy => tr \in Transactions
         /\ ~Busy => AtStart
         /\ AtStart /\ Busy => Frame.kind = "start" /\ frame <= Len(Frames(tr))
<1>1. bus \in Buses /\ bus.mem \in [Cells -> Bytes] /\ believed = bus.mem
  BY BusType DEF EepromInv
<1>2. Busy => tr \in Transactions
  BY DEF EepromInv, Midway, Busy
<1>3. ~Busy => AtStart
  BY TransactionType DEF EepromInv, Midway, Busy
<1>4. ASSUME AtStart, Busy PROVE Frame.kind = "start" /\ frame <= Len(Frames(tr))
  BY <1>2, <1>4, FrameKinds DEF AtStart, Frame
<1> QED BY <1>1, <1>2, <1>3, <1>4

LEMMA EepromInit ==
  ASSUME MInit
  PROVE  EepromInv
<1>1. PICK p \in Cells : bus = Opened(Blank, p)
  BY DEF MInit
<1>2. Blank \in [Cells -> Bytes]
  BY MasterAssumption
<1>3. bus \in Buses /\ bus.mem = Blank /\ Storing(bus) = {}
  BY <1>1, <1>2, OpenedIs
<1>4. AtStart /\ tr = NoTransaction
  BY <1>3 DEF MInit, AtRest, AtStart
<1>5. believed = bus.mem
  BY <1>3 DEF MInit
<1> QED BY <1>3, <1>4, <1>5 DEF EepromInv

LEMMA EepromBegin ==
  ASSUME EepromInv, NEW t \in Transactions, Begin(t)
  PROVE  EepromInv'
<1>1. AtStart
  BY WhereItIs DEF Begin
<1>2. AtStart'
  BY <1>1 DEF Begin, AtStart
<1>3. (bus \in Buses /\ believed = bus.mem)'
  BY WhereItIs DEF Begin
<1>4. tr' \in Transactions
  BY DEF Begin
<1> QED BY <1>2, <1>3, <1>4 DEF EepromInv

LEMMA EepromCondition ==
  ASSUME EepromInv, SetCondition
  PROVE  EepromInv'
<1>1. tr \in Transactions /\ tr' = tr /\ frame <= Len(Frames(tr)) /\ frame' = frame + 1
  BY WhereItIs DEF SetCondition, Talking
<1>2. bit' = bit /\ shift' = shift /\ got' = got /\ pending' = {}
  BY DEF SetCondition
<1>3. believed' = Store(bus.mem, pending)
  BY WhereItIs DEF SetCondition
<1>4. CASE AtStart
  <2>1. frame = 1 /\ bit = 0 /\ shift = 0 /\ got = <<>> /\ pending = Storing(bus)
    BY <1>4 DEF AtStart
  <2>2. bus' = Handle(Pulse(bus, 1), 1, 0)
    BY <1>1, <2>1, FrameKinds DEF SetCondition, Frame
  <2>3. /\ bus' \in Buses /\ bus'.mem = Pulse(bus, 1).mem
    BY <2>2, WhereItIs, StartIs
  <2>4. believed' = Pulse(bus, 1).mem
    <3>1. Pulse(bus, 1).mem = IF WouldStore(bus) THEN [bus.mem EXCEPT ![bus.ptr] = bus.byte]
                              ELSE bus.mem
      BY WhereItIs, PulseMemory DEF Line
    <3>2. bus.ptr \in Cells /\ bus.byte \in Bytes /\ bus.mem \in [Cells -> Bytes]
      BY WhereItIs, BusType
    <3>3. Store(bus.mem, {}) = bus.mem
          /\ Store(bus.mem, {<<bus.ptr, bus.byte>>}) = [bus.mem EXCEPT ![bus.ptr] = bus.byte]
      BY <3>2, StoreIs
    <3> QED BY <1>3, <2>1, <3>1, <3>3 DEF Storing
  <2>5. Sending(tr, 2, 0, bus')
    BY <1>1, <2>2, WhereItIs, FirstStart
  <2>6. Progress(tr', frame', bit', bus', shift')
    BY <1>1, <1>2, <2>1, <2>5 DEF Progress
  <2>7. ReadSoFar(tr', frame', bus'.mem, got')
    BY <1>1, <1>2, <2>1, ReceivesNothing
  <2> QED BY <1>1, <1>2, <2>3, <2>4, <2>6, <2>7 DEF EepromInv, Midway
<1>5. CASE Midway
  <2>1. /\ pending = {} /\ Progress(tr, frame, bit, bus, shift)
        /\ ReadSoFar(tr, frame, bus.mem, got)
    BY <1>5 DEF Midway
  <2>2. believed' = bus.mem
    BY <1>3, <2>1, WhereItIs, StoreIs
  <2>3. Frame.kind # "send" /\ Frame.kind # "read"
    BY DEF SetCondition
  <2>4. CASE Turning(tr, frame, bit, bus)
    <3>1. frame = 5 /\ bit = 0 /\ shift = 0 /\ Frame.kind = "start"
      BY <1>1, <2>1, <2>3, <2>4, KindIs, FrameKinds DEF Frame, Turning, Reading
    <3>2. bus' = Handle(Pulse(bus, 1), 1, 0)
      BY <3>1 DEF SetCondition
    <3>3. bus' \in Buses /\ bus'.mem = bus.mem /\ Sending(tr, 6, 0, bus')
      BY <1>1, <2>4, <3>1, <3>2, WhereItIs, SecondStart
    <3>4. Progress(tr', frame', bit', bus', shift')
      BY <1>1, <1>2, <3>1, <3>3 DEF Progress
    <3>5. got = <<>>
      BY <1>1, <2>1, <3>1, NothingReceived
    <3>6. ReadSoFar(tr', frame', bus'.mem, got')
      BY <1>1, <1>2, <3>1, <3>5, ReceivesNothing
    <3> QED BY <1>1, <1>2, <2>2, <3>3, <3>4, <3>6 DEF EepromInv, Midway
  <2>5. CASE Stopping(tr, frame, bit, bus) /\ shift = 0
    <3>1. frame = Len(Frames(tr)) /\ bit = 0 /\ Frame.kind = "stop"
      BY <1>1, <2>5, FrameKinds DEF Frame, Stopping
    <3>2. bus' = Handle(Pulse(bus, 0), 1, 1)
      BY <3>1 DEF SetCondition
    <3>3. bus' \in Buses /\ bus'.mem = bus.mem /\ Ended(tr, frame + 1, 0, bus')
      BY <1>1, <2>5, <3>1, <3>2, WhereItIs, StopSent
    <3>4. Progress(tr', frame', bit', bus', shift')
      BY <1>1, <1>2, <2>5, <3>1, <3>3 DEF Progress
    <3>5. ReadSoFar(tr', frame', bus'.mem, got')
      BY <1>1, <1>2, <2>1, <3>1, <3>3, ReceivedAll
    <3> QED BY <1>1, <1>2, <2>2, <3>3, <3>4, <3>5 DEF EepromInv, Midway
  <2> QED BY <1>1, <2>1, <2>3, <2>4, <2>5, KindIs DEF Frame
<1> QED BY <1>4, <1>5 DEF EepromInv

LEMMA EepromBit ==
  ASSUME EepromInv, Bit
  PROVE  EepromInv'
<1>1. tr \in Transactions /\ tr' = tr /\ frame <= Len(Frames(tr)) /\ frame' = frame
  BY WhereItIs DEF Bit, Talking
<1>2. /\ bit < WIDTH /\ bit' = bit + 1 /\ got' = got /\ believed' = believed /\ pending' = pending
      /\ Frame.kind = "send" \/ Frame.kind = "read"
  BY DEF Bit
<1>3. ~AtStart
  BY <1>2, WhereItIs DEF Bit, Talking
<1>4. /\ pending = {} /\ Progress(tr, frame, bit, bus, shift)
      /\ ReadSoFar(tr, frame, bus.mem, got)
  BY <1>3 DEF EepromInv, Midway
<1>5. CASE Sending(tr, frame, bit, bus) /\ shift = 0 /\ Frame.kind = "send"
  <2>1. bit \in 0..(WIDTH - 1)
    BY <1>2, <1>5, Width DEF Sending
  <2>2. bus' = Pulse(bus, BitOf(Frames(tr)[frame].byte, bit + 1)) /\ shift' = shift
    BY <1>5 DEF Bit, Frame
  <2>3. bus' \in Buses /\ bus'.mem = bus.mem /\ Sending(tr, frame, bit + 1, bus')
    BY <1>1, <1>5, <2>1, <2>2, WhereItIs, BitSent
  <2>4. Progress(tr', frame', bit', bus', shift')
    BY <1>1, <1>2, <1>5, <2>2, <2>3 DEF Progress
  <2> QED BY <1>1, <1>2, <1>4, <2>3, <2>4, WhereItIs DEF EepromInv, Midway
<1>6. CASE Reading(tr, frame, bit, bus, shift) /\ Frame.kind = "read"
  <2>1. bit \in 0..(WIDTH - 1)
    BY <1>2, <1>6, Width DEF Reading
  <2>2. bus' = Pulse(bus, 1) /\ shift' = 2 * shift + PortBit(bus')
    BY <1>6 DEF Bit
  <2>3. bus' \in Buses /\ bus'.mem = bus.mem /\ Reading(tr, frame, bit + 1, bus', shift')
    BY <1>1, <1>6, <2>1, <2>2, WhereItIs, BitRead
  <2>4. Progress(tr', frame', bit', bus', shift')
    BY <1>1, <1>2, <2>3 DEF Progress
  <2> QED BY <1>1, <1>2, <1>4, <2>3, <2>4, WhereItIs DEF EepromInv, Midway
<1> QED BY <1>1, <1>2, <1>4, <1>5, <1>6, KindIs DEF Frame

LEMMA EepromAcknowledge ==
  ASSUME EepromInv, Acknowledge
  PROVE  EepromInv'
<1>1. tr \in Transactions /\ tr' = tr /\ frame <= Len(Frames(tr)) /\ frame' = frame + 1
  BY WhereItIs DEF Acknowledge, Talking
<1>2. /\ bit = WIDTH /\ bit' = 0 /\ shift' = 0 /\ pending' = pending
      /\ Frame.kind = "send" \/ Frame.kind = "read"
  BY DEF Acknowledge
<1>3. ~AtStart
  BY <1>2, WhereItIs DEF Acknowledge, Talking
<1>4. /\ pending = {} /\ Progress(tr, frame, bit, bus, shift)
      /\ ReadSoFar(tr, frame, bus.mem, got)
  BY <1>3 DEF EepromInv, Midway
<1>5. CASE Sending(tr, frame, bit, bus) /\ shift = 0 /\ Frame.kind = "send"
  <2>1. bus' = Pulse(bus, 1) /\ got' = got
        /\ believed' = Store(bus.mem, IF PortBit(bus') = 0 THEN Writing ELSE {})
    BY <1>5, WhereItIs DEF Acknowledge
  <2>2. Sending(tr, frame, WIDTH, bus) /\ frame \in Sends(tr)
    BY <1>2, <1>5 DEF Sending
  <2>3. PICK n \in Nat : n = Len(tr.data)
    BY <1>1, TransactionType
  <2>4. frame \in Nat /\ (tr.kind = "write" \/ frame + 1 <= 7)
    BY <1>1, <2>2, <2>3, TransactionType DEF Sends
  <2>5. got = <<>>
    BY <1>1, <1>4, <2>4, NothingReceived
  <2>6. ReadSoFar(tr', frame', bus'.mem, got')
    BY <1>1, <2>1, <2>4, <2>5, ReceivesNothing
  <2>7. /\ bus' \in Buses /\ believed' = bus'.mem
        /\ Progress(tr, frame + 1, 0, bus', 0)
    <3>1. CASE tr.kind = "write" /\ frame >= 5
      <4>1. /\ bus' \in Buses /\ Progress(tr, frame + 1, 0, bus', 0)
            /\ PortBit(bus') = 0 <=> tr.dev = DEV
            /\ bus'.mem = IF tr.dev = DEV
                          THEN [bus.mem EXCEPT ![WrapAt(tr.at, frame - 5)] = Frames(tr)[frame].byte]
                          ELSE bus.mem
        BY <1>1, <2>1, <2>2, <3>1, WhereItIs, DataSent
      <4>2. Writing = {<<WrapAt(tr.at, frame - 5), Frames(tr)[frame].byte>>}
        BY <1>5, <2>4, <3>1 DEF Writing, Frame
      <4>3. WrapAt(tr.at, frame - 5) \in Cells /\ Frames(tr)[frame].byte \in Bytes
        BY <1>1, <2>2, <2>4, <3>1, WrapNext, TransactionType, FrameType
      <4>4. believed' = bus'.mem
        BY <2>1, <4>1, <4>2, <4>3, WhereItIs, StoreIs
      <4> QED BY <4>1, <4>4
    <3>2. CASE ~(tr.kind = "write" /\ frame >= 5)
      <4>1. believed' = bus.mem
        BY <2>1, <2>4, <3>2, WhereItIs, StoreIs DEF Writing
      <4>2. frame \in {2, 3, 4} \/ (frame = 6 /\ tr.kind = "read")
        <5>1. CASE tr.kind = "write"
          BY <2>2, <2>3, <2>4, <3>2, <5>1 DEF Sends
        <5>2. CASE tr.kind = "read"
          BY <2>2, <5>2 DEF Sends
        <5> QED BY <1>1, <5>1, <5>2, TransactionType
      <4>3. CASE frame = 2
        BY <1>1, <2>1, <2>2, <4>1, <4>3, WhereItIs, DeviceSent DEF Progress
      <4>4. CASE frame = 3
        BY <1>1, <2>1, <2>2, <4>1, <4>4, WhereItIs, HighSent DEF Progress
      <4>5. CASE frame = 4
        BY <1>1, <2>1, <2>2, <4>1, <4>5, WhereItIs, LowSent
      <4>6. CASE frame = 6 /\ tr.kind = "read"
        BY <1>1, <2>1, <2>2, <4>1, <4>6, WhereItIs, ReadAsked
      <4> QED BY <4>2, <4>3, <4>4, <4>5, <4>6
    <3> QED BY <3>1, <3>2
  <2> QED BY <1>1, <1>2, <1>4, <2>6, <2>7 DEF EepromInv, Midway
<1>6. CASE Reading(tr, frame, bit, bus, shift) /\ Frame.kind = "read"
  <2>1. PICK s \in Line : bus' = Pulse(bus, s)
    BY <1>6 DEF Acknowledge, Line
  <2>2. got' = Append(got, shift) /\ believed' = bus.mem
    BY <1>6, WhereItIs DEF Acknowledge
  <2>3. /\ bus' \in Buses /\ bus'.mem = bus.mem /\ Progress(tr, frame + 1, 0, bus', 0)
        /\ shift = Wanted(tr, frame - 7, bus.mem)
    BY <1>1, <1>2, <1>6, <2>1, WhereItIs, ByteRead
  <2>4. frame \in Reads(tr)
    BY <1>6 DEF Reading
  <2>5. ReadSoFar(tr, frame + 1, bus'.mem, got')
    BY <1>1, <1>4, <2>2, <2>3, <2>4, WhereItIs, ReceivesByte
  <2> QED BY <1>1, <1>2, <1>4, <2>2, <2>3, <2>5 DEF EepromInv, Midway
<1> QED BY <1>1, <1>2, <1>4, <1>5, <1>6, KindIs DEF Frame

LEMMA StartsAfresh ==
  ASSUME EepromInv, Rest, bus' \in Buses, believed' = bus'.mem, pending' = Storing(bus')
  PROVE  EepromInv'
<1>1. AtStart'
  BY DEF Rest, AtStart, Storing, WouldStore, Selected
<1> QED BY <1>1 DEF EepromInv, Rest

LEMMA EepromDone ==
  ASSUME EepromInv, Done
  PROVE  EepromInv'
<1>1. tr \in Transactions /\ ~(frame <= Len(Frames(tr)))
  BY WhereItIs DEF Done, Talking
<1>2. Midway
  BY <1>1, WhereItIs DEF Done, EepromInv
<1>3. Ended(tr, frame, bit, bus) /\ pending = {}
  BY <1>1, <1>2, KindIs DEF Midway
<1>4. Storing(bus) = {}
  BY <1>3, Width DEF Ended, Storing, WouldStore, ACK, IDLE
<1>5. Rest /\ bus' = bus /\ believed' = believed /\ pending' = pending
  BY DEF Done
<1> QED BY <1>3, <1>4, <1>5, WhereItIs, StartsAfresh

LEMMA EepromAbandon ==
  ASSUME EepromInv, Abandon
  PROVE  EepromInv'
<1>1. tr \in Transactions /\ frame <= Len(Frames(tr))
  BY WhereItIs DEF Abandon, Talking
<1>2. /\ Rest /\ bus' = bus /\ believed' = believed
      /\ pending' = pending \cup (IF bit = WIDTH /\ tr.dev = DEV THEN Writing ELSE {})
  BY DEF Abandon
<1>3. CASE AtStart
  <2>1. pending' = Storing(bus)
    BY <1>2, <1>3, Width DEF AtStart
  <2> QED BY <1>2, <2>1, WhereItIs, StartsAfresh
<1>4. CASE Midway
  <2>1. pending = {} /\ Progress(tr, frame, bit, bus, shift)
    BY <1>4 DEF Midway
  <2>2. CASE Sending(tr, frame, bit, bus) /\ Frame.kind = "send"
    <3>1. Storing(bus) = IF bit = WIDTH /\ tr.dev = DEV /\ frame > 4 /\ tr.kind = "write"
                         THEN {<<WrapAt(tr.at, frame - 5), Frame.byte>>} ELSE {}
      BY <1>1, <2>2, WhereItIs, StoringIs DEF Frame
    <3>2. pending' = Storing(bus)
      BY <1>2, <2>1, <2>2, <3>1 DEF Writing
    <3> QED BY <1>2, <3>2, WhereItIs, StartsAfresh
  <2>3. CASE Frame.kind # "send"
    <3>1. Storing(bus) = {}
      <4>1. CASE Reading(tr, frame, bit, bus, shift)
        BY <4>1 DEF Reading, Storing, WouldStore
      <4>2. CASE Turning(tr, frame, bit, bus)
        BY <4>2, Width DEF Turning, Storing, WouldStore, ACK
      <4>3. CASE Stopping(tr, frame, bit, bus)
        BY <4>3, Width DEF Stopping, Storing, WouldStore, ACK
      <4> QED BY <1>1, <2>1, <2>3, <4>1, <4>2, <4>3, KindIs DEF Frame
    <3>2. pending' = Storing(bus)
      BY <1>2, <2>1, <2>3, <3>1 DEF Writing
    <3> QED BY <1>2, <3>2, WhereItIs, StartsAfresh
  <2> QED BY <1>1, <2>1, <2>2, <2>3, KindIs DEF Frame
<1> QED BY <1>3, <1>4 DEF EepromInv

LEMMA EepromRestart ==
  ASSUME EepromInv, Restart
  PROVE  EepromInv'
<1>1. PICK p \in Cells : bus' = Opened(bus.mem, p)
  BY DEF Restart
<1>2. bus' \in Buses /\ bus'.mem = bus.mem /\ Storing(bus') = {}
  BY <1>1, WhereItIs, OpenedIs
<1>3. Rest /\ pending' = {} /\ believed' = believed
  BY DEF Restart
<1> QED BY <1>2, <1>3, WhereItIs, StartsAfresh

(* The bus is where the program is.                                         *)
LEMMA EepromStep ==
  ASSUME EepromInv, [MNext]_mvars
  PROVE  EepromInv'
<1>1. CASE UNCHANGED mvars
  BY <1>1 DEF mvars, program, EepromInv, AtStart, Midway, Storing, WouldStore, Selected
<1>2. CASE MNext
  BY <1>2, EepromBegin, EepromCondition, EepromBit, EepromAcknowledge, EepromDone,
     EepromAbandon, EepromRestart DEF MNext
<1> QED BY <1>1, <1>2

(* The bus and the EEPROM stay within their registers and the memory.       *)
THEOREM EepromTypeCorrect == MSpec => []MTypeOK
<1>1. EepromInv => MTypeOK
  BY DEF EepromInv, MTypeOK
<1> QED BY <1>1, EepromInit, EepromStep, PTL DEF MSpec

(* The memory of the EEPROM holds what was acknowledged and nothing else.   *)
THEOREM MemoryIsAcknowledged == MSpec => []StoredIffAcknowledged
<1>1. EepromInv => StoredIffAcknowledged
  BY DEF EepromInv, StoredIffAcknowledged
<1> QED BY <1>1, EepromInit, EepromStep, PTL DEF MSpec

LEMMA ReadsDelivered ==
  ASSUME EepromInv
  PROVE  ReadsAreRight
<1> SUFFICES ASSUME Busy, tr.kind = "read"
             PROVE  /\ \A i \in 1..Len(got) :
                         got[i] = IF tr.dev = DEV THEN believed[(tr.at + i - 1) % SIZE]
                                  ELSE Base - 1
                    /\ ~Talking => Len(got) = Len(tr.data)
  BY DEF ReadsAreRight
<1>1. tr \in Transactions /\ believed = bus.mem
  BY WhereItIs
<1>2. CASE AtStart
  <2>1. got = <<>> /\ Talking
    BY <1>2, WhereItIs DEF AtStart, Talking
  <2> QED BY <2>1
<1>3. CASE Midway
  <2>1. Progress(tr, frame, bit, bus, shift) /\ ReadSoFar(tr, frame, bus.mem, got)
    BY <1>3 DEF Midway
  <2>2. ASSUME NEW i \in 1..Len(got)
        PROVE  got[i] = IF tr.dev = DEV THEN believed[(tr.at + i - 1) % SIZE] ELSE Base - 1
    <3>1. got[i] = Wanted(tr, i - 1, bus.mem)
      BY <2>1 DEF ReadSoFar
    <3>2. tr.at + (i - 1) = tr.at + i - 1
      <4>1. PICK a \in Nat : a = tr.at
        BY <1>1, TransactionType DEF Cells
      <4>2. a + (i - 1) = a + i - 1
        OBVIOUS
      <4> QED BY <4>1, <4>2
    <3> QED BY <1>1, <3>1, <3>2 DEF Wanted
  <2>3. ASSUME ~Talking PROVE Len(got) = Len(tr.data)
    <3>1. ~(frame <= Len(Frames(tr)))
      BY <2>3 DEF Talking
    <3>2. Ended(tr, frame, bit, bus)
      BY <1>1, <2>1, <3>1, KindIs
    <3>3. PICK n \in Nat : n = Len(tr.data) /\ Len(Frames(tr)) = 7 + n
      BY <1>1, TransactionType, ReadFrames
    <3>4. frame = 8 + n
      BY <3>2, <3>3 DEF Ended
    <3> QED BY <2>1, <3>3, <3>4 DEF ReadSoFar
  <2> QED BY <2>2, <2>3
<1> QED BY <1>2, <1>3 DEF EepromInv

(* A read delivers the bytes of the memory from its address on.             *)
THEOREM ReadsDeliver == MSpec => []ReadsAreRight
BY EepromInit, EepromStep, ReadsDelivered, PTL DEF MSpec
==============================================================================

------------------------------- MODULE TamaHw -------------------------------
(***************************************************************************)
(* The emulated hardware around the tama's CPU (emu/tamaemu.c): buttons    *)
(* and infrared receiver on port A, the clock that the program can stop,   *)
(* the sources that wake it, and the interrupt controller.  HwTick is one  *)
(* call of tamaHwTick(); when it runs the CPU, the instructions that touch *)
(* a register are steps of their own, until EndBatch.  The program itself  *)
(* is in the ROM: it may touch any register at any time.                   *)
(***************************************************************************)
EXTENDS Integers, FiniteSets

CONSTANTS
  Buttons,        \* lines of port A with a button
  Timers,         \* the time bases and timers that run: a set of interrupts
  ClkValues,      \* values the program gives CLKCTL&7
  WakeEnValues,   \* sets of wake sources the program enables
  LoValues,       \* sets of interrupts the program enables with INTCTLLO
  MiValues,       \* and with INTCTLMI
  RELEASETIME,    \* BUTTONRELEASETIME, in ticks
  FREEZE          \* ticks the tama is stopped after it sent a datagram

(* Bits of the interrupt registers, INTCTLLO and INTCTLMI. *)
IntLo == {"FP", "SPI", "SPU", "8K", "2K", "T0"}
IntMi == {"TBL", "TBH", "T1"}
(* Of the sources that can wake the CPU, all but "BTN" are timers. *)
WakeTimers == {"TBL", "TBH", "T0", "T1"}
WakeSrcs   == WakeTimers \cup {"BTN"}

OFF    == 7       \* CLKCTL: the CPU stops
WAKEUP == 2       \* CLKCTL after waking up
ccdiv  == [c \in 0..7 |-> <<2, 4, 8, 16, 32, 64, 128, 0>>[c + 1]]

ASSUME HwAssumption ==
  /\ "IR" \notin Buttons
  /\ Timers \subseteq (IntLo \cup IntMi) \ {"SPI", "SPU"}
  /\ ClkValues \subseteq 0..7
  /\ WakeEnValues \subseteq SUBSET WakeSrcs
  /\ LoValues \subseteq SUBSET IntLo /\ MiValues \subseteq SUBSET IntMi
  /\ RELEASETIME \in Nat \ {0}
  /\ FREEZE \in Nat

NoButton == "none"
NoInt    == "none"

VARIABLES
  clkctl, cpuDiv,            \* CLKCTL&7; the divider of the CPU's clock, 0 stops it
  wakefl, wakeen,
  portA, lastRead,           \* the lines of port A that are high, now and when last read
  btnPressed, btnReleaseTm,
  irnx, lit,                 \* ticks to stand still; has the LED been on since the last time?
  iflags, ien,               \* raised interrupts; <<INTCTLLO, INTCTLMI>>
  masked,                    \* the CPU's interrupt flag
  nmictl, nmiflags,
  taken,                     \* the interrupt the CPU took in the latest tick
  running                    \* the CPU is executing its cycles of this tick

clock   == <<clkctl, cpuDiv>>
wake    == <<wakefl, wakeen>>
port    == <<portA, lastRead>>
button  == <<btnPressed, btnReleaseTm>>
ir      == <<irnx, lit>>
irq     == <<iflags, ien, masked, nmictl, nmiflags, taken>>
vars    == <<clock, wake, port, button, ir, irq, running>>

Lines == Buttons \cup {"IR"}

TypeOK ==
  /\ clkctl \in 0..7 /\ cpuDiv \in {ccdiv[c] : c \in 0..7}
  /\ wakefl \subseteq WakeSrcs /\ wakeen \subseteq WakeSrcs
  /\ portA \subseteq Lines /\ lastRead \subseteq Lines
  /\ btnPressed \in Buttons \cup {NoButton} /\ btnReleaseTm \in 0..RELEASETIME
  /\ irnx \in 0..FREEZE /\ lit \in BOOLEAN
  /\ iflags \subseteq IntLo \cup IntMi
  /\ ien \in (SUBSET IntLo) \X (SUBSET IntMi)
  /\ masked \in BOOLEAN
  /\ nmictl \subseteq {"NMIEN", "T1"} /\ nmiflags \subseteq {"T1"}
  /\ taken \in IntLo \cup IntMi \cup {NoInt}
  /\ running \in BOOLEAN

Init ==
  /\ clkctl = WAKEUP /\ cpuDiv = ccdiv[WAKEUP]
  /\ wakefl = {} /\ wakeen = {}
  /\ portA = Buttons /\ lastRead = {}
  /\ btnPressed = NoButton /\ btnReleaseTm = 0
  /\ irnx = 0 /\ lit = FALSE
  /\ iflags = {} /\ ien = <<{}, {}>> /\ masked = TRUE
  /\ nmictl = {} /\ nmiflags = {} /\ taken = NoInt
  /\ running = FALSE

-----------------------------------------------------------------------------
(* tamaWakeSrc() for each of these sources. *)
WakeSrc(srcs) ==
  /\ wakefl' = wakefl \cup srcs
  /\ IF clkctl = OFF /\ wakeen \cap srcs # {}
     THEN clkctl' = WAKEUP /\ cpuDiv' = ccdiv[WAKEUP]
     ELSE UNCHANGED clock

Toggled(lines, b) == IF b \in lines THEN lines \ {b} ELSE lines \cup {b}

(* Mutant: a second press is not ignored. *)
PressBtn_Again(b) ==
  /\ ~running
  /\ portA' = Toggled(portA, b) /\ WakeSrc({"BTN"})
  /\ btnPressed' = b /\ btnReleaseTm' = RELEASETIME
  /\ UNCHANGED <<wakeen, lastRead, ir, irq, running>>

(* The player, or a key: ignored while a button is down. *)
PressBtn(b) ==
  /\ ~running /\ btnReleaseTm = 0
  /\ portA' = Toggled(portA, b) /\ WakeSrc({"BTN"})
  /\ btnPressed' = b /\ btnReleaseTm' = RELEASETIME
  /\ UNCHANGED <<wakeen, lastRead, ir, irq, running>>

-----------------------------------------------------------------------------
(* The interrupts enabled.  The registers are signed chars: the top bit of  *)
(* INTCTLLO, timer 0, is extended over all of INTCTLMI.                     *)
Enabled == ien[1] \cup IF "T0" \in ien[1] THEN IntMi ELSE ien[2]

(* The order in which they are tried: the first one masks the others. *)
Priority == <<"FP", "SPI", "SPU", "8K", "2K", "T0", "TBL", "TBH", "T1">>

Take(pending) ==
  \/ /\ ~masked /\ masked' = TRUE
     /\ \E n \in DOMAIN Priority :
          /\ Priority[n] \in pending /\ \A k \in 1..(n - 1) : Priority[k] \notin pending
          /\ taken' = Priority[n]
  \/ /\ masked \/ pending = {}
     /\ taken' = NoInt /\ UNCHANGED masked

(* Timer 1 also raises the NMI, if that is enabled. *)
Interrupts(due) ==
  /\ iflags' = iflags \cup due
  /\ Take((iflags \cup due) \cap Enabled)
  /\ nmiflags' = IF "NMIEN" \in nmictl THEN nmiflags \cup (due \cap {"T1"}) ELSE nmiflags
  /\ UNCHANGED <<ien, nmictl>>

Left     == IF btnReleaseTm = 0 THEN 0 ELSE btnReleaseTm - 1
Released == btnReleaseTm = 1

(* Mutant: the CPU is only woken by changes, not by what it has not read. *)
Emulate_NoCompare(lines, due) ==
  LET seen == IF Released THEN Toggled(lines, btnPressed) ELSE lines
  IN  /\ portA' = seen /\ btnReleaseTm' = Left
      /\ WakeSrc((due \cap WakeTimers) \cup (IF Released THEN {"BTN"} ELSE {}))
      /\ Interrupts(due)
      /\ running' \in {FALSE, cpuDiv # 0}
      /\ irnx' = 0 /\ UNCHANGED <<lit, btnPressed, lastRead, wakeen>>

(* The timers that are due, their interrupts, the release of a button, and  *)
(* at last the CPU, if its clock ran at the beginning of the tick and it    *)
(* has not overdrawn its cycles.  (timers: those that expire in this tick;  *)
(* which of them another one, or the clock, counts up is left open.)        *)
Emulate(lines, due) ==
  LET seen == IF Released THEN Toggled(lines, btnPressed) ELSE lines
  IN  /\ portA' = seen /\ btnReleaseTm' = Left
      /\ WakeSrc((due \cap WakeTimers)
                 \cup (IF Released \/ lastRead # seen THEN {"BTN"} ELSE {}))
      /\ Interrupts(due)
      /\ running' \in {FALSE, cpuDiv # 0}
      /\ irnx' = 0 /\ UNCHANGED <<lit, btnPressed, lastRead, wakeen>>

(* The tama stands still to make up for the time a datagram took. *)
Frozen(lines, nx) ==
  /\ portA' = lines /\ irnx' = nx - 1
  /\ UNCHANGED <<clock, wake, lastRead, button, irq, running>>

(* irTick(): the receiver's line is low in the light; and when the program  *)
(* has flashed the LED, a datagram may be complete.                         *)
HwTick ==
  /\ ~running
  /\ \E light \in BOOLEAN, nx \in {irnx} \cup (IF lit THEN {irnx + FREEZE} ELSE {}) :
       LET lines == IF light THEN portA \ {"IR"} ELSE portA \cup {"IR"}
       IN  IF nx # 0
           THEN Frozen(lines, nx) /\ lit' = (lit /\ nx = irnx)
           ELSE \E due \in SUBSET Timers : Emulate(lines, due)

-----------------------------------------------------------------------------
(* The program: reads and writes of the registers. *)
KeepAllBut(rest) == running /\ UNCHANGED <<rest, btnPressed, btnReleaseTm, irnx, running>>

Pending == wakefl \cap wakeen # {}

(* CLKCTL: the divider and, if there already is something to wake up for,   *)
(* the divider after waking up; but the register gets the value written.    *)
WriteClkCtl(c) ==
  /\ clkctl' = c
  /\ cpuDiv' = IF ccdiv[c] = 0 /\ Pending THEN ccdiv[WAKEUP] ELSE ccdiv[c]
  /\ KeepAllBut(<<wake, port, lit, irq>>)

(* Mutant: nothing wakes a CPU that was stopped by an older CLKCTL. *)
WriteTimCtl_NoWakeup ==
  /\ cpuDiv' = ccdiv[clkctl] /\ UNCHANGED clkctl
  /\ KeepAllBut(<<wake, port, lit, irq>>)

(* TIMCTL, TIMBASE: all dividers are computed again, the CPU's too. *)
WriteTimCtl ==
  /\ IF ccdiv[clkctl] = 0 /\ Pending
     THEN clkctl' = WAKEUP /\ cpuDiv' = ccdiv[WAKEUP]
     ELSE cpuDiv' = ccdiv[clkctl] /\ UNCHANGED clkctl
  /\ KeepAllBut(<<wake, port, lit, irq>>)

WriteWakeEn(s) == wakeen' = s /\ KeepAllBut(<<clock, wakefl, port, lit, irq>>)
WriteWakeFl(s) == wakefl' = wakefl \ s /\ KeepAllBut(<<clock, wakeen, port, lit, irq>>)

ReadPortA == lastRead' = portA /\ KeepAllBut(<<clock, wake, portA, lit, irq>>)

(* The LED, a line of port B (its other lines are the I2C bus). *)
Flash == lit' = TRUE /\ KeepAllBut(<<clock, wake, port, irq>>)

WriteIntCtl(lo, mi) ==
  /\ ien' = <<lo, mi>>
  /\ KeepAllBut(<<clock, wake, port, lit, iflags, masked, nmictl, nmiflags, taken>>)
ClearInt(s) ==
  /\ iflags' = iflags \ s
  /\ KeepAllBut(<<clock, wake, port, lit, ien, masked, nmictl, nmiflags, taken>>)
WriteNmiCtl(s) ==
  /\ nmictl' = s /\ nmiflags' = nmiflags \cap s
  /\ KeepAllBut(<<clock, wake, port, lit, iflags, ien, masked, taken>>)
SetMask(m) ==
  /\ masked' = m
  /\ KeepAllBut(<<clock, wake, port, lit, iflags, ien, nmictl, nmiflags, taken>>)

EndBatch == running /\ running' = FALSE /\ UNCHANGED <<clock, wake, port, button, ir, irq>>

Program ==
  \/ \E c \in ClkValues : WriteClkCtl(c)
  \/ WriteTimCtl
  \/ \E s \in WakeEnValues : WriteWakeEn(s)
  \/ \E s \in SUBSET wakefl : WriteWakeFl(s)
  \/ ReadPortA \/ Flash
  \/ \E lo \in LoValues, mi \in MiValues : WriteIntCtl(lo, mi)
  \/ \E i \in iflags : ClearInt({i})
  \/ \E s \in {{}, {"NMIEN", "T1"}} : WriteNmiCtl(s)
  \/ \E m \in BOOLEAN : SetMask(m)

Next == HwTick \/ EndBatch \/ Program \/ \E b \in Buttons : PressBtn(b)

(* Frames go on for ever, and so do the ticks; a tick ends. *)
Spec == Init /\ [][Next]_vars /\ WF_vars(HwTick) /\ WF_vars(EndBatch)

-----------------------------------------------------------------------------
(* A line of port A that is low is let go again, also when another press    *)
(* comes while its button is held, and when the tama is frozen in between,  *)
(* as often as it likes: no line stays inverted.                            *)
ButtonsAreReleased == \A b \in Buttons : (b \notin portA) ~> (b \in portA)

Asleep == cpuDiv = 0

(* Only the program can make the CPU sleep although there is something it   *)
(* wants to be woken for, and only by asking for it when already asleep.    *)
NoLostWakeup ==
  [][(Asleep /\ Pending)' => (Asleep /\ Pending) \/ wakeen' # wakeen]_vars

(* A CPU that wants to be woken for buttons does not sleep on while there   *)
(* is something on port A that it has not read.                             *)
UnseenPortWakes ==
  (Asleep /\ ~running /\ "BTN" \in wakeen /\ lastRead # portA)
    ~> (~Asleep \/ lastRead = portA)
=============================================================================

----------------------------- MODULE MacroEngine -----------------------------
(***************************************************************************)
(* The macro engine of the emulator's player (emu/benevolentai.c): a macro *)
(* is a short program of button presses, waits and icon selections.  Once  *)
(* a frame macroRun() looks at the freshly rendered screen and says which  *)
(* buttons to press.  Milliseconds are counted a frame at a time.          *)
(***************************************************************************)
EXTENDS Integers, Sequences, MacroTable

CONSTANTS
  MSPASSED,    \* milliseconds between two frames: 1000/15
  ATTEMPTS     \* frames an icon selection gives itself: 15

ASSUME MacroAssumption == MSPASSED \in Nat \ {0} /\ ATTEMPTS \in Nat \ {0}

MenuIcons == 1..9          \* the nine icons of the menu: bits 0 to 8 of the bitmap
ATTENTION == 10            \* the tenth, which the tama lights when it wants something
Icons     == SUBSET (MenuIcons \cup {ATTENTION})   \* lcd->icons: the icons lit
NoIcon    == 1..32         \* -1: every bit of an int

VARIABLES
  curMacro,      \* the macro run latest
  macroPos,      \* commands of it that were begun
  waitTimeMs,    \* nothing is done until it has run out
  state,         \* ST_IDLE, ST_NEXT, ST_ICONSEL, ST_BTNCHECK
  oldIcon,       \* the icons remembered from an earlier attempt
  iconAttempts,
  buttons        \* what macroRun() returned in this frame

vars == <<curMacro, macroPos, waitTimeMs, state, oldIcon, iconAttempts, buttons>>

MaxWait == 10000          \* the longest wait of a macro, in ms

TypeOK ==
  /\ curMacro \in DOMAIN macros
  /\ macroPos \in 0..Len(macros[curMacro])
  /\ waitTimeMs \in 0..MaxWait
  /\ state \in {"IDLE", "NEXT", "ICONSEL", "BTNCHECK"}
  /\ oldIcon \in Icons \cup {NoIcon}
  /\ iconAttempts \in 0..ATTEMPTS
  /\ buttons \in SUBSET (1..3)

-----------------------------------------------------------------------------
(* benevolentAiInit() starts the macro that loads the EEPROM. *)
Init ==
  /\ curMacro = "loadeep" /\ macroPos = 0 /\ state = "NEXT"
  /\ waitTimeMs = 0 /\ oldIcon = NoIcon /\ iconAttempts = 0 /\ buttons = {}

(* benevolentAiMacroRun(): refused while another macro runs. *)
MacroRun(m) ==
  /\ state = "IDLE"
  /\ curMacro' = m /\ macroPos' = 0 /\ state' = "NEXT" /\ buttons' = {}
  /\ UNCHANGED <<waitTimeMs, oldIcon, iconAttempts>>

Cmd == macros[curMacro][macroPos]       \* the command begun latest

Waiting ==
  /\ state # "IDLE" /\ waitTimeMs - MSPASSED > 0
  /\ waitTimeMs' = waitTimeMs - MSPASSED /\ buttons' = {}
  /\ UNCHANGED <<curMacro, macroPos, state, oldIcon, iconAttempts>>

(* The wait is over in this frame. *)
Due == waitTimeMs - MSPASSED <= 0

EndOfMacro ==
  /\ state = "NEXT" /\ Due /\ macroPos = Len(macros[curMacro])
  /\ state' = "IDLE" /\ waitTimeMs' = 0 /\ buttons' = {}
  /\ UNCHANGED <<curMacro, macroPos, oldIcon, iconAttempts>>

NextCommand ==
  /\ state = "NEXT" /\ Due /\ macroPos < Len(macros[curMacro])
  /\ macroPos' = macroPos + 1
  /\ LET c == macros[curMacro][macroPos + 1] IN
       \/ /\ c.op = "p"
          /\ buttons' = {c.arg} /\ waitTimeMs' = 400 /\ state' = "BTNCHECK"
          /\ UNCHANGED <<oldIcon, iconAttempts>>
       \/ /\ c.op = "w"
          /\ buttons' = {} /\ waitTimeMs' = c.arg * 100
          /\ UNCHANGED <<state, oldIcon, iconAttempts>>
       \/ /\ c.op = "s"
          /\ buttons' = {} /\ waitTimeMs' = 0 /\ state' = "ICONSEL"
          /\ oldIcon' = NoIcon /\ iconAttempts' = 0
  /\ UNCHANGED curMacro

(* Mutant: pressing again until the screen changes. *)
ButtonCheck_Forever(changed) ==
  /\ state = "BTNCHECK" /\ Due
  /\ IF changed THEN state' = "NEXT" /\ waitTimeMs' = 0 /\ buttons' = {}
                ELSE waitTimeMs' = 300 /\ buttons' = {Cmd.arg} /\ UNCHANGED state
  /\ UNCHANGED <<curMacro, macroPos, oldIcon, iconAttempts>>

(* 400 ms after a press: did the screen change?  If not, press once more.  *)
ButtonCheck(changed) ==
  /\ state = "BTNCHECK" /\ Due /\ state' = "NEXT"
  /\ IF changed THEN waitTimeMs' = 0 /\ buttons' = {}
                ELSE waitTimeMs' = 300 /\ buttons' = {Cmd.arg}
  /\ UNCHANGED <<curMacro, macroPos, oldIcon, iconAttempts>>

(* Is the wanted icon lit?  For 0 none at all must be lit: ATTENTION keeps  *)
(* "s0" from being satisfied.                                               *)
Selected(icons) == IF Cmd.arg = 0 THEN icons = {} ELSE Cmd.arg \in icons

(* Mutant: bailing out too early. *)
IconSelect_EarlyBailOut(icons) ==
  /\ state = "ICONSEL" /\ Due
  /\ iconAttempts' = iconAttempts + 1
  /\ IF Selected(icons)
     THEN state' = "NEXT" /\ waitTimeMs' = 0 /\ buttons' = {}
     ELSE /\ state' = IF iconAttempts' >= 8 THEN "NEXT" ELSE "ICONSEL"
          /\ waitTimeMs' = 200 /\ buttons' = {1}
  /\ UNCHANGED <<curMacro, macroPos, oldIcon>>

(* Not on the wanted icon yet: press button 1 and look again in 200 ms; in *)
(* the last attempt the engine gives up, but still presses.  oldIcon is    *)
(* only ever set to "none", so the press of button 3 is never reached.     *)
IconSelect(icons) ==
  /\ state = "ICONSEL" /\ Due
  /\ iconAttempts' = iconAttempts + 1
  /\ IF Selected(icons)
     THEN state' = "NEXT" /\ waitTimeMs' = 0 /\ buttons' = {} /\ UNCHANGED oldIcon
     ELSE /\ state' = IF iconAttempts' = ATTEMPTS THEN "NEXT" ELSE "ICONSEL"
          /\ waitTimeMs' = 200
          /\ IF oldIcon = icons THEN oldIcon' = NoIcon /\ buttons' = {3}
                               ELSE UNCHANGED oldIcon /\ buttons' = {1}
  /\ UNCHANGED <<curMacro, macroPos>>

(* macroRun() on a screen with these icons lit, changed or not since oldLcd. *)
Frame(icons, changed) ==
  \/ Waiting \/ EndOfMacro \/ NextCommand
  \/ ButtonCheck(changed) \/ IconSelect(icons)

-----------------------------------------------------------------------------
(* The engine does what the rest of the program relies on, and every macro  *)
(* comes to its end whatever the screen shows.                              *)
Runner == INSTANCE MacroRunner
  WITH running <- IF state = "IDLE" THEN "none" ELSE curMacro,
       pos     <- IF state = "IDLE" THEN 0 ELSE macroPos,
       open    <- state \in {"ICONSEL", "BTNCHECK"}

RunnerSpec == Runner!Spec
==============================================================================

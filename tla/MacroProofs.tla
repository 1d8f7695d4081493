----------------------------- MODULE MacroProofs -----------------------------
(***************************************************************************)
(* Theorems about the macro engine for every length of a frame, every      *)
(* number of attempts and every number of presses the tama may miss.       *)
(***************************************************************************)
EXTENDS MacroOnMenu, SequenceTheorems, TLAPS

Commands ==
  [op : {"p"}, arg : 1..3] \cup [op : {"w"}, arg : 0..100] \cup [op : {"s"}, arg : Positions]

LEMMA CommandTypes ==
  /\ \A n \in 1..3 : P(n) \in Commands
  /\ \A n \in 0..100 : W(n) \in Commands
  /\ \A n \in Positions : S(n) \in Commands
  BY DEF P, W, S, Commands

(* Every macro of the table is a sequence of commands the engine knows. *)
LEMMA TableType ==
  ASSUME NEW m \in DOMAIN macros
  PROVE  macros[m] \in Seq(Commands)
<1>1. /\ P(1) \in Commands /\ P(2) \in Commands /\ P(3) \in Commands
      /\ S(0) \in Commands /\ S(1) \in Commands /\ S(2) \in Commands /\ S(3) \in Commands
      /\ S(4) \in Commands /\ S(6) \in Commands /\ S(7) \in Commands /\ S(8) \in Commands
      /\ W(1) \in Commands /\ W(5) \in Commands /\ W(10) \in Commands /\ W(20) \in Commands
      /\ W(40) \in Commands /\ W(50) \in Commands /\ W(90) \in Commands /\ W(100) \in Commands
  BY CommandTypes DEF Positions
<1>2. /\ macros.feedmeal \in Seq(Commands)
      /\ macros.feedsnack \in Seq(Commands)
      /\ macros.train \in Seq(Commands)
  BY <1>1 DEF macros
<1>3. /\ macros.medicine \in Seq(Commands)
      /\ macros.loadeep \in Seq(Commands)
      /\ macros.updvars \in Seq(Commands)
  BY <1>1 DEF macros
<1>4. /\ macros.updexit \in Seq(Commands)
      /\ macros.toilet \in Seq(Commands)
      /\ macros.toiletpraise \in Seq(Commands)
  BY <1>1 DEF macros
<1>5. /\ macros.lightoff \in Seq(Commands)
      /\ macros.playstb \in Seq(Commands)
      /\ macros.playjump \in Seq(Commands)
  BY <1>1 DEF macros
<1>6. /\ macros.exitgame \in Seq(Commands)
      /\ macros.stbshoot \in Seq(Commands)
      /\ macros.dojump \in Seq(Commands)
  BY <1>1 DEF macros
<1>7. /\ macros.irgamecl \in Seq(Commands)
      /\ macros.irvisitcl \in Seq(Commands)
      /\ macros.irgamema \in Seq(Commands)
  BY <1>1 DEF macros
<1>8. /\ macros.irvisitma \in Seq(Commands)
      /\ macros.irgamejmp \in Seq(Commands)
      /\ macros.irfailexit \in Seq(Commands)
  BY <1>1 DEF macros
<1>9. /\ macros.born \in Seq(Commands)
      /\ macros.cuddle \in Seq(Commands)
      /\ macros.tst \in Seq(Commands)
  BY <1>1 DEF macros
<1>10. DOMAIN macros =
        {"feedmeal", "feedsnack", "train", "medicine", "loadeep", "updvars", "updexit",
         "toilet", "toiletpraise", "lightoff", "playstb", "playjump", "exitgame",
         "stbshoot", "dojump", "irgamecl", "irvisitcl", "irgamema", "irvisitma",
         "irgamejmp", "irfailexit", "born", "cuddle", "tst"}
  BY DEF macros
<1> QED BY <1>2, <1>3, <1>4, <1>5, <1>6, <1>7, <1>8, <1>9, <1>10

LEMMA TableFacts ==
  /\ "loadeep" \in DOMAIN macros
  /\ "none" \notin DOMAIN macros
  BY DEF macros

(* The command begun latest, and what its kind says of its argument. *)
LEMMA CommandAt ==
  ASSUME NEW m \in DOMAIN macros, NEW i \in 1..Len(macros[m])
  PROVE  /\ macros[m][i].op \in {"p", "w", "s"}
         /\ macros[m][i].op = "p" => macros[m][i].arg \in 1..3
         /\ macros[m][i].op = "w" => macros[m][i].arg \in 0..100
         /\ macros[m][i].op = "s" => macros[m][i].arg \in Positions
<1>1. macros[m][i] \in Commands
  BY TableType, ElementOfSeq
<1> QED BY <1>1 DEF Commands

LEMMA TableLength ==
  ASSUME NEW m \in DOMAIN macros
  PROVE  Len(macros[m]) \in Nat
  BY TableType, LenProperties

-----------------------------------------------------------------------------
(* Types, and what the engine is in the middle of: a check belongs to a     *)
(* press, a selection to a select command, and a selection has attempts     *)
(* left and remembers no icon.                                              *)
EngineInv ==
  /\ TypeOK
  /\ lost \in 0..(MAXLOST + 1)
  /\ state \in {"ICONSEL", "BTNCHECK"} => macroPos >= 1
  /\ state = "BTNCHECK" => Cmd.op = "p"
  /\ state = "ICONSEL" => Cmd.op = "s" /\ iconAttempts < ATTEMPTS
  /\ oldIcon = NoIcon
  /\ cursor \in Positions
  /\ misled \in BOOLEAN

(* The presses from the lit icon to the wanted one, once round if need be. *)
Distance == IF Cmd.arg >= cursor THEN Cmd.arg - cursor ELSE Cmd.arg + 10 - cursor

(* What an attempt that is not lost brings: at most nine presses are       *)
(* needed at first, and every attempt so far was one of them or was lost.   *)
GettingThere ==
  state = "ICONSEL" /\ lost <= MAXLOST /\ ~misled => Distance <= 9 - (iconAttempts - lost)

MenuInv == EngineInv /\ GettingThere

(* Every wait that a command asks for is one of the longest or less. *)
LEMMA Waits ==
  /\ MaxWait \in Nat /\ 0 \in 0..MaxWait /\ 200 \in 0..MaxWait /\ 400 \in 0..MaxWait
  /\ \A n \in 0..100 : n * 100 \in 0..MaxWait
<1>1. MaxWait = 100 * 100
  BY DEF MaxWait
<1>2. \A n \in 0..100 : n * 100 \in Nat /\ n * 100 <= 100 * 100
  OBVIOUS
<1>3. 100 * 100 \in Nat /\ 200 <= 100 * 100 /\ 400 <= 100 * 100
  OBVIOUS
<1> DEFINE m == 100 * 100
<1>4. MaxWait = m /\ m \in Nat /\ 200 <= m /\ 400 <= m
  BY <1>1, <1>3
<1>5. \A n \in 0..100 : n * 100 \in Nat /\ n * 100 <= m
  BY <1>2
<1> HIDE DEF m
<1> QED BY <1>4, <1>5

LEMMA InitOK == Init /\ MInit => MenuInv
<1> SUFFICES ASSUME MInit PROVE MenuInv
  BY DEF MInit
<1>1. Init /\ cursor = 0 /\ lost = 0 /\ misled = FALSE
  BY DEF MInit
<1>2. curMacro \in DOMAIN macros /\ macroPos \in 0..Len(macros[curMacro])
  BY <1>1, TableFacts, TableLength DEF Init
<1>3. TypeOK
  BY <1>1, <1>2, MacroAssumption, Waits DEF Init, TypeOK, Icons
<1>4. misled \in BOOLEAN
  BY <1>1, Zenon
<1> QED BY <1>1, <1>3, <1>4, MenuAssumption DEF Init, MenuInv, EngineInv, GettingThere, Positions

LEMMA TypeFacts ==
  ASSUME TypeOK
  PROVE  /\ curMacro \in DOMAIN macros
         /\ Len(macros[curMacro]) \in Nat
         /\ macroPos \in Int /\ 0 <= macroPos /\ macroPos <= Len(macros[curMacro])
         /\ waitTimeMs \in Int /\ MSPASSED \in Int /\ ATTEMPTS \in Int
         /\ MSPASSED > 0 /\ ATTEMPTS > 0
         /\ iconAttempts \in Int
  BY TableLength, MacroAssumption DEF TypeOK

LEMMA LessToWait ==
  ASSUME NEW w \in 0..MaxWait, NEW m \in Nat, w - m > 0
  PROVE  w - m \in 0..MaxWait
BY Waits

(* Only the wait and the buttons change. *)
LEMMA TypeKept ==
  ASSUME TypeOK, UNCHANGED <<curMacro, macroPos, state, oldIcon, iconAttempts>>,
         waitTimeMs' \in 0..MaxWait, buttons' \in SUBSET (1..3)
  PROVE  TypeOK'
BY DEF TypeOK

LEMMA WaitingKeepsType ==
  ASSUME TypeOK, Waiting
  PROVE  TypeOK'
<1>1. waitTimeMs \in 0..MaxWait /\ MSPASSED \in Nat
  BY MacroAssumption DEF TypeOK
<1>2. waitTimeMs - MSPASSED > 0 /\ waitTimeMs' = waitTimeMs - MSPASSED /\ buttons' = {}
  BY DEF Waiting
<1>3. waitTimeMs' \in 0..MaxWait
  BY <1>1, <1>2, LessToWait
<1>4. buttons' \in SUBSET (1..3)
  BY <1>2
<1>5. UNCHANGED <<curMacro, macroPos, state, oldIcon, iconAttempts>>
  BY DEF Waiting
<1> QED BY <1>3, <1>4, <1>5, TypeKept

(* The screen never shows what the engine remembers.                        *)
LEMMA NotAllLit ==
  ASSUME NEW icons \in Icons
  PROVE  icons # NoIcon
<1>1. 32 \in NoIcon /\ 32 \notin MenuIcons \cup {ATTENTION}
  BY DEF NoIcon, MenuIcons, ATTENTION
<1> QED BY <1>1 DEF Icons

LEMMA LitIsIcons ==
  ASSUME NEW p, NEW attention
  PROVE  Lit(p, attention) \in Icons
BY DEF Lit, Icons

(* One frame of the engine, in front of any screen. *)
LEMMA FrameKeeps ==
  ASSUME EngineInv, NEW icons \in Icons, NEW changed \in BOOLEAN, Frame(icons, changed),
         cursor' \in Positions, lost' \in 0..(MAXLOST + 1), misled' \in BOOLEAN
  PROVE  EngineInv'
<1>a. /\ curMacro \in DOMAIN macros /\ Len(macros[curMacro]) \in Nat
      /\ macroPos \in Int /\ 0 <= macroPos /\ macroPos <= Len(macros[curMacro])
      /\ waitTimeMs \in Int /\ MSPASSED \in Int /\ ATTEMPTS \in Int
      /\ MSPASSED > 0 /\ ATTEMPTS > 0 /\ iconAttempts \in Int
  BY TypeFacts DEF EngineInv
<1> USE <1>a DEF EngineInv
<1>0. macroPos >= 1 => /\ Cmd.op \in {"p", "w", "s"}
                       /\ Cmd.op = "p" => Cmd.arg \in 1..3
                       /\ Cmd.op = "s" => Cmd.arg \in Positions
  BY CommandAt DEF Cmd
<1>1. CASE Waiting
  <2>1. TypeOK'
    BY <1>1, WaitingKeepsType
  <2> QED BY <1>1, <2>1 DEF Waiting, Cmd
<1>2. CASE EndOfMacro
  <2>1. TypeOK'
    BY <1>2, Waits DEF EndOfMacro, TypeOK
  <2> QED BY <1>2, <2>1 DEF EndOfMacro
<1>3. CASE NextCommand
  <2> DEFINE c == macros[curMacro][macroPos + 1]
  <2>1. macroPos + 1 \in 1..Len(macros[curMacro]) /\ macroPos' = macroPos + 1 /\ curMacro' = curMacro
    BY <1>3 DEF NextCommand
  <2>2. /\ c.op \in {"p", "w", "s"}
        /\ c.op = "p" => c.arg \in 1..3
        /\ c.op = "w" => c.arg \in 0..100
    BY <2>1, CommandAt
  <2>3. Cmd' = c
    BY <2>1 DEF Cmd
  <2>4. \/ /\ c.op = "p"
           /\ buttons' = {c.arg} /\ waitTimeMs' = 400 /\ state' = "BTNCHECK"
           /\ UNCHANGED <<oldIcon, iconAttempts>>
        \/ /\ c.op = "w"
           /\ buttons' = {} /\ waitTimeMs' = c.arg * 100
           /\ UNCHANGED <<state, oldIcon, iconAttempts>>
        \/ /\ c.op = "s"
           /\ buttons' = {} /\ waitTimeMs' = 0 /\ state' = "ICONSEL"
           /\ oldIcon' = NoIcon /\ iconAttempts' = 0
    BY <1>3 DEF NextCommand
  <2>5. state = "NEXT"
    BY <1>3 DEF NextCommand
  <2> HIDE DEF c
  <2>6. waitTimeMs' \in 0..MaxWait
    <3>1. PICK n \in 0..100 : c.op = "w" => n = c.arg
      BY <2>2
    <3>2. waitTimeMs' \in {0, 400, n * 100}
      BY <2>4, <3>1
    <3> QED BY <3>1, <3>2, Waits
  <2>7. macroPos' \in 0..Len(macros[curMacro'])
    BY <2>1
  <2>8. TypeOK'
    <3>1. /\ curMacro' \in DOMAIN macros /\ state' \in {"NEXT", "ICONSEL", "BTNCHECK"}
          /\ oldIcon' \in Icons \cup {NoIcon} /\ iconAttempts' \in 0..ATTEMPTS
      BY <2>1, <2>4, <2>5 DEF TypeOK
    <3>2. buttons' \in SUBSET (1..3)
      BY <2>2, <2>4
    <3> QED BY <2>6, <2>7, <3>1, <3>2 DEF TypeOK
  <2> QED BY <2>1, <2>3, <2>4, <2>5, <2>8
<1>4. CASE ButtonCheck(changed)
  <2>1. Cmd.arg \in 1..3
    BY <1>0, <1>4 DEF ButtonCheck
  <2>2. TypeOK'
    BY <1>4, <2>1, Waits DEF ButtonCheck, TypeOK
  <2> QED BY <1>4, <2>2 DEF ButtonCheck
<1>5. CASE IconSelect(icons)
  <2>1. oldIcon # icons
    BY NotAllLit
  <2>2. /\ iconAttempts' = iconAttempts + 1 /\ state' \in {"NEXT", "ICONSEL"}
        /\ state' = "ICONSEL" => iconAttempts' # ATTEMPTS
        /\ UNCHANGED <<oldIcon, curMacro, macroPos>> /\ state = "ICONSEL"
        /\ \/ buttons' = {} /\ waitTimeMs' = 0
           \/ buttons' = {1} /\ waitTimeMs' = 200
    BY <1>5, <2>1 DEF IconSelect
  <2>3. TypeOK'
    BY <2>2, Waits DEF TypeOK
  <2>4. Cmd' = Cmd
    BY <2>2 DEF Cmd
  <2> QED BY <2>2, <2>3, <2>4
<1> QED BY <1>1, <1>2, <1>3, <1>4, <1>5 DEF Frame

LEMMA ElsewhereStep ==
  ASSUME MenuInv, Elsewhere
  PROVE  MenuInv'
<1>1. PICK changed \in BOOLEAN : Frame({}, changed)
  BY DEF Elsewhere
<1>2. cursor' \in Positions /\ {} \in Icons /\ lost' = 0 /\ lost' \in 0..(MAXLOST + 1) /\ state # "ICONSEL"
  BY MenuAssumption DEF Elsewhere, MenuInv, EngineInv, Icons
<1>a. misled' \in BOOLEAN
  BY Zenon DEF Elsewhere
<1>3. EngineInv'
  BY <1>1, <1>2, <1>a, FrameKeeps DEF MenuInv
<1>4. state' = "ICONSEL" => iconAttempts' = 0
  BY <1>1, <1>2
  DEF Frame, Waiting, EndOfMacro, NextCommand, ButtonCheck, IconSelect
<1>5. state' = "ICONSEL" => Cmd'.arg \in Positions
  <2> SUFFICES ASSUME state' = "ICONSEL" PROVE Cmd'.arg \in Positions
    OBVIOUS
  <2>1. TypeOK' /\ macroPos' >= 1 /\ Cmd'.op = "s"
    BY <1>3 DEF EngineInv
  <2>2. curMacro' \in DOMAIN macros /\ macroPos' \in 1..Len(macros[curMacro'])
    BY <2>1, TableLength DEF TypeOK
  <2>3. Cmd' = macros[curMacro'][macroPos']
    BY DEF Cmd
  <2> QED BY <2>1, <2>2, <2>3, CommandAt
<1>6. GettingThere'
  BY <1>2, <1>4, <1>5 DEF GettingThere, Distance, Positions
<1> QED BY <1>3, <1>6 DEF MenuInv

LEMMA SelectingStep ==
  ASSUME MenuInv, Selecting
  PROVE  /\ MenuInv'
         /\ ATTEMPTS >= MAXLOST + 10 /\ state' = "NEXT" /\ lost <= MAXLOST /\ lost' <= MAXLOST
              => cursor = Cmd.arg \/ misled'
<1>0. PICK attention \in BOOLEAN :
        /\ Frame(Lit(cursor, attention), TRUE)
        /\ misled' = (misled \/ (Due /\ attention /\ cursor = 0 /\ Cmd.arg = 0))
  BY DEF Selecting
<1> DEFINE icons == Lit(cursor, attention)
<1>b. state = "ICONSEL" /\ icons \in Icons /\ oldIcon # icons /\ misled' \in BOOLEAN
  BY <1>0, LitIsIcons, NotAllLit DEF Selecting, MenuInv, EngineInv
<1>a. /\ iconAttempts \in Int /\ ATTEMPTS \in Int /\ iconAttempts < ATTEMPTS
      /\ curMacro \in DOMAIN macros
      /\ macroPos \in 1..Len(macros[curMacro])
  BY <1>b, TypeFacts DEF MenuInv, EngineInv
<1> USE <1>a, MenuAssumption DEF MenuInv, EngineInv
<1>1. lost \in Int /\ MAXLOST \in Int /\ cursor \in Int /\ 0 <= cursor /\ cursor <= 9
  BY DEF Positions
<1>2. Cmd.arg \in Int /\ 0 <= Cmd.arg /\ Cmd.arg <= 9
  BY <1>b, CommandAt DEF Cmd, Positions
<1>3. (cursor + 1) % 10 = IF cursor = 9 THEN 0 ELSE cursor + 1
  BY <1>1
<1>4. /\ cursor' \in Positions /\ lost' \in 0..(MAXLOST + 1)
      /\ \/ 1 \notin buttons' /\ cursor' = cursor /\ lost' = lost
         \/ 1 \in buttons' /\ cursor' = (IF cursor = 9 THEN 0 ELSE cursor + 1) /\ lost' = lost
         \/ 1 \in buttons' /\ cursor' = cursor /\ lost' = IF lost <= MAXLOST THEN lost + 1 ELSE lost
  BY <1>1, <1>3 DEF Selecting, Positions
<1>5. EngineInv'
  BY <1>0, <1>b, <1>4, FrameKeeps
<1>6. CASE Waiting
  <2>1. misled' = misled
    BY <1>0, <1>6, TypeFacts DEF Waiting, Due
  <2>2. GettingThere'
    BY <1>4, <1>6, <2>1 DEF Waiting, GettingThere, Distance, Cmd
  <2> QED BY <1>b, <1>5, <1>6, <2>2 DEF Waiting
<1>7. CASE IconSelect(icons)
  <2>1. iconAttempts' = iconAttempts + 1 /\ Cmd' = Cmd
    BY <1>7 DEF IconSelect, Cmd
  <2>2. CASE Selected(icons)
    <3>1. cursor = Cmd.arg
      BY <1>1, <1>2, <2>2 DEF Selected, Lit, MenuIcons, ATTENTION
    <3> QED BY <1>5, <1>7, <2>2, <3>1 DEF IconSelect, GettingThere
  <2>3. CASE ~Selected(icons)
    <3>1. /\ buttons' = {1}
          /\ state' = IF iconAttempts' = ATTEMPTS THEN "NEXT" ELSE "ICONSEL"
      BY <1>b, <1>7, <2>3 DEF IconSelect
    <3>m. misled' = FALSE => misled = FALSE /\ cursor # Cmd.arg
      <4> SUFFICES ASSUME misled' = FALSE, cursor = Cmd.arg PROVE FALSE
        BY <1>0
      <4>1. cursor # 0
        <5> SUFFICES ASSUME cursor = 0 PROVE FALSE
          OBVIOUS
        <5>1. attention = FALSE
          BY <1>0, <1>7 DEF IconSelect
        <5> QED BY <2>3, <5>1 DEF Selected, Lit, MenuIcons
      <4> QED BY <1>1, <2>3, <4>1 DEF Selected, Lit, MenuIcons
    <3>2. lost <= MAXLOST /\ ~misled' => /\ Distance <= 9 - (iconAttempts - lost)
                                        /\ 1 <= Distance /\ Distance \in Int
      BY <1>b, <1>1, <1>2, <3>m DEF GettingThere, Distance
    <3>3. CASE cursor' = (IF cursor = 9 THEN 0 ELSE cursor + 1) /\ lost' = lost
      <4>1. cursor # Cmd.arg => Distance' = Distance - 1
        BY <1>1, <1>2, <2>1, <3>3 DEF Distance
      <4>2. GettingThere'
        BY <1>1, <2>1, <3>m, <3>2, <3>3, <4>1 DEF GettingThere
      <4>3. ATTEMPTS >= MAXLOST + 10 /\ lost <= MAXLOST => state' # "NEXT" \/ misled'
        BY <1>1, <2>1, <3>1, <3>2
      <4> QED BY <1>5, <4>2, <4>3
    <3>4. CASE cursor' = cursor /\ lost' = IF lost <= MAXLOST THEN lost + 1 ELSE lost
      <4>1. Distance' = Distance
        BY <2>1, <3>4 DEF Distance
      <4>2. GettingThere'
        BY <1>1, <2>1, <3>2, <3>4, <4>1 DEF GettingThere
      <4>3. ATTEMPTS >= MAXLOST + 10 /\ lost <= MAXLOST => state' # "NEXT" \/ misled'
        BY <1>1, <2>1, <3>1, <3>2
      <4> QED BY <1>5, <4>2, <4>3
    <3> QED BY <1>4, <3>1, <3>3, <3>4
  <2> QED BY <2>2, <2>3
<1> QED BY <1>0, <1>b, <1>6, <1>7
    DEF Frame, EndOfMacro, NextCommand, ButtonCheck

LEMMA StartStep ==
  ASSUME MenuInv, MStart
  PROVE  MenuInv'
<1>1. PICK m \in DOMAIN macros : MacroRun(m) /\ UNCHANGED <<cursor, lost, misled>>
  BY DEF MStart
<1>2. TypeOK'
  BY <1>1, TableLength DEF MacroRun, MenuInv, EngineInv, TypeOK
<1> QED BY <1>1, <1>2 DEF MacroRun, MenuInv, EngineInv, GettingThere

LEMMA MenuInvStep == MenuInv /\ [MNext]_mvars => MenuInv'
<1>1. ASSUME MenuInv, UNCHANGED mvars
      PROVE  MenuInv'
  BY <1>1 DEF mvars, vars, MenuInv, EngineInv, GettingThere, Distance, Cmd, TypeOK
<1> QED BY <1>1, ElsewhereStep, SelectingStep, StartStep DEF MNext

(* The inductive invariant holds for ever. *)
THEOREM MenuInvAlways == MSpec => []MenuInv
<1>1. MInit => MenuInv
  BY InitOK DEF MInit
<1> QED BY <1>1, MenuInvStep, PTL DEF MSpec

(* The engine's variables keep their types. *)
THEOREM EngineTypeCorrect == MSpec => []TypeOK
<1>1. MenuInv => TypeOK
  BY DEF MenuInv, EngineInv
<1> QED BY <1>1, MenuInvAlways, PTL

(* A selection with as many attempts as the menu has positions and presses  *)
(* may be lost never goes on with another icon than the wanted one, unless  *)
(* ATTENTION was in the way of a macro that wants none.  One attempt fewer  *)
(* would not do.                                                            *)
THEOREM RightIconIsSelected ==
  ASSUME ATTEMPTS >= MAXLOST + 10
  PROVE  MSpec => RightIconSelected
<1>1. ASSUME MenuInv, [MNext]_mvars
      PROVE  [state = "ICONSEL" /\ state' = "NEXT" /\ lost <= MAXLOST /\ lost' <= MAXLOST
                => cursor = Cmd.arg \/ misled']_mvars
  <2>1. CASE Selecting
    BY <1>1, <2>1, SelectingStep
  <2>2. CASE Elsewhere \/ MStart
    BY <2>2 DEF Elsewhere, MStart, MacroRun
  <2> QED BY <1>1, <2>1, <2>2 DEF MNext
<1> QED BY <1>1, MenuInvAlways, PTL DEF MSpec, RightIconSelected

-----------------------------------------------------------------------------
(* The engine implements MacroRunner, but for its fairness. *)

LEMMA FrameIsRunners ==
  ASSUME EngineInv, NEW icons \in Icons, NEW changed \in BOOLEAN, Frame(icons, changed)
  PROVE  [Runner!Next]_(Runner!vars)
<1>1. /\ state \in {"IDLE", "NEXT", "ICONSEL", "BTNCHECK"} /\ curMacro # "none"
      /\ oldIcon # icons
      /\ state = "BTNCHECK" => macros[curMacro][macroPos].op = "p"
      /\ state = "ICONSEL" => macros[curMacro][macroPos].op = "s"
  BY TableFacts, NotAllLit DEF EngineInv, TypeOK, Cmd
<1>2. CASE Waiting
  BY <1>2 DEF Waiting, Runner!Next, Runner!Release
<1>3. CASE EndOfMacro
  BY <1>1, <1>3 DEF EndOfMacro, Runner!Next, Runner!End, Runner!None
<1>4. CASE NextCommand
  <2>1. Runner!Begin
    BY <1>1, <1>4 DEF NextCommand, Runner!Begin, Runner!None
  <2> QED BY <2>1 DEF Runner!Next
<1>5. CASE ButtonCheck(changed)
  <2>1. Runner!Close \/ Runner!Again
    BY <1>1, <1>5
    DEF ButtonCheck, Cmd, Runner!Close, Runner!Again, Runner!Begun, Runner!None
  <2> QED BY <2>1 DEF Runner!Next
<1>6. CASE IconSelect(icons)
  <2>1. Runner!Close \/ Runner!Again
    BY <1>1, <1>6
    DEF IconSelect, Cmd, Runner!Close, Runner!Again, Runner!Begun, Runner!None
  <2> QED BY <2>1 DEF Runner!Next
<1> QED BY <1>2, <1>3, <1>4, <1>5, <1>6 DEF Frame

(* What the runner promises, but for its end, which is left to the runs.    *)
RunnerSafety == Runner!Init /\ [][Runner!Next]_(Runner!vars)

(* Every macro is carried out as written: its commands one after the other, *)
(* each with presses of its own button only, and no macro is started inside *)
(* another.                                                                 *)
THEOREM EngineImplementsRunner == MSpec => RunnerSafety
<1>1. MInit => Runner!Init
  BY TableFacts DEF MInit, Init, Runner!Init
<1>2. MenuInv /\ [MNext]_mvars => [Runner!Next]_(Runner!vars)
  <2> SUFFICES ASSUME MenuInv, [MNext]_mvars
               PROVE  [Runner!Next]_(Runner!vars)
    OBVIOUS
  <2>1. {} \in Icons /\ EngineInv
    BY DEF MenuInv, Icons
  <2>2. CASE Elsewhere \/ Selecting
    BY <2>1, <2>2, FrameIsRunners, LitIsIcons DEF Elsewhere, Selecting
  <2>3. CASE MStart
    BY <2>3 DEF MStart, MacroRun, Runner!Next, Runner!Start, Runner!None
  <2>4. CASE UNCHANGED mvars
    BY <2>4 DEF mvars, vars, Runner!vars
  <2> QED BY <2>2, <2>3, <2>4 DEF MNext
<1> QED BY <1>1, <1>2, MenuInvAlways, PTL DEF MSpec, RunnerSafety
=============================================================================

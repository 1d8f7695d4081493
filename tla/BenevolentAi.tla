---------------------------- MODULE BenevolentAi ----------------------------
(***************************************************************************)
(* The emulator's player (emu/benevolentai.c): once a frame, unless a      *)
(* macro is running, it looks at the screen and decides what to do next.   *)
(* A step Frame is a frame in which no macro runs any more: MacroRunner,   *)
(* which the macro engine implements, says that there is always a next     *)
(* one.  Time stands still while a macro runs, as in the code.             *)
(***************************************************************************)
EXTENDS Integers, MacroTable

CONSTANTS
  Views,          \* screens: the set of known pictures each of them matches
  Levels,         \* hunger and happiness: numbers of hearts
  MSPASSED,       \* time of a frame
  CHECKINTERVAL,  \* time between two looks at the hearts: 120 s
  FIRSTCHECK,     \* time before the first one: 5 s
  CUDDLEMARGIN,   \* no cuddling in the last 3 s before a look
  INVITEMARGIN,   \* no invitations in the last 20 s before a look
  TIMEOUT         \* time given to a game or a visit: 20 s

ASSUME AiAssumption ==
  /\ Levels \subseteq 0..5
  /\ MSPASSED \in Nat \ {0}
  /\ CHECKINTERVAL \in Nat
  /\ FIRSTCHECK \in 0..CHECKINTERVAL
  /\ CUDDLEMARGIN \in 0..CHECKINTERVAL
  /\ INVITEMARGIN \in 0..CHECKINTERVAL
  /\ TIMEOUT \in Nat \ {0}

IrTypes == {"VISIT", "GAME"}
NoReq   == "none"                  \* irReq=0
Unknown == -1                      \* hunger, happy: never measured

BaStates == {"IDLE", "CHECKFOOD", "CHECKFOOD2", "FEED", "RECHECKFOOD",
             "RECHECKLESSHUNGRY", "RECHECKLESSHUNGRY2", "STB", "JUMP",
             "IRVISIT", "IRGAME"}

VARIABLES
  baState, baTimeMs, timeout,
  irReq, irMaster,              \* the infrared session asked for, and by whom
  hunger, happy, oldHunger, oldHappy,
  calm,                         \* nothing called for attention in the latest frame
  macro,                        \* the macro started in the latest frame
  sent                          \* the datagrams sent in the latest frame

hearts == <<hunger, happy>>
olds   == <<oldHunger, oldHappy>>
ir     == <<irReq, irMaster>>
vars   == <<baState, baTimeMs, timeout, ir, hearts, olds, calm, macro, sent>>

Datagrams == [type : {"IRSTART", "IRSTARTACK"}, ir : IrTypes]

(* baTimeMs is compared with bounds up to CHECKINTERVAL: more is as good as *)
(* one frame more.                                                          *)
MaxTime == CHECKINTERVAL + MSPASSED

TypeOK ==
  /\ baState \in BaStates
  /\ baTimeMs \in 0..MaxTime
  /\ timeout \in 0..TIMEOUT
  /\ irReq \in IrTypes \cup {NoReq}
  /\ irMaster \in BOOLEAN /\ calm \in BOOLEAN
  /\ hunger \in Levels \cup {Unknown} /\ happy \in Levels \cup {Unknown}
  /\ oldHunger \in Levels \cup {Unknown} /\ oldHappy \in Levels \cup {Unknown}
  /\ macro \in DOMAIN macros \cup {NoMacro}
  /\ sent \in SUBSET Datagrams

-----------------------------------------------------------------------------
Init ==
  /\ baState = "IDLE" /\ baTimeMs = CHECKINTERVAL - FIRSTCHECK /\ timeout = 0
  /\ irReq = NoReq /\ irMaster = FALSE
  /\ hunger = Unknown /\ happy = Unknown
  /\ oldHunger = Unknown /\ oldHappy = Unknown
  /\ calm = TRUE
  /\ macro = "loadeep" /\ sent = {}

(* A frame is handled for a screen v, a set of pictures it matches, and for *)
(* att, whether the tama's attention icon is lit.                           *)
Shows(v, pics) == v \cap pics # {}
Play(m)     == macro' = m /\ sent' = {}

(* baTimeMs+=mspassed, and the countdown of the timeout: when it runs out   *)
(* the state is BA_IDLE, whatever it was.                                   *)
Now == IF baTimeMs + MSPASSED > MaxTime THEN MaxTime ELSE baTimeMs + MSPASSED

Left == IF timeout <= MSPASSED THEN 0 ELSE timeout - MSPASSED

(* Mutant: the timeout only ends a session. *)
State_NotStb == IF timeout # 0 /\ timeout <= MSPASSED /\ baState # "STB"
                THEN "IDLE" ELSE baState
State == IF timeout # 0 /\ timeout <= MSPASSED THEN "IDLE" ELSE baState

KeepTime    == baTimeMs' = Now
KeepTimeout == timeout' = Left
KeepState   == baState' = State

(* We ask another tama for a game or a visit. *)
Invite(t) ==
  /\ irReq' = t /\ irMaster' = TRUE
  /\ sent' = {[type |-> "IRSTART", ir |-> t]} /\ macro' = NoMacro

-----------------------------------------------------------------------------
(* BA_IDLE: the branches of the if, in order; a branch is taken when none   *)
(* before it is.  First what the screen calls for.                          *)
Chores == {"poopie", "pooping", "sick", "born", "sleep", "dark", "alert"}

Chore(v) ==
  /\ \/ Shows(v, {"poopie"}) /\ Play("toilet") /\ KeepTime
     \/ ~Shows(v, {"poopie"}) /\ Shows(v, {"pooping"}) /\ Play("toiletpraise") /\ KeepTime
     \/ /\ ~Shows(v, {"poopie", "pooping"}) /\ Shows(v, {"sick"})
        /\ Play("medicine") /\ KeepTime
     \/ /\ ~Shows(v, {"poopie", "pooping", "sick"}) /\ Shows(v, {"born"})
        /\ Play("born") /\ KeepTime
     \/ /\ ~Shows(v, {"poopie", "pooping", "sick", "born"}) /\ Shows(v, {"sleep"})
        /\ Play("lightoff") /\ baTimeMs' = 0
     \/ /\ ~Shows(v, {"poopie", "pooping", "sick", "born", "sleep"}) /\ Shows(v, {"dark"})
        /\ Play(NoMacro) /\ baTimeMs' = 0
     \/ ~Shows(v, Chores \ {"alert"}) /\ Shows(v, {"alert"}) /\ Play("train") /\ KeepTime
  /\ KeepState /\ KeepTimeout /\ UNCHANGED <<ir, hearts>>

(* Now and then, but never shortly before a look at the hearts. *)
Cuddle(v) ==
  /\ ~Shows(v, Chores) /\ Now < CHECKINTERVAL - CUDDLEMARGIN
  /\ Play("cuddle") /\ KeepTime
  /\ KeepState /\ KeepTimeout /\ UNCHANGED <<ir, hearts>>

(* Mutant: invitations at any time. *)
IdleInvite_AnyTime(v) ==
  /\ ~Shows(v, Chores)
  /\ \E t \in IrTypes : Invite(t)
  /\ KeepTime /\ KeepState /\ KeepTimeout /\ UNCHANGED hearts
IdleInvite(v) ==
  /\ ~Shows(v, Chores) /\ Now < CHECKINTERVAL - INVITEMARGIN
  /\ \E t \in IrTypes : Invite(t)
  /\ KeepTime /\ KeepState /\ KeepTimeout /\ UNCHANGED hearts

CheckDue(att) == Now > CHECKINTERVAL \/ att

StartCheck(v, att) ==
  /\ ~Shows(v, Chores) /\ CheckDue(att)
  /\ baTimeMs' = 0 /\ baState' = "CHECKFOOD"
  /\ Play(NoMacro) /\ KeepTimeout /\ UNCHANGED <<ir, hearts>>

(* Mutants: the session is started without its timeout; visits are not     *)
(* handled.                                                                *)
StartSession_NoTimeout(v, att) ==
  /\ ~Shows(v, Chores) /\ ~CheckDue(att) /\ irReq # NoReq
  /\ baState' = (IF irReq = "GAME" THEN "IRGAME" ELSE "IRVISIT")
  /\ macro' = "irgamema" /\ sent' = {} /\ irReq' = NoReq
  /\ KeepTime /\ KeepTimeout /\ UNCHANGED <<irMaster, hearts>>
StartSession_NoVisit(v, att) ==
  /\ ~Shows(v, Chores) /\ ~CheckDue(att) /\ irReq # NoReq
  /\ IF irReq = "GAME" THEN baState' = "IRGAME" /\ irReq' = NoReq /\ timeout' = TIMEOUT
                       ELSE KeepState /\ UNCHANGED irReq /\ KeepTimeout
  /\ macro' = "irgamema" /\ sent' = {}
  /\ KeepTime /\ UNCHANGED <<irMaster, hearts>>

StartSession(v, att) ==
  /\ ~Shows(v, Chores) /\ ~CheckDue(att) /\ irReq # NoReq
  /\ sent' = IF irMaster THEN {} ELSE {[type |-> "IRSTARTACK", ir |-> irReq]}
  /\ \/ /\ irReq = "GAME" /\ baState' = "IRGAME"
        /\ macro' = IF irMaster THEN "irgamema" ELSE "irgamecl"
     \/ /\ irReq = "VISIT" /\ baState' = "IRVISIT"
        /\ macro' = IF irMaster THEN "irvisitma" ELSE "irvisitcl"
  /\ timeout' = TIMEOUT /\ irReq' = NoReq
  /\ KeepTime /\ UNCHANGED <<irMaster, hearts>>

Snapshot(v, att) ==
  /\ ~Shows(v, Chores) /\ ~CheckDue(att) /\ irReq = NoReq
  /\ Play(NoMacro) /\ KeepTime /\ KeepState /\ KeepTimeout /\ UNCHANGED <<ir, hearts>>

Idle(v, att) ==
  /\ State = "IDLE"
  /\ \/ Chore(v) \/ Cuddle(v) \/ IdleInvite(v)
     \/ StartCheck(v, att) \/ StartSession(v, att) \/ Snapshot(v, att)
  /\ UNCHANGED olds

-----------------------------------------------------------------------------
(* The look at the hearts, and feeding. *)
CheckFood ==
  /\ State = "CHECKFOOD" /\ Play("updvars") /\ baState' = "CHECKFOOD2"
  /\ KeepTime /\ KeepTimeout /\ UNCHANGED <<ir, hearts, olds>>

(* Mutant: the player goes on without having seen the hearts. *)
Measure_Anyway(v, next) ==
  /\ baState' = next /\ Play("updexit")
  /\ \/ Shows(v, {"hearts"}) /\ hunger' \in Levels /\ happy' \in Levels
     \/ ~Shows(v, {"hearts"}) /\ UNCHANGED hearts
  /\ KeepTime /\ KeepTimeout /\ UNCHANGED <<ir, olds>>

(* updateHungerHappy(): counts the hearts if the screen shows them. *)
Measure(v, next) ==
  /\ \/ /\ Shows(v, {"hearts"}) /\ hunger' \in Levels /\ happy' \in Levels
        /\ baState' = next /\ KeepTime
     \/ /\ ~Shows(v, {"hearts"}) /\ UNCHANGED hearts
        /\ baState' = "IDLE" /\ baTimeMs' = 0
  /\ Play("updexit") /\ KeepTimeout /\ UNCHANGED <<ir, olds>>

CheckFood2(v) == State = "CHECKFOOD2" /\ Measure(v, "FEED")

Feed ==
  /\ State = "FEED" /\ oldHunger' = hunger /\ oldHappy' = happy
  /\ \/ /\ hunger < 4 /\ Play("feedmeal") /\ baState' = "RECHECKFOOD"
        /\ KeepTime /\ KeepTimeout /\ UNCHANGED ir
     \/ /\ hunger >= 4 /\ happy < 5 /\ Play("feedsnack") /\ baState' = "RECHECKFOOD"
        /\ KeepTime /\ KeepTimeout /\ UNCHANGED ir
     \/ /\ hunger >= 4 /\ happy < 5
        /\ \/ Play("playstb") /\ baState' = "STB"
           \/ Play("playjump") /\ baState' = "JUMP"
        /\ timeout' = TIMEOUT /\ KeepTime /\ UNCHANGED ir
     \/ /\ hunger >= 4 /\ happy < 5 /\ \E t \in IrTypes : Invite(t)
        /\ baState' = "IDLE" /\ baTimeMs' = 0 /\ KeepTimeout
     \/ /\ hunger >= 4 /\ happy >= 5 /\ Play(NoMacro) /\ baState' = "IDLE"
        /\ KeepTime /\ KeepTimeout /\ UNCHANGED ir
  /\ UNCHANGED hearts

RecheckFood ==
  /\ State = "RECHECKFOOD" /\ Play("updvars") /\ baState' = "RECHECKLESSHUNGRY"
  /\ KeepTime /\ KeepTimeout /\ UNCHANGED <<ir, hearts, olds>>

RecheckLessHungry(v) == State = "RECHECKLESSHUNGRY" /\ Measure(v, "RECHECKLESSHUNGRY2")

RecheckLessHungry2 ==
  /\ State = "RECHECKLESSHUNGRY2" /\ baState' = "FEED"
  /\ Play(IF hearts # olds THEN NoMacro ELSE "medicine")
  /\ KeepTime /\ KeepTimeout /\ UNCHANGED <<ir, hearts, olds>>

-----------------------------------------------------------------------------
(* The two games played alone: the timeout is switched off by the first     *)
(* picture of the game.                                                     *)
PlayAlone(v, st, picture, shot) ==
  /\ State = st
  /\ \/ Shows(v, {picture}) /\ Play(shot) /\ timeout' = 0 /\ KeepState
     \/ /\ ~Shows(v, {picture}) /\ Shows(v, {"gameend", "doorsel"})
        /\ Play("exitgame") /\ baState' = "RECHECKFOOD" /\ KeepTimeout
     \/ /\ ~Shows(v, {picture, "gameend", "doorsel"})
        /\ Play(NoMacro) /\ KeepState /\ KeepTimeout
  /\ KeepTime /\ UNCHANGED <<ir, hearts, olds>>

Stb(v)  == PlayAlone(v, "STB", "stb", "stbshoot")
Jump(v) == PlayAlone(v, "JUMP", "jump", "dojump")

(* A visit: wait until it is over or fails. *)
IrVisit(v) ==
  /\ State = "IRVISIT"
  /\ \/ Shows(v, {"irfail"}) /\ Play("irfailexit") /\ baState' = "IDLE"
     \/ ~Shows(v, {"irfail"}) /\ Play(NoMacro) /\ KeepState
  /\ KeepTime /\ KeepTimeout /\ UNCHANGED <<ir, hearts, olds>>

IrGame(v) ==
  /\ State = "IRGAME"
  /\ \/ Shows(v, {"irgame1"}) /\ Play("irgamejmp") /\ KeepState
     \/ /\ ~Shows(v, {"irgame1"}) /\ Shows(v, {"irfail"})
        /\ Play("irfailexit") /\ baState' = "IDLE"
     \/ /\ ~Shows(v, {"irgame1", "irfail"}) /\ Shows(v, {"gameend"})
        /\ Play("exitgame") /\ baState' = "IDLE"
     \/ ~Shows(v, {"irgame1", "irfail", "gameend"}) /\ Play(NoMacro) /\ KeepState
  /\ KeepTime /\ KeepTimeout /\ UNCHANGED <<ir, hearts, olds>>

-----------------------------------------------------------------------------
(* benevolentAiRun() after the macro, if any, is over. *)
Frame == \E v \in Views, att \in BOOLEAN :
  /\ calm' = (v = {} /\ ~att)
  /\ \/ Idle(v, att) \/ CheckFood \/ CheckFood2(v) \/ Feed \/ RecheckFood
     \/ RecheckLessHungry(v) \/ RecheckLessHungry2
     \/ Stb(v) \/ Jump(v) \/ IrVisit(v) \/ IrGame(v)

(* udpTick() hands over a request or an acknowledgement from another tama,  *)
(* also while a macro runs.                                                 *)
ReqIrComm(t) ==
  /\ irReq' = t /\ irMaster' = FALSE
  /\ UNCHANGED <<baState, baTimeMs, timeout, hearts, olds, calm, macro, sent>>
AckIrComm(t) ==
  /\ irReq' = t /\ irMaster' = TRUE
  /\ UNCHANGED <<baState, baTimeMs, timeout, hearts, olds, calm, macro, sent>>

Next == Frame \/ \E t \in IrTypes : ReqIrComm(t) \/ AckIrComm(t)

(* Frames go on for ever, and macros end. *)
Spec == Init /\ [][Next]_vars /\ WF_vars(Frame)

-----------------------------------------------------------------------------
Session == {"IRVISIT", "IRGAME"}

(* A session with another tama always has a running timeout: should the     *)
(* other one have gone, nothing on the screen would end it.                 *)
SessionHasTimeout == baState \in Session => timeout # 0

(* The hearts were counted before anything depends on how many there are.   *)
HeartsAreKnown ==
  baState \in {"FEED", "RECHECKFOOD", "RECHECKLESSHUNGRY", "RECHECKLESSHUNGRY2", "STB", "JUMP"}
    => hunger # Unknown /\ happy # Unknown

(* Every session ends, whatever the screen shows and whoever calls.         *)
SessionsEnd == (baState \in Session) ~> (baState \notin Session)

(* "If Tama is congested, it doesn't want to go anywhere [...] Timeout will *)
(* catch this": a game the tama refuses, so that none of its pictures ever  *)
(* appears, does not keep the player for ever.                              *)
RefusedGameTimesOut ==
  /\ (baState = "STB" /\ timeout # 0) ~> (baState # "STB" \/ macro = "stbshoot")
  /\ (baState = "JUMP" /\ timeout # 0) ~> (baState # "JUMP" \/ macro = "dojump")

(* While nothing on the screen calls for attention the player still looks   *)
(* at the hearts again and again: neither cuddling nor invitations, its own *)
(* or others', put it off for ever.  Only a game played alone whose end is  *)
(* never shown can.                                                         *)
CalmTamaIsChecked ==
  <>[]calm =>
    []<>(baState = "CHECKFOOD") \/ <>[](baState \in {"STB", "JUMP"} /\ timeout = 0)

(* On a screen that calls for nothing, a session asked for is started       *)
(* (unless such a game goes on for ever).                                   *)
RequestsAreServed ==
  <>[]calm =>
    []<>(irReq = NoReq \/ baState \in Session) \/ <>[](baState \in {"STB", "JUMP"})
==============================================================================

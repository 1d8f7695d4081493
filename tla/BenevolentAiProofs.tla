------------------------- MODULE BenevolentAiProofs -------------------------
(***************************************************************************)
(* Proofs about the emulator's player, for every set of screens, every     *)
(* length of a frame and every value of its intervals: the type invariant, *)
(* and the two invariants that hold what later frames rely on.             *)
(***************************************************************************)
EXTENDS BenevolentAi, TLAPS

(* The states in which the number of hearts matters. *)
Counting == {"FEED", "RECHECKFOOD", "RECHECKLESSHUNGRY", "RECHECKLESSHUNGRY2", "STB", "JUMP"}

(* Nothing has to be added to the two invariants but types: each of them    *)
(* already says of every state what the next frame needs.                   *)
PlayerInv ==
  /\ TypeOK
  /\ SessionHasTimeout
  /\ HeartsAreKnown

LEMMA MacroNames ==
  DOMAIN macros =
    {"feedmeal", "feedsnack", "train", "medicine", "loadeep", "updvars", "updexit",
     "toilet", "toiletpraise", "lightoff", "playstb", "playjump", "exitgame",
     "stbshoot", "dojump", "irgamecl", "irvisitcl", "irgamema", "irvisitma",
     "irgamejmp", "irfailexit", "born", "cuddle", "tst"}
  BY DEF macros

(* benevolentai.c 188-197: the clock and the countdown stay within their    *)
(* ranges; the countdown keeps the state or ends it, and as long as it has  *)
(* not ended it, it has not run out.                                        *)
LEMMA Countdown ==
  ASSUME TypeOK
  PROVE  /\ Now \in 0..MaxTime
         /\ Left \in 0..TIMEOUT
         /\ State \in {baState, "IDLE"}
         /\ timeout # 0 /\ State # "IDLE" => Left # 0
  BY AiAssumption, SMT DEF TypeOK, Left, State, Now, MaxTime

-----------------------------------------------------------------------------
THEOREM PlayerInvInit == Init => PlayerInv
<1> SUFFICES ASSUME Init PROVE PlayerInv
  OBVIOUS
<1>1. /\ baTimeMs \in 0..MaxTime /\ timeout \in 0..TIMEOUT
  BY AiAssumption DEF Init, MaxTime
<1>2. TypeOK
  BY <1>1, MacroNames DEF Init, TypeOK, BaStates
<1>3. SessionHasTimeout /\ HeartsAreKnown
  BY DEF Init, SessionHasTimeout, HeartsAreKnown, Session
<1> QED BY <1>2, <1>3 DEF PlayerInv

(* The frames in BA_IDLE: a session is entered only with its timeout, and   *)
(* no state that needs the hearts is entered at all.                        *)
LEMMA IdleKeeps ==
  ASSUME PlayerInv, NEW v \in Views, NEW att \in BOOLEAN, calm' \in BOOLEAN, Idle(v, att)
  PROVE  PlayerInv'
<1> USE DEF KeepTime, KeepState, KeepTimeout, Play, NoMacro
<1>1. /\ TypeOK
      /\ Now \in 0..MaxTime /\ Left \in 0..TIMEOUT
      /\ State = "IDLE" /\ 0 \in 0..MaxTime /\ TIMEOUT \in 0..TIMEOUT /\ TIMEOUT # 0
  BY Countdown, AiAssumption DEF PlayerInv, Idle, MaxTime
<1>2. hearts' = hearts /\ olds' = olds
  BY DEF Idle, Chore, Cuddle, IdleInvite, StartCheck, StartSession, Snapshot, olds, hearts
<1>3. /\ baState' \in {"IDLE", "CHECKFOOD"} \cup Session
      /\ baState' \in Session => timeout' = TIMEOUT
      /\ timeout' \in 0..TIMEOUT
      /\ baTimeMs' \in 0..MaxTime
  BY <1>1 DEF Idle, Chore, Cuddle, IdleInvite, StartCheck, StartSession, Snapshot, Session
<1>4. /\ macro' \in DOMAIN macros \cup {NoMacro}
      /\ sent' \in SUBSET Datagrams
      /\ irReq' \in IrTypes \cup {NoReq} /\ irMaster' \in BOOLEAN
  <2> USE <1>1, MacroNames
       DEF TypeOK, Datagrams, IrTypes, NoReq, ir
  <2>1. CASE Chore(v)
    BY <2>1 DEF Chore
  <2>2. CASE Cuddle(v)
    BY <2>2 DEF Cuddle
  <2>3. CASE IdleInvite(v)
    BY <2>3 DEF IdleInvite, Invite
  <2>4. CASE StartCheck(v, att)
    BY <2>4 DEF StartCheck
  <2>5. CASE StartSession(v, att)
    BY <2>5 DEF StartSession
  <2>6. CASE Snapshot(v, att)
    BY <2>6 DEF Snapshot
  <2> QED BY <2>1, <2>2, <2>3, <2>4, <2>5, <2>6 DEF Idle
<1>5. TypeOK'
  BY <1>1, <1>2, <1>3, <1>4 DEF TypeOK, BaStates, Session, hearts, olds
<1> QED
  BY <1>1, <1>3, <1>5 DEF PlayerInv, SessionHasTimeout, HeartsAreKnown, Session

(* The look at the hearts: going on to "next" means that they were counted. *)
LEMMA MeasureKeeps ==
  ASSUME PlayerInv, calm' \in BOOLEAN, NEW v \in Views,
         NEW next \in {"FEED", "RECHECKLESSHUNGRY2"}, Measure(v, next)
  PROVE  PlayerInv'
<1>1. TypeOK /\ Now \in 0..MaxTime /\ Left \in 0..TIMEOUT /\ 0 \in 0..MaxTime
  BY Countdown, AiAssumption DEF PlayerInv, MaxTime
<1>2. /\ baState' \in {next, "IDLE"} /\ baTimeMs' \in 0..MaxTime /\ timeout' \in 0..TIMEOUT
      /\ macro' = "updexit" /\ sent' = {} /\ ir' = ir /\ olds' = olds
      /\ hunger' \in Levels \cup {Unknown} /\ happy' \in Levels \cup {Unknown}
      /\ baState' = next => hunger' \in Levels /\ happy' \in Levels
  BY <1>1 DEF Measure, Play, KeepTime, KeepTimeout, TypeOK, hearts
<1>3. TypeOK'
  BY <1>1, <1>2, MacroNames DEF TypeOK, BaStates, ir, olds
<1>4. Unknown \notin Levels
  BY AiAssumption DEF Unknown
<1> QED
  BY <1>2, <1>3, <1>4 DEF PlayerInv, SessionHasTimeout, HeartsAreKnown, Session

(* Feeding and playing: entered with the hearts counted, left with them     *)
(* unchanged.                                                               *)
LEMMA FeedKeeps ==
  ASSUME PlayerInv, calm' \in BOOLEAN, Feed
  PROVE  PlayerInv'
<1>1. /\ TypeOK /\ baState = "FEED"
      /\ Now \in 0..MaxTime /\ Left \in 0..TIMEOUT /\ 0 \in 0..MaxTime /\ TIMEOUT \in 0..TIMEOUT
  BY Countdown, AiAssumption DEF PlayerInv, MaxTime, Feed
<1>2. /\ hunger # Unknown /\ happy # Unknown
  BY <1>1 DEF PlayerInv, HeartsAreKnown
<1>3. /\ hunger' = hunger /\ happy' = happy /\ oldHunger' = hunger /\ oldHappy' = happy
  BY DEF Feed, hearts
<1>4. /\ baState' \in {"RECHECKFOOD", "STB", "JUMP", "IDLE"}
      /\ timeout' \in 0..TIMEOUT /\ baTimeMs' \in 0..MaxTime
  BY <1>1 DEF Feed, KeepTime, KeepTimeout
<1>5. /\ macro' \in DOMAIN macros \cup {NoMacro}
      /\ sent' \in SUBSET Datagrams
      /\ irReq' \in IrTypes \cup {NoReq} /\ irMaster' \in BOOLEAN
  <2> USE <1>1, MacroNames DEF TypeOK, Datagrams, IrTypes, NoReq, NoMacro, ir
  <2>1. CASE \E t \in IrTypes : Invite(t)
    BY <2>1 DEF Invite
  <2>2. CASE sent' = {} /\ ir' = ir /\ macro' \in DOMAIN macros \cup {NoMacro}
    BY <2>2
  <2>3. \/ \E t \in IrTypes : Invite(t)
        \/ sent' = {} /\ ir' = ir /\ macro' \in DOMAIN macros \cup {NoMacro}
    BY DEF Feed, Play
  <2> QED BY <2>1, <2>2, <2>3
<1>6. TypeOK'
  BY <1>1, <1>3, <1>4, <1>5 DEF TypeOK, BaStates
<1> QED
  BY <1>2, <1>3, <1>4, <1>6 DEF PlayerInv, SessionHasTimeout, HeartsAreKnown, Session

(* Every other frame keeps the hearts and goes on in a state of the same    *)
(* kind, or in BA_IDLE.                                                     *)
LEMMA OthersKeep ==
  ASSUME PlayerInv, calm' \in BOOLEAN, NEW v \in Views,
         \/ CheckFood \/ RecheckFood \/ RecheckLessHungry2
         \/ Stb(v) \/ Jump(v) \/ IrVisit(v) \/ IrGame(v)
  PROVE  PlayerInv'
<1> USE DEF KeepTime, KeepState, KeepTimeout, Play, NoMacro
<1>1. /\ TypeOK
      /\ Now \in 0..MaxTime /\ Left \in 0..TIMEOUT /\ 0 \in 0..TIMEOUT
      /\ State \in {baState, "IDLE"}
      /\ timeout # 0 /\ State # "IDLE" => Left # 0
  BY Countdown, AiAssumption DEF PlayerInv
<1>2. hearts' = hearts /\ olds' = olds /\ ir' = ir
  BY DEF CheckFood, RecheckFood, RecheckLessHungry2, Stb, Jump, PlayAlone, IrVisit, IrGame
<1>3. baTimeMs' = Now /\ sent' = {} /\ timeout' \in {0, Left}
  BY DEF CheckFood, RecheckFood, RecheckLessHungry2, Stb, Jump, PlayAlone, IrVisit, IrGame
<1>4. macro' \in DOMAIN macros \cup {NoMacro}
  BY MacroNames
  DEF CheckFood, RecheckFood, RecheckLessHungry2, Stb, Jump, PlayAlone, IrVisit, IrGame
<1>5. /\ baState' \in BaStates
      /\ baState' \in Session => baState = baState' /\ State # "IDLE" /\ timeout' = Left
      /\ baState' \in Counting => baState \in Counting
  BY <1>1 DEF CheckFood, RecheckFood, RecheckLessHungry2, Stb, Jump, PlayAlone, IrVisit,
              IrGame, Session, Counting, BaStates
<1>6. TypeOK'
  BY <1>1, <1>2, <1>3, <1>4, <1>5 DEF TypeOK, hearts, olds, ir
<1>7. SessionHasTimeout'
  BY <1>1, <1>5 DEF PlayerInv, SessionHasTimeout, Session
<1>8. HeartsAreKnown'
  BY <1>2, <1>5 DEF PlayerInv, HeartsAreKnown, Counting, hearts
<1> QED BY <1>6, <1>7, <1>8 DEF PlayerInv

-----------------------------------------------------------------------------
THEOREM PlayerInvStep == PlayerInv /\ [Next]_vars => PlayerInv'
<1> SUFFICES ASSUME PlayerInv, [Next]_vars PROVE PlayerInv'
  OBVIOUS
<1>1. ASSUME NEW v \in Views, NEW att \in BOOLEAN,
             calm' = (v = {} /\ ~att),
             \/ Idle(v, att) \/ CheckFood \/ CheckFood2(v) \/ Feed \/ RecheckFood
             \/ RecheckLessHungry(v) \/ RecheckLessHungry2
             \/ Stb(v) \/ Jump(v) \/ IrVisit(v) \/ IrGame(v)
      PROVE  PlayerInv'
  <2>0. calm' \in BOOLEAN
    BY <1>1
  <2>1. CASE Idle(v, att)
    BY <2>0, <2>1, IdleKeeps
  <2>2. CASE CheckFood2(v)
    BY <2>0, <2>2, MeasureKeeps DEF CheckFood2
  <2>3. CASE RecheckLessHungry(v)
    BY <2>0, <2>3, MeasureKeeps DEF RecheckLessHungry
  <2>4. CASE Feed
    BY <2>0, <2>4, FeedKeeps
  <2>5. CASE \/ CheckFood \/ RecheckFood \/ RecheckLessHungry2
             \/ Stb(v) \/ Jump(v) \/ IrVisit(v) \/ IrGame(v)
    BY <2>0, <2>5, OthersKeep
  <2> QED BY <1>1, <2>1, <2>2, <2>3, <2>4, <2>5
<1>2. ASSUME NEW t \in IrTypes, ReqIrComm(t) \/ AckIrComm(t)
      PROVE  PlayerInv'
  BY <1>2 DEF ReqIrComm, AckIrComm, PlayerInv, TypeOK, SessionHasTimeout, HeartsAreKnown,
              hearts, olds
<1>3. CASE UNCHANGED vars
  BY <1>3 DEF vars, ir, hearts, olds, PlayerInv, TypeOK, SessionHasTimeout, HeartsAreKnown
<1> QED BY <1>1, <1>2, <1>3 DEF Next, Frame

(* The player's variables keep their types. *)
THEOREM PlayerTypeCorrect == Spec => []TypeOK
<1>1. PlayerInv => TypeOK
  BY DEF PlayerInv
<1> QED BY <1>1, PlayerInvInit, PlayerInvStep, PTL DEF Spec

(* benevolentai.c 442-459: a session with another tama always runs against  *)
(* a timeout, whenever and however often requests arrive.                   *)
THEOREM SessionsRunOut == Spec => []SessionHasTimeout
<1>1. PlayerInv => SessionHasTimeout
  BY DEF PlayerInv
<1> QED BY <1>1, PlayerInvInit, PlayerInvStep, PTL DEF Spec

(* benevolentai.c 360-425: nothing is decided about food before the hearts  *)
(* were counted.                                                            *)
THEOREM HeartsCountedFirst == Spec => []HeartsAreKnown
<1>1. PlayerInv => HeartsAreKnown
  BY DEF PlayerInv
<1> QED BY <1>1, PlayerInvInit, PlayerInvStep, PTL DEF Spec
=============================================================================

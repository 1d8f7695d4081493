-------------------------- MODULE EspViewerProofs ---------------------------
(***************************************************************************)
(* Proofs about the viewer, for every macro, every set of durations that   *)
(* keep the order of those in the code, any number of requests side by     *)
(* side and any number of faults and presses: the pins, the polling, and   *)
(* the pictures of a tama that was not chosen.                             *)
(***************************************************************************)
EXTENDS EspViewer, FiniteSetTheorems, TLAPS

HttpTypeOK ==
  /\ req \in [InFlight -> Requests] /\ faults \in 0..MAXFAULTS
  /\ cacheValid \in BOOLEAN /\ {cachedHostname, cachedAddr} \subseteq Hosts \cup {NoHost}

Polling == reqTimer # Disarmed

(* Either the macro's timer runs, and no request has been made, or the two  *)
(* timers of the polling do.                                                *)
ArmedTogether ==
  /\ checkBtnTimer # Disarmed <=> Polling
  /\ Polling => macroTimer = Disarmed
  /\ ~Polling => macroTimer # Disarmed /\ \A i \in InFlight : req[i].phase = "free"

(* The button is let go strictly before the next one is pressed.            *)
LetGoInTime ==
  /\ btnOffTimer = Disarmed => held = {}
  /\ btnOffTimer # Disarmed => ~Polling /\ btnOffTimer < macroTimer
  /\ held = {} \/ \E b \in 1..3 : held = {b}

(* What is still asked for another tama is old already, or will be when the *)
(* number has been shown.                                                   *)
OthersAreOld ==
  \A i \in InFlight :
    req[i].phase # "free" /\ req[i].what # tamaToShow =>
      req[i].age = OLD \/ (dontShowIncomingImage /\ req[i].age + reqTimer >= OLD)

(* Nothing of the time before the restart is left when the polling starts.  *)
StartsEmpty == ~Polling /\ macroPos > 1 => shown.kind = "nothing"

ViewerInv ==
  /\ TypeOK
  /\ ArmedTogether
  /\ LetGoInTime
  /\ OthersAreOld
  /\ StartsEmpty
  /\ WrongOnlyIfLate

-----------------------------------------------------------------------------
LEMMA Durations ==
  /\ START \in Nat /\ START > 0 /\ BTNOFF \in Nat /\ BTNOFF > 0 /\ RETRY \in Nat /\ RETRY > 0
  /\ PERIOD \in Nat /\ PERIOD > 0 /\ SHOWNO \in Nat /\ SHOWNO > 0 /\ OLD = SHOWNO
  /\ RESETCOUNT \in Nat /\ RESETCOUNT > 0
  /\ PRESSES \in Nat /\ MAXFAULTS \in Nat /\ host \in Hosts
  BY EspViewerAssumption, HttpAssumption

LEMMA EntryOfSequence ==
  ASSUME NEW S, NEW s \in Seq(S), NEW k \in 1..Len(s)
  PROVE  s[k] \in S
  OBVIOUS

LEMMA MacroFacts ==
  /\ Len(macro) \in Nat /\ Len(macro) > 0
  /\ \A k \in 1..Len(macro) :
       macro[k].button \in 1..3 /\ macro[k].delay \in Nat /\ macro[k].delay > BTNOFF
<1>1. macro \in Seq([button : 1..3, delay : Nat \ {0}]) /\ Len(macro) > 0
  BY EspViewerAssumption
<1>2. Len(macro) \in Nat /\ DOMAIN macro = 1..Len(macro)
  BY <1>1
<1>3. \A k \in 1..Len(macro) : macro[k] \in [button : 1..3, delay : Nat \ {0}]
  BY <1>1, EntryOfSequence
<1>4. \A k \in 1..Len(macro) : macro[k].delay > BTNOFF
  BY <1>2, EspViewerAssumption
<1>5. ASSUME NEW k \in 1..Len(macro)
      PROVE  macro[k].button \in 1..3 /\ macro[k].delay \in Nat
  <2>1. macro[k] \in [button : 1..3, delay : Nat \ {0}]
    BY <1>3
  <2> QED BY <2>1
<1> QED BY <1>1, <1>2, <1>4, <1>5

(* A request that is in flight after a step of the HTTP client that is not  *)
(* a new one was in flight before, for the same tama and as old.            *)
SameRequest(j) ==
  \/ req'[j].phase = "free"
  \/ /\ req[j].phase # "free"
     /\ req'[j].what = req[j].what /\ req'[j].age = req[j].age

LEMMA FreeIsRequest == Free \in Requests /\ Free.phase = "free" /\ Free.age = 0
  BY HttpAssumption DEF Free, Request, Requests

LEMMA HttpGoesOn ==
  ASSUME HttpTypeOK, NEW i \in InFlight,
         \/ Found(i) \/ Connected(i) \/ Lost(i) \/ TooLong(i)
         \/ \E b \in {"part", "picture", "page", "other"} : Received(i, b)
  PROVE  HttpTypeOK' /\ \A j \in InFlight : SameRequest(j)
<1> USE FreeIsRequest, Durations DEF HttpTypeOK, SameRequest
<1> req[i] \in Requests
  OBVIOUS
<1>1. CASE Found(i)
  BY <1>1 DEF Found, ConnectTo, Set, NoFault, Requests
<1>2. CASE Connected(i)
  BY <1>2 DEF Connected, NoFault, KeepCache, Requests
<1>3. CASE Lost(i)
  BY <1>3 DEF Lost, Set, Unreachable, Fault, NoFault, KeepCache
<1>4. CASE TooLong(i)
  BY <1>4 DEF TooLong, Fault, KeepCache, Requests
<1>5. CASE \E b \in {"part", "picture", "page", "other"} : Received(i, b)
  BY <1>5 DEF Received, Fault, NoFault, KeepCache, Requests
<1> QED BY <1>1, <1>2, <1>3, <1>4, <1>5

LEMMA HttpEnds ==
  ASSUME HttpTypeOK, NEW i \in InFlight, NotFound(i) \/ Refused(i) \/ Closed(i)
  PROVE  HttpTypeOK' /\ (\A j \in InFlight : SameRequest(j)) /\ req[i].phase # "free"
  BY FreeIsRequest, Durations
     DEF HttpTypeOK, SameRequest, NotFound, Refused, Closed, Set, Unreachable, Fault, NoFault, KeepCache

(* A new request is for the tama asked for.                                 *)
LEMMA HttpAsks ==
  ASSUME HttpTypeOK, NEW i \in InFlight, HttpGet(i, tamaToShow, host), tamaToShow \in Int
  PROVE  /\ HttpTypeOK'
         /\ \A j \in InFlight : SameRequest(j) \/ req'[j].what = tamaToShow
<1> USE Durations, HttpAssumption DEF HttpTypeOK, SameRequest
<1>1. PICK q : q = Request(tamaToShow, host, "lookup")
  OBVIOUS
<1>2. q \in Requests /\ q.what = tamaToShow
  BY <1>1 DEF Request, Requests
<1>3. ASSUME NEW a \in Hosts \cup {NoHost}
      PROVE  /\ [q EXCEPT !.phase = "connecting", !.addr = a] \in Requests
             /\ [q EXCEPT !.phase = "connecting", !.addr = a].what = tamaToShow
  BY <1>2 DEF Requests
<1>4. \/ req' = req
      \/ req' = [req EXCEPT ![i] = q]
      \/ \E a \in Hosts \cup {NoHost} : req' = [req EXCEPT ![i] = [q EXCEPT !.phase = "connecting", !.addr = a]]
  BY <1>1 DEF HttpGet, ConnectTo, Set
<1>5. faults' = faults \/ (faults < MAXFAULTS /\ faults' = faults + 1)
  BY DEF HttpGet, ConnectTo, Fault, NoFault
<1>6. faults' \in 0..MAXFAULTS
  BY <1>5
<1>7. /\ cacheValid' \in BOOLEAN
      /\ cachedHostname' \in Hosts \cup {NoHost} /\ cachedAddr' \in Hosts \cup {NoHost}
  BY DEF HttpGet, ConnectTo
<1> QED BY <1>2, <1>3, <1>4, <1>6, <1>7

-----------------------------------------------------------------------------
THEOREM ViewerInvInit == Init => ViewerInv
<1> SUFFICES ASSUME Init PROVE ViewerInv
  OBVIOUS
<1> USE Durations, MacroFacts, HttpAssumption DEF Init, HttpInit, Disarmed
<1>1. \A i \in InFlight : req[i] = Free
  OBVIOUS
<1>2. req \in [InFlight -> Requests]
  BY FreeIsRequest
<1>3. 1 \in 1..(Len(macro) + 1)
  OBVIOUS
<1>4. shown \in [kind : {"nothing", "number", "part", "picture", "page"},
                 tama : Int, late : BOOLEAN]
  BY DEF Shown
<1>5. faults \in 0..MAXFAULTS /\ changes \in 0..PRESSES /\ resetCnt \in 0..RESETCOUNT
  OBVIOUS
<1>6. /\ macroTimer \in Ticks /\ btnOffTimer \in Ticks
      /\ reqTimer \in Ticks /\ checkBtnTimer \in Ticks
  BY SMT DEF Ticks
<1>7. /\ cacheValid \in BOOLEAN /\ dontShowIncomingImage \in BOOLEAN
      /\ {cachedHostname, cachedAddr} \subseteq Hosts \cup {NoHost}
  BY Zenon
<1>8. tamaToShow \in Int /\ macroPos = 1
  OBVIOUS
<1>9. held \subseteq 1..3 /\ pressed \subseteq Buttons /\ oldBtn \subseteq 1..3
  OBVIOUS
<1>10. TypeOK
  BY <1>2, <1>3, <1>4, <1>5, <1>6, <1>7, <1>8, <1>9 DEF TypeOK
<1>11. ArmedTogether /\ LetGoInTime /\ OthersAreOld /\ StartsEmpty /\ WrongOnlyIfLate
  BY <1>1, FreeIsRequest
     DEF ArmedTogether, LetGoInTime, OthersAreOld, StartsEmpty, WrongOnlyIfLate, Polling, MacroDone
<1> QED BY <1>10, <1>11 DEF ViewerInv

(* The macro's callbacks: no request has been made yet.                     *)
LEMMA btnOffTimerCbKeeps ==
  ASSUME ViewerInv, btnOffTimerCb
  PROVE  ViewerInv'
<1> USE DEF ViewerInv, btnOffTimerCb, Disarmed, http, user, scan, choice
<1>1. TypeOK'
  BY DEF TypeOK, Ticks
<1>2. ArmedTogether' /\ OthersAreOld'
  BY DEF ArmedTogether, OthersAreOld, Polling
<1>3. LetGoInTime'
  BY DEF LetGoInTime
<1>4. StartsEmpty' /\ WrongOnlyIfLate'
  BY DEF StartsEmpty, WrongOnlyIfLate, Polling, MacroDone
<1> QED BY <1>1, <1>2, <1>3, <1>4

LEMMA macroTimerCbKeeps ==
  ASSUME ViewerInv, macroTimerCb
  PROVE  ViewerInv'
<1>1. /\ TypeOK /\ ArmedTogether /\ LetGoInTime /\ OthersAreOld /\ StartsEmpty
      /\ macroTimer = 0 /\ Disarmed = -1
      /\ http' = http /\ user' = user /\ scan' = scan /\ tamaToShow' = tamaToShow
      /\ dontShowIncomingImage' = dontShowIncomingImage
  BY DEF ViewerInv, macroTimerCb, Disarmed
<1>2. /\ ~Polling /\ checkBtnTimer = Disarmed
      /\ \A i \in InFlight : req[i].phase = "free"
  BY <1>1 DEF ArmedTogether
<1>3. btnOffTimer = Disarmed /\ held = {}
  BY <1>1 DEF LetGoInTime, TypeOK, Ticks
<1>4. \A i \in InFlight : req'[i].phase = "free"
  BY <1>1, <1>2 DEF http
<1>5. CASE StartPolling
  <2> USE DEF StartPolling
  <2>1. macroPos > 1
    BY <1>1, <1>5, MacroFacts DEF TypeOK
  <2>2. shown.kind = "nothing"
    BY <1>1, <1>2, <2>1 DEF StartsEmpty
  <2>3. TypeOK'
    BY <1>1, <1>5, Durations DEF TypeOK, Ticks, http, user, scan
  <2>4. ArmedTogether' /\ LetGoInTime' /\ OthersAreOld' /\ StartsEmpty'
    BY <1>1, <1>3, <1>4, <1>5, Durations
       DEF ArmedTogether, LetGoInTime, OthersAreOld, StartsEmpty, Polling
  <2>5. WrongOnlyIfLate'
    BY <1>5, <2>2 DEF WrongOnlyIfLate
  <2> QED BY <2>3, <2>4, <2>5 DEF ViewerInv
<1>6. CASE Press
  <2> USE DEF Press
  <2>1. macroPos \in 1..Len(macro)
    BY <1>1, <1>6, MacroFacts DEF TypeOK
  <2>2. /\ macro[macroPos].button \in 1..3 /\ macro[macroPos].delay \in Nat
        /\ macro[macroPos].delay > BTNOFF
    BY <2>1, MacroFacts
  <2>3. macroPos + 1 \in 1..(Len(macro) + 1)
    BY <2>1, MacroFacts
  <2>4. held' = {macro[macroPos].button}
    BY <1>3, <1>6
  <2>5. shown'.kind = "nothing"
        /\ shown' \in [kind : {"nothing", "number", "part", "picture", "page"},
                        tama : Int, late : BOOLEAN]
    BY <1>6 DEF Shown
  <2>6. TypeOK'
    BY <1>1, <1>6, <2>2, <2>3, <2>4, <2>5, Durations DEF TypeOK, Ticks, http, user, scan
  <2>7. macroTimer' = macro[macroPos].delay /\ macroTimer' # Disarmed
        /\ btnOffTimer' = BTNOFF /\ reqTimer' = reqTimer /\ checkBtnTimer' = checkBtnTimer
    BY <1>1, <1>6, <2>2
  <2>8. ArmedTogether'
    BY <1>2, <1>4, <2>7 DEF ArmedTogether, Polling
  <2>9. OthersAreOld' /\ StartsEmpty'
    BY <1>4, <2>5 DEF OthersAreOld, StartsEmpty
  <2>10. btnOffTimer' < macroTimer'
    BY <2>2, <2>7, Durations
  <2>11. btnOffTimer' # Disarmed /\ ~Polling'
    BY <1>1, <1>2, <2>7, Durations DEF Polling
  <2>12. LetGoInTime'
    BY <2>2, <2>4, <2>10, <2>11 DEF LetGoInTime
  <2>13. WrongOnlyIfLate'
    BY <2>5 DEF WrongOnlyIfLate
  <2> QED BY <2>6, <2>8, <2>9, <2>12, <2>13 DEF ViewerInv
<1> QED BY <1>5, <1>6 DEF macroTimerCb

(* The next request: the number has been shown, so what is still asked for  *)
(* another tama is old.                                                     *)
LEMMA reqTimerCbKeeps ==
  ASSUME ViewerInv, reqTimerCb
  PROVE  ViewerInv'
<1>1. /\ TypeOK /\ ArmedTogether /\ LetGoInTime /\ OthersAreOld /\ WrongOnlyIfLate
      /\ reqTimer = 0 /\ reqTimer' = PERIOD /\ Disarmed = -1
      /\ macroTimer' = macroTimer /\ btnOffTimer' = btnOffTimer
      /\ checkBtnTimer' = checkBtnTimer /\ start' = start
      /\ user' = user /\ scan' = scan /\ tamaToShow' = tamaToShow /\ shown' = shown
      /\ dontShowIncomingImage' = FALSE
  BY DEF ViewerInv, reqTimerCb, Disarmed
<1>2. PICK i \in InFlight : HttpGet(i, tamaToShow, host)
  BY DEF reqTimerCb
<1>3. HttpTypeOK' /\ \A j \in InFlight : SameRequest(j) \/ req'[j].what = tamaToShow
  BY <1>1, <1>2, HttpAsks DEF TypeOK, HttpTypeOK
<1>4. TypeOK'
  BY <1>1, <1>3, Durations DEF TypeOK, HttpTypeOK, Ticks, start, user, scan
<1>5. ArmedTogether' /\ LetGoInTime' /\ StartsEmpty'
  BY <1>1, Durations DEF ArmedTogether, LetGoInTime, StartsEmpty, Polling, start
<1>6. ASSUME NEW j \in InFlight, req'[j].phase # "free", req'[j].what # tamaToShow
      PROVE  req'[j].age = OLD
  <2>1. req[j].phase # "free" /\ req'[j].what = req[j].what /\ req'[j].age = req[j].age
    BY <1>3, <1>6 DEF SameRequest
  <2>2. req[j].age = OLD \/ req[j].age + 0 >= OLD
    BY <1>1, <1>6, <2>1 DEF OthersAreOld
  <2>3. req[j].age \in 0..OLD
    BY <1>1 DEF TypeOK, Requests
  <2> QED BY <2>1, <2>2, <2>3, Durations
<1>7. OthersAreOld'
  BY <1>1, <1>6 DEF OthersAreOld
<1>8. WrongOnlyIfLate'
  BY <1>1, Durations DEF WrongOnlyIfLate, MacroDone
<1> QED BY <1>4, <1>5, <1>7, <1>8 DEF ViewerInv

(* A step of a request that does not end it.                                *)
LEMMA GoesOnKeeps ==
  ASSUME ViewerInv, NEW i \in InFlight, GoesOn(i)
  PROVE  ViewerInv'
<1>1. /\ TypeOK /\ ArmedTogether /\ LetGoInTime /\ OthersAreOld /\ StartsEmpty /\ WrongOnlyIfLate
      /\ start' = start /\ timers' = timers /\ user' = user /\ scan' = scan /\ choice' = choice
  BY DEF ViewerInv, GoesOn
<1>2. HttpTypeOK' /\ \A j \in InFlight : SameRequest(j)
  BY <1>1, HttpGoesOn DEF GoesOn, TypeOK, HttpTypeOK
<1>3. TypeOK'
  BY <1>1, <1>2 DEF TypeOK, HttpTypeOK, start, timers, user, scan, choice
<1>4. ArmedTogether' /\ OthersAreOld'
  BY <1>1, <1>2 DEF ArmedTogether, OthersAreOld, SameRequest, Polling, timers, choice
<1>5. LetGoInTime' /\ StartsEmpty' /\ WrongOnlyIfLate'
  BY <1>1 DEF LetGoInTime, StartsEmpty, WrongOnlyIfLate, Polling, MacroDone, start, timers, choice
<1> QED BY <1>3, <1>4, <1>5 DEF ViewerInv

(* An answer is shown only when those to the choices before are old.        *)
LEMMA EndedKeeps ==
  ASSUME ViewerInv, NEW i \in InFlight, Ended(i)
  PROVE  ViewerInv'
<1>1. /\ TypeOK /\ ArmedTogether /\ LetGoInTime /\ OthersAreOld /\ WrongOnlyIfLate
      /\ start' = start /\ macroTimer' = macroTimer /\ btnOffTimer' = btnOffTimer
      /\ checkBtnTimer' = checkBtnTimer /\ user' = user /\ scan' = scan
      /\ tamaToShow' = tamaToShow /\ dontShowIncomingImage' = dontShowIncomingImage
      /\ Disarmed = -1
  BY DEF ViewerInv, Ended, Disarmed
<1>2. HttpTypeOK' /\ (\A j \in InFlight : SameRequest(j)) /\ req[i].phase # "free"
  BY <1>1, HttpEnds DEF Ended, TypeOK, HttpTypeOK
<1>3. PICK body \in {"none", "part", "picture", "page"} : datacb(req[i], body)
  BY DEF Ended, Body
<1>4. Polling
  BY <1>1, <1>2 DEF ArmedTogether
<1>5. \/ reqTimer' = reqTimer /\ shown' = shown
      \/ /\ ~dontShowIncomingImage /\ reqTimer' = RETRY
         /\ \/ shown' = shown
            \/ body # "none" /\ shown' = Shown(body, req[i].what, req[i].age = OLD)
  BY <1>3 DEF datacb
<1>6. reqTimer' \in Nat /\ reqTimer' # Disarmed
  BY <1>1, <1>4, <1>5, Durations DEF TypeOK, Ticks, Polling
<1>7. shown' \in [kind : {"nothing", "number", "part", "picture", "page"}, tama : Int, late : BOOLEAN]
  <2>1. req[i].what \in Int /\ (req[i].age = OLD) \in BOOLEAN
    BY <1>1 DEF TypeOK, Requests
  <2>2. CASE shown' = shown
    BY <1>1, <2>2 DEF TypeOK
  <2>3. CASE body # "none" /\ shown' = Shown(body, req[i].what, req[i].age = OLD)
    BY <2>1, <2>3 DEF Shown
  <2> QED BY <1>5, <2>2, <2>3
<1>8. TypeOK'
  BY <1>1, <1>2, <1>6, <1>7 DEF TypeOK, HttpTypeOK, Ticks, start, user, scan
<1>9. ArmedTogether' /\ LetGoInTime' /\ StartsEmpty'
  BY <1>1, <1>4, <1>6 DEF ArmedTogether, LetGoInTime, StartsEmpty, Polling, start
<1>10. OthersAreOld'
  BY <1>1, <1>2, <1>5 DEF OthersAreOld, SameRequest
<1>11. WrongOnlyIfLate'
  <2>1. CASE shown' = shown
    BY <1>1, <1>4, <2>1 DEF WrongOnlyIfLate, MacroDone, Polling
  <2>2. CASE ~dontShowIncomingImage /\ body # "none" /\ shown' = Shown(body, req[i].what, req[i].age = OLD)
    <3>1. req[i].what # tamaToShow => req[i].age = OLD
      BY <1>1, <1>2, <2>2 DEF OthersAreOld
    <3>2. shown'.tama = req[i].what /\ shown'.late = (req[i].age = OLD)
      BY <2>2 DEF Shown
    <3> QED BY <1>1, <3>1, <3>2 DEF WrongOnlyIfLate
  <2> QED BY <1>5, <2>1, <2>2
<1> QED BY <1>1, <1>8, <1>9, <1>10, <1>11 DEF ViewerInv

LEMMA ChangeButtonsKeeps ==
  ASSUME ViewerInv, ChangeButtons
  PROVE  ViewerInv'
<1> USE DEF ViewerInv, ChangeButtons, http, start, timers, scan, choice
<1>1. changes' \in 0..PRESSES
  BY Durations DEF TypeOK
<1>2. TypeOK'
  BY <1>1 DEF TypeOK
<1>3. ArmedTogether' /\ LetGoInTime' /\ OthersAreOld' /\ StartsEmpty' /\ WrongOnlyIfLate'
  BY DEF ArmedTogether, LetGoInTime, OthersAreOld, StartsEmpty, WrongOnlyIfLate, Polling, MacroDone
<1> QED BY <1>2, <1>3

(* Choosing another tama: while its number is shown every answer grows as   *)
(* old as the number.                                                       *)
LEMMA handleButtonKeeps ==
  ASSUME TypeOK, OthersAreOld, WrongOnlyIfLate, Polling, NEW t, handleButton(t), req' = req,
         checkBtnTimer # Disarmed
  PROVE  /\ tamaToShow' \in Int /\ dontShowIncomingImage' \in BOOLEAN
         /\ shown' \in [kind : {"nothing", "number", "part", "picture", "page"},
                        tama : Int, late : BOOLEAN]
         /\ reqTimer' \in Nat
         /\ OthersAreOld' /\ WrongOnlyIfLate'
<1>1. CASE UNCHANGED <<choice, reqTimer>>
  <2>1. reqTimer \in Nat
    BY DEF TypeOK, Ticks, Polling
  <2>2. WrongOnlyIfLate'
    BY <1>1 DEF WrongOnlyIfLate, MacroDone, choice, Polling
  <2> QED BY <1>1, <2>1, <2>2 DEF TypeOK, OthersAreOld, choice
<1>2. ASSUME NEW n \in Int, showTamaNo(n)
      PROVE  /\ tamaToShow' \in Int /\ dontShowIncomingImage' \in BOOLEAN
             /\ shown' \in [kind : {"nothing", "number", "part", "picture", "page"},
                            tama : Int, late : BOOLEAN]
             /\ reqTimer' \in Nat
             /\ OthersAreOld' /\ WrongOnlyIfLate'
  <2>1. /\ tamaToShow' = n /\ shown' = Shown("number", n, FALSE)
        /\ dontShowIncomingImage' = TRUE /\ reqTimer' = SHOWNO
    BY <1>2 DEF showTamaNo
  <2>2. /\ shown' \in [kind : {"nothing", "number", "part", "picture", "page"},
                       tama : Int, late : BOOLEAN]
        /\ shown'.kind = "number"
    BY <1>2, <2>1 DEF Shown
  <2>3. ASSUME NEW i \in InFlight
        PROVE  req'[i].age + reqTimer' >= OLD
    <3>1. req[i].age \in Nat
      BY HttpAssumption DEF TypeOK, Requests
    <3> QED BY <3>1, <2>1, Durations
  <2>4. OthersAreOld'
    BY <2>1, <2>3 DEF OthersAreOld
  <2>5. WrongOnlyIfLate'
    BY <2>2 DEF WrongOnlyIfLate
  <2> QED BY <2>1, <2>2, <2>4, <2>5, Durations
<1>3. tamaToShow - 1 \in Int /\ tamaToShow + 1 \in Int
  BY DEF TypeOK
<1> QED BY <1>1, <1>2, <1>3 DEF handleButton

LEMMA RestartKeeps ==
  ASSUME ViewerInv, Restart
  PROVE  ViewerInv'
<1>1. TypeOK /\ Disarmed = -1
  BY DEF ViewerInv, Disarmed
<1>2. /\ macroPos' = 1 /\ held' = {} /\ macroTimer' = START
      /\ btnOffTimer' = Disarmed /\ reqTimer' = Disarmed /\ checkBtnTimer' = Disarmed
      /\ tamaToShow' = 0 /\ dontShowIncomingImage' = FALSE
      /\ oldBtn' = 1..3 /\ resetCnt' = 0
      /\ req' = [i \in InFlight |-> Free] /\ faults' = faults
      /\ pressed' = pressed /\ changes' = changes
      /\ cacheValid' = FALSE /\ cachedHostname' = NoHost /\ cachedAddr' = NoHost
  BY DEF Restart, user
<1>3. shown' \in [kind : {"nothing", "number", "part", "picture", "page"}, tama : Int, late : BOOLEAN]
  <2>1. CASE shown' = shown
    BY <1>1, <2>1 DEF TypeOK
  <2>2. CASE shown' = Shown("number", tamaToShow + 1, FALSE)
    BY <1>1, <2>2 DEF Shown, TypeOK
  <2> QED BY <2>1, <2>2 DEF Restart
<1>4. req' \in [InFlight -> Requests] /\ \A i \in InFlight : req'[i].phase = "free"
  BY <1>2, FreeIsRequest
<1>5. /\ macroPos' \in 1..(Len(macro) + 1) /\ resetCnt' \in 0..RESETCOUNT
      /\ START \in Ticks /\ Disarmed \in Ticks
  BY <1>1, <1>2, MacroFacts, Durations DEF Ticks
<1>6. /\ cacheValid' \in BOOLEAN /\ dontShowIncomingImage' \in BOOLEAN
      /\ {cachedHostname', cachedAddr'} \subseteq Hosts \cup {NoHost}
  BY <1>2, Zenon
<1>7. held' \subseteq 1..3 /\ oldBtn' \subseteq 1..3 /\ tamaToShow' \in Int
  BY <1>2
<1>8. /\ macroTimer' \in Ticks /\ btnOffTimer' \in Ticks
      /\ reqTimer' \in Ticks /\ checkBtnTimer' \in Ticks
  BY <1>2, <1>5
<1>9. faults' \in 0..MAXFAULTS /\ pressed' \subseteq Buttons /\ changes' \in 0..PRESSES
  BY <1>1, <1>2 DEF TypeOK
<1>10. TypeOK'
  BY <1>3, <1>4, <1>5, <1>6, <1>7, <1>8, <1>9 DEF TypeOK
<1>11. ArmedTogether' /\ LetGoInTime'
  BY <1>1, <1>2, <1>4, Durations DEF ArmedTogether, LetGoInTime, Polling
<1>12. OthersAreOld' /\ StartsEmpty' /\ WrongOnlyIfLate'
  BY <1>2, <1>4 DEF OthersAreOld, StartsEmpty, WrongOnlyIfLate, MacroDone
<1> QED BY <1>10, <1>11, <1>12 DEF ViewerInv

LEMMA checkBtnTimerCbKeeps ==
  ASSUME ViewerInv, checkBtnTimerCb
  PROVE  ViewerInv'
<1>1. CASE Reset
  BY <1>1, RestartKeeps DEF checkBtnTimerCb
<1>2. CASE ~Reset
  <2>1. /\ TypeOK /\ ArmedTogether /\ LetGoInTime /\ OthersAreOld /\ WrongOnlyIfLate
        /\ handleButton(pressed \ oldBtn) /\ Disarmed = -1
        /\ checkBtnTimer = 0 /\ checkBtnTimer' = 1 /\ oldBtn' = pressed
        /\ http' = http /\ start' = start /\ macroTimer' = macroTimer
        /\ btnOffTimer' = btnOffTimer /\ user' = user
    BY <1>2 DEF ViewerInv, checkBtnTimerCb, Disarmed
  <2>2. Polling /\ checkBtnTimer # Disarmed
    BY <2>1 DEF ArmedTogether
  <2>3. /\ tamaToShow' \in Int /\ dontShowIncomingImage' \in BOOLEAN
        /\ shown' \in [kind : {"nothing", "number", "part", "picture", "page"},
                       tama : Int, late : BOOLEAN]
        /\ reqTimer' \in Nat /\ OthersAreOld' /\ WrongOnlyIfLate'
    BY <2>1, <2>2, handleButtonKeeps DEF http
  <2>4. resetCnt' \in 0..RESETCOUNT
    BY <1>2, <2>1, Durations DEF checkBtnTimerCb, TypeOK
  <2>5. oldBtn' \subseteq 1..3
    BY <2>1, EspViewerAssumption DEF TypeOK
  <2>6. TypeOK'
    BY <2>1, <2>3, <2>4, <2>5 DEF TypeOK, Ticks, http, start, user
  <2>7. Polling'
    BY <2>1, <2>3 DEF Polling
  <2>8. ArmedTogether' /\ LetGoInTime' /\ StartsEmpty'
    BY <2>1, <2>2, <2>7 DEF ArmedTogether, LetGoInTime, StartsEmpty, start
  <2> QED BY <2>3, <2>6, <2>8 DEF ViewerInv
<1> QED BY <1>1, <1>2

-----------------------------------------------------------------------------
(* Time: what is missing of an age is what is left of the number's time.    *)
LEMMA OneTickLess ==
  ASSUME NEW t \in Ticks, t # 0
  PROVE  /\ Left(t) \in Ticks
         /\ Left(t) = Disarmed <=> t = Disarmed
         /\ t # Disarmed => Left(t) = t - 1
  BY SMT DEF Ticks, Left, Disarmed

LEMMA OneTickOlder ==
  ASSUME NEW q \in Requests
  PROVE  /\ Older(q) \in Requests
         /\ Older(q).phase = q.phase /\ Older(q).what = q.what
         /\ q.phase # "free" => Older(q).age = OLD \/ Older(q).age = q.age + 1
         /\ q.age = OLD => Older(q).age = OLD
  BY HttpAssumption DEF Requests, Older

LEMMA TickKeeps ==
  ASSUME ViewerInv, Tick
  PROVE  ViewerInv'
<1>1. /\ TypeOK /\ ArmedTogether /\ LetGoInTime /\ OthersAreOld /\ StartsEmpty /\ WrongOnlyIfLate
      /\ macroTimer \in Ticks \ {0} /\ btnOffTimer \in Ticks \ {0}
      /\ reqTimer \in Ticks \ {0} /\ checkBtnTimer \in Ticks \ {0}
      /\ macroTimer' = Left(macroTimer) /\ btnOffTimer' = Left(btnOffTimer)
      /\ reqTimer' = Left(reqTimer) /\ checkBtnTimer' = Left(checkBtnTimer)
      /\ req' = [i \in InFlight |-> Older(req[i])]
      /\ cacheValid' = cacheValid /\ cachedHostname' = cachedHostname
      /\ cachedAddr' = cachedAddr /\ faults' = faults
      /\ start' = start /\ user' = user /\ scan' = scan /\ choice' = choice
  BY DEF ViewerInv, Tick, TypeOK
<1>2. /\ macroTimer' \in Ticks /\ (macroTimer' = Disarmed <=> macroTimer = Disarmed)
      /\ btnOffTimer' \in Ticks /\ (btnOffTimer' = Disarmed <=> btnOffTimer = Disarmed)
      /\ reqTimer' \in Ticks /\ (reqTimer' = Disarmed <=> reqTimer = Disarmed)
      /\ checkBtnTimer' \in Ticks /\ (checkBtnTimer' = Disarmed <=> checkBtnTimer = Disarmed)
  BY <1>1, OneTickLess
<1>3. ASSUME NEW i \in InFlight
      PROVE  /\ req[i] \in Requests /\ req'[i] \in Requests
             /\ req'[i].phase = req[i].phase /\ req'[i].what = req[i].what
             /\ req[i].phase # "free" => req'[i].age = OLD \/ req'[i].age = req[i].age + 1
             /\ req[i].age = OLD => req'[i].age = OLD
  BY <1>1, OneTickOlder DEF TypeOK
<1>4. TypeOK'
  <2>1. req' \in [InFlight -> Requests]
    BY <1>1, <1>3
  <2> QED BY <1>1, <1>2, <2>1 DEF TypeOK, start, user, scan, choice
<1>5. ArmedTogether'
  BY <1>1, <1>2, <1>3 DEF ArmedTogether, Polling
<1>6. LetGoInTime'
  <2>1. btnOffTimer # Disarmed => btnOffTimer' < macroTimer'
    <3> SUFFICES ASSUME btnOffTimer # Disarmed PROVE Left(btnOffTimer) < Left(macroTimer)
      BY <1>1
    <3>1. macroTimer # Disarmed /\ btnOffTimer < macroTimer
      BY <1>1 DEF LetGoInTime, ArmedTogether
    <3>2. Left(btnOffTimer) = btnOffTimer - 1 /\ Left(macroTimer) = macroTimer - 1
      BY <1>1, <3>1, OneTickLess
    <3> QED BY <1>1, <3>1, <3>2, SMT DEF Ticks, Disarmed
  <2> QED BY <1>1, <1>2, <2>1 DEF LetGoInTime, Polling, start
<1>7. OthersAreOld'
  <2> SUFFICES ASSUME NEW i \in InFlight, req'[i].phase # "free", req'[i].what # tamaToShow'
               PROVE  \/ req'[i].age = OLD
                      \/ dontShowIncomingImage' /\ req'[i].age + reqTimer' >= OLD
    BY DEF OthersAreOld
  <2>1. tamaToShow' = tamaToShow /\ dontShowIncomingImage' = dontShowIncomingImage
    BY <1>1 DEF choice
  <2>2. req[i].phase # "free" /\ req[i].what # tamaToShow
    BY <1>3, <2>1
  <2>3. CASE req[i].age = OLD \/ req'[i].age = OLD
    BY <1>3, <2>3
  <2>4. CASE req[i].age # OLD /\ req'[i].age = req[i].age + 1
    <3>1. dontShowIncomingImage /\ req[i].age + reqTimer >= OLD
      BY <1>1, <2>2, <2>4 DEF OthersAreOld
    <3>2. reqTimer # Disarmed
      BY <1>1, <2>2 DEF ArmedTogether, Polling
    <3>3. reqTimer' = reqTimer - 1
      BY <1>1, <3>2, OneTickLess
    <3>4. req[i].age \in Int /\ reqTimer \in Int
      BY <1>1, <1>3 DEF Requests, Ticks, Disarmed
    <3>5. (req[i].age + 1) + (reqTimer - 1) >= OLD
      BY <3>1, <3>4, HttpAssumption
    <3> QED BY <2>1, <2>4, <3>1, <3>3, <3>5
  <2> QED BY <1>3, <2>2, <2>3, <2>4
<1>8. StartsEmpty' /\ WrongOnlyIfLate'
  BY <1>1, <1>2 DEF StartsEmpty, WrongOnlyIfLate, MacroDone, Polling, start, choice
<1> QED BY <1>4, <1>5, <1>6, <1>7, <1>8 DEF ViewerInv

-----------------------------------------------------------------------------
THEOREM ViewerInvStep == ViewerInv /\ [Next]_vars => ViewerInv'
<1> SUFFICES ASSUME ViewerInv, [Next]_vars PROVE ViewerInv'
  OBVIOUS
<1>1. CASE btnOffTimerCb
  BY <1>1, btnOffTimerCbKeeps
<1>2. CASE macroTimerCb
  BY <1>2, macroTimerCbKeeps
<1>3. CASE reqTimerCb
  BY <1>3, reqTimerCbKeeps
<1>4. CASE checkBtnTimerCb
  BY <1>4, checkBtnTimerCbKeeps
<1>5. CASE Tick
  BY <1>5, TickKeeps
<1>6. CASE ChangeButtons
  BY <1>6, ChangeButtonsKeeps
<1>7. ASSUME NEW i \in InFlight, Ended(i) PROVE ViewerInv'
  BY <1>7, EndedKeeps
<1>8. ASSUME NEW i \in InFlight, GoesOn(i) PROVE ViewerInv'
  BY <1>8, GoesOnKeeps
<1>9. CASE UNCHANGED vars
  <2>1. TypeOK'
    BY <1>9 DEF ViewerInv, TypeOK, vars, http, timers, start, user, scan, choice
  <2>2. ArmedTogether' /\ LetGoInTime' /\ OthersAreOld' /\ StartsEmpty' /\ WrongOnlyIfLate'
    BY <1>9 DEF ViewerInv, ArmedTogether, LetGoInTime, OthersAreOld, StartsEmpty, WrongOnlyIfLate,
                Polling, MacroDone, vars, http, timers, start, user, scan, choice
  <2> QED BY <2>1, <2>2 DEF ViewerInv
<1> QED BY <1>1, <1>2, <1>3, <1>4, <1>5, <1>6, <1>7, <1>8, <1>9 DEF Next, Timers

THEOREM ViewerInvariant == Spec => []ViewerInv
<1>1. Init => ViewerInv
  BY ViewerInvInit
<1>2. ViewerInv /\ [Next]_vars => ViewerInv'
  BY ViewerInvStep
<1> QED BY <1>1, <1>2, PTL DEF Spec

(* The type invariant, for any number of requests in flight.                *)
THEOREM ViewerTypeCorrect == Spec => []TypeOK
<1>1. ViewerInv => TypeOK
  BY DEF ViewerInv
<1> QED BY <1>1, ViewerInvariant, PTL

(* No end of a request, choice or restart leaves the viewer without a timer *)
(* that makes the next request.                                             *)
THEOREM PollingGoesOn == Spec => []KeepsAsking
<1>1. ViewerInv => KeepsAsking
  BY DEF ViewerInv, ArmedTogether, Polling, KeepsAsking
<1> QED BY <1>1, ViewerInvariant, PTL

(* The macro leaves the pins to the pictures, and presses one button at a   *)
(* time, if every delay in it is longer than a button is held.              *)
THEOREM PinsAreLeft == Spec => []PinsNotShared
<1>1. ASSUME ViewerInv PROVE PinsNotShared
  <2>1. MacroDone => held = {} /\ btnOffTimer = Disarmed
    BY <1>1 DEF ViewerInv, ArmedTogether, LetGoInTime, MacroDone, Polling
  <2>2. CASE held = {}
    BY <2>1, <2>2, FS_EmptySet DEF PinsNotShared
  <2>3. ASSUME NEW b \in 1..3, held = {b} PROVE PinsNotShared
    <3>1. Cardinality({b}) = 1
      BY FS_Singleton
    <3> QED BY <2>1, <2>3, <3>1 DEF PinsNotShared
  <2> QED BY <1>1, <2>2, <2>3 DEF ViewerInv, LetGoInTime
<1> QED BY <1>1, ViewerInvariant, PTL

(* A picture of a tama that was not chosen is never shown by an answer that *)
(* came within the time the number is shown, however many requests are on   *)
(* their way and whatever order they end in.                                *)
THEOREM OnlyLateAnswersMislead == Spec => []WrongOnlyIfLate
<1>1. ViewerInv => WrongOnlyIfLate
  BY DEF ViewerInv
<1> QED BY <1>1, ViewerInvariant, PTL
=============================================================================

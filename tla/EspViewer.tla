----------------------------- MODULE EspViewer ------------------------------
(***************************************************************************)
(* The Tamagotchi viewer (viewer/esp12/user/io.c): an ESP8266 in the case  *)
(* of a tama.  It first presses the tama's buttons by a macro that starts  *)
(* the figure's program, then polls for the picture of one tama of the     *)
(* hive, and lets the user choose another one with the buttons.  All of it *)
(* happens in callbacks of timers and of HttpClient, one at a time.        *)
(***************************************************************************)
EXTENDS HttpClient, Sequences, FiniteSets

CONSTANTS
  macro,         \* the presses: records of a button and a delay, in ticks
  host,          \* the server with the pictures
  START,         \* ticks before the first press (100 ms)
  BTNOFF,        \* ticks a button is held (200 ms)
  RETRY,         \* ticks from an answer to the next request (100 ms)
  PERIOD,        \* ticks from a request to the next one (1000 ms)
  SHOWNO,        \* ticks the number of the tama is shown (2000 ms)
  Buttons,       \* those the user presses, of 1..3
  RESETCOUNT,    \* scans after which releasing button 1 restarts (60)
  PRESSES        \* bound: changes of the buttons by the user

ASSUME EspViewerAssumption ==
  /\ macro \in Seq([button : 1..3, delay : Nat \ {0}])
  /\ host \in Hosts
  /\ {START, BTNOFF, RETRY, PERIOD, SHOWNO, RESETCOUNT} \subseteq Nat \ {0}
  /\ Buttons \subseteq 1..3 /\ PRESSES \in Nat
  /\ Len(macro) > 0 /\ \A k \in DOMAIN macro : macro[k].delay > BTNOFF
  /\ OLD = SHOWNO                     \* the age that matters

VARIABLES
  macroPos, held,          \* the next press; the buttons the macro holds down
  macroTimer, btnOffTimer, reqTimer, checkBtnTimer,  \* ticks to go, or Disarmed
  tamaToShow, dontShowIncomingImage,
  shown,                   \* what the tama's display shows
  pressed, changes,        \* the buttons the user holds down; changes so far
  oldBtn, resetCnt         \* of checkBtnTimerCb

timers == <<macroTimer, btnOffTimer, reqTimer, checkBtnTimer>>
start  == <<macroPos, held>>
user   == <<pressed, changes>>
scan   == <<oldBtn, resetCnt>>
choice == <<tamaToShow, dontShowIncomingImage, shown>>
vars   == <<http, timers, start, user, scan, choice>>

Disarmed == -1
Shown(k, t, l) == [kind |-> k, tama |-> t, late |-> l]
MacroDone == reqTimer # Disarmed \/ checkBtnTimer # Disarmed

Ticks == Nat \cup {Disarmed}

TypeOK ==
  /\ req \in [InFlight -> Requests] /\ faults \in 0..MAXFAULTS
  /\ cacheValid \in BOOLEAN /\ {cachedHostname, cachedAddr} \subseteq Hosts \cup {NoHost}
  /\ macroPos \in 1..(Len(macro) + 1) /\ held \subseteq 1..3
  /\ macroTimer \in Ticks /\ btnOffTimer \in Ticks
  /\ reqTimer \in Ticks /\ checkBtnTimer \in Ticks
  /\ tamaToShow \in Int /\ dontShowIncomingImage \in BOOLEAN
  /\ shown \in [kind : {"nothing", "number", "part", "picture", "page"},
                 tama : Int, late : BOOLEAN]
  /\ pressed \subseteq Buttons /\ changes \in 0..PRESSES
  /\ oldBtn \subseteq 1..3 /\ resetCnt \in 0..RESETCOUNT

Init ==
  /\ HttpInit
  /\ macroPos = 1 /\ held = {}
  /\ macroTimer = START /\ btnOffTimer = Disarmed /\ reqTimer = Disarmed
  /\ checkBtnTimer = Disarmed
  /\ tamaToShow = 0 /\ dontShowIncomingImage = FALSE
  /\ oldBtn = 1..3 /\ resetCnt = 0      \* the lines are low when pressed: all of them
  /\ shown = Shown("nothing", 0, FALSE) /\ pressed = {} /\ changes = 0

-----------------------------------------------------------------------------
(* The macro.                                                              *)
btnOffTimerCb ==
  /\ btnOffTimer = 0
  /\ btnOffTimer' = Disarmed /\ held' = {}
  /\ UNCHANGED <<http, macroPos, macroTimer, reqTimer, checkBtnTimer, user, scan, choice>>

\* The entry behind the last one has no button: the viewer starts to poll.
StartPolling ==
  /\ macroPos > Len(macro)
  /\ macroTimer' = Disarmed /\ reqTimer' = SHOWNO /\ checkBtnTimer' = 1
  /\ UNCHANGED <<macroPos, held, btnOffTimer, shown>>

Press_NextDelay ==
  /\ macroPos <= Len(macro)
  /\ held' = held \cup {macro[macroPos].button}
  /\ btnOffTimer' = BTNOFF /\ macroPos' = macroPos + 1 /\ shown' = Shown("nothing", 0, FALSE)
  /\ macroTimer' = IF macroPos < Len(macro) THEN macro[macroPos + 1].delay ELSE 0
  /\ UNCHANGED <<reqTimer, checkBtnTimer>>

\* The tama answers a press with screens of its own.
Press ==
  /\ macroPos <= Len(macro)
  /\ held' = held \cup {macro[macroPos].button}
  /\ btnOffTimer' = BTNOFF /\ macroTimer' = macro[macroPos].delay
  /\ macroPos' = macroPos + 1 /\ shown' = Shown("nothing", 0, FALSE)
  /\ UNCHANGED <<reqTimer, checkBtnTimer>>

macroTimerCb ==
  /\ macroTimer = 0
  /\ StartPolling \/ Press
  /\ UNCHANGED <<http, user, scan, tamaToShow, dontShowIncomingImage>>

-----------------------------------------------------------------------------
(* Polling.                                                                *)
\* The timer is armed again whatever http_get did, its callback included.
reqTimerCb ==
  /\ reqTimer = 0
  /\ dontShowIncomingImage' = FALSE
  /\ \E i \in InFlight : HttpGet(i, tamaToShow, host)
  /\ reqTimer' = PERIOD
  /\ UNCHANGED <<start, macroTimer, btnOffTimer, checkBtnTimer, user, scan, tamaToShow, shown>>

datacb_DisarmsOnError(q, body) ==
  /\ IF dontShowIncomingImage
     THEN UNCHANGED <<reqTimer, shown>>
     ELSE /\ reqTimer' = IF body = "none" THEN Disarmed ELSE RETRY
          /\ shown' = IF body = "none" THEN shown ELSE Shown(body, q.what, q.age = OLD)

\* datacb: the callback of a request q that ends with a body, or "none" of it.
datacb(q, body) ==
  /\ IF dontShowIncomingImage
     THEN UNCHANGED <<reqTimer, shown>>
     ELSE /\ reqTimer' = RETRY
          /\ shown' = IF body = "none" THEN shown ELSE Shown(body, q.what, q.age = OLD)

Ended(i) ==
  /\ \/ NotFound(i) /\ datacb(req[i], "none")
     \/ Refused(i)  /\ datacb(req[i], "none")
     \/ Closed(i)   /\ datacb(req[i], Body(req[i]))
  /\ UNCHANGED <<start, macroTimer, btnOffTimer, checkBtnTimer, user, scan,
                 tamaToShow, dontShowIncomingImage>>

GoesOn(i) ==
  /\ \/ Found(i) \/ Connected(i) \/ Lost(i) \/ TooLong(i)
     \/ \E b \in {"part", "picture", "page", "other"} : Received(i, b)
  /\ UNCHANGED <<start, timers, user, scan, choice>>

-----------------------------------------------------------------------------
(* The user's buttons.                                                     *)
ChangeButtons ==
  /\ changes < PRESSES /\ checkBtnTimer # Disarmed
  /\ \E b \in SUBSET Buttons : b # pressed /\ pressed' = b
  /\ changes' = changes + 1
  /\ UNCHANGED <<http, start, timers, scan, choice>>

showTamaNo_Shows(t) ==
  /\ tamaToShow' = t /\ shown' = Shown("number", t, FALSE)
  /\ dontShowIncomingImage' = FALSE /\ reqTimer' = SHOWNO
showTamaNo_NotArmed(t) ==
  /\ tamaToShow' = t /\ shown' = Shown("number", t, FALSE)
  /\ dontShowIncomingImage' = TRUE /\ reqTimer' = Disarmed

\* Answers that come while the number is shown are not for this tama.
showTamaNo(t) ==
  /\ tamaToShow' = t /\ shown' = Shown("number", t, FALSE)
  /\ dontShowIncomingImage' = TRUE /\ reqTimer' = SHOWNO

\* t is what went down since the last scan; two buttons at once do nothing.
handleButton(t) ==
  IF t = {1} THEN showTamaNo(tamaToShow - 1)
  ELSE IF t = {3} THEN showTamaNo(tamaToShow + 1)
  ELSE UNCHANGED <<choice, reqTimer>>

\* Releasing button 1 after RESETCOUNT scans restarts the module: everything in its
\* memory is as after power on.
Reset == 1 \notin pressed /\ resetCnt = RESETCOUNT
Restart ==
  /\ macroPos' = 1 /\ held' = {} /\ macroTimer' = START
  /\ btnOffTimer' = Disarmed /\ reqTimer' = Disarmed /\ checkBtnTimer' = Disarmed
  /\ tamaToShow' = 0 /\ dontShowIncomingImage' = FALSE
  /\ oldBtn' = 1..3 /\ resetCnt' = 0
  /\ req' = [i \in InFlight |-> Free] /\ UNCHANGED <<faults, user>>
  /\ shown' = IF pressed \ oldBtn = {3} THEN Shown("number", tamaToShow + 1, FALSE) ELSE shown
  /\ cacheValid' = FALSE /\ cachedHostname' = NoHost /\ cachedAddr' = NoHost

checkBtnTimerCb ==
  /\ checkBtnTimer = 0
  /\ IF Reset THEN Restart
     ELSE /\ handleButton(pressed \ oldBtn)
          /\ oldBtn' = pressed /\ checkBtnTimer' = 1
          /\ resetCnt' = IF 1 \notin pressed THEN 0
                         ELSE IF resetCnt = RESETCOUNT THEN resetCnt ELSE resetCnt + 1
          /\ UNCHANGED <<http, start, macroTimer, btnOffTimer, user>>

-----------------------------------------------------------------------------
\* A callback that is due runs before time goes on.
Left(t) == IF t = Disarmed THEN t ELSE t - 1
Tick ==
  /\ macroTimer # 0 /\ btnOffTimer # 0 /\ reqTimer # 0 /\ checkBtnTimer # 0
  /\ macroTimer' = Left(macroTimer) /\ btnOffTimer' = Left(btnOffTimer)
  /\ reqTimer' = Left(reqTimer) /\ checkBtnTimer' = Left(checkBtnTimer)
  /\ req' = [i \in InFlight |-> Older(req[i])]
  /\ UNCHANGED <<cacheValid, cachedHostname, cachedAddr, faults, start, user, scan, choice>>

Timers == btnOffTimerCb \/ macroTimerCb \/ reqTimerCb \/ checkBtnTimerCb
Next == Timers \/ Tick \/ ChangeButtons \/ \E i \in InFlight : Ended(i) \/ GoesOn(i)

Spec ==
  /\ Init /\ [][Next]_vars
  /\ WF_vars(btnOffTimerCb) /\ WF_vars(macroTimerCb) /\ WF_vars(reqTimerCb)
  /\ WF_vars(checkBtnTimerCb) /\ WF_vars(Tick)
  /\ \A i \in InFlight : WF_vars(Ended(i) \/ GoesOn(i))

-----------------------------------------------------------------------------
\* Once the macro is done the viewer keeps asking: no end of a request, failed lookup
\* or button leaves it without a timer that makes the next request (io.c:119, 140, 168).
KeepsAsking == checkBtnTimer # Disarmed => reqTimer # Disarmed

\* The macro and the pictures use the same three pins: when the polling starts the
\* macro holds nothing and will not let go later, and it never holds two buttons
\* (io.c:86-92, btnOffTimer against the delays of the macro).
PinsNotShared ==
  /\ MacroDone => held = {} /\ btnOffTimer = Disarmed
  /\ Cardinality(held) <= 1

\* After the user chose another tama the answers that are still on their way are not
\* shown, unless they are slower than the number is shown (dontShowIncomingImage is
\* cleared when it has been, and nothing tells whose picture an answer is).
WrongOnlyIfLate ==
  MacroDone /\ shown.kind \in {"part", "picture"} /\ shown.tama # tamaToShow => shown.late

\* When the user leaves the buttons alone and the network stops failing, the viewer ends
\* up showing the picture of the tama that was chosen; unless the name of the server was
\* looked up in vain once, which it never tries again (httpclient.c:421-427).
ShowsChosen ==
  \/ <>[](shown.kind = "picture" /\ shown.tama = tamaToShow)
  \/ <>[]NameLost(host)
=============================================================================

--------------------------- MODULE WebViewerProofs ---------------------------
(***************************************************************************)
(* Theorems about WebViewer for any number of slots, any pictures and any  *)
(* number of datagrams: types, and that the lock-free hand-over from the   *)
(* server over the script to the page loses no update.                     *)
(***************************************************************************)
EXTENDS WebViewer, TLAPS

Busy == {"claim", "handle", "bottom", "number", "publish"}

(* Where the three programs can be, and what that says of their variables. *)
Control ==
  /\ wpc \in Busy \cup {"receive", "reset", "resetNo", "resetSlots"}
  /\ wpc \in Busy => currSeq < SEQLIMIT
  /\ wpc = "bottom" => new \in Pictures
  /\ rpc \in {"none", "header", "slots", "top", "bottom", "done"}
  /\ page \in {"waiting", "asking", "stopped"}
  /\ page = "asking" <=> rpc # "none"
  /\ rpc = "slots" => at <= hdr.notama
  /\ rpc \in {"top", "bottom"} => at < hdr.notama
  /\ rpc = "bottom" => answer[at] # NoCanvas
  /\ rpc \in {"none", "header"} => answer = NoAnswer

(* The numbers of a server that was started once: a slot in use has one that *)
(* was published, but for the slot of the datagram being handled.            *)
Numbers ==
  /\ wpc \in Busy \cup {"receive"}
  /\ \A i \in Slots : i >= noTamas => lastSeq[i] = UNUSED
  /\ wpc \in Busy => slot < noTamas
  /\ wpc = "claim" => lastSeq[slot] = UNUSED
  /\ wpc = "publish" => lastSeq[slot] = currSeq + 1
  /\ \A i \in Slots :
       \/ lastSeq[i] = UNUSED
       \/ lastSeq[i] \in 1..currSeq
       \/ i = slot /\ wpc = "publish"
       \/ i = slot /\ wpc \in {"handle", "bottom", "number"} /\ lastSeq[i] = 0

(* No number the page or the script holds is ahead of the server. *)
Behind ==
  /\ lastseq <= currSeq /\ since <= currSeq
  /\ hdr.currseq <= currSeq /\ hdr.notama <= noTamas

(* The datagram being handled is going to give slot i a new number. *)
Handling(i) ==
  /\ slot = i
  /\ wpc \in {"bottom", "number", "publish"} \/ (wpc = "handle" /\ lastSeq[i] = 0)

(* Picture x is right for slot i, or whoever has number n will be told. *)
Good(x, i, n) == x = display[i] \/ Handling(i) \/ lastSeq[i] > n

(* What the page shows of slot i, now and after the answer so far. *)
OnPage(i) == {shown[i]} \cup (IF i = bigId /\ ~late THEN {big} ELSE {})
After(i)  == IF answer[i] # NoCanvas THEN {answer[i]} ELSE OnPage(i)

Pending(i) == \A x \in OnPage(i) : Good(x, i, since)
Settled(i) == \A x \in After(i) : Good(x, i, hdr.currseq)

(* The slots behind the script are right in the answer or newer than its    *)
(* header; those ahead of it are right on the page or newer than what the   *)
(* page asked for; those it will not read are newer than its header.        *)
ReadSoFar(i) ==
  /\ i < at => Settled(i)
  /\ i >= at => Pending(i)
  /\ i >= hdr.notama => Handling(i) \/ lastSeq[i] > hdr.currseq
  /\ i = at /\ rpc = "bottom" =>
       answer[i][1] = display[i][1] \/ Handling(i) \/ lastSeq[i] > hdr.currseq

Unread ==
  /\ \A i \in Slots : i > at => answer[i] = NoCanvas
  /\ rpc \in {"slots", "top"} => \A i \in Slots : i >= at => answer[i] = NoCanvas

Reading == Unread /\ \A i \in Present : ReadSoFar(i)

OnTheWay ==
  /\ page = "waiting" => \A i \in Present : \A x \in OnPage(i) : Good(x, i, lastseq)
  /\ rpc = "header" => \A i \in Present : Pending(i)
  /\ rpc \in {"slots", "top", "bottom"} => Reading
  /\ rpc = "done" => \A i \in Present : Settled(i)

(* The inductive invariant. *)
WebInv ==
  /\ TypeOK /\ Control
  /\ ~restarted => Numbers /\ Behind
  /\ ~Spoilt => OnTheWay
-----------------------------------------------------------------------------
LEMMA HalvesAreNoGap ==
  ASSUME NEW p \in Pictures, NEW q \in Pictures
  PROVE  <<p, q>> # NoCanvas /\ <<p, q>> \in Halves
  BY DEF NoCanvas, Halves

LEMMA HalvesArePictures ==
  ASSUME NEW h \in Halves
  PROVE  /\ h = <<h[1], h[2]>>
         /\ h[1] \in Pictures /\ h[2] \in Pictures
  BY DEF Halves

(* Writing one half of a pair leaves the other half. *)
LEMMA HalfWritten ==
  ASSUME NEW h \in Halves, NEW p \in Pictures
  PROVE  /\ [h EXCEPT ![1] = p] = <<p, h[2]>>
         /\ [h EXCEPT ![2] = p] = <<h[1], p>>
  BY DEF Halves

LEMMA InitOK == Init => WebInv
<1> SUFFICES ASSUME Init PROVE WebInv
  OBVIOUS
<1> USE ViewerAssumption DEF Init
<1>0. Blank \in Pictures /\ <<Blank, Blank>> \in Halves /\ 0 \in Slots
  BY HalvesAreNoGap DEF Slots
<1>1. TypeOK
  <2>1. display \in [Slots -> Halves]
    BY <1>0
  <2>2. answer \in [Slots -> Halves \cup {NoCanvas}] /\ shown \in [Slots -> Halves \cup {NoCanvas}]
    BY DEF NoAnswer
  <2>3. lastSeq \in [Slots -> 0..SEQLIMIT \cup {UNUSED}]
    OBVIOUS
  <2>4. hdr \in [currseq : 0..SEQLIMIT, notama : 0..MAXCLIENT]
    BY DEF NoHeader
  <2>5. /\ currSeq \in 0..SEQLIMIT /\ noTamas \in 0..MAXCLIENT
        /\ at \in 0..MAXCLIENT /\ since \in 0..SEQLIMIT /\ lastseq \in 0..SEQLIMIT
    OBVIOUS
  <2>6. /\ slot \in Slots /\ new \in Pictures \cup {None}
        /\ bigId \in Slots \cup {None} /\ big \in Halves \cup {NoCanvas}
        /\ restarted \in BOOLEAN /\ late \in BOOLEAN
    BY <1>0
  <2> HIDE DEF Init
  <2> QED BY <2>1, <2>2, <2>3, <2>4, <2>5, <2>6 DEF TypeOK
<1>2. Control
  BY DEF Control, Busy, NoHeader
<1>3. Numbers /\ Behind
  BY DEF Numbers, Behind, Busy, Slots, UNUSED, NoHeader
<1>4. OnTheWay
  BY DEF OnTheWay, Present
<1> QED BY <1>1, <1>2, <1>3, <1>4 DEF WebInv

-----------------------------------------------------------------------------
(* Types and control. *)

LEMMA ServerTypes ==
  ASSUME TypeOK, Control, Server
  PROVE  TypeOK' /\ Control'
<1> USE ViewerAssumption
<1>0. /\ MAXCLIENT \in Int /\ SEQLIMIT \in Int /\ SEQAFTER \in Int
      /\ currSeq \in Int /\ noTamas \in Int /\ slot \in Int
  BY DEF TypeOK, Slots
<1>1. UNCHANGED <<script, browser>>
  BY DEF Server
<1>2. /\ currSeq' \in 0..SEQLIMIT /\ noTamas' \in 0..MAXCLIENT
      /\ lastSeq' \in [Slots -> 0..SEQLIMIT \cup {UNUSED}]
      /\ display' \in [Slots -> Halves]
      /\ slot' \in Slots /\ new' \in Pictures \cup {None}
      /\ restarted' \in BOOLEAN
      /\ wpc' \in Busy \cup {"receive", "reset", "resetNo", "resetSlots"}
      /\ wpc' \in Busy => currSeq' < SEQLIMIT
      /\ wpc' = "bottom" => new' \in Pictures
  <2> USE DEF TypeOK, Control, Busy, Goto, Done, Slots
  <2>1. CASE Restart
    BY <2>1, <1>0 DEF Restart, shm
  <2>2. CASE \E t \in Slots : Receive(t)
    BY <2>2, <1>0 DEF Receive
  <2>3. CASE Claim
    BY <2>3, <1>0 DEF Claim
  <2>4. CASE \E p \in Pictures : ImageTop(p)
    <3>1. PICK p \in Pictures : ImageTop(p)
      BY <2>4
    <3>2. display[slot] \in Halves /\ [display[slot] EXCEPT ![1] = p] = <<p, display[slot][2]>>
      BY <3>1, HalfWritten, HalvesArePictures
    <3>3. display' = [display EXCEPT ![slot] = [display[slot] EXCEPT ![1] = p]]
      BY <3>1 DEF ImageTop
    <3>4. <<p, display[slot][2]>> \in Halves
      BY <3>1, <3>2, HalvesArePictures, HalvesAreNoGap
    <3>5. display' \in [Slots -> Halves]
      BY <3>2, <3>3, <3>4
    <3> QED BY <3>1, <3>5, <1>0 DEF ImageTop
  <2>5. CASE ImageBottom
    <3>1. new \in Pictures
      BY <2>5 DEF ImageBottom
    <3>2. display[slot] \in Halves /\ [display[slot] EXCEPT ![2] = new] = <<display[slot][1], new>>
      BY <3>1, HalfWritten, HalvesArePictures
    <3>3. display' = [display EXCEPT ![slot] = [display[slot] EXCEPT ![2] = new]]
      BY <2>5 DEF ImageBottom
    <3>4. <<display[slot][1], new>> \in Halves
      BY <3>1, <3>2, HalvesArePictures, HalvesAreNoGap
    <3>5. display' \in [Slots -> Halves]
      BY <3>2, <3>3, <3>4
    <3> QED BY <2>5, <3>5, <1>0 DEF ImageBottom
  <2>6. CASE Infrared
    BY <2>6, <1>0 DEF Infrared, shm
  <2>7. CASE Bye
    BY <2>7, <1>0 DEF Bye, None
  <2>8. CASE Number
    BY <2>8, <1>0 DEF Number
  <2>9. CASE Publish
    BY <2>9, <1>0 DEF Publish, None
  <2>10. CASE Reset \/ ResetNo
    BY <2>10, <1>0 DEF Reset, ResetNo
  <2>11. CASE ResetSlots
    <3>1. slot' \in Slots /\ new' \in Pictures \cup {None} /\ restarted' \in BOOLEAN
          /\ wpc' \in {"receive", "resetSlots"}
      BY <2>11, <1>0 DEF ResetSlots
    <3>2. currSeq' = currSeq /\ noTamas' = noTamas /\ display' = display
          /\ lastSeq' \in [Slots -> 0..SEQLIMIT \cup {UNUSED}]
      BY <2>11, <1>0 DEF ResetSlots
    <3> QED BY <3>1, <3>2
  <2> QED
    BY <2>1, <2>2, <2>3, <2>4, <2>5, <2>6, <2>7, <2>8, <2>9, <2>10, <2>11 DEF Server, Finish
<1>3. TypeOK'
  BY <1>1, <1>2 DEF TypeOK, script, browser
<1>4. Control'
  BY <1>1, <1>2 DEF Control, script, browser
<1> QED BY <1>3, <1>4

LEMMA ScriptTypes ==
  ASSUME TypeOK, Control, Script
  PROVE  TypeOK' /\ Control'
<1> USE ViewerAssumption
<1>0. /\ MAXCLIENT \in Int /\ at \in Int /\ hdr.notama \in 0..MAXCLIENT
      /\ hdr.currseq \in 0..SEQLIMIT
  BY DEF TypeOK
<1>1. UNCHANGED <<shm, server, browser>>
  BY DEF Script
<1>2. page = "asking"
  BY DEF Script, ReadHeader, ReadSlot, ReadTop, ReadBottom, ReadEnd, Control
<1>3. /\ hdr' \in [currseq : 0..SEQLIMIT, notama : 0..MAXCLIENT]
      /\ at' \in 0..MAXCLIENT
      /\ answer' \in [Slots -> Halves \cup {NoCanvas}]
      /\ since' \in 0..SEQLIMIT
      /\ rpc' \in {"slots", "top", "bottom", "done"}
      /\ rpc' = "slots" => at' <= hdr'.notama
      /\ rpc' \in {"top", "bottom"} => at' < hdr'.notama
      /\ rpc' = "bottom" => answer'[at'] # NoCanvas
  <2> USE DEF TypeOK, Control
  <2>1. CASE ReadHeader
    BY <2>1 DEF ReadHeader
  <2>2. CASE ReadSlot
    BY <2>2, <1>0 DEF ReadSlot
  <2>3. CASE ReadTop
    <3>1. at \in Slots
      BY <2>3, <1>0 DEF ReadTop, Slots
    <3>2. display[at] \in Halves /\ display[at][1] \in Pictures
      BY <3>1, HalvesArePictures
    <3> DEFINE h == <<display[at][1], display[at][1]>>
    <3>3. h \in Halves /\ h # NoCanvas
      BY <3>2, HalvesAreNoGap
    <3>4. answer' = [answer EXCEPT ![at] = h]
      BY <2>3 DEF ReadTop
    <3> HIDE DEF h
    <3>5. answer' \in [Slots -> Halves \cup {NoCanvas}] /\ answer'[at] # NoCanvas
      BY <3>1, <3>3, <3>4
    <3> QED BY <2>3, <3>5, <1>0 DEF ReadTop
  <2>4. CASE ReadBottom
    <3>1. at \in Slots
      BY <2>4, <1>0 DEF ReadBottom, Slots
    <3>2. display[at][2] \in Pictures
      BY <3>1, HalfWritten, HalvesArePictures
    <3>3. answer[at] \in Halves
      BY <2>4, <3>1 DEF ReadBottom
    <3>4. [answer[at] EXCEPT ![2] = display[at][2]] \in Halves
      <4>1. [answer[at] EXCEPT ![2] = display[at][2]] = <<answer[at][1], display[at][2]>>
        BY <3>2, <3>3, HalfWritten
      <4>2. <<answer[at][1], display[at][2]>> \in Halves
        BY <3>2, <3>3, HalvesArePictures, HalvesAreNoGap
      <4> QED BY <4>1, <4>2
    <3>5. answer' = [answer EXCEPT ![at] = [answer[at] EXCEPT ![2] = display[at][2]]]
      BY <2>4 DEF ReadBottom
    <3>6. answer' \in [Slots -> Halves \cup {NoCanvas}]
      BY <3>4, <3>5
    <3> QED BY <2>4, <3>6, <1>0 DEF ReadBottom
  <2>5. CASE ReadEnd
    BY <2>5, <1>0 DEF ReadEnd
  <2> QED BY <2>1, <2>2, <2>3, <2>4, <2>5 DEF Script
<1>4. TypeOK'
  BY <1>1, <1>3 DEF TypeOK, shm, server, browser
<1>5. Control'
  BY <1>1, <1>2, <1>3 DEF Control, shm, server, browser
<1> QED BY <1>4, <1>5

LEMMA BrowserTypes ==
  ASSUME TypeOK, Control, Browser
  PROVE  TypeOK' /\ Control'
<1> USE ViewerAssumption DEF TypeOK, Control, shm, server, script
<1>1. CASE Ask
  BY <1>1 DEF Ask
<1>2. CASE Answered
  <2>1. \A i \in Slots : answer[i] \in Halves \cup {NoCanvas} /\ shown[i] \in Halves \cup {NoCanvas}
    OBVIOUS
  <2>2. shown' \in [Slots -> Halves \cup {NoCanvas}]
    BY <1>2, <2>1 DEF Answered
  <2>3. big' \in Halves \cup {NoCanvas}
    BY <1>2, <2>1 DEF Answered, Drawn, InAnswer
  <2>4. late' \in BOOLEAN /\ lastseq' \in 0..SEQLIMIT
    BY <1>2 DEF Answered
  <2>5. rpc' = "none" /\ since' = 0 /\ hdr' = NoHeader /\ at' = 0 /\ answer' = NoAnswer
    BY <1>2 DEF Answered, ScriptEnds
  <2>6. hdr' \in [currseq : 0..SEQLIMIT, notama : 0..MAXCLIENT] /\ at' \in 0..MAXCLIENT
        /\ since' \in 0..SEQLIMIT /\ answer' \in [Slots -> Halves \cup {NoCanvas}]
    BY <2>5 DEF NoHeader, NoAnswer
  <2> QED BY <1>2, <2>2, <2>3, <2>4, <2>5, <2>6 DEF Answered
<1>3. CASE Failed
  BY <1>3 DEF Failed, ScriptEnds, NoHeader, NoAnswer
<1>4. CASE \E i \in Slots : ShowBigTama(i)
  BY <1>4 DEF ShowBigTama
<1> QED BY <1>1, <1>2, <1>3, <1>4 DEF Browser

LEMMA TypeStep ==
  ASSUME TypeOK, Control, [Next]_vars
  PROVE  TypeOK' /\ Control'
<1>1. CASE UNCHANGED vars
  BY <1>1 DEF vars, shm, server, script, browser, TypeOK, Control
<1> QED BY <1>1, ServerTypes, ScriptTypes, BrowserTypes DEF Next

-----------------------------------------------------------------------------
(* The numbers. *)

LEMMA Integral ==
  ASSUME TypeOK
  PROVE  /\ MAXCLIENT \in Int /\ SEQLIMIT \in Int /\ UNUSED \in Int /\ SEQLIMIT < UNUSED
         /\ currSeq \in Int /\ noTamas \in Int /\ slot \in Int /\ 0 <= currSeq
         /\ at \in Int /\ since \in Int /\ lastseq \in Int /\ 0 <= since /\ 0 <= lastseq
         /\ hdr.currseq \in Int /\ hdr.notama \in Int /\ 0 <= at
         /\ lastSeq \in [Slots -> Int] /\ slot \in Slots
         /\ hdr.currseq >= 0 /\ hdr.notama <= MAXCLIENT
         /\ currSeq <= SEQLIMIT
         /\ \A i \in Slots : i \in Int /\ 0 <= i
  BY ViewerAssumption DEF TypeOK, Slots, UNUSED

(* What a step of a server that was started once does to a slot: nothing, or *)
(* it gives it a number newer than all before, now or when it is done.       *)
LEMMA ServerStep ==
  ASSUME TypeOK, Control, Numbers, Finish \/ (\E t \in Slots : Receive(t))
  PROVE  /\ Numbers'
         /\ currSeq <= currSeq' /\ noTamas <= noTamas'
         /\ \A i \in Present' :
              \/ Handling(i)'
              \/ lastSeq'[i] > currSeq
              \/ /\ i \in Present /\ ~Handling(i)
                 /\ display'[i] = display[i] /\ lastSeq'[i] = lastSeq[i]
<1> USE Integral DEF Control, Numbers, Busy, Goto, Done, Present
<1>0. ~(Reset \/ ResetNo \/ ResetSlots)
  BY DEF Reset, ResetNo, ResetSlots
<1>1. ASSUME NEW t \in Slots, Receive(t)
      PROVE  /\ Numbers'
             /\ currSeq <= currSeq' /\ noTamas <= noTamas'
             /\ \A i \in Present' :
                  /\ i \in Present /\ ~Handling(i)
                  /\ display'[i] = display[i] /\ lastSeq'[i] = lastSeq[i]
  BY <1>1 DEF Receive, FirstUnused, Handling
<1>2. CASE Claim
  <2>1. lastSeq'[slot] = 0 /\ \A i \in Slots : i # slot => lastSeq'[i] = lastSeq[i]
    BY <1>2 DEF Claim
  <2>2. Numbers'
    BY <1>2, <2>1 DEF Claim
  <2> QED BY <1>2, <2>1, <2>2 DEF Claim, Handling
<1>3. CASE \E p \in Pictures : ImageTop(p)
  <2>1. display \in [Slots -> Halves]
    BY DEF TypeOK
  <2>2. \A i \in Slots : i # slot => display'[i] = display[i]
    BY <1>3, <2>1 DEF ImageTop
  <2>3. Numbers' /\ currSeq' = currSeq /\ noTamas' = noTamas /\ lastSeq' = lastSeq
        /\ wpc' = "bottom" /\ slot' = slot /\ wpc = "handle"
    BY <1>3 DEF ImageTop
  <2> QED BY <2>2, <2>3 DEF Handling
<1>4. CASE ImageBottom
  <2>1. display \in [Slots -> Halves]
    BY DEF TypeOK
  <2>2. \A i \in Slots : i # slot => display'[i] = display[i]
    BY <1>4, <2>1 DEF ImageBottom
  <2>3. Numbers' /\ currSeq' = currSeq /\ noTamas' = noTamas /\ lastSeq' = lastSeq
        /\ wpc' = "number" /\ slot' = slot
    BY <1>4 DEF ImageBottom
  <2> QED BY <2>2, <2>3 DEF Handling
<1>5. CASE Infrared
  BY <1>5 DEF Infrared, shm, Handling
<1>6. CASE Bye
  <2>1. lastSeq'[slot] = UNUSED /\ \A i \in Slots : i # slot => lastSeq'[i] = lastSeq[i]
    BY <1>6 DEF Bye
  <2>2. Numbers'
    BY <1>6, <2>1 DEF Bye
  <2> QED BY <1>6, <2>1, <2>2 DEF Bye, Handling
<1>7. CASE Number
  <2>1. lastSeq'[slot] = currSeq + 1 /\ \A i \in Slots : i # slot => lastSeq'[i] = lastSeq[i]
    BY <1>7 DEF Number
  <2>2. Numbers'
    BY <1>7, <2>1 DEF Number
  <2> QED BY <1>7, <2>1, <2>2 DEF Number, Handling
<1>8. CASE Publish
  <2>1. Numbers'
    BY <1>8 DEF Publish
  <2> QED BY <1>8, <2>1 DEF Publish, Handling
<1> QED BY <1>0, <1>1, <1>2, <1>3, <1>4, <1>5, <1>6, <1>7, <1>8 DEF Finish

LEMMA NumbersStep ==
  ASSUME TypeOK, Control, Numbers, Behind, ~restarted', [Next]_vars
  PROVE  Numbers' /\ Behind'
<1> USE Integral
<1>1. CASE Server
  <2>1. Finish \/ \E t \in Slots : Receive(t)
    BY <1>1 DEF Server, Restart
  <2>2. Numbers' /\ currSeq <= currSeq' /\ noTamas <= noTamas'
    BY <2>1, ServerStep
  <2>3. currSeq' \in Int /\ noTamas' \in Int
    BY TypeStep, ViewerAssumption DEF TypeOK
  <2> QED BY <1>1, <2>2, <2>3 DEF Server, script, browser, Behind
<1>2. CASE Script
  <2>1. UNCHANGED <<shm, server, browser>>
    BY <1>2 DEF Script
  <2>2. Numbers'
    BY <2>1 DEF Numbers, shm, server
  <2>3. hdr'.currseq <= currSeq /\ hdr'.notama <= noTamas /\ since' = since
    BY <1>2 DEF Script, ReadHeader, ReadSlot, ReadTop, ReadBottom, ReadEnd, Behind
  <2> QED BY <2>1, <2>2, <2>3 DEF Behind, shm, browser
<1>3. CASE Browser
  <2>1. UNCHANGED <<shm, server>>
    BY <1>3 DEF Browser, Ask, Answered, Failed, ShowBigTama
  <2>2. Numbers'
    BY <2>1 DEF Numbers, shm, server
  <2>3. noTamas >= 0
    BY ViewerAssumption DEF TypeOK
  <2>4. lastseq' <= currSeq /\ since' <= currSeq /\ hdr'.currseq <= currSeq /\ hdr'.notama <= noTamas
    BY <1>3, <2>3
    DEF Browser, Ask, Answered, Failed, ShowBigTama, ScriptEnds, NoHeader, Behind, script
  <2> QED BY <2>1, <2>2, <2>4 DEF Behind, shm
<1>4. CASE UNCHANGED vars
  BY <1>4 DEF vars, shm, server, script, browser, Numbers, Behind
<1> QED BY <1>1, <1>2, <1>3, <1>4 DEF Next

-----------------------------------------------------------------------------
(* What was right or going to be told stays so when the server goes on. *)
LEMMA GoodKept ==
  ASSUME TypeOK, NEW i \in Slots, NEW n \in Int, n <= currSeq, NEW x,
         TypeOK',
         \/ Handling(i)'
         \/ lastSeq'[i] > currSeq
         \/ /\ ~Handling(i)
            /\ display'[i] = display[i] /\ lastSeq'[i] = lastSeq[i]
            /\ Good(x, i, n)
  PROVE  x = display'[i] \/ Handling(i)' \/ lastSeq'[i] > n
<1>1. currSeq \in Int /\ lastSeq'[i] \in Int
  BY ViewerAssumption DEF TypeOK, UNUSED
<1> QED BY <1>1 DEF Good

LEMMA ServerOnTheWay ==
  ASSUME TypeOK, Control, Numbers, Behind, OnTheWay, ~restarted', Server, TypeOK'
  PROVE  OnTheWay'
<1>1. Finish \/ \E t \in Slots : Receive(t)
  BY DEF Server, Restart
<1>2. \A i \in Present' :
        \/ Handling(i)'
        \/ lastSeq'[i] > currSeq
        \/ /\ i \in Present /\ ~Handling(i)
           /\ display'[i] = display[i] /\ lastSeq'[i] = lastSeq[i]
  BY <1>1, ServerStep
<1>3. UNCHANGED <<rpc, since, hdr, at, answer, lastseq, page, shown, bigId, big, late>>
  BY DEF Server, script, browser
<1>4. \A i \in Slots : OnPage(i)' = OnPage(i) /\ After(i)' = After(i)
  BY <1>3 DEF OnPage, After
<1>5. \A i \in Present' : i \in Slots
  BY DEF Present
<1>6. /\ lastseq \in Int /\ since \in Int /\ hdr.currseq \in Int
      /\ lastseq <= currSeq /\ since <= currSeq /\ hdr.currseq <= currSeq
  BY Integral DEF Behind
<1>7. ASSUME page = "waiting", NEW i \in Present', NEW x \in OnPage(i)
      PROVE  Good(x, i, lastseq)'
  BY <1>2, <1>3, <1>5, <1>6, <1>7, GoodKept DEF OnTheWay, Good
<1>8. ASSUME NEW i \in Present', i \in Present => Pending(i)
      PROVE  Pending(i)'
  <2> SUFFICES ASSUME NEW x \in OnPage(i)
               PROVE  x = display'[i] \/ Handling(i)' \/ lastSeq'[i] > since
    BY <1>3, <1>4, <1>5 DEF Pending, Good
  <2>1. i \in Present => Good(x, i, since)
    BY <1>8 DEF Pending
  <2> QED BY <1>2, <1>5, <1>6, <2>1, GoodKept
<1>9. ASSUME NEW i \in Present', i \in Present => Settled(i)
      PROVE  Settled(i)'
  <2> SUFFICES ASSUME NEW x \in After(i)
               PROVE  x = display'[i] \/ Handling(i)' \/ lastSeq'[i] > hdr.currseq
    BY <1>3, <1>4, <1>5 DEF Settled, Good
  <2>1. i \in Present => Good(x, i, hdr.currseq)
    BY <1>9 DEF Settled
  <2> QED BY <1>2, <1>5, <1>6, <2>1, GoodKept
<1>10. ASSUME Reading
       PROVE  Reading'
  <2>1. ASSUME NEW i \in Present'
        PROVE  ReadSoFar(i)'
    <3>1. i < at => Settled(i)'
      BY <1>9, <1>10 DEF Reading, ReadSoFar
    <3>2. i >= at => Pending(i)'
      BY <1>8, <1>10 DEF Reading, ReadSoFar
    <3>3. lastSeq'[i] > currSeq => lastSeq'[i] > hdr.currseq
      BY <1>5, <1>6, Integral, ViewerAssumption DEF TypeOK, UNUSED
    <3>4. i >= hdr.notama => Handling(i)' \/ lastSeq'[i] > hdr.currseq
      BY <1>2, <1>10, <3>3 DEF Reading, ReadSoFar
    <3>5. i = at /\ rpc = "bottom" =>
            answer[i][1] = display'[i][1] \/ Handling(i)' \/ lastSeq'[i] > hdr.currseq
      BY <1>2, <1>10, <3>3 DEF Reading, ReadSoFar
    <3> QED BY <1>3, <3>1, <3>2, <3>4, <3>5 DEF ReadSoFar
  <2>2. Unread'
    BY <1>3, <1>10 DEF Reading, Unread
  <2> QED BY <2>1, <2>2 DEF Reading
<1> QED BY <1>3, <1>4, <1>5, <1>7, <1>8, <1>9, <1>10 DEF OnTheWay

-----------------------------------------------------------------------------
(* The script's steps. *)

LEMMA ScriptOnTheWay ==
  ASSUME TypeOK, Control, Numbers, Behind, OnTheWay, Script
  PROVE  OnTheWay'
<1> USE Integral
<1>1. UNCHANGED <<shm, server, browser>> /\ UNCHANGED since
  BY DEF Script, ReadHeader, ReadSlot, ReadTop, ReadBottom, ReadEnd
<1>2. page = "asking" /\ page' = "asking"
  BY <1>1 DEF Script, ReadHeader, ReadSlot, ReadTop, ReadBottom, ReadEnd, Control, browser
<1>3. /\ Present' = Present /\ \A i \in Present : i \in Slots /\ i < noTamas /\ lastSeq[i] # UNUSED
      /\ \A i \in Slots : Handling(i)' = Handling(i)
      /\ display' = display /\ lastSeq' = lastSeq
      /\ \A i \in Slots : OnPage(i)' = OnPage(i)
  BY <1>1 DEF Present, shm, server, browser, OnPage, Handling
<1>4. \A i \in Slots : Pending(i)' <=> Pending(i)
  BY <1>1, <1>3 DEF Pending, Good
<1>5. CASE ReadHeader
  <2>1. /\ answer' = NoAnswer /\ answer = NoAnswer /\ hdr'.currseq = currSeq /\ hdr'.notama = noTamas
        /\ at' = 0 /\ rpc' = IF currSeq <= since THEN "done" ELSE "slots"
        /\ \A i \in Present : Pending(i)
    BY <1>5 DEF ReadHeader, OnTheWay, Control
  <2>2. CASE currSeq <= since
    <3>1. ASSUME NEW i \in Present
          PROVE  Settled(i)'
      <4>1. After(i)' = OnPage(i)
        BY <1>3, <2>1 DEF After, NoAnswer
      <4> SUFFICES ASSUME NEW x \in OnPage(i)
                   PROVE  x = display[i] \/ Handling(i) \/ lastSeq[i] > currSeq
        BY <1>3, <2>1, <4>1 DEF Settled, Good
      <4>2. Good(x, i, since)
        BY <2>1 DEF Pending
      <4>3. since = currSeq
        BY <2>2 DEF Behind
      <4> QED BY <4>2, <4>3 DEF Good
    <3> QED BY <1>2, <1>3, <2>1, <2>2, <3>1 DEF OnTheWay
  <2>3. CASE currSeq > since
    <3>1. Reading'
      BY <1>3, <1>4, <2>1, <2>3 DEF Reading, ReadSoFar, Unread, NoAnswer
    <3> QED BY <1>2, <2>1, <2>3, <3>1 DEF OnTheWay
  <2> QED BY <2>2, <2>3
<1>6. CASE ReadSlot
  <2>1. Reading /\ UNCHANGED <<hdr, answer>> /\ rpc = "slots" /\ at < hdr.notama
    BY <1>6 DEF ReadSlot, OnTheWay
  <2>2. \A i \in Slots : After(i)' = After(i) /\ (Settled(i)' <=> Settled(i))
    BY <1>3, <2>1 DEF After, Settled, Good
  <2>3. CASE rpc' = "top" /\ UNCHANGED at
    <3>1. Reading'
      BY <1>3, <1>4, <2>1, <2>2, <2>3 DEF Reading, ReadSoFar, Unread
    <3> QED BY <1>2, <2>3, <3>1 DEF OnTheWay
  <2>4. CASE ~(lastSeq[at] > since) /\ at' = at + 1 /\ rpc' = rpc
    <3>1. ASSUME at \in Present
          PROVE  Settled(at)
      <4>1. After(at) = OnPage(at)
        BY <1>3, <2>1, <3>1 DEF Reading, ReadSoFar, Unread, After
      <4>2. Pending(at)
        BY <3>1, <2>1 DEF Reading, ReadSoFar, Unread
      <4> QED BY <2>4, <4>1, <4>2 DEF Pending, Settled, Good
    <3>2. \A i \in Present : i < at + 1 => Settled(i)
      BY <1>3, <2>1, <3>1 DEF Reading, ReadSoFar, Unread
    <3>3. Reading'
      BY <1>3, <1>4, <2>1, <2>2, <2>4, <3>2 DEF Reading, ReadSoFar, Unread
    <3> QED BY <1>2, <2>1, <2>4, <3>3 DEF OnTheWay
  <2> QED BY <1>6, <2>3, <2>4 DEF ReadSlot
<1>7. CASE ReadTop
  <2>1. Reading /\ UNCHANGED <<hdr, at>> /\ rpc = "top" /\ rpc' = "bottom" /\ at < hdr.notama
    BY <1>7 DEF ReadTop, OnTheWay, Control
  <2>2. at \in Slots
    BY <2>1 DEF Slots
  <2>3. answer' = [answer EXCEPT ![at] = <<display[at][1], display[at][1]>>]
    BY <1>7 DEF ReadTop
  <2>4. answer \in [Slots -> Halves \cup {NoCanvas}]
    BY DEF TypeOK
  <2>5. answer'[at][1] = display[at][1] /\ \A i \in Slots : i # at => answer'[i] = answer[i]
    BY <2>2, <2>3, <2>4
  <2>6. \A i \in Slots : i # at => (Settled(i)' <=> Settled(i))
    BY <1>3, <2>1, <2>5 DEF After, Settled, Good
  <2>7. Reading'
    BY <1>3, <1>4, <2>1, <2>5, <2>6 DEF Reading, ReadSoFar, Unread
  <2> QED BY <1>2, <2>1, <2>7 DEF OnTheWay
<1>8. CASE ReadBottom
  <2>1. Reading /\ UNCHANGED hdr /\ rpc = "bottom" /\ rpc' = "slots" /\ at' = at + 1 /\ at < hdr.notama
        /\ answer[at] # NoCanvas
    BY <1>8 DEF ReadBottom, OnTheWay, Control
  <2>2. at \in Slots
    BY <2>1 DEF Slots
  <2>3. answer[at] \in Halves /\ display[at] \in Halves
    BY <2>1, <2>2 DEF TypeOK
  <2>4. answer' = [answer EXCEPT ![at] = <<answer[at][1], display[at][2]>>]
    <3>1. display[at][2] \in Pictures
      BY <2>3, HalvesArePictures
    <3>2. [answer[at] EXCEPT ![2] = display[at][2]] = <<answer[at][1], display[at][2]>>
      BY <2>3, <3>1, HalfWritten
    <3> QED BY <1>8, <3>2 DEF ReadBottom
  <2>5. answer \in [Slots -> Halves \cup {NoCanvas}]
    BY DEF TypeOK
  <2>6. /\ answer'[at] = <<answer[at][1], display[at][2]>>
        /\ \A i \in Slots : i # at => answer'[i] = answer[i]
    BY <2>2, <2>4, <2>5
  <2>7. \A i \in Slots : i # at => (Settled(i)' <=> Settled(i))
    BY <1>3, <2>1, <2>6 DEF After, Settled, Good
  <2>8. ASSUME NEW k \in Present, k = at
        PROVE  Settled(k)'
    <3>1. After(k)' = {answer'[k]}
      <4>1. answer[at][1] \in Pictures /\ display[at][2] \in Pictures
        BY <2>3, HalvesArePictures
      <4>2. answer'[k] # NoCanvas
        BY <2>6, <2>8, <4>1, HalvesAreNoGap
      <4>3. \A i \in Slots : After(i)' = IF answer'[i] # NoCanvas THEN {answer'[i]} ELSE OnPage(i)'
        BY DEF After
      <4> QED BY <2>2, <2>8, <4>2, <4>3
    <3>2. \/ answer[at][1] = display[at][1]
          \/ Handling(at) \/ lastSeq[at] > hdr.currseq
      BY <2>1, <2>8 DEF Reading, ReadSoFar, Unread
    <3>3. answer[at][1] = display[at][1] => answer'[at] = display[at]
      BY <2>3, <2>6, HalvesArePictures
    <3>4. answer'[at] = display[at] \/ Handling(at) \/ lastSeq[at] > hdr.currseq
      BY <3>2, <3>3
    <3>5. \A i \in Slots : Settled(i)' <=>
            \A x \in After(i)' : x = display[i] \/ Handling(i) \/ lastSeq[i] > hdr.currseq
      BY <1>3, <2>1 DEF Settled, Good
    <3> QED BY <2>2, <2>8, <3>1, <3>4, <3>5
  <2>9. \A i \in Present : i < at + 1 => Settled(i)'
    BY <1>3, <2>1, <2>7, <2>8 DEF Reading, ReadSoFar, Unread
  <2>10. \A i \in Slots : i >= at + 1 => answer'[i] = NoCanvas
    BY <2>1, <2>6 DEF Reading, ReadSoFar, Unread
  <2>11. Reading'
    BY <1>3, <1>4, <2>1, <2>9, <2>10 DEF Reading, ReadSoFar, Unread
  <2> QED BY <1>2, <2>1, <2>11 DEF OnTheWay
<1>9. CASE ReadEnd
  <2>1. Reading /\ UNCHANGED <<hdr, at, answer>> /\ at = hdr.notama /\ rpc' = "done"
    BY <1>9 DEF ReadEnd, OnTheWay
  <2>2. \A i \in Slots : (Settled(i)' <=> Settled(i))
    BY <1>3, <2>1 DEF After, Settled, Good
  <2>3. \A i \in Present : i >= at => Settled(i)
    BY <2>1 DEF Reading, ReadSoFar, Unread, Settled, Good
  <2>4. \A i \in Present : Settled(i)
    BY <1>3, <2>1, <2>3 DEF Reading, ReadSoFar, Unread
  <2> QED BY <1>2, <1>3, <2>1, <2>2, <2>4 DEF OnTheWay
<1> QED BY <1>5, <1>6, <1>7, <1>8, <1>9 DEF Script

-----------------------------------------------------------------------------
(* The page's steps. *)

LEMMA BrowserOnTheWay ==
  ASSUME TypeOK, Control, Numbers, Behind, ~Spoilt, OnTheWay, Browser
  PROVE  OnTheWay'
<1> USE Integral
<1>1. UNCHANGED <<shm, server>>
  BY DEF Browser, Ask, Answered, Failed, ShowBigTama
<1>2. /\ Present' = Present /\ \A i \in Present : i \in Slots
      /\ \A i \in Slots : Handling(i)' = Handling(i)
      /\ display' = display /\ lastSeq' = lastSeq
  BY <1>1 DEF Present, shm, server, Handling
<1>3. CASE Ask
  <2>1. /\ page = "waiting" /\ page' = "asking" /\ rpc' = "header" /\ since' = lastseq
        /\ \A i \in Slots : OnPage(i)' = OnPage(i)
    BY <1>3 DEF Ask, OnPage
  <2>2. \A i \in Present : \A x \in OnPage(i) : Good(x, i, lastseq)
    BY <2>1 DEF OnTheWay
  <2>3. \A i \in Present : Pending(i)'
    BY <1>2, <2>1, <2>2 DEF Pending, Good
  <2> QED BY <1>2, <2>1, <2>3 DEF OnTheWay
<1>4. CASE Answered
  <2>1. rpc = "done" /\ page' = "waiting" /\ rpc' = "none" /\ lastseq' = hdr.currseq
    BY <1>4 DEF Answered, ScriptEnds
  <2>2. \A i \in Present : Settled(i)
    BY <2>1 DEF OnTheWay
  <2>3. Drawn = InAnswer
    BY DEF Drawn, InAnswer, Spoilt
  <2>4. \A i \in Slots : OnPage(i)' \subseteq After(i)
    <3> SUFFICES ASSUME NEW i \in Slots
                 PROVE  OnPage(i)' \subseteq After(i)
      OBVIOUS
    <3>1. i \in Drawn <=> answer[i] # NoCanvas
      BY <2>3 DEF InAnswer
    <3>2. shown'[i] = IF i \in Drawn THEN answer[i] ELSE shown[i]
      BY <1>4 DEF Answered
    <3>3. bigId' = bigId /\ big' = (IF bigId \in Drawn THEN answer[bigId] ELSE big)
          /\ late' = (late /\ bigId \notin Drawn)
      BY <1>4 DEF Answered
    <3>4. CASE answer[i] # NoCanvas
      BY <3>1, <3>2, <3>3, <3>4 DEF OnPage, After
    <3>5. CASE answer[i] = NoCanvas
      BY <3>1, <3>2, <3>3, <3>5 DEF OnPage, After
    <3> QED BY <3>4, <3>5
  <2>5. \A i \in Present : \A x \in After(i) : Good(x, i, hdr.currseq)
    BY <2>2 DEF Settled
  <2>6. \A i \in Present : \A x \in OnPage(i)' :
          x = display[i] \/ Handling(i) \/ lastSeq[i] > hdr.currseq
    BY <1>2, <2>4, <2>5 DEF Good
  <2> QED BY <1>2, <2>1, <2>6 DEF OnTheWay, Good
<1>5. CASE Failed
  BY <1>5 DEF Failed, ScriptEnds, OnTheWay
<1>6. ASSUME NEW b \in Slots, ShowBigTama(b)
      PROVE  OnTheWay'
  <2>1. /\ bigId' = b /\ big' = NoCanvas /\ lastseq' = 0 /\ late' = (page = "asking")
        /\ UNCHANGED <<script, page, shown>>
    BY <1>6 DEF ShowBigTama
  <2>2. CASE page = "waiting"
    <3>1. ASSUME NEW i \in Present
          PROVE  Handling(i) \/ lastSeq[i] > 0
      BY <1>2, <3>1 DEF Numbers, Handling, Present, Busy
    <3>2. rpc' = "none"
      BY <2>1, <2>2 DEF Control, script
    <3> QED BY <1>2, <2>1, <2>2, <3>1, <3>2 DEF OnTheWay, Good
  <2>3. CASE page = "asking"
    <3>1. \A i \in Slots : OnPage(i)' \subseteq OnPage(i)
      BY <2>1, <2>3 DEF OnPage
    <3>2. UNCHANGED <<rpc, since, hdr, at, answer>>
      BY <2>1 DEF script
    <3>3. \A i \in Slots : After(i)' \subseteq After(i)
      BY <3>1, <3>2 DEF After
    <3>4. \A i \in Slots : Pending(i) => Pending(i)'
      BY <1>2, <3>1, <3>2 DEF Pending, Good
    <3>5. \A i \in Slots : Settled(i) => Settled(i)'
      BY <1>2, <3>2, <3>3 DEF Settled, Good
    <3>6. Reading => Reading'
      BY <1>2, <3>2, <3>4, <3>5 DEF Reading, ReadSoFar, Unread
    <3> QED BY <1>2, <2>1, <2>3, <3>2, <3>4, <3>5, <3>6 DEF OnTheWay
  <2>4. CASE page = "stopped"
    BY <2>1, <2>4 DEF OnTheWay, Control, script
  <2> QED BY <2>2, <2>3, <2>4 DEF Control
<1> QED BY <1>3, <1>4, <1>5, <1>6 DEF Browser

(* A spoilt page stays spoilt. *)
LEMMA SpoiltStays ==
  ASSUME TypeOK, Spoilt, [Next]_vars
  PROVE  Spoilt'
<1>1. CASE restarted
  BY <1>1
  DEF Next, Server, Restart, Finish, Receive, Claim, ImageTop, ImageBottom, Infrared, Bye,
      Number, Publish, Reset, ResetNo, ResetSlots, Goto, Done, Script, Browser, Ask,
      Answered, Failed, ShowBigTama, vars, server, Spoilt
<1>2. ASSUME NEW i \in Slots, Throws(i)
      PROVE  Throws(i)'
  <2>1. CASE Answered
    <3>1. i \notin Drawn
      BY <1>2 DEF Drawn, InAnswer, Slots
    <3>2. shown'[i] = NoCanvas
      BY <1>2, <2>1, <3>1 DEF Answered, Throws
    <3>3. \A j \in Slots : shown[j] # NoCanvas => shown'[j] # NoCanvas
      BY <2>1 DEF Answered, Drawn, InAnswer
    <3> QED BY <1>2, <3>2, <3>3 DEF Throws
  <2>2. CASE UNCHANGED shown
    BY <1>2, <2>2 DEF Throws
  <2> QED BY <2>1, <2>2
    DEF Next, Server, Script, Browser, Ask, Failed, ShowBigTama, vars, browser
<1> QED BY <1>1, <1>2 DEF Spoilt

LEMMA WebInvStep == WebInv /\ [Next]_vars => WebInv'
<1> SUFFICES ASSUME WebInv, [Next]_vars
             PROVE  WebInv'
  OBVIOUS
<1>1. TypeOK' /\ Control' /\ TypeOK /\ Control
  BY TypeStep DEF WebInv
<1>2. ~restarted' => ~restarted
  BY DEF Next, Server, Restart, Finish, Receive, Claim, ImageTop, ImageBottom, Infrared, Bye,
      Number, Publish, Reset, ResetNo, ResetSlots, Goto, Done, Script, Browser, Ask,
      Answered, Failed, ShowBigTama, vars, server
<1>3. ~restarted' => Numbers' /\ Behind'
  BY <1>1, <1>2, NumbersStep DEF WebInv
<1>4. ASSUME ~Spoilt'
      PROVE  OnTheWay'
  <2>1. ~Spoilt /\ ~restarted' /\ ~restarted
    BY <1>1, <1>2, <1>4, SpoiltStays DEF Spoilt
  <2>2. Numbers /\ Behind /\ OnTheWay
    BY <2>1 DEF WebInv
  <2>3. CASE UNCHANGED vars
    BY <2>2, <2>3 DEF vars, shm, server, script, browser, OnTheWay, Reading, ReadSoFar, Unread,
      Pending, Settled, Good, OnPage, After, Handling, Present
  <2> QED BY <1>1, <2>1, <2>2, <2>3, ServerOnTheWay, ScriptOnTheWay, BrowserOnTheWay DEF Next
<1> QED BY <1>1, <1>3, <1>4 DEF WebInv

(* The inductive invariant holds for ever. *)
THEOREM WebInvAlways == Spec => []WebInv
  BY InitOK, WebInvStep, PTL DEF Spec

(* Every variable of the memory, the script and the page keeps its type. *)
THEOREM TypeCorrect == Spec => []TypeOK
<1>1. WebInv => TypeOK
  BY DEF WebInv
<1> QED BY <1>1, WebInvAlways, PTL

(* Between two datagrams and two requests, whatever the page does not show  *)
(* as it is has a number it does not have: no update is lost to the reads   *)
(* without a lock, with any number of slots and any pictures.               *)
THEOREM NoUpdateIsLost == Spec => []NoUpdateLost
<1>1. WebInv => NoUpdateLost
  <2> SUFFICES ASSUME WebInv, wpc = "receive", page = "waiting", ~Spoilt,
                      NEW i \in Present, shown[i] # display[i]
               PROVE  Newer(i)
    BY DEF NoUpdateLost
  <2>1. Good(shown[i], i, lastseq)
    BY DEF WebInv, OnTheWay, OnPage
  <2>2. lastSeq[i] > lastseq
    BY <2>1 DEF Good, Handling
  <2>3. i \in Slots /\ lastSeq[i] \in 1..currSeq
    BY DEF WebInv, Numbers, Present, Spoilt
  <2> QED BY <2>2, <2>3, Integral DEF Newer, WebInv
<1> QED BY <1>1, WebInvAlways, PTL

(* The same of the tama shown big, if it was not clicked during a request.  *)
THEOREM BigIsNotForgotten == Spec => []BigNotForgotten
<1>1. WebInv => BigNotForgotten
  <2> SUFFICES ASSUME WebInv, wpc = "receive", page = "waiting", ~Spoilt, ~late,
                      bigId \in Present, big # display[bigId]
               PROVE  Newer(bigId)
    BY DEF BigNotForgotten
  <2>1. Good(big, bigId, lastseq)
    BY DEF WebInv, OnTheWay, OnPage
  <2>2. lastSeq[bigId] > lastseq
    BY <2>1 DEF Good, Handling
  <2>3. bigId \in Slots /\ lastSeq[bigId] \in 1..currSeq
    BY DEF WebInv, Numbers, Present, Spoilt
  <2> QED BY <2>2, <2>3, Integral DEF Newer, WebInv
<1> QED BY <1>1, WebInvAlways, PTL

=============================================================================

----------------------------- MODULE WebViewer -----------------------------
(***************************************************************************)
(* The web page that shows all the tamas, from the shared memory to the    *)
(* screen: the TamaServer writes the memory (server/main.c), a PHP script  *)
(* reads it for each request without any lock (web/gettama.php), and the   *)
(* page polls the script (web/tama.js).  Here one write, and one read, of  *)
(* the memory is a step; TamaServer is about what is written and why.      *)
(***************************************************************************)
EXTENDS Integers

CONSTANTS
  MAXCLIENT,     \* slots of the table
  Pictures,      \* contents of half a display
  Blank,         \* the picture of zeros in fresh shared memory
  SEQLIMIT,      \* bound: datagrams are handled while currSeq < SEQLIMIT
  SEQAFTER       \* bound: the same, after the server was started again

ASSUME ViewerAssumption ==
  /\ MAXCLIENT \in Nat \ {0}
  /\ Blank \in Pictures
  /\ SEQLIMIT \in Nat /\ SEQAFTER \in 0..SEQLIMIT

Slots     == 0..(MAXCLIENT - 1)
UNUSED    == SEQLIMIT + 1            \* 4294967295: newer than any number
NoCanvas  == <<>>                    \* the page has nothing to draw this tama on
None      == -1                      \* bigId: no tama was clicked; new: no picture

VARIABLES
  currSeq, noTamas, lastSeq,
  display,       \* of each slot, the upper and the lower half
  restarted,     \* has the server been started again?
  wpc, slot, new,                    \* what the server is doing, for which slot, with which picture
  rpc, since, hdr, at, answer,       \* what the script is doing, and its variables
  lastseq,       \* of the page: the number it asks with
  page,          \* "waiting" for its timer, "asking", or "stopped"
  shown,         \* what the page shows of each slot
  bigId, big,    \* the tama shown big, and its picture
  late           \* that tama was clicked while a request was on its way

shm    == <<currSeq, noTamas, lastSeq, display>>
server == <<wpc, slot, new, restarted>>
script == <<rpc, since, hdr, at, answer>>
browser == <<lastseq, page, shown, bigId, big, late>>
vars   == <<shm, server, script, browser>>

Halves == Pictures \X Pictures

TypeOK ==
  /\ currSeq \in 0..SEQLIMIT /\ noTamas \in 0..MAXCLIENT
  /\ lastSeq \in [Slots -> 0..SEQLIMIT \cup {UNUSED}]
  /\ display \in [Slots -> Halves]
  /\ slot \in Slots /\ new \in Pictures \cup {None}
  /\ hdr \in [currseq : 0..SEQLIMIT, notama : 0..MAXCLIENT]
  /\ at \in 0..MAXCLIENT
  /\ answer \in [Slots -> Halves \cup {NoCanvas}]
  /\ since \in 0..SEQLIMIT /\ lastseq \in 0..SEQLIMIT
  /\ shown \in [Slots -> Halves \cup {NoCanvas}]
  /\ bigId \in Slots \cup {None} /\ big \in Halves \cup {NoCanvas}
  /\ restarted \in BOOLEAN /\ late \in BOOLEAN

NoAnswer == [i \in Slots |-> NoCanvas]
NoHeader == [currseq |-> 0, notama |-> 0]

Init ==
  /\ currSeq = 0 /\ noTamas = 0 /\ lastSeq = [i \in Slots |-> UNUSED]
  /\ display = [i \in Slots |-> <<Blank, Blank>>]
  /\ wpc = "receive" /\ slot = 0 /\ new = None /\ restarted = FALSE
  /\ rpc = "none" /\ since = 0 /\ hdr = NoHeader
  /\ at = 0 /\ answer = NoAnswer
  /\ lastseq = 0 /\ page = "waiting" /\ shown = NoAnswer
  /\ bigId = None /\ big = NoCanvas /\ late = FALSE

-----------------------------------------------------------------------------
(* The server, one write of the shared memory after the other.              *)
Goto(pc) == wpc' = pc /\ UNCHANGED <<slot, new, restarted>>
Done     == wpc' = "receive" /\ slot' = 0 /\ new' = None /\ UNCHANGED restarted

FirstUnused(t) ==
  /\ t <= noTamas
  /\ t < noTamas => lastSeq[t] = UNUSED
  /\ \A j \in 0..(t - 1) : lastSeq[j] # UNUSED

(* A datagram from a client in slot t, or from a new one. *)
Receive(t) ==
  /\ wpc = "receive" /\ currSeq < (IF restarted THEN SEQAFTER ELSE SEQLIMIT)
  /\ slot' = t /\ UNCHANGED <<new, restarted>>
  /\ \/ lastSeq[t] # UNUSED /\ wpc' = "handle" /\ UNCHANGED noTamas
     \/ /\ FirstUnused(t) /\ wpc' = "claim"
        /\ noTamas' = IF t >= noTamas THEN t + 1 ELSE noTamas
  /\ UNCHANGED <<currSeq, lastSeq, display>>

Claim ==
  /\ wpc = "claim" /\ Goto("handle")
  /\ lastSeq' = [lastSeq EXCEPT ![slot] = 0] /\ UNCHANGED <<currSeq, noTamas, display>>

(* An image, infrared data, or BYE. *)
ImageTop(p) ==
  /\ wpc = "handle" /\ wpc' = "bottom" /\ new' = p /\ UNCHANGED <<slot, restarted>>
  /\ display' = [display EXCEPT ![slot][1] = p] /\ UNCHANGED <<currSeq, noTamas, lastSeq>>
ImageBottom ==
  /\ wpc = "bottom" /\ Goto("number")
  /\ display' = [display EXCEPT ![slot][2] = new] /\ UNCHANGED <<currSeq, noTamas, lastSeq>>
Infrared ==
  /\ wpc = "handle" /\ Goto("number") /\ UNCHANGED shm
Bye ==
  /\ wpc = "handle" /\ Done
  /\ lastSeq' = [lastSeq EXCEPT ![slot] = UNUSED] /\ UNCHANGED <<currSeq, noTamas, display>>

(* Mutant: the slot gets the number of the datagram before. *)
Number_Old ==
  /\ wpc = "number" /\ Goto("publish")
  /\ lastSeq' = [lastSeq EXCEPT ![slot] = currSeq] /\ UNCHANGED <<currSeq, noTamas, display>>
Number ==
  /\ wpc = "number" /\ Goto("publish")
  /\ lastSeq' = [lastSeq EXCEPT ![slot] = currSeq + 1] /\ UNCHANGED <<currSeq, noTamas, display>>
Publish ==
  /\ wpc = "publish" /\ Done
  /\ currSeq' = currSeq + 1 /\ UNCHANGED <<noTamas, lastSeq, display>>

(* The process is started again, in the middle of whatever it was doing.    *)
Restart ==
  /\ ~restarted /\ restarted' = TRUE
  /\ wpc' = "reset" /\ slot' = 0 /\ new' = None /\ UNCHANGED shm
Reset ==
  /\ wpc = "reset" /\ Goto("resetNo")
  /\ currSeq' = 0 /\ UNCHANGED <<noTamas, lastSeq, display>>
ResetNo ==
  /\ wpc = "resetNo" /\ Goto("resetSlots")
  /\ noTamas' = 0 /\ UNCHANGED <<currSeq, lastSeq, display>>

ResetSlots ==
  /\ wpc = "resetSlots"
  /\ lastSeq' = [lastSeq EXCEPT ![slot] = UNUSED]
  /\ IF slot + 1 = MAXCLIENT
     THEN Done
     ELSE slot' = slot + 1 /\ UNCHANGED <<wpc, new, restarted>>
  /\ UNCHANGED <<currSeq, noTamas, display>>

Finish ==
  \/ Claim \/ (\E p \in Pictures : ImageTop(p)) \/ ImageBottom \/ Infrared \/ Bye \/ Number \/ Publish
  \/ Reset \/ ResetNo \/ ResetSlots

Server ==
  /\ Restart \/ Finish \/ \E t \in Slots : Receive(t)
  /\ UNCHANGED <<script, browser>>

-----------------------------------------------------------------------------
(* The script: the header, then for each slot its number and, if that is    *)
(* newer than what the page has, its display; shmop_read() copies, so the   *)
(* halves are read one after the other.                                     *)
ReadHeader ==
  /\ rpc = "header"
  /\ hdr' = [currseq |-> currSeq, notama |-> noTamas]
  /\ rpc' = IF currSeq <= since THEN "done" ELSE "slots"
  /\ at' = 0 /\ UNCHANGED <<since, answer>>

ReadSlot ==
  /\ rpc = "slots" /\ at < hdr.notama
  /\ IF lastSeq[at] > since THEN rpc' = "top" /\ UNCHANGED at
                            ELSE at' = at + 1 /\ UNCHANGED rpc
  /\ UNCHANGED <<since, hdr, answer>>

ReadTop ==
  /\ rpc = "top" /\ rpc' = "bottom"
  /\ answer' = [answer EXCEPT ![at] = <<display[at][1], display[at][1]>>]
  /\ UNCHANGED <<since, hdr, at>>

ReadBottom ==
  /\ rpc = "bottom" /\ rpc' = "slots"
  /\ answer' = [answer EXCEPT ![at][2] = display[at][2]]
  /\ at' = at + 1 /\ UNCHANGED <<since, hdr>>

ReadEnd ==
  /\ rpc = "slots" /\ at = hdr.notama
  /\ rpc' = "done" /\ UNCHANGED <<since, hdr, at, answer>>

Script ==
  /\ ReadHeader \/ ReadSlot \/ ReadTop \/ ReadBottom \/ ReadEnd
  /\ UNCHANGED <<shm, server, browser>>

(* The script ends, and its variables with it. *)
ScriptEnds == rpc' = "none" /\ since' = 0 /\ hdr' = NoHeader /\ at' = 0 /\ answer' = NoAnswer

-----------------------------------------------------------------------------
(* updateTama(): the page asks. *)
Ask ==
  /\ page = "waiting" /\ page' = "asking"
  /\ rpc' = "header" /\ since' = lastseq
  /\ UNCHANGED <<shm, server, hdr, at, answer, lastseq, shown, bigId, big, late>>

(* drawTama() for each tama in the answer: a canvas is only made for a slot *)
(* behind all that have one; a slot without one among them stops the loop   *)
(* with an exception.                                                       *)
InAnswer   == {i \in Slots : answer[i] # NoCanvas}
Throws(i)  == shown[i] = NoCanvas /\ \E j \in Slots : j > i /\ shown[j] # NoCanvas
Drawn      == {i \in InAnswer : \A k \in InAnswer : k <= i => ~Throws(k)}

(* Mutant: the page notes the newest number it has seen itself. *)
Answered_OwnNumber ==
  /\ page = "asking" /\ rpc = "done" /\ page' = "waiting"
  /\ lastseq' = currSeq
  /\ shown' = [i \in Slots |-> IF i \in Drawn THEN answer[i] ELSE shown[i]]
  /\ big' = IF bigId \in Drawn THEN answer[bigId] ELSE big
  /\ late' = (late /\ bigId \notin Drawn)
  /\ ScriptEnds /\ UNCHANGED <<shm, server, bigId>>

(* onSuccess. *)
Answered ==
  /\ page = "asking" /\ rpc = "done" /\ page' = "waiting"
  /\ lastseq' = hdr.currseq
  /\ shown' = [i \in Slots |-> IF i \in Drawn THEN answer[i] ELSE shown[i]]
  /\ big' = IF bigId \in Drawn THEN answer[bigId] ELSE big
  /\ late' = (late /\ bigId \notin Drawn)
  /\ ScriptEnds /\ UNCHANGED <<shm, server, bigId>>

(* The request fails: nothing handles that. *)
Failed ==
  /\ page = "asking" /\ page' = "stopped"
  /\ ScriptEnds /\ UNCHANGED <<shm, server, lastseq, shown, bigId, big, late>>

(* Mutant: no update is forced. *)
ShowBigTama_NoForce(i) ==
  /\ shown[i] # NoCanvas
  /\ bigId' = i /\ big' = NoCanvas /\ late' = (page = "asking")
  /\ UNCHANGED <<shm, server, script, lastseq, page, shown>>

(* A click on a tama: the big canvas is wiped, "lastseq=0; //force update". *)
ShowBigTama(i) ==
  /\ shown[i] # NoCanvas
  /\ bigId' = i /\ big' = NoCanvas /\ lastseq' = 0 /\ late' = (page = "asking")
  /\ UNCHANGED <<shm, server, script, page, shown>>

Browser == Ask \/ Answered \/ Failed \/ \E i \in Slots : ShowBigTama(i)

Next == Server \/ Script \/ Browser

(* The server finishes what it handles, the script its answer, and the      *)
(* timer of the page goes off.                                              *)
Spec == /\ Init /\ [][Next]_vars
        /\ WF_vars(Finish /\ UNCHANGED <<script, browser>>) /\ WF_vars(Script)
        /\ WF_vars(Ask) /\ WF_vars(Answered)

-----------------------------------------------------------------------------
(* Two things can spoil a page for good: a number from before a restart of  *)
(* the server, and a first answer read at the very moment a slot that had   *)
(* been freed, below others, was claimed again.                             *)
Spoilt == restarted \/ \E i \in Slots : Throws(i)

Present  == {i \in Slots : i < noTamas /\ lastSeq[i] # UNUSED}
Newer(i) == lastSeq[i] > lastseq /\ currSeq > lastseq

(* While the server is between two datagrams and the page between two       *)
(* requests, a tama that is not shown as it is will be in the next answer:  *)
(* although nothing is locked and pictures may be read half written, no     *)
(* update is lost.                                                          *)
NoUpdateLost ==
  wpc = "receive" /\ page = "waiting" /\ ~Spoilt =>
    \A i \in Present : shown[i] # display[i] => Newer(i)

(* The same of the tama shown big, if it was clicked between two requests.  *)
BigNotForgotten ==
  wpc = "receive" /\ page = "waiting" /\ ~Spoilt /\ ~late /\ bigId \in Present =>
    big = display[bigId] \/ Newer(bigId)

(* A page that goes on asking shows every tama as it is, once the server    *)
(* has nothing more to do.                                                  *)
UpToDate == \A i \in Present : shown[i] = display[i]
PageCatchesUp ==
  <>[](wpc = "receive") => <>[](UpToDate \/ page = "stopped" \/ Spoilt)
=============================================================================

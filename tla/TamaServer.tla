----------------------------- MODULE TamaServer -----------------------------
(***************************************************************************)
(* The TamaServer (server/main.c): one UDP socket, a table of MAXCLIENT    *)
(* slots kept half in shared memory (sequence numbers, displays) and half  *)
(* in the process (addresses, infrared links).  The process is single      *)
(* threaded: it receives one datagram, finds or makes the slot of its      *)
(* sender, handles it, and receives the next.  One action below is one     *)
(* turn of that loop for one type of datagram.                             *)
(***************************************************************************)
EXTENDS Integers, FiniteSets

CONSTANTS
  Addrs,         \* the UDP addresses the emulators send from
  NoAddr,        \* the zeroed address of a client[] entry never filled in
  Bodies,        \* payloads of the infrared datagrams, which are only forwarded
  Displays,      \* contents of an image datagram: pixels and icons
  Blank,         \* the zeroed display of a fresh shared memory segment
  MAXCLIENT,     \* slots of the table
  SEQMOD,        \* uint32_t counts modulo 2^32: here modulo SEQMOD
  FRESH,         \* an invitation goes to a tama seen at most FRESH datagrams ago
  SeqLimit,      \* bound: datagrams are handled while currSeq < SeqLimit
  DrawsMayMiss   \* may all the random draws miss although a good slot exists?

ASSUME ServerAssumption ==
  /\ NoAddr \notin Addrs
  /\ Blank \in Displays
  /\ MAXCLIENT \in Nat \ {0}
  /\ SEQMOD \in Nat \ {0, 1}
  /\ FRESH \in Nat
  /\ SeqLimit \in 1..SEQMOD
  /\ DrawsMayMiss \in BOOLEAN

VARIABLES
  currSeq,       \* shm->currSeq: number of the datagram handled last
  noTamas,       \* shm->noTamas: slots ever used since the start
  lastSeq,       \* shm->tama[i].lastSeq: when slot i was heard, or UNUSED
  display,       \* shm->tama[i].display and .icons
  addr,          \* client[i].addr
  connectedTo,   \* client[i].connectedTo: the slot at the other end of the link
  out            \* the datagrams sent in the latest step

shm  == <<currSeq, noTamas, lastSeq, display>>
vars == <<currSeq, noTamas, lastSeq, display, addr, connectedTo, out>>

Slots  == 0..(MAXCLIENT - 1)
Seqs   == 0..(SEQMOD - 1)
UNUSED == SEQMOD - 1      \* (uint32_t)-1

IrTypes   == {"IRSTART", "IRSTARTACK", "IRDATA"}
Datagrams == [dst : Addrs \cup {NoAddr}, type : IrTypes, body : Bodies]

InUse(i) == lastSeq[i] # UNUSED
Counted  == {i \in Slots : i < noTamas}

TypeOK ==
  /\ currSeq \in Seqs
  /\ noTamas \in 0..MAXCLIENT
  /\ lastSeq \in [Slots -> Seqs]
  /\ display \in [Slots -> Displays]
  /\ addr \in [Slots -> Addrs \cup {NoAddr}]
  /\ connectedTo \in [Slots -> Slots]
  /\ out \in SUBSET Datagrams

-----------------------------------------------------------------------------
(* The tables after main() has initialised them, before the first datagram. *)
Init ==
  /\ currSeq = 0
  /\ noTamas = 0
  /\ lastSeq = [i \in Slots |-> UNUSED]
  /\ addr = [i \in Slots |-> NoAddr]
  /\ connectedTo = [i \in Slots |-> 0]
  /\ out = {}
  /\ display = [i \in Slots |-> Blank]

(* Slot t is the one the search by address finds for a. *)
Occupies(a, t) ==
  /\ InUse(t) /\ addr[t] = a
  /\ \A j \in 0..(t - 1) : ~(InUse(j) /\ addr[j] = a)

(* Mutant: the search by address is skipped. *)
Unknown_Always(a) == TRUE
Unknown(a) == \A i \in Slots : ~(InUse(i) /\ addr[i] = a)

(* Mutants: the table never grows; the first entry is taken unseen. *)
FirstUnused_NeverGrows(t) ==
  t < noTamas /\ ~InUse(t) /\ \A j \in 0..(t - 1) : InUse(j)
FirstUnused_TakesFirst(t) == t = 0

(* Slot t is where the search for a place for a new client stops. *)
FirstUnused(t) ==
  /\ t <= noTamas
  /\ t < noTamas => ~InUse(t)
  /\ \A j \in 0..(t - 1) : InUse(j)

(* Mutant: the entry is not counted. *)
Admit_NotCounted(a, t) ==
  \/ Occupies(a, t) /\ UNCHANGED <<noTamas, addr>>
  \/ /\ Unknown(a) /\ FirstUnused(t)
     /\ addr' = [addr EXCEPT ![t] = a]
     /\ UNCHANGED noTamas

(* A datagram from a is handled for slot t: its own, or a new entry. *)
Admit(a, t) ==
  \/ Occupies(a, t) /\ UNCHANGED <<noTamas, addr>>
  \/ /\ Unknown(a) /\ FirstUnused(t)
     /\ addr' = [addr EXCEPT ![t] = a]
     /\ noTamas' = IF t >= noTamas THEN t + 1 ELSE noTamas

NextSeq == IF currSeq = SEQMOD - 1 THEN 0 ELSE currSeq + 1

(* Mutants: the slot keeps the old number; currSeq is not advanced. *)
Touch_OldNumber(t) ==
  currSeq' = NextSeq /\ lastSeq' = [lastSeq EXCEPT ![t] = currSeq]
Touch_NoAdvance(t) ==
  lastSeq' = [lastSeq EXCEPT ![t] = NextSeq] /\ UNCHANGED currSeq

(* The end of handleTamaPacket: number the datagram. *)
Touch(t) ==
  /\ currSeq' = NextSeq
  /\ lastSeq' = [lastSeq EXCEPT ![t] = NextSeq]

SendTo(dst, type, body) == out' = {[dst |-> dst, type |-> type, body |-> body]}

Age(x) == (currSeq - lastSeq[x]) % SEQMOD

(* What the draw loop accepts at once, and what it can end with: after the *)
(* last draw it takes whatever slot came up.                               *)
Eligible(t) == {x \in Counted' : x # t /\ Age(x) <= FRESH}
DrawResults(t) ==
  IF DrawsMayMiss \/ Eligible(t) = {} THEN Counted' ELSE Eligible(t)

-----------------------------------------------------------------------------
Image(a, d) == \E t \in Slots :
  /\ Admit(a, t) /\ Touch(t)
  /\ display' = [display EXCEPT ![t] = d]
  /\ out' = {}
  /\ UNCHANGED connectedTo

IrStart(a, b) == \E t \in Slots :
  /\ Admit(a, t) /\ Touch(t)
  /\ \E x \in DrawResults(t) :
       /\ connectedTo' = [connectedTo EXCEPT ![t] = x, ![x] = t]
       /\ SendTo(addr'[x], "IRSTART", b)
  /\ UNCHANGED display

(* The destination is client[x] for a variable x that was never assigned:   *)
(* any client, or nobody when x is outside the table or names an empty      *)
(* entry.                                                                   *)
IrStartAck(a, b) == \E t \in Slots :
  /\ Admit(a, t) /\ Touch(t)
  /\ \E dst \in {addr'[i] : i \in Slots} \cup {NoAddr} :
       SendTo(dst, "IRSTARTACK", b)
  /\ UNCHANGED <<display, connectedTo>>

IrData(a, b) == \E t \in Slots :
  /\ Admit(a, t) /\ Touch(t)
  /\ SendTo(addr'[connectedTo[t]], "IRDATA", b)
  /\ UNCHANGED <<display, connectedTo>>

(* Mutant: the return after BYE is missing. *)
Bye_Touched(a) == \E t \in Slots :
  /\ Admit(a, t) /\ Touch(t)
  /\ out' = {}
  /\ UNCHANGED <<display, connectedTo>>

Bye(a) == \E t \in Slots :
  /\ Admit(a, t)
  /\ lastSeq' = [lastSeq EXCEPT ![t] = UNUSED]
  /\ out' = {}
  /\ UNCHANGED <<currSeq, display, connectedTo>>

(* The table is full: the datagram is not handled at all. *)
Dropped(a) ==
  /\ Unknown(a)
  /\ \A t \in Slots : ~FirstUnused(t)
  /\ out' = {}
  /\ UNCHANGED <<shm, addr, connectedTo>>

Receive(a) ==
  /\ currSeq < SeqLimit
  /\ \/ \E d \in Displays : Image(a, d)
     \/ \E b \in Bodies : IrStart(a, b) \/ IrStartAck(a, b) \/ IrData(a, b)
     \/ Bye(a)
     \/ Dropped(a)

(* The process is started again: main() reuses the shared memory segment,  *)
(* whose displays survive, and begins with a zeroed client[].              *)
Restart ==
  /\ currSeq' = 0
  /\ noTamas' = 0
  /\ lastSeq' = [i \in Slots |-> UNUSED]
  /\ addr' = [i \in Slots |-> NoAddr]
  /\ connectedTo' = [i \in Slots |-> 0]
  /\ out' = {}
  /\ UNCHANGED display

Next == Restart \/ \E a \in Addrs : Receive(a)

Spec == Init /\ [][Next]_vars

-----------------------------------------------------------------------------
(* No two slots belong to the same client: a client is found by its address *)
(* and never gets a second slot while it holds one, also when the sequence  *)
(* numbers wrap.                                                            *)
OneSlotPerClient ==
  \A i, j \in Slots : InUse(i) /\ InUse(j) /\ addr[i] = addr[j] => i = j

(* Every link leads to an entry whose address was filled in: what a client  *)
(* sends over its link is sent to somebody who registered, also over a link *)
(* that was left behind by the slot's previous owner or never made.         *)
LinksLeadToClients ==
  \A i \in Counted :
    /\ connectedTo[i] < noTamas
    /\ addr[i] # NoAddr

(* An invitation or infrared data is never sent to the zero address. *)
ForwardedToSomebody ==
  \A m \in out : m.type # "IRSTARTACK" => m.dst \in Addrs

(* The slots in use are numbered in the order they were heard: a number is  *)
(* never ahead of currSeq and never shared, so "newer than what I have" is  *)
(* well defined for the viewers.                                            *)
SeqIsTotalOrder ==
  \A i \in Slots : InUse(i) =>
    /\ lastSeq[i] <= currSeq
    /\ \A j \in Slots : InUse(j) /\ lastSeq[i] = lastSeq[j] => i = j

(* A display changes only together with its number becoming the newest of   *)
(* all: a viewer that has seen everything up to currSeq will be shown it.   *)
ChangeIsAnnounced ==
  [][\A i \in Slots : display'[i] # display[i] =>
       /\ currSeq' # currSeq
       /\ lastSeq'[i] = currSeq'
       /\ \A j \in Slots \ {i} : lastSeq'[j] # currSeq']_vars

(* A client loses its slot only by saying BYE or to a restart: no datagram  *)
(* that is handled takes it away, and nobody else is put into it.           *)
KeptUntilBye ==
  [][\A i \in Slots :
       InUse(i) /\ (~InUse(i)' \/ addr'[i] # addr[i])
         => Restart \/ Bye(addr[i])]_vars

-----------------------------------------------------------------------------
(* What the server promises its clients: each has a slot of its own and      *)
(* is not moved to another while the server remembers it.                    *)
Registry == INSTANCE ClientRegistry
  WITH slotOf <- [i \in Slots |-> IF InUse(i) THEN addr[i] ELSE NoAddr]

RegistrySpec == Registry!Spec
=============================================================================

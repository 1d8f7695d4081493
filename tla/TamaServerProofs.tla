-------------------------- MODULE TamaServerProofs --------------------------
(***************************************************************************)
(* Theorems about TamaServer for every set of clients, every table size    *)
(* and every width of the sequence numbers.                                *)
(***************************************************************************)
EXTENDS TamaServer, WellFoundedInduction, TLAPS

(* Slots in use lie below noTamas: what the search for a place relies on. *)
UsedAreCounted == \A i \in Slots : InUse(i) => i < noTamas

(* A link is the zeroed one or leads to a counted slot. *)
LinksCounted == \A i \in Slots : connectedTo[i] = 0 \/ connectedTo[i] < noTamas

(* The inductive invariant: a client is looked up by address, so uniqueness *)
(* needs that a new entry is unused, which needs UsedAreCounted; and a link *)
(* leads to a client only because entries below noTamas keep an address.    *)
TableInv ==
  /\ TypeOK
  /\ UsedAreCounted
  /\ OneSlotPerClient
  /\ LinksCounted
  /\ LinksLeadToClients

LEMMA TableInvInit == Init => TableInv
  BY ServerAssumption
  DEF Init, TableInv, TypeOK, UsedAreCounted, OneSlotPerClient,
      LinksLeadToClients, LinksCounted, InUse, Counted, Slots, Seqs, UNUSED, Datagrams

(* What a datagram does to the table of addresses, whatever its type. *)
LEMMA AdmitKeeps ==
  ASSUME TableInv, NEW a \in Addrs, NEW t \in Slots, Admit(a, t)
  PROVE  /\ noTamas' \in 0..MAXCLIENT
         /\ addr' \in [Slots -> Addrs \cup {NoAddr}]
         /\ noTamas <= noTamas'
         /\ t < noTamas'
         /\ addr'[t] = a
         /\ \A i \in Slots \ {t} : InUse(i) => addr'[i] = addr[i] /\ addr[i] # a
         /\ \A i \in Counted' : addr'[i] \in Addrs
         /\ \A i \in Counted' : i # t => i < noTamas
<1> USE ServerAssumption
       DEF TableInv, TypeOK, UsedAreCounted, LinksLeadToClients, InUse, Counted, Slots
<1>1. CASE Occupies(a, t) /\ UNCHANGED <<noTamas, addr>>
  <2>1. addr[t] = a /\ InUse(t) /\ t < noTamas
    BY <1>1 DEF Occupies
  <2>2. \A i \in Slots \ {t} : InUse(i) => addr[i] # a
    BY <2>1 DEF OneSlotPerClient
  <2> QED BY <1>1, <2>1, <2>2
<1>2. CASE /\ Unknown(a) /\ FirstUnused(t)
           /\ addr' = [addr EXCEPT ![t] = a]
           /\ noTamas' = IF t >= noTamas THEN t + 1 ELSE noTamas
  <2>1. t <= noTamas
    BY <1>2 DEF FirstUnused
  <2>2. \A i \in Slots : InUse(i) => addr[i] # a
    BY <1>2 DEF Unknown
  <2> QED BY <1>2, <2>1, <2>2
<1> QED BY <1>1, <1>2 DEF Admit

(* The table after a datagram was handled in slot t: what is left to show  *)
(* for one type of datagram is where the links lead and what was sent.     *)
LEMMA TableAfter ==
  ASSUME TableInv, NEW a \in Addrs, NEW t \in Slots, Admit(a, t),
         currSeq' \in Seqs,
         NEW s \in Seqs, lastSeq' = [lastSeq EXCEPT ![t] = s],
         display' \in [Slots -> Displays],
         out' \in SUBSET Datagrams,
         connectedTo' \in [Slots -> Slots],
         LinksCounted'
  PROVE  TableInv'
<1>0. /\ noTamas' \in 0..MAXCLIENT
      /\ addr' \in [Slots -> Addrs \cup {NoAddr}]
      /\ noTamas <= noTamas'
      /\ t < noTamas'
      /\ addr'[t] = a
      /\ \A i \in Slots \ {t} : InUse(i) => addr'[i] = addr[i] /\ addr[i] # a
      /\ \A i \in Counted' : addr'[i] \in Addrs
  BY AdmitKeeps
<1> USE TableInv, ServerAssumption DEF TableInv
<1>1. TypeOK'
  BY <1>0 DEF TypeOK
<1>2. \A i \in Slots \ {t} : InUse(i)' <=> InUse(i)
  BY DEF InUse, UNUSED, TypeOK
<1>3. UsedAreCounted'
  <2> SUFFICES ASSUME NEW i \in Slots, InUse(i)'
               PROVE  i < noTamas'
    BY DEF UsedAreCounted
  <2>1. CASE i = t
    BY <2>1, <1>0
  <2>2. CASE i # t
    <3>1. i < noTamas
      BY <1>2, <2>2 DEF UsedAreCounted
    <3> QED BY <3>1, <1>0 DEF TypeOK, Slots
  <2> QED BY <2>1, <2>2
<1>4. OneSlotPerClient'
  <2> SUFFICES ASSUME NEW i \in Slots, NEW j \in Slots,
                      InUse(i)', InUse(j)', addr'[i] = addr'[j]
               PROVE  i = j
    BY DEF OneSlotPerClient
  <2>1. CASE i # t /\ j # t
    BY <1>0, <1>2, <2>1 DEF OneSlotPerClient
  <2>2. CASE i = t \/ j = t
    BY <1>0, <1>2, <2>2
  <2> QED BY <2>1, <2>2
<1>5. LinksLeadToClients'
  <2> SUFFICES ASSUME NEW i \in Counted'
               PROVE  connectedTo'[i] < noTamas' /\ addr'[i] # NoAddr
    BY DEF LinksLeadToClients
  <2>1. i \in Slots
    BY DEF Counted
  <2>2. connectedTo'[i] < noTamas'
    BY <1>0, <2>1 DEF LinksCounted, Slots
  <2>3. addr'[i] \in Addrs
    BY <1>0
  <2> QED BY <2>1, <2>2, <2>3
<1> QED BY <1>1, <1>3, <1>4, <1>5

(* An unchanged link stays good: noTamas only grows. *)
LEMMA KeptLinks ==
  ASSUME TableInv, NEW a \in Addrs, NEW t \in Slots, Admit(a, t),
         UNCHANGED connectedTo
  PROVE  LinksCounted'
<1>1. noTamas' \in Int /\ noTamas <= noTamas' /\ noTamas \in Int
  BY AdmitKeeps, ServerAssumption DEF TableInv, TypeOK
<1>2. connectedTo \in [Slots -> Slots] /\ LinksCounted
  BY DEF TableInv, TypeOK
<1> QED BY <1>1, <1>2 DEF LinksCounted, Slots

LEMMA NextSeqType ==
  ASSUME TypeOK
  PROVE  NextSeq \in Seqs
  BY ServerAssumption DEF TypeOK, NextSeq, Seqs

(* What Touch does to the sequence numbers. *)
LEMMA TouchType ==
  ASSUME TypeOK, NEW t \in Slots, Touch(t)
  PROVE  /\ NextSeq \in Seqs
         /\ currSeq' \in Seqs
         /\ lastSeq' = [lastSeq EXCEPT ![t] = NextSeq]
  BY NextSeqType DEF Touch

LEMMA ImageStep ==
  ASSUME TableInv, NEW a \in Addrs, NEW d \in Displays, Image(a, d)
  PROVE  TableInv'
<1>1. PICK t \in Slots :
        /\ Admit(a, t) /\ Touch(t)
        /\ display' = [display EXCEPT ![t] = d]
        /\ out' = {}
        /\ UNCHANGED connectedTo
  BY DEF Image
<1>2. LinksCounted'
  BY <1>1, KeptLinks
<1>3. display' \in [Slots -> Displays] /\ connectedTo' \in [Slots -> Slots]
  BY <1>1 DEF TableInv, TypeOK
<1>4. NextSeq \in Seqs /\ currSeq' \in Seqs /\ lastSeq' = [lastSeq EXCEPT ![t] = NextSeq]
  BY <1>1, TouchType DEF TableInv
<1>5. out' \in SUBSET Datagrams
  BY <1>1
<1> QED BY <1>1, <1>2, <1>3, <1>4, <1>5, TableAfter

LEMMA IrStartStep ==
  ASSUME TableInv, NEW a \in Addrs, NEW b \in Bodies, IrStart(a, b)
  PROVE  TableInv'
<1>1. PICK t \in Slots :
        /\ Admit(a, t) /\ Touch(t)
        /\ \E x \in DrawResults(t) :
             /\ connectedTo' = [connectedTo EXCEPT ![t] = x, ![x] = t]
             /\ SendTo(addr'[x], "IRSTART", b)
        /\ UNCHANGED display
  BY DEF IrStart
<1>2. PICK x \in DrawResults(t) :
        /\ connectedTo' = [connectedTo EXCEPT ![t] = x, ![x] = t]
        /\ SendTo(addr'[x], "IRSTART", b)
  BY <1>1
<1>3. /\ noTamas' \in 0..MAXCLIENT /\ noTamas <= noTamas' /\ t < noTamas'
      /\ \A i \in Counted' : addr'[i] \in Addrs
  BY <1>1, AdmitKeeps
<1>4. x \in Counted'
  BY <1>2 DEF DrawResults, Eligible
<1>5. x \in Slots /\ x < noTamas' /\ addr'[x] \in Addrs
  <2>1. addr'[x] \in Addrs
    BY <1>3, <1>4
  <2>2. x \in Slots /\ x < noTamas'
    BY <1>4 DEF Counted
  <2> QED BY <2>1, <2>2
<1>6. connectedTo' \in [Slots -> Slots] /\ display' \in [Slots -> Displays]
  BY <1>1, <1>2, <1>5 DEF TableInv, TypeOK
<1>7. LinksCounted'
  <2> SUFFICES ASSUME NEW i \in Slots
               PROVE  connectedTo'[i] = 0 \/ connectedTo'[i] < noTamas'
    BY DEF LinksCounted
  <2>1. connectedTo'[i] \in {connectedTo[i], t, x}
    BY <1>2, <1>5 DEF TableInv, TypeOK
  <2>2. connectedTo[i] = 0 \/ connectedTo[i] < noTamas
    BY DEF TableInv, LinksCounted
  <2>3. connectedTo[i] \in Int /\ noTamas \in Int
    BY ServerAssumption DEF TableInv, TypeOK, Slots
  <2> QED BY <2>1, <2>2, <2>3, <1>3, <1>5
<1>8. NextSeq \in Seqs /\ currSeq' \in Seqs /\ lastSeq' = [lastSeq EXCEPT ![t] = NextSeq]
  BY <1>1, TouchType DEF TableInv
<1>9. out' \in SUBSET Datagrams
  BY <1>2, <1>5 DEF SendTo, Datagrams, IrTypes
<1> QED BY <1>1, <1>6, <1>7, <1>8, <1>9, TableAfter

LEMMA IrStartAckStep ==
  ASSUME TableInv, NEW a \in Addrs, NEW b \in Bodies, IrStartAck(a, b)
  PROVE  TableInv'
<1>1. PICK t \in Slots :
        /\ Admit(a, t) /\ Touch(t)
        /\ \E dst \in {addr'[i] : i \in Slots} \cup {NoAddr} :
             SendTo(dst, "IRSTARTACK", b)
        /\ UNCHANGED <<display, connectedTo>>
  BY DEF IrStartAck
<1>2. LinksCounted'
  BY <1>1, KeptLinks
<1>3. display' \in [Slots -> Displays] /\ connectedTo' \in [Slots -> Slots]
  BY <1>1 DEF TableInv, TypeOK
<1>4. NextSeq \in Seqs /\ currSeq' \in Seqs /\ lastSeq' = [lastSeq EXCEPT ![t] = NextSeq]
  BY <1>1, TouchType DEF TableInv
<1>5. addr' \in [Slots -> Addrs \cup {NoAddr}]
  BY <1>1, AdmitKeeps
<1>6. out' \in SUBSET Datagrams
  BY <1>1, <1>5 DEF SendTo, Datagrams, IrTypes
<1> QED BY <1>1, <1>2, <1>3, <1>4, <1>6, TableAfter

LEMMA IrDataStep ==
  ASSUME TableInv, NEW a \in Addrs, NEW b \in Bodies, IrData(a, b)
  PROVE  TableInv'
<1>1. PICK t \in Slots :
        /\ Admit(a, t) /\ Touch(t)
        /\ SendTo(addr'[connectedTo[t]], "IRDATA", b)
        /\ UNCHANGED <<display, connectedTo>>
  BY DEF IrData
<1>2. LinksCounted'
  BY <1>1, KeptLinks
<1>3. display' \in [Slots -> Displays] /\ connectedTo' \in [Slots -> Slots]
  BY <1>1 DEF TableInv, TypeOK
<1>4. NextSeq \in Seqs /\ currSeq' \in Seqs /\ lastSeq' = [lastSeq EXCEPT ![t] = NextSeq]
  BY <1>1, TouchType DEF TableInv
<1>5. addr' \in [Slots -> Addrs \cup {NoAddr}]
  BY <1>1, AdmitKeeps
<1>6. addr'[connectedTo[t]] \in Addrs \cup {NoAddr}
  BY <1>5 DEF TableInv, TypeOK
<1>7. out' \in SUBSET Datagrams
  BY <1>1, <1>6 DEF SendTo, Datagrams, IrTypes
<1> QED BY <1>1, <1>2, <1>3, <1>4, <1>7, TableAfter

LEMMA ByeStep ==
  ASSUME TableInv, NEW a \in Addrs, Bye(a)
  PROVE  TableInv'
<1>1. PICK t \in Slots :
        /\ Admit(a, t)
        /\ lastSeq' = [lastSeq EXCEPT ![t] = UNUSED]
        /\ out' = {}
        /\ UNCHANGED <<currSeq, display, connectedTo>>
  BY DEF Bye
<1>2. LinksCounted'
  BY <1>1, KeptLinks
<1>3. /\ display' \in [Slots -> Displays] /\ connectedTo' \in [Slots -> Slots]
      /\ currSeq' \in Seqs
      /\ out' \in SUBSET Datagrams
  BY <1>1 DEF TableInv, TypeOK
<1>4. UNUSED \in Seqs
  BY ServerAssumption DEF UNUSED, Seqs
<1> QED BY <1>1, <1>2, <1>3, <1>4, TableAfter

LEMMA TableInvStep == TableInv /\ [Next]_vars => TableInv'
<1> SUFFICES ASSUME TableInv, [Next]_vars
             PROVE  TableInv'
  OBVIOUS
<1>1. CASE Restart
  BY <1>1, ServerAssumption
  DEF Restart, TableInv, TypeOK, UsedAreCounted, OneSlotPerClient,
      LinksCounted, LinksLeadToClients, InUse, Counted, Slots, Seqs, UNUSED, Datagrams
<1>2. ASSUME NEW a \in Addrs, Receive(a)
      PROVE  TableInv'
  <2>1. CASE \E d \in Displays : Image(a, d)
    BY <2>1, ImageStep
  <2>2. CASE \E b \in Bodies : IrStart(a, b) \/ IrStartAck(a, b) \/ IrData(a, b)
    BY <2>2, IrStartStep, IrStartAckStep, IrDataStep
  <2>3. CASE Bye(a)
    BY <2>3, ByeStep
  <2>4. CASE Dropped(a)
    BY <2>4
    DEF Dropped, shm, TableInv, TypeOK, UsedAreCounted, OneSlotPerClient,
        LinksCounted, LinksLeadToClients, InUse, Counted
  <2> QED BY <1>2, <2>1, <2>2, <2>3, <2>4 DEF Receive
<1>3. CASE UNCHANGED vars
  BY <1>3
  DEF vars, TableInv, TypeOK, UsedAreCounted, OneSlotPerClient,
      LinksCounted, LinksLeadToClients, InUse, Counted
<1> QED BY <1>1, <1>2, <1>3 DEF Next

(* The table is well formed for ever. *)
THEOREM TableInvAlways == Spec => []TableInv
  BY TableInvInit, TableInvStep, PTL DEF Spec

(* Every field of the table keeps its type, at any width of the numbers. *)
THEOREM TypeCorrect == Spec => []TypeOK
<1>1. TableInv => TypeOK
  BY DEF TableInv
<1> QED BY <1>1, TableInvAlways, PTL

(* No client ever holds two slots. *)
THEOREM ClientsHaveOneSlot == Spec => []OneSlotPerClient
<1>1. TableInv => OneSlotPerClient
  BY DEF TableInv
<1> QED BY <1>1, TableInvAlways, PTL

(* Whatever is forwarded over a link has somebody to go to. *)
THEOREM LinksAlwaysLeadToClients == Spec => []LinksLeadToClients
<1>1. TableInv => LinksLeadToClients
  BY DEF TableInv
<1> QED BY <1>1, TableInvAlways, PTL

-----------------------------------------------------------------------------
(* What a step sends over a link or as an invitation has an address. *)
LEMMA ForwardStep ==
  ASSUME TableInv, ForwardedToSomebody, [Next]_vars
  PROVE  ForwardedToSomebody'
<1>1. CASE Restart
  BY <1>1 DEF Restart, ForwardedToSomebody
<1>2. ASSUME NEW a \in Addrs, NEW b \in Bodies, IrStart(a, b)
      PROVE  ForwardedToSomebody'
  <2>0. PICK t \in Slots :
          Admit(a, t) /\ \E x \in DrawResults(t) : SendTo(addr'[x], "IRSTART", b)
    BY <1>2 DEF IrStart
  <2>1. PICK x \in DrawResults(t) : SendTo(addr'[x], "IRSTART", b)
    BY <2>0
  <2>2. x \in Counted'
    BY <2>1 DEF DrawResults, Eligible
  <2>3. addr'[x] \in Addrs
    BY <2>0, <2>2, AdmitKeeps
  <2> QED BY <2>1, <2>3 DEF SendTo, ForwardedToSomebody
<1>3. ASSUME NEW a \in Addrs, NEW b \in Bodies, IrStartAck(a, b)
      PROVE  ForwardedToSomebody'
  BY <1>3 DEF IrStartAck, SendTo, ForwardedToSomebody
<1>4. ASSUME NEW a \in Addrs, NEW b \in Bodies, IrData(a, b)
      PROVE  ForwardedToSomebody'
  <2>1. PICK t \in Slots :
          Admit(a, t) /\ SendTo(addr'[connectedTo[t]], "IRDATA", b)
    BY <1>4 DEF IrData
  <2>2. /\ noTamas' \in 0..MAXCLIENT /\ noTamas <= noTamas' /\ t < noTamas'
        /\ \A i \in Counted' : addr'[i] \in Addrs
    BY <2>1, AdmitKeeps
  <2>3. connectedTo[t] \in Slots /\ (connectedTo[t] = 0 \/ connectedTo[t] < noTamas)
    BY DEF TableInv, TypeOK, LinksCounted
  <2>4. noTamas \in Int
    BY ServerAssumption DEF TableInv, TypeOK
  <2>5. connectedTo[t] \in Counted'
    BY <2>2, <2>3, <2>4, ServerAssumption DEF Counted, Slots
  <2> QED BY <2>1, <2>2, <2>5 DEF SendTo, ForwardedToSomebody
<1>5. ASSUME NEW a \in Addrs, out' = {}
      PROVE  ForwardedToSomebody'
  BY <1>5 DEF ForwardedToSomebody
<1>6. CASE UNCHANGED vars
  BY <1>6 DEF vars, ForwardedToSomebody
<1> QED
  BY <1>1, <1>2, <1>3, <1>4, <1>5, <1>6
  DEF Next, Receive, Image, Bye, Dropped

(* Invitations and infrared data never go to the zero address. *)
THEOREM AlwaysForwardedToSomebody == Spec => []ForwardedToSomebody
<1>1. Init => ForwardedToSomebody
  BY DEF Init, ForwardedToSomebody
<1>2. TableInv /\ ForwardedToSomebody /\ [Next]_vars => ForwardedToSomebody'
  BY ForwardStep
<1> QED BY <1>1, <1>2, TableInvAlways, PTL DEF Spec

-----------------------------------------------------------------------------
(* Below the wrap, a datagram's number is greater than every number in use. *)
NumbersInOrder == currSeq <= SeqLimit /\ SeqIsTotalOrder

LEMMA TouchOrder ==
  ASSUME SeqLimit < SEQMOD, TypeOK, NumbersInOrder, currSeq < SeqLimit,
         NEW t \in Slots, Touch(t)
  PROVE  NumbersInOrder'
<1>1. /\ currSeq \in Int /\ SeqLimit \in Int /\ SEQMOD \in Int
      /\ lastSeq \in [Slots -> Int]
  BY ServerAssumption DEF TypeOK, Seqs
<1>2. PICK n \in Int : n = currSeq + 1
  BY <1>1
<1>3. currSeq' = n /\ lastSeq' = [lastSeq EXCEPT ![t] = n]
  <2>1. currSeq # SEQMOD - 1
    BY <1>1
  <2>2. NextSeq = n
    BY <1>2, <2>1 DEF NextSeq
  <2> QED BY <2>2 DEF Touch
<1>4. \A i \in Slots : i # t => lastSeq'[i] = lastSeq[i] /\ (InUse(i)' => InUse(i))
  BY <1>1, <1>3 DEF InUse, UNUSED
<1>5. lastSeq'[t] = n
  BY <1>1, <1>3
<1>6. \A i \in Slots : i # t /\ InUse(i)' => lastSeq'[i] < n /\ lastSeq'[i] <= currSeq
  BY <1>1, <1>2, <1>4 DEF NumbersInOrder, SeqIsTotalOrder
<1>7. \A i, j \in Slots :
        i # t /\ j # t /\ InUse(i)' /\ InUse(j)' /\ lastSeq'[i] = lastSeq'[j] => i = j
  BY <1>4 DEF NumbersInOrder, SeqIsTotalOrder
<1>8. SeqIsTotalOrder'
  <2> SUFFICES ASSUME NEW i \in Slots, InUse(i)'
               PROVE  /\ lastSeq'[i] <= n
                      /\ \A j \in Slots : InUse(j)' /\ lastSeq'[i] = lastSeq'[j] => i = j
    BY <1>3 DEF SeqIsTotalOrder
  <2>1. lastSeq'[i] \in Int
    BY <1>1, <1>2, <1>4, <1>5
  <2>2. lastSeq'[i] <= n
    BY <1>2, <1>5, <1>6, <2>1
  <2>3. ASSUME NEW j \in Slots, InUse(j)', lastSeq'[i] = lastSeq'[j]
        PROVE  i = j
    <3>1. CASE i = t /\ j # t
      BY <1>2, <1>5, <1>6, <2>3, <3>1
    <3>2. CASE i # t /\ j = t
      BY <1>2, <1>5, <1>6, <2>3, <3>2
    <3>3. CASE i # t /\ j # t
      BY <1>7, <2>3, <3>3
    <3> QED BY <3>1, <3>2, <3>3
  <2> QED BY <2>2, <2>3
<1>9. n <= SeqLimit
  BY <1>1, <1>2
<1> QED BY <1>3, <1>8, <1>9 DEF NumbersInOrder

LEMMA OrderStep ==
  ASSUME SeqLimit < SEQMOD, TypeOK, NumbersInOrder, [Next]_vars
  PROVE  NumbersInOrder'
<1>1. CASE Restart
  BY <1>1, ServerAssumption DEF Restart, NumbersInOrder, SeqIsTotalOrder, InUse
<1>2. ASSUME NEW a \in Addrs, Receive(a)
      PROVE  NumbersInOrder'
  <2>1. CASE \E t \in Slots : Touch(t)
    BY <1>2, <2>1, TouchOrder DEF Receive
  <2>2. CASE Bye(a)
    <3>1. PICK t \in Slots :
            /\ lastSeq' = [lastSeq EXCEPT ![t] = UNUSED]
            /\ UNCHANGED currSeq
      BY <2>2 DEF Bye
    <3>2. \A i \in Slots : InUse(i)' => lastSeq'[i] = lastSeq[i] /\ InUse(i)
      BY <3>1 DEF InUse, TypeOK
    <3> QED BY <3>1, <3>2 DEF NumbersInOrder, SeqIsTotalOrder
  <2>3. CASE Dropped(a)
    BY <2>3 DEF Dropped, shm, NumbersInOrder, SeqIsTotalOrder, InUse
  <2> QED
    BY <1>2, <2>1, <2>2, <2>3 DEF Receive, Image, IrStart, IrStartAck, IrData
<1>3. CASE UNCHANGED vars
  BY <1>3 DEF vars, NumbersInOrder, SeqIsTotalOrder, InUse
<1> QED BY <1>1, <1>2, <1>3 DEF Next

(* As long as the numbers do not wrap, the slots in use are totally ordered *)
(* by them.                                                                 *)
THEOREM AlwaysTotalOrder ==
  ASSUME SeqLimit < SEQMOD
  PROVE  Spec => []SeqIsTotalOrder
<1>1. Init => NumbersInOrder
  BY ServerAssumption DEF Init, NumbersInOrder, SeqIsTotalOrder, InUse
<1>2. TypeOK /\ NumbersInOrder /\ [Next]_vars => NumbersInOrder'
  BY OrderStep
<1>3. NumbersInOrder => SeqIsTotalOrder
  BY DEF NumbersInOrder
<1> QED BY <1>1, <1>2, <1>3, TypeCorrect, PTL DEF Spec

-----------------------------------------------------------------------------
(* The registry a client sees: who holds which slot. *)
Holder == [i \in Slots |-> IF InUse(i) THEN addr[i] ELSE NoAddr]

LEMMA HolderValue ==
  ASSUME NEW i \in Slots
  PROVE  /\ Holder[i] = IF InUse(i) THEN addr[i] ELSE NoAddr
         /\ Holder'[i] = IF InUse(i)' THEN addr'[i] ELSE NoAddr
  BY DEF Holder

(* One slot changed its number and, if it is new, got an address: the       *)
(* registry sees a client join, a client leave, or nothing.                 *)
LEMMA RegistryAfter ==
  ASSUME TableInv, NEW a \in Addrs, NEW t \in Slots, Admit(a, t),
         NEW s \in Seqs, lastSeq' = [lastSeq EXCEPT ![t] = s]
  PROVE  [Registry!Next]_Holder
<1>1. \A i \in Slots \ {t} : InUse(i)' <=> InUse(i)
  BY DEF InUse, TableInv, TypeOK
<1>2. \A i \in Slots \ {t} : Holder'[i] = Holder[i] /\ Holder[i] # a
  <2> SUFFICES ASSUME NEW i \in Slots \ {t}
               PROVE  Holder'[i] = Holder[i] /\ Holder[i] # a
    OBVIOUS
  <2>1. InUse(i) => addr'[i] = addr[i] /\ addr[i] # a
    BY AdmitKeeps
  <2> QED BY <1>1, <2>1, HolderValue, ServerAssumption
<1>3. addr'[t] = a
  BY AdmitKeeps
<1>4. Holder' = [Holder EXCEPT ![t] = Holder'[t]]
  BY <1>2 DEF Holder
<1>5. CASE Holder'[t] = NoAddr
  BY <1>4, <1>5 DEF Registry!Next, Registry!Leave, Holder
<1>6. CASE Holder'[t] = a /\ Holder[t] = NoAddr
  <2>1. Registry!Join(a, t)
    BY <1>2, <1>4, <1>6, ServerAssumption DEF Registry!Join, Holder
  <2> QED BY <2>1 DEF Registry!Next
<1>7. CASE Holder'[t] = a /\ Holder[t] = a
  BY <1>4, <1>7 DEF Holder
<1>8. Holder[t] = NoAddr \/ Holder[t] = a
  <2>1. InUse(t) => addr[t] = a
    BY DEF Admit, Occupies, FirstUnused, TableInv, UsedAreCounted
  <2> QED BY <2>1, HolderValue
<1>9. Holder'[t] = NoAddr \/ Holder'[t] = a
  BY <1>3, HolderValue
<1> QED BY <1>5, <1>6, <1>7, <1>8, <1>9

LEMMA RegistryStep ==
  ASSUME TableInv, [Next]_vars
  PROVE  [Registry!Next]_Holder
<1>1. CASE Restart
  <2>1. Holder' = [i \in Slots |-> NoAddr]
    BY <1>1 DEF Restart, Holder, InUse
  <2> QED BY <2>1 DEF Registry!Next, Registry!Forget, Holder
<1>2. ASSUME NEW a \in Addrs, Receive(a)
      PROVE  [Registry!Next]_Holder
  <2>1. CASE \E t \in Slots : Admit(a, t) /\ Touch(t)
    BY <2>1, RegistryAfter, TouchType DEF TableInv
  <2>2. CASE Bye(a)
    <3>1. UNUSED \in Seqs
      BY ServerAssumption DEF UNUSED, Seqs
    <3> QED BY <2>2, <3>1, RegistryAfter DEF Bye
  <2>3. CASE Dropped(a)
    BY <2>3 DEF Dropped, shm, Holder, InUse
  <2> QED
    BY <1>2, <2>1, <2>2, <2>3 DEF Receive, Image, IrStart, IrStartAck, IrData
<1>3. CASE UNCHANGED vars
  BY <1>3 DEF vars, Holder, InUse
<1> QED BY <1>1, <1>2, <1>3 DEF Next

(* The server implements the registry, at any width of the numbers. *)
THEOREM ServerImplementsRegistry == Spec => RegistrySpec
<1>1. Init => Registry!Init
  BY DEF Init, Registry!Init, InUse
<1>2. TableInv /\ [Next]_vars => [Registry!Next]_Holder
  BY RegistryStep
<1> QED BY <1>1, <1>2, TableInvAlways, PTL DEF Spec, RegistrySpec, Registry!Spec, Holder
-----------------------------------------------------------------------------
(* A client that has a slot keeps it through any step but a restart and its *)
(* own BYE, as long as no number handed out is the one that marks a slot    *)
(* unused.                                                                  *)
LEMMA KeptStep ==
  ASSUME SeqLimit < UNUSED, TableInv, [Next]_vars,
         NEW i \in Slots, InUse(i), ~InUse(i)' \/ addr'[i] # addr[i]
  PROVE  Restart \/ Bye(addr[i])
<1>1. ASSUME NEW a \in Addrs, NEW t \in Slots, Admit(a, t),
             NEW s \in Seqs, lastSeq' = [lastSeq EXCEPT ![t] = s]
      PROVE  i = t /\ addr[i] = a /\ addr'[i] = a /\ s = UNUSED
  <2>1. i # t => addr'[i] = addr[i] /\ lastSeq'[i] = lastSeq[i]
    BY <1>1, AdmitKeeps DEF TableInv, TypeOK
  <2>2. i = t
    BY <2>1 DEF InUse
  <2>3. addr[t] = a
    BY <1>1, <2>2 DEF Admit, Occupies, FirstUnused, TableInv, UsedAreCounted
  <2>4. addr'[t] = a
    BY <1>1, AdmitKeeps
  <2>5. lastSeq'[t] = s
    BY <1>1 DEF TableInv, TypeOK
  <2> QED BY <2>2, <2>3, <2>4, <2>5 DEF InUse
<1>2. ASSUME NEW a \in Addrs, NEW t \in Slots, Admit(a, t), Touch(t), currSeq < SeqLimit
      PROVE  FALSE
  <2>1. NextSeq \in Seqs /\ lastSeq' = [lastSeq EXCEPT ![t] = NextSeq]
    BY <1>2, TouchType DEF TableInv
  <2>2. NextSeq # UNUSED
    BY <1>2, ServerAssumption DEF NextSeq, UNUSED, TableInv, TypeOK, Seqs
  <2> QED BY <1>1, <1>2, <2>1, <2>2
<1>3. ASSUME NEW a \in Addrs, Bye(a)
      PROVE  Bye(addr[i])
  <2>1. UNUSED \in Seqs
    BY ServerAssumption DEF UNUSED, Seqs
  <2>2. addr[i] = a
    BY <1>1, <1>3, <2>1 DEF Bye
  <2> QED BY <1>3, <2>2
<1>4. ASSUME NEW a \in Addrs, Dropped(a)
      PROVE  FALSE
  BY <1>4 DEF Dropped, shm, InUse
<1>5. ASSUME UNCHANGED vars
      PROVE  FALSE
  BY <1>5 DEF vars, InUse
<1> QED
  BY <1>2, <1>3, <1>4, <1>5
  DEF Next, Receive, Image, IrStart, IrStartAck, IrData

(* A client loses its slot only by saying BYE or to a restart.  The number  *)
(* that marks a slot unused is one that counting reaches, so this is so     *)
(* only below it.                                                           *)
THEOREM AlwaysKeptUntilBye ==
  ASSUME SeqLimit < UNUSED
  PROVE  Spec => KeptUntilBye
<1>1. TableInv /\ [Next]_vars =>
        [\A i \in Slots :
           InUse(i) /\ (~InUse(i)' \/ addr'[i] # addr[i])
             => Restart \/ Bye(addr[i])]_vars
  BY KeptStep
<1> QED BY <1>1, TableInvAlways, PTL DEF Spec, KeptUntilBye

(* Where a display changes, an image was handled, and its number is newer   *)
(* than every other slot's.                                                 *)
LEMMA AnnounceStep ==
  ASSUME SeqLimit < UNUSED, TypeOK, NumbersInOrder, [Next]_vars,
         NEW i \in Slots, display'[i] # display[i]
  PROVE  /\ currSeq' # currSeq
         /\ lastSeq'[i] = currSeq'
         /\ \A j \in Slots \ {i} : lastSeq'[j] # currSeq'
<1>1. PICK a \in Addrs, d \in Displays : Image(a, d) /\ currSeq < SeqLimit
  BY DEF Next, Restart, Receive, IrStart, IrStartAck, IrData, Bye, Dropped, shm, vars
<1>2. PICK t \in Slots : Touch(t) /\ display' = [display EXCEPT ![t] = d]
  BY <1>1 DEF Image
<1>3. t = i
  BY <1>2 DEF TypeOK
<1>4. /\ currSeq \in Int /\ SeqLimit \in Int /\ SEQMOD \in Int
      /\ lastSeq \in [Slots -> Int]
  BY ServerAssumption DEF TypeOK, Seqs
<1>5. NextSeq = currSeq + 1 /\ NextSeq # UNUSED
  BY <1>1, <1>4 DEF NextSeq, UNUSED
<1>6. lastSeq'[i] = NextSeq /\ currSeq' = NextSeq
  BY <1>2, <1>3, <1>4 DEF Touch
<1>7. ASSUME NEW j \in Slots \ {i}
      PROVE  lastSeq'[j] # NextSeq
  <2>1. lastSeq'[j] = lastSeq[j]
    BY <1>2, <1>3, <1>4 DEF Touch
  <2>2. InUse(j) => lastSeq[j] <= currSeq
    BY DEF NumbersInOrder, SeqIsTotalOrder
  <2>3. CASE InUse(j)
    BY <1>4, <1>5, <2>1, <2>2, <2>3
  <2>4. CASE ~InUse(j)
    BY <1>5, <2>1, <2>4 DEF InUse
  <2> QED BY <2>3, <2>4
<1> QED BY <1>4, <1>5, <1>6, <1>7

(* A display changes only together with its slot's number becoming the      *)
(* newest of all, for any number of slots and any width of the numbers.     *)
THEOREM AlwaysAnnounced ==
  ASSUME SeqLimit < UNUSED
  PROVE  Spec => ChangeIsAnnounced
<1>0. SeqLimit < SEQMOD
  BY ServerAssumption DEF UNUSED
<1>1. Init => NumbersInOrder
  BY ServerAssumption DEF Init, NumbersInOrder, SeqIsTotalOrder, InUse
<1>2. TypeOK /\ NumbersInOrder /\ [Next]_vars => NumbersInOrder'
  BY <1>0, OrderStep
<1>3. TypeOK /\ NumbersInOrder /\ [Next]_vars =>
        [\A i \in Slots : display'[i] # display[i] =>
           /\ currSeq' # currSeq
           /\ lastSeq'[i] = currSeq'
           /\ \A j \in Slots \ {i} : lastSeq'[j] # currSeq']_vars
  BY AnnounceStep
<1> QED BY <1>1, <1>2, <1>3, TypeCorrect, PTL DEF Spec, ChangeIsAnnounced

-----------------------------------------------------------------------------
(* What a datagram does to the slots, for whoever composes the server with  *)
(* its clients.                                                             *)

(* A datagram from a is handled, whatever its type. *)
Handled(a) ==
  \/ \E d \in Displays : Image(a, d)
  \/ \E b \in Bodies : IrStart(a, b) \/ IrStartAck(a, b) \/ IrData(a, b)
  \/ Bye(a)

LEMMA HandledKeepsTable ==
  ASSUME TableInv, NEW a \in Addrs, Handled(a)
  PROVE  TableInv'
  BY ImageStep, IrStartStep, IrStartAckStep, IrDataStep, ByeStep DEF Handled

(* Every datagram that is handled numbers one slot, its sender's. *)
LEMMA HandledSlot ==
  ASSUME TableInv, NEW a \in Addrs, Handled(a)
  PROVE  \E t \in Slots, s \in Seqs :
           /\ Admit(a, t)
           /\ lastSeq' = [lastSeq EXCEPT ![t] = s]
           /\ \A i \in Slots \ {t} : display'[i] = display[i]
<1>1. CASE Bye(a)
  <2>1. UNUSED \in Seqs
    BY ServerAssumption DEF UNUSED, Seqs
  <2> QED BY <1>1, <2>1 DEF Bye
<1>2. CASE \E t \in Slots : /\ Admit(a, t) /\ Touch(t)
                            /\ \A i \in Slots \ {t} : display'[i] = display[i]
  BY <1>2, TouchType DEF TableInv
<1>3. ASSUME NEW d \in Displays, NEW t \in Slots, display' = [display EXCEPT ![t] = d]
      PROVE  \A i \in Slots \ {t} : display'[i] = display[i]
  BY <1>3 DEF TableInv, TypeOK
<1> QED BY <1>1, <1>2, <1>3 DEF Handled, Image, IrStart, IrStartAck, IrData

(* Nobody else's slot is touched. *)
LEMMA OthersKeep ==
  ASSUME TableInv, NEW a \in Addrs, Handled(a), NEW i \in Slots
  PROVE  /\ InUse(i) /\ addr[i] # a =>
              InUse(i)' /\ addr'[i] = addr[i] /\ display'[i] = display[i]
         /\ InUse(i)' /\ addr'[i] # a => InUse(i) /\ addr'[i] = addr[i]
<1>1. PICK t \in Slots, s \in Seqs :
        /\ Admit(a, t)
        /\ lastSeq' = [lastSeq EXCEPT ![t] = s]
        /\ \A j \in Slots \ {t} : display'[j] = display[j]
  BY HandledSlot
<1>2. addr'[t] = a /\ (InUse(t) => addr[t] = a)
  BY <1>1, AdmitKeeps DEF Admit, Occupies, FirstUnused, TableInv, UsedAreCounted
<1>3. i # t => (InUse(i)' <=> InUse(i)) /\ (InUse(i) => addr'[i] = addr[i])
  BY <1>1, AdmitKeeps DEF InUse, TableInv, TypeOK
<1> QED BY <1>1, <1>2, <1>3

(* After a goodbye its sender has no slot. *)
LEMMA ByeFrees ==
  ASSUME TableInv, NEW a \in Addrs, Bye(a), NEW i \in Slots, InUse(i)'
  PROVE  addr'[i] # a
<1>1. PICK t \in Slots : Admit(a, t) /\ lastSeq' = [lastSeq EXCEPT ![t] = UNUSED]
  BY DEF Bye
<1>2. i # t /\ InUse(i)
  BY <1>1 DEF InUse, TableInv, TypeOK
<1> QED BY <1>1, <1>2, AdmitKeeps

(* After a picture its sender's slot has it, and other datagrams leave it   *)
(* alone - below the number that marks a slot unused.                       *)
LEMMA OwnSlot ==
  ASSUME SeqLimit < UNUSED, TableInv, currSeq < SeqLimit, NEW a \in Addrs
  PROVE  /\ \A d \in Displays : Image(a, d) =>
              \E i \in Slots : InUse(i)' /\ addr'[i] = a /\ display'[i] = d
         /\ (\E b \in Bodies : IrStart(a, b) \/ IrStartAck(a, b) \/ IrData(a, b)) =>
              \A i \in Slots : InUse(i) /\ addr[i] = a =>
                InUse(i)' /\ addr'[i] = a /\ display'[i] = display[i]
<1>1. ASSUME NEW t \in Slots, Admit(a, t), Touch(t)
      PROVE  InUse(t)' /\ addr'[t] = a
  <2>1. NextSeq # UNUSED
    BY ServerAssumption DEF NextSeq, UNUSED, TableInv, TypeOK, Seqs
  <2>2. InUse(t)'
    BY <1>1, <2>1 DEF Touch, InUse, TableInv, TypeOK
  <2> QED BY <1>1, <2>2, AdmitKeeps
<1>2. ASSUME NEW d \in Displays, Image(a, d)
      PROVE  \E i \in Slots : InUse(i)' /\ addr'[i] = a /\ display'[i] = d
  <2>1. PICK t \in Slots : Admit(a, t) /\ Touch(t) /\ display' = [display EXCEPT ![t] = d]
    BY <1>2 DEF Image
  <2>2. display'[t] = d
    BY <2>1 DEF TableInv, TypeOK
  <2> QED BY <1>1, <2>1, <2>2
<1>3. ASSUME \E b \in Bodies : IrStart(a, b) \/ IrStartAck(a, b) \/ IrData(a, b),
             NEW i \in Slots, InUse(i), addr[i] = a
      PROVE  InUse(i)' /\ addr'[i] = a /\ display'[i] = display[i]
  <2>1. PICK t \in Slots : Admit(a, t) /\ Touch(t) /\ UNCHANGED display
    BY <1>3 DEF IrStart, IrStartAck, IrData
  <2>2. i = t
    BY <1>3, <2>1, AdmitKeeps
  <2> QED BY <1>1, <2>1, <2>2
<1> QED BY <1>2, <1>3

(* A datagram is turned away only when every slot is in use. *)
LEMMA DroppedWhenFull ==
  ASSUME TableInv, NEW a \in Addrs, Dropped(a)
  PROVE  \A i \in Slots : InUse(i)
<1> SUFFICES ASSUME NEW i \in Slots, ~InUse(i)
             PROVE  FALSE
  OBVIOUS
<1> DEFINE Free == {j \in Slots : ~InUse(j)}
<1>1. Free \subseteq Nat /\ Free # {}
  BY ServerAssumption DEF Slots
<1>2. PICK t \in Free : \A j \in Free : ~(<<j, t>> \in OpToRel(<, Nat))
  BY <1>1, NatLessThanWellFounded, WFMin
<1>3. \A j \in Free : ~(j < t)
  BY <1>1, <1>2 DEF OpToRel
<1>4. t \in Slots /\ ~InUse(t) /\ t \in Int /\ noTamas \in Int /\ 0 <= noTamas
  BY <1>1, ServerAssumption DEF TableInv, TypeOK
<1>5. \A j \in 0..(t - 1) : InUse(j)
  BY <1>3, <1>4, ServerAssumption DEF Slots
<1>6. t <= noTamas
  BY <1>4, <1>5, ServerAssumption DEF TableInv, UsedAreCounted, Slots
<1> QED BY <1>4, <1>5, <1>6 DEF Dropped, FirstUnused
=============================================================================

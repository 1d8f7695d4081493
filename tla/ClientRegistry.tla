--------------------------- MODULE ClientRegistry ---------------------------
(***************************************************************************)
(* What TamaServer promises the emulators, without sequence numbers, links *)
(* or shared memory: a client that joins gets a slot nobody holds, no      *)
(* client holds two, and a slot changes hands only by being free between.  *)
(***************************************************************************)
EXTENDS Integers

CONSTANTS Addrs, NoAddr, Slots

VARIABLE slotOf     \* slotOf[i]: the client that holds slot i, or NoAddr

Init == slotOf = [i \in Slots |-> NoAddr]

Join(a, i) ==
  /\ slotOf[i] = NoAddr
  /\ \A j \in Slots : slotOf[j] # a
  /\ slotOf' = [slotOf EXCEPT ![i] = a]

Leave(i) == slotOf' = [slotOf EXCEPT ![i] = NoAddr]

(* The server starts again and forgets everybody. *)
Forget == slotOf' = [i \in Slots |-> NoAddr]

Next ==
  \/ \E a \in Addrs, i \in Slots : Join(a, i)
  \/ \E i \in Slots : Leave(i)
  \/ Forget

Spec == Init /\ [][Next]_slotOf
=============================================================================

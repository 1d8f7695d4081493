------------------------------- MODULE MCHive --------------------------------
(***************************************************************************)
(* The hive for TLC: one tama that is started again, among others that are *)
(* not.                                                                    *)
(***************************************************************************)
EXTENDS Hive, TLC

CONSTANTS again, pa, pb

MCScreens == {[pixels |-> NoPixels, icons |-> 0], [pixels |-> pa, icons |-> 1],
              [pixels |-> pb, icons |-> 1]}
MCStarts  == [t \in Tamas |-> IF t = again THEN 2 ELSE 1]

\* The two pictures are only ever compared with each other.
Pictures == Permutations({pa, pb})

\* The links decide only where infrared data and acknowledgements are sent to,
\* and no property of this run is about that.
View == <<clientVars, currSeq, noTamas, lastSeq, display, addr, faults, ghosts, astray>>
=============================================================================

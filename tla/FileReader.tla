----------------------------- MODULE FileReader ------------------------------
(***************************************************************************)
(* What a reader of the file system in flash relies on, whatever the image *)
(* does to the files: a read gives the next bytes of the file, as many as  *)
(* asked for, and fewer only where the file ends - which is how            *)
(* cgiEspFsHook and cgiEspFsTemplate see that they are done.               *)
(***************************************************************************)
EXTENDS Integers, Sequences

CONSTANTS
    NULL,
    ReadLens   \* the lengths that are asked for

VARIABLES
    contents,  \* from names to what may stand for the file: [gzip, bytes]
    open,      \* what the open file reads as, or NULL
    pos,       \* how much of it has been read
    last       \* what the last read returned
vars == <<contents, open, pos, last>>

Init == open = NULL /\ pos = 0 /\ last = <<>>

Open == /\ open = NULL
        /\ \E name \in DOMAIN contents : open' \in contents[name]
        /\ pos' = 0 /\ last' = <<>>
        /\ UNCHANGED contents

Read == /\ open # NULL
        /\ \E len \in ReadLens :
             LET end == IF pos + len > Len(open.bytes) THEN Len(open.bytes) ELSE pos + len
             IN last' = SubSeq(open.bytes, pos + 1, end) /\ pos' = end
        /\ UNCHANGED <<contents, open>>

Close == open # NULL /\ open' = NULL /\ pos' = 0 /\ last' = <<>> /\ UNCHANGED contents

Next == Open \/ Read \/ Close
Spec == Init /\ [][Next]_vars
=============================================================================

----------------------------- MODULE MacroRunner -----------------------------
(***************************************************************************)
(* What a macro is to the rest of the program: while one runs no other can *)
(* be started; its commands are carried out one after the other, in the    *)
(* order written, none skipped and none repeated; a press command presses  *)
(* its own button once or twice, a select command presses button 1 any     *)
(* number of times, a wait presses nothing; and it ends.                   *)
(***************************************************************************)
EXTENDS Integers, Sequences

CONSTANT macros       \* name -> sequence of commands [op, arg]

VARIABLES
  running,   \* the macro being run, or None
  pos,       \* commands of it that were begun
  open,      \* may the latest command still press?
  buttons    \* the buttons pressed in this frame

vars == <<running, pos, open, buttons>>

None == "none"
Begun == macros[running][pos]

Init ==
  /\ running \in {None} \cup DOMAIN macros
  /\ pos = 0 /\ open = FALSE /\ buttons = {}

Start(m) ==
  /\ running = None
  /\ running' = m /\ pos' = 0 /\ open' = FALSE /\ buttons' = {}

Begin ==
  /\ running # None /\ ~open /\ pos < Len(macros[running])
  /\ pos' = pos + 1
  /\ LET c == macros[running][pos + 1] IN
       /\ buttons' = IF c.op = "p" THEN {c.arg} ELSE {}
       /\ open' = (c.op # "w")
  /\ UNCHANGED running

Again ==
  /\ running # None /\ open
  /\ \/ Begun.op = "p" /\ buttons' = {Begun.arg} /\ open' = FALSE
     \/ Begun.op = "s" /\ buttons' = {1} /\ open' \in BOOLEAN
  /\ UNCHANGED <<running, pos>>

Close ==
  /\ running # None /\ open
  /\ open' = FALSE /\ buttons' = {}
  /\ UNCHANGED <<running, pos>>

Release == buttons' = {} /\ UNCHANGED <<running, pos, open>>

End ==
  /\ running # None /\ ~open /\ pos = Len(macros[running])
  /\ running' = None /\ pos' = 0 /\ open' = FALSE /\ buttons' = {}

Next == Begin \/ Again \/ Close \/ Release \/ End \/ \E m \in DOMAIN macros : Start(m)

(* A running macro gets on, to its end: no wait and no icon selection lasts *)
(* for ever.                                                                *)
Fairness == WF_vars(Begin) /\ WF_vars(Close \/ (Again /\ ~open')) /\ WF_vars(End)

Spec == Init /\ [][Next]_vars /\ Fairness
==============================================================================

---------------------------- MODULE MCEspViewer -----------------------------
(* Two presses of the macro, two requests in flight; the durations keep the *)
(* order of those in the code.                                             *)
EXTENDS EspViewer

MCmacro == <<[button |-> 1, delay |-> 3], [button |-> 2, delay |-> 2]>>
=============================================================================

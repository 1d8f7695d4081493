------------------------------ MODULE MCIrLoop ------------------------------
(* IrLoop for TLC: bytes of two bits, arrivals in the light and in the dark *)
(* of a bit, in the pulse that ends the data and in the sync pulse.         *)
EXTENDS IrLoop

MCByte == {<<0, 0>>, <<0, 1>>}
=============================================================================

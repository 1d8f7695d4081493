----------------------------- MODULE MCI2cMaster -----------------------------
(* I2cMaster for TLC: bytes of two bits, 16 cells in pages of four; device  *)
(* 1 is the EEPROM, device 0 is not there.                                  *)
EXTENDS I2cMaster

MCBlank == [c \in Cells |-> 3]
MCTransactions ==
  [dev : {0, 1}, kind : {"write"}, at : {2, 15}, data : {<<1>>, <<2, 0, 1>>}]
    \cup [dev : {0, 1}, kind : {"read"}, at : {3, 15}, data : {<<0, 0>>}]
==============================================================================

\* Four clients compete for three slots; the numbers stay below the wrap.
CONSTANTS
  Addrs = {a1, a2, a3, a4}
  NoAddr = NoAddr
  Bodies = {b1}
  Displays = {blank, img}
  Blank = blank
  MAXCLIENT = 3
  SEQMOD = 8
  FRESH = 2
  SeqLimit = 5
  DrawsMayMiss = TRUE
SPECIFICATION Spec
SYMMETRY Symmetry
INVARIANTS OneSlotPerClient SeqIsTotalOrder
PROPERTIES ChangeIsAnnounced KeptUntilBye RegistrySpec

\* Two tamas, one of them started twice, and room for two; one fault.  The
\* emulators may all have ended.
CONSTANTS
  pa = pa
  pb = pb
  again = again
  Tamas = {again, other}
  Starts <- MCStarts
  NoPixels = zeroes
  Screens <- MCScreens
  Bodies = {b1}
  Talk = {"IRSTART", "IRSTARTACK", "IRDATA"}
  UnderWay = 1
  MAXCLIENT = 2
  SEQMOD = 8
  FRESH = 1
  SeqLimit = 3
  NoAddr = NoAddr
  MaxFaults = 1
SPECIFICATION Spec
INVARIANTS QuietTamaIsShown NoGhosts
CHECK_DEADLOCK FALSE
VIEW View
SYMMETRY Pictures

\* Two tamas, two pictures, two numbered datagrams, one restart.  A page that has
\* stopped and a server at the bound have nothing more to do.
CONSTANTS
  MAXCLIENT = 2
  Pictures = {0, 1}
  Blank = 0
  SEQLIMIT = 2
  SEQAFTER = 1
SPECIFICATION Spec
INVARIANTS NoUpdateLost BigNotForgotten
PROPERTIES PageCatchesUp
CHECK_DEADLOCK FALSE

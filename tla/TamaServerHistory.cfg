\* Who receives infrared data.
CONSTANTS
  Addrs = {a1, a2, a3}
  NoAddr = NoAddr
  Bodies = {b1}
  Displays = {blank, img}
  Blank = blank
  MAXCLIENT = 2
  SEQMOD = 8
  FRESH = 2
  SeqLimit = 5
  DrawsMayMiss = TRUE
SPECIFICATION HSpec
PROPERTIES DataStaysBetweenPartners

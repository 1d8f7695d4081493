\* Two datagrams of up to two bytes; any byte may lie behind them.
CONSTANTS
  Byte <- MCByte
  BITS = 2
  MAXLEN = 2
  MAXSEND = 2
  PLAYS = 2
  ARRIVALS = {5, 32, 190}
  MAXDARK = 30
SPECIFICATION LSpec
INVARIANTS HeardIsPlayed LatestIsHeard
PROPERTIES PlayingEnds

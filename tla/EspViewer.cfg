\* Durations in the order of the code's: 100, 200, 500 and more, 1000, 2000 ms.
CONSTANTS
  Hosts = {h}
  NoHost = NoHost
  host = h
  InFlight = {q1, q2}
  OLD = 3
  MAXFAULTS = 1
  macro <- MCmacro
  START = 1
  BTNOFF = 1
  RETRY = 1
  PERIOD = 2
  SHOWNO = 3
  Buttons = {1, 3}
  RESETCOUNT = 2
  PRESSES = 2
SPECIFICATION Spec
INVARIANTS KeepsAsking PinsNotShared WrongOnlyIfLate
PROPERTIES ShowsChosen

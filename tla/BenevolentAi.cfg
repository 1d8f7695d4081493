\* All the screens, hearts on both sides of both thresholds.  No two of the
\* known pictures match the same screen, except that a sleeping tama can be in
\* the dark.
CONSTANTS
  Views = {{}, {"sleep", "dark"}, {"poopie"}, {"pooping"}, {"sick"}, {"born"},
           {"sleep"}, {"dark"}, {"alert"}, {"hearts"}, {"stb"}, {"jump"},
           {"gameend"}, {"doorsel"}, {"irgame1"}, {"irfail"}}
  Levels = {3, 5}
  MSPASSED = 1
  CHECKINTERVAL = 5
  FIRSTCHECK = 1
  CUDDLEMARGIN = 1
  INVITEMARGIN = 2
  TIMEOUT = 2
SPECIFICATION Spec
INVARIANTS HeartsAreKnown
PROPERTIES SessionsEnd RefusedGameTimesOut CalmTamaIsChecked RequestsAreServed

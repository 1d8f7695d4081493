\* Every macro of the table at its real timing; presses may be lost.
CONSTANTS
  MSPASSED = 66
  ATTEMPTS = 15
  MAXLOST = 5
SPECIFICATION MSpec
PROPERTIES RunnerSpec RightIconSelected

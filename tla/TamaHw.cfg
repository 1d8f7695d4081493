\* Two buttons; timer 1 runs, wakes nobody and is an enabled interrupt.
CONSTANTS
  Buttons = {b0, b1}
  Timers = {"T1"}
  ClkValues = {2, 7}
  WakeEnValues = {{}, {"BTN"}}
  LoValues = {{}}
  MiValues = {{"T1"}}
  RELEASETIME = 2
  FREEZE = 1
SPECIFICATION Spec
PROPERTIES NoLostWakeup UnseenPortWakes ButtonsAreReleased

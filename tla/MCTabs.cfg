SPECIFICATION MCFairSpec
CONSTANTS
  Vals = {v1, v2}
  Blank = Blank
  Sources = {singbox, helper}
  Files = {f1, f2}
  Free = Free
  Slots = {s1, s2}
  Timers = {i1, i2}
  None = None
  MaxClicks = 4
INVARIANTS
  TypeOK
  OneTimer
  FormTrue
  ListTrue
PROPERTIES
  ListAppears
  LogsCatchUp
\* The user stops after MaxClicks.
CHECK_DEADLOCK FALSE

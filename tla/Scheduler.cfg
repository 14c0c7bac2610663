CONSTANTS
  N = 2
  Agents = {a1, a2}
  MaxWakes = 1
  MaxArms = 0
SPECIFICATION Spec
INVARIANTS OnePlacePerNode WakeWillBeSeen NoSleepOnWork

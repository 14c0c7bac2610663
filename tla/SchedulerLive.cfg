CONSTANTS
  N = 2
  Agents = {a1}
  MaxWakes = 1
  MaxArms = 2
SPECIFICATION FairSpec
PROPERTIES WakesAreServed WaitsEnd

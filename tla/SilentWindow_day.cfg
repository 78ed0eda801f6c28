SPECIFICATION Spec
CONSTANTS
  Hours = {0, 5, 23, 24}
  Minutes = {0, 1, 59, 60}
INVARIANT EndsWhenItSays
PROPERTY TurnsAtItsEnds

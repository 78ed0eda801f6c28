SPECIFICATION Spec
CONSTANTS
  Dates = {1, 2}
  FromHours = {0, 13, 23}
  ToHours = {0, 2, 13, 24}
  DayHours = {0, 5, 23, 24, 261}
  MaxSpan = 40
  MaxRules = 3
INVARIANT WatchesWhatIsAsked
INVARIANT OneSpellingPerMeaning
INVARIANT RangeHoldsWatchedHours
INVARIANT OverWhenNothingIsLeft
INVARIANT TextMeansTheSame
CHECK_DEADLOCK FALSE

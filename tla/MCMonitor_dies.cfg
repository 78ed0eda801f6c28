SPECIFICATION Spec
CONSTANTS
  Movies <- MCMovies
  Keys <- MCKeys
  ImaxShows <- MCImax
  Watches = {w1}
  Cinemas = {c1}
  Filters <- JustAll
  Payloads <- Growing
  NoState = NoState
  MaxListings = 1
  MaxEdits = 2
  MaxDeletes = 1
  MaxPauses = 0
  MaxTurns = 0
  MaxErrors = 0
  MaxDrops = 0
  MaxCrashes = 0
INVARIANT LoopSurvives

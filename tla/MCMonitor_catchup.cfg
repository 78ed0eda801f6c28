SPECIFICATION FairSpec
CONSTANTS
  Movies <- MCMovies
  Keys <- MCKeys
  ImaxShows <- MCImax
  Watches = {w1}
  Cinemas = {c1}
  Filters <- AnyFilter
  Payloads <- OneOrNone
  NoState = NoState
  MaxListings = 1
  MaxEdits = 2
  MaxDeletes = 0
  MaxPauses = 0
  MaxTurns = 2
  MaxErrors = 1
  MaxDrops = 0
  MaxCrashes = 0
INVARIANTS
  BaselineOfItsFilter
PROPERTIES
  CatchesUp

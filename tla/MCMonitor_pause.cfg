SPECIFICATION FairSpec
CONSTANTS
  Movies <- MCMovies
  Keys <- MCKeys
  ImaxShows <- MCImax
  Watches = {w1}
  Cinemas = {c1}
  Filters <- JustAll
  Payloads <- Static
  NoState = NoState
  MaxListings = 0
  MaxEdits = 1
  MaxDeletes = 1
  MaxPauses = 3
  MaxTurns = 2
  MaxErrors = 0
  MaxDrops = 1
  MaxCrashes = 0
INVARIANTS
  InSync
  AtMostOneQuietRound
PROPERTIES
  FlagConverges
CHECK_DEADLOCK FALSE

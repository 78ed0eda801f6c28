SPECIFICATION Spec
CONSTANTS
  Movies <- MCMovies
  Keys <- MCKeys
  ImaxShows <- MCImax
  Watches = {w1}
  Cinemas = {c1, c2}
  Filters <- JustAll
  Payloads <- OneOrNone
  NoState = NoState
  MaxListings = 2
  MaxEdits = 2
  MaxDeletes = 0
  MaxPauses = 0
  MaxTurns = 0
  MaxErrors = 1
  MaxDrops = 0
  MaxCrashes = 1
INVARIANTS
  TypeOK
  RiseAccounted
  OutageAlarmed
PROPERTIES
  AlertsAsPromised

SPECIFICATION FairSpec
CONSTANTS
  Triggers = {}
  Results = {r1}
  Tests = {p1}
  Webhooks = {hook}
  Agents = {gofer}
  Mails = {mail}
  MaxEvents = 1
  MaxEdits = 2
  MaxCrashes = 1
INVARIANTS TypeOK SentIsTaken OnlyChosen
PROPERTIES NobodyHeldUp
CHECK_DEADLOCK FALSE

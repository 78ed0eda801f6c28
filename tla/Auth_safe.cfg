SPECIFICATION FairSpec
CONSTANTS
  Passwords = {p1, p2}
  Setups = {s1, s2, s3}
  MaxStarts = 4
  None = None
INVARIANT TypeOK
INVARIANT EnvPasswordInForce
INVARIANT WinnersPassword
INVARIANT ResetEndsOldSessions
INVARIANT SetupOnlyWithoutHash
PROPERTY FirstPasswordStands
PROPERTY SetupAnswered
CHECK_DEADLOCK FALSE

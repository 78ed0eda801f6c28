SPECIFICATION FairSpec
CONSTANTS
  Installs = {i1, i2}
INVARIANT BinaryWorks
PROPERTY RestartsIntoNew

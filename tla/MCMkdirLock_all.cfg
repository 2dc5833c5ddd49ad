SPECIFICATION FairLockSpec
CONSTANTS
  NoFile = NoFile
  Empty = Empty
  Shells = {p1, p2, p3}
  Tries = 3
  MaxCrashes = 2

  
PROPERTIES
  
  Recovers

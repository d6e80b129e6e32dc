SPECIFICATION FairSpec
CONSTANTS
  small = small
  large = large
  Images <- MCImages
  None = None
  Erased = Erased
  Torn = Torn
  Last = 5
  Size <- MCSize
  LastSector = 2
  Sector <- MCSector
  MaxFaults = 3
INVARIANT TypeOK
INVARIANT ResumeStarts
PROPERTY SlotSpec
PROPERTY Recovers

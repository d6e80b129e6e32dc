SPECIFICATION Spec
CONSTANTS
  Contents = {c1, c2, c3}
  Default = c1
  Missing = Missing
  Torn = Torn
INVARIANT TypeOK
PROPERTY RegisterSpec
PROPERTY SavedIsTaken
INVARIANT FormattedAsLastResort
PROPERTY OriginalPreserved

SPECIFICATION Spec
CONSTANTS
  Contents = {c1, c2, c3}
  Missing = Missing
  Torn = Torn
  MaxSequence = 4
INVARIANT TypeOK
INVARIANT CleanStartIsCurrent
INVARIANT VerifiedSurvives
PROPERTY RegisterSpec

SPECIFICATION FairSpec
CONSTANT Numbers = 5
CONSTANT MaxRetries = 1
CONSTANT MaxReadyTries = 2
CONSTANT MaxAcks = 1
CONSTANT MaxReplies = 2
CONSTANT Settings = {s1, s2}
CONSTANT Loaded = s1
CONSTANT s1 = s1
CONSTANT s2 = s2
CONSTANT MaxChoices = 2
CONSTANT MaxEvents = 1
INVARIANT TypeOK
PROPERTY ConfiguredForUse
INVARIANT PagesInStandby
PROPERTY LinkComesUp

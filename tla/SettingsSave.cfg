SPECIFICATION FairSpec
CONSTANT MaxEdits = 2
CONSTANT Edited = {2}
CONSTANT RetryLimit = 2
CONSTANT Immediate = TRUE
INVARIANT TypeOK
INVARIANT OneWriter
INVARIANT QueuedNotForgotten
PROPERTY NeverBackwards
PROPERTY EditsSaved

SPECIFICATION Spec
CONSTANT MaxEdits = 1
CONSTANT Edited = {1, 2}
CONSTANT RetryLimit = 2
CONSTANT Immediate = TRUE
INVARIANT NoEditForgotten

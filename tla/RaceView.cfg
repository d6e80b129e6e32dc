SPECIFICATION Spec
CONSTANT Slots = {1, 2}
CONSTANT MaxId = 2
CONSTANT MaxRaces = 2
CONSTANT User = {"view"}
INVARIANT OwnResultOpened
PROPERTY RetryTried

SPECIFICATION Spec
CONSTANT Slots = {1, 2}
CONSTANT MaxId = 2
CONSTANT MaxRaces = 3
CONSTANT User = {"card", "power"}
INVARIANT TypeOK
INVARIANT SlotOwned
INVARIANT NothingLost
INVARIANT OneFilePerRace
INVARIANT SavedMeansSaved
PROPERTY FilesKept

SPECIFICATION FairSpec
CONSTANTS
  MaxEvents = 4
  Typed = {1, 4}
  MaxFaults = 3
  Eol <- EndsInLF
INVARIANT ChunkingIsInvisible
PROPERTIES ImplementsEventFeed ResumesAfterDrops

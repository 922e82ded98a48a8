SPECIFICATION FairSpec
INVARIANTS
  TypeOK
  AnnouncedCanAnswer
  LostRaceBlocks
  OneHolder
  ClosesAreOpen
PROPERTIES
  StartupCompletes
CHECK_DEADLOCK FALSE

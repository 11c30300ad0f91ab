SPECIFICATION FairSpec
CONSTANTS
  NFolders = 2
  Named <- NamedFolders
  MaxCuts = 2
  MaxFaults = 2
  MaxMeddling = 2
INVARIANTS WritersFindArchive
PROPERTIES NothingIsLost RenamesOnlyPlainTrees MoveGetsDone

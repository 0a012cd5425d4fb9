SPECIFICATION Spec
CONSTANTS
  MaxAmount = 2
  MaxResolutionDepth = 4
  MaxNesting = 3
  MaxWalkDepth = 2
  MaxVectors = 2
  Unspellable = {"transfer-all", "total-supply"}
  Disks <- MCDisks
  Openings <- MCOpenings
  Aftermaths <- MCAftermaths
INVARIANTS TypeOK CorpusIsTheTrees NothingJudgedIsUndeclared WhatIsAskedWasRecorded TheRecordIsThePast AStandstillIsNotAccused PassedAsDeclared AcquittedAsAnnounced ShapeDoesNotMatter
PROPERTIES LoadingEnds
CHECK_DEADLOCK FALSE

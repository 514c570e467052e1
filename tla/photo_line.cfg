SPECIFICATION FairSpec
CONSTANTS
  NUM_CHUNKS = 3
  PHOTO_CAP = 6
  ATTEMPTS = 3
  EchoesOK <- NoEchoes
  Events <- LineEvents
  MaxUploads = 3
  MaxShots = 1
  OldKeys = 1
CHECK_DEADLOCK FALSE
INVARIANTS PhotosWhole DoneMeansStored
PROPERTIES PhotosKept ScriptEnds

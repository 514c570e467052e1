SPECIFICATION Spec
CONSTANTS
  NUM_CHUNKS = 2
  PHOTO_CAP = 1
  ATTEMPTS = 2
  EchoesOK <- NoEchoes
  Events <- NoEvents
  MaxUploads = 1
  MaxShots = 1
  OldKeys = 0
CHECK_DEADLOCK FALSE
INVARIANTS DoneMeansStored

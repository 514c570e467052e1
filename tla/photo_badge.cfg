SPECIFICATION Spec
CONSTANTS
  NUM_CHUNKS = 2
  PHOTO_CAP = 2
  ATTEMPTS = 3
  EchoesOK <- NoEchoes
  Events <- BadgeEvents
  MaxUploads = 2
  MaxShots = 2
  OldKeys = 2
CHECK_DEADLOCK FALSE
INVARIANTS NoDuplicatePhotos AlbumWithinCap
PROPERTIES ImplementsAssembler

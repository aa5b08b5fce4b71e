SPECIFICATION DownloadSpec
CONSTANTS
  FileSize = 2
  DOWNLOAD_SIZE_GRACE = 1
  MAX_MODEL_DOWNLOAD_BYTES = 3
  MaxFaults = 3
  Missing = Missing
  Torn = Torn
INVARIANTS ReadyIsIntact MarkerHonest
PROPERTY Recovers

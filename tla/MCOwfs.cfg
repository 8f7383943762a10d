SPECIFICATION Spec
CONSTANTS
  Volumes <- MCVolumes
  DISK_BLOCKS = 10
  DiskMayFail = TRUE
  BLOCK_SIZE = 2
  DIRECT_BLOCKS = 2
  POINTERS = 2
  KERNEL_MIN = 2
  KERNEL_MAX = 8
  MENU_MAX = 3
  UINT32 = 64
  DIAG_MAX = 4
INVARIANTS
  TypeOK
  ListIsCatalog
  LoadedIsFile
  WellFormedLoads
  SuccessMeansComplete
  RefusedVolumeUntouched
  ReturnedCodeIsShown
PROPERTIES
  DriverReturns
\* A refused volume, an unlisted catalog and a finished load are the end.
CHECK_DEADLOCK FALSE

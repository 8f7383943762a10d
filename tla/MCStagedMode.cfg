SPECIFICATION StagedSpec
CONSTANTS
  Volumes <- MCBootable
  DISK_BLOCKS = 5
  DiskMayFail = FALSE
  BLOCK_SIZE = 2
  DIRECT_BLOCKS = 2
  POINTERS = 2
  KERNEL_MIN = 2
  KERNEL_MAX = 8
  MENU_MAX = 2
  UINT32 = 64
  DIAG_MAX = 4
  VISIBLE = 1
  TIMEOUT = 2
  StartSeconds <- MCStartSeconds
  ClockMayFail = FALSE
  KeyStrokes <- MCEnter
  MaxLag = 1
  ExitPointers <- MCServices
  MapSizes <- MCMapSizes
  EXTRA = 1
  MaxMapEvents = 0
  Modes = {"BASE", "EXTENDED"}
  Base = "BASE"
  OtherValues = {"other"}
  MAX_CHANGES = 2
PROPERTY StagedModeApplied
\* kmain ends in the kernel, in a reset, or on the fail screen.
CHECK_DEADLOCK FALSE

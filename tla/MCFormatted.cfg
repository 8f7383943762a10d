SPECIFICATION FormattedSpec
CONSTANTS
  BLOCK_SIZE = 2
  DIRECT_BLOCKS = 2
  BITS = 4
  OVERHEAD = 2
  TOTAL_INODES = 6
  Totals = {3, 4, 7, 8, 12, 15}
  Tails = {0, 1}
  GAP = 6
  Sizes = {0, 1, 4, 7, 9}
  KERNEL_MIN = 1
  KERNEL_MAX = 7
  MENU_MAX = 3
  UINT32 = 64
  DIAG_MAX = 4
  DISK_BLOCKS = 16
  ESP_LBA = 3
  ESP_SECTORS = 27
  OWFS_SECTORS = 9
  RESERVED = 8
  FAT_SIZE = 6
  SECTOR = 2
  LINKS = 2
  FAT32_LEAST = 7
  EfiSizes = {1, 4, 7}
INVARIANTS
  MkfsTypeOK
  BlocksAccounted
  SuperblockCounts
  FullMeansFull
  CatalogListsFiles
  FilesLoad
  FirmwareReadsLoader
\* A failed format, an image cut short and a finished load are the end.
CHECK_DEADLOCK FALSE

SPECIFICATION ScreenSpec
CONSTANTS
  NAME_MAX = 6
  Texts <- MCTexts
  Damage <- MCDamage
  Machines <- MCMachines
  FONT_W = 1
  FONT_H = 1
  MAX_COLS = 10
  MAX_ROWS = 4
  VGA_COLS = 8
  ENTRY_TOP = 1
  VISIBLE = 2
  OtherNames <- MCOtherNames
INVARIANTS
  NameTypeOK
  DecodesEncoded
  IntactShown
  ScreenTypeOK
  PaintsInside
  RowsShowEntries
  DiskIsFirstFixed
  DrawsOnLargestMode

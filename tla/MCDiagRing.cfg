SPECIFICATION Spec
CONSTANTS
  Codes <- MCCodes
  DIAG_MAX = 8
INVARIANTS
  TypeOK
  RecordsConsistent
PROPERTY
  ImplementsLog

SPECIFICATION Spec
CONSTANTS
  Letters     <- MCLetters
  HandWritten <- MCHandWritten
  Volunteers  = {v1}
  Nil         = Nil
  TransType   = "eng"
  PAGESIZE    = 1
INVARIANTS
  OfferedOnOnePage
  EmployeeFindsAll
  WalkMissesNothing
PROPERTY
  LinksLeadToLetters

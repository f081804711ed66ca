SPECIFICATION Spec
CONSTANTS
  Volunteers = {v1, v2}
  Employees  = {e1}
  Letters    = {l1}
  Nil        = Nil
  TransTypes = {"eng", "chi"}
  MaxDay     = 5
  MaxCredits = 1
  ReturnDays <- MCReturnDays
SYMMETRY Symmetry
INVARIANTS
  TypeOK
  RecordsAgree
  ShownIsPublished
  ReturnsAreCredited
  SweptClean
  StatusPageAgrees
PROPERTIES
  NoHandover
  ReleasedIsOfferedAgain
  ReleaseIsLogged
  ImplementsCustody

SPECIFICATION Spec
CONSTANTS
  Volunteers = {v1, v2}
  Employees  = {e1}
  Letters    = {l1}
  Nil        = Nil
  TransTypes = {"eng", "chi"}
  MaxDay     = 5
  MaxCredits = 2
  ReturnDays <- MCReturnDays
SYMMETRY Symmetry
INVARIANTS
  NotUploadedComesBack

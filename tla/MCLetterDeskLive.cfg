SPECIFICATION LiveSpec
CONSTANTS
  Volunteers = {v1}
  Employees  = {e1}
  Letters    = {l1}
  Nil        = Nil
  TransTypes = {"eng"}
  MaxDay     = 11
  MaxCredits = 1
  ReturnDays <- MCReturnDays
PROPERTIES
  OverdueComesBack
  UnclaimedBecomesUrgent

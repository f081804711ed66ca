SPECIFICATION RequestSpec
CONSTANTS
  Volunteers = {v1, v2}
  Employees  = {e1}
  Letters    = {l1}
  Slots      = {s1, s2}
  Nil        = Nil
  TransTypes = {"chi"}
  MaxDay     = 3
  MaxCredits = 1
  MaxOverlaps = 1
  ReturnDays <- MCReturnDays
SYMMETRY Symmetry
PROPERTIES
  NoHandover

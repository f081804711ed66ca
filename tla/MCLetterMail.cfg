SPECIFICATION MailSpec
CONSTANTS
  Volunteers = {v1, v2}
  Employees  = {e1}
  Letters    = {l1}
  Nil        = Nil
  TransTypes = {"chi"}
  MaxDay     = 3
  MaxCredits = 2
  ReturnDays <- MCReturnDays
  WithEmail  = {v1}
  MaxMails   = 4
  MaxSent    = 1
INVARIANTS
  OldNoticeOnce
  CreditsAreTold
PROPERTY
  AgainMeansAskedSince

SPECIFICATION Spec
CONSTANT MaxDay = 10
INVARIANTS
  DueCutoffIsWholeDays
  OldMeansDays
  RubyTodayLagsAfterMidnight
  ExportsLackOnlyTheLastDay
CHECK_DEADLOCK FALSE

SPECIFICATION Spec
CONSTANTS
  l1 = l1
  l2 = l2
  c1 = c1
  c2 = c2
  o1 = o1
  o2 = o2
  o3 = o3
  n1 = n1
  n2 = n2
  n3 = n3
  n4 = n4
  s1 = s1
  s2 = s2
  Letters = {l1, l2}
  Countries = {c1, c2}
  Recent = {l1, l2}
  OldKeys = {o1, o2, o3}
  NewKeys = {n1, n2, n3, n4}
  OldFiles <- MCOldFiles
  Moved <- MCMoved
  Slots = {s1, s2}
  MaxOverlaps = 1
  Nil = Nil
  Gone = Gone
SYMMETRY MCSymmetry
INVARIANTS
  TypeOK
  FilesKeepTheirMeaning
  MigrationLeavesNone
PROPERTIES
  ShelfUnlessRaced

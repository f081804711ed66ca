SPECIFICATION Spec
CONSTANTS
  Ids         = {1, 2}
  ann         = ann
  ann_blank   = ann_blank
  Names       = {ann, ann_blank}
  Stripped   <- MCStripped
  Roles       = {"voulenteer"}
  Letters     = {l1, l2}
  Browsers    = {b1}
  Slots       = {s1}
  MaxOverlaps = 0
  Nil         = Nil
SYMMETRY Symmetry
INVARIANTS
  HoldersAreAccounts
PROPERTIES
  NameLeavesLast

SPECIFICATION Spec
CONSTANTS
  both = both
  eng = eng
  owner = owner
  chief = chief
  l1 = l1
  n1 = n1
  n2 = n2
  Volunteers = {both, eng}
  Employees = {owner, chief}
  Households = {{both, eng}, {owner, chief}, {eng, chief}}
  VouType <- MCVouType
  Supervisor = chief
  Letters = {l1}
  Owner <- MCOwner
  TransType <- MCTransType
  Notes = {n1, n2}
  MaxSaves = 2
  Nil = Nil
SYMMETRY MCSymmetry
INVARIANTS
  TypeOK
  OneTabOpen
  CountsAreOwn
  DoneIsStored
PROPERTIES
  FormKeepsTab
  RefusalIsTold

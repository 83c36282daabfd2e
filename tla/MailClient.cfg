SPECIFICATION Spec
CONSTANTS
  l1 = l1
  l2 = l2
  l3 = l3
  d1 = d1
  d2 = d2
  Count = 2
  Domain = {d1, d2}
  Letter = {l1, l2, l3}
  DomainOf <- TwoAndOne
  StaleId <- FreedIds
  Stray = Stray
  MaxDelegations = 2
SYMMETRY SameDomain
INVARIANTS
  TypeOK
  NoDuplicateRecords
  OneWorkerPerLetter
  AwaitedOnce
CHECK_DEADLOCK FALSE

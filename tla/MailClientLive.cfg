SPECIFICATION FairSpec
CONSTANTS
  l1 = l1
  l2 = l2
  l3 = l3
  d1 = d1
  d2 = d2
  Count = 2
  Domain = {d1}
  Letter = {l1, l2}
  DomainOf <- OneDomain
  StaleId <- FreedIds
  Stray = Stray
  MaxDelegations = 2
PROPERTIES
  TasksAreTaken
  DisposeSettles
CHECK_DEADLOCK FALSE

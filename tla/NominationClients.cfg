SPECIFICATION Spec
CONSTANTS
  Contracts = {c1, c2}
  ContractInputs <- EndingContracts
  MaxTime = 2
  Noms = {n1, n2, n3}
  Volumes = {1, 2}
  MaxVolume = 2
  None = None
  Handlers = {h1, h2}
  OnePerNomination = TRUE
  Steady = {c1}
  ReuseContractIds = FALSE
SYMMETRY RequestSymmetry
CHECK_DEADLOCK FALSE
INVARIANTS LiveHoldsCapacity CapacityConserved OverbookTight
PROPERTIES NominationLifecycle ContractLifecycle EndedTakesNoMore

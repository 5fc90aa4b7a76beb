SPECIFICATION Spec
CONSTANTS
  Contracts = {c1}
  ContractInputs <- SmallContracts
  MaxTime = 1
  Noms = {n1, n2}
  Volumes = {1}
  MaxVolume = 1
  None = None
  Handlers = {h1, h2}
  OnePerNomination = TRUE
  Steady = {}
  ReuseContractIds = FALSE
SYMMETRY RequestSymmetry
CHECK_DEADLOCK FALSE
INVARIANT
  NoOverbook

SPECIFICATION Spec
CONSTANTS
  Contracts = {c1}
  ContractInputs <- SerialInputs
  MaxTime = 3
  Noms = {n1, n2, n3}
  Volumes = {1, 2}
  MaxVolume = 2
  None = None
  Handlers = {h1}
  OnePerNomination = FALSE
  Steady = {}
  ReuseContractIds = TRUE
CHECK_DEADLOCK FALSE
PROPERTY
  ImplementsAtomic

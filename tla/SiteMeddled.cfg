CONSTANTS
  Publishers = {p}
  MaxPublications = 2
  MaxFaults = 1
  MaxKills = 1
SPECIFICATION Spec
PROPERTIES OthersAreProtected
CHECK_DEADLOCK FALSE

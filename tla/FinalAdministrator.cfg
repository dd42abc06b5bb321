SPECIFICATION AdminSpec
CONSTANTS
  Administrators = {a1, a2, a3}
  Holders = {a1, a2}
CHECK_DEADLOCK FALSE
INVARIANTS
  ActiveAdministratorRemains

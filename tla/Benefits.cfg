SPECIFICATION Spec
CONSTANTS
  u1 = u1
  o1 = o1
  o2 = o2
  MonthStart <- MonthStarts
  LastMonth = 5
  MaxTime = 3
  ClockLag = 1
  Students = {u1}
  Suspendable = {u1}
  Removable = {u1}
  Events <- ProviderEvents
  Organizations = {o1, o2}
  MaxInvitations = 2
  InvitationLife = 1
SYMMETRY OrganizationSymmetry
CHECK_DEADLOCK FALSE
INVARIANTS
  BalanceFollowsLedger
  BenefitsFollowPeriods
PROPERTIES
  NothingIsRevived

SPECIFICATION RoleSpec
CONSTANTS
  u1 = u1
  u2 = u2
  u3 = u3
  t1 = t1
  Students = {u1, u2, u3}
  Teachers = {t1}
  Sessions <- OneSession
  StartsAt <- OneStart
  LessonUnit <- OneUnit
  Qualified <- AllQualified
  Available <- AnySession
  Capacities = {2}
  Adjustments = {}
  SuspensionTargets = {u1}
  RoleTargets <- StudentRole
  InitialCredits = 1
  MaxBookings = 3
  MaxEntries = 1
  MaxAbsences = 1
  MaxBalance = 2
  MaxVersion = 1
  MaxTime = 3
  MaxLag = 0
  BookingLead = 1
  WaitlistLead = 2
  RefundLead = 3
  ReminderLead = 3
  Duration = 2
  PromotionGrace = 1
SYMMETRY OtherStudentSymmetry
CHECK_DEADLOCK FALSE
INVARIANTS
  NoCommitmentCrossesRemoval

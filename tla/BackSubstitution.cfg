SPECIFICATION Spec
CONSTANTS
  u1 = u1
  u2 = u2
  u3 = u3
  t1 = t1
  t2 = t2
  Students = {u1}
  Teachers = {t1, t2}
  Sessions <- OneSession
  StartsAt <- OneStart
  LessonUnit <- OneUnit
  Qualified <- AllQualified
  Available <- AnySession
  Capacities = {2}
  Adjustments = {}
  SuspensionTargets = {}
  RoleTargets = {}
  InitialCredits = 1
  MaxBookings = 0
  MaxEntries = 0
  MaxAbsences = 2
  MaxBalance = 2
  MaxVersion = 0
  MaxTime = 4
  MaxLag = 0
  BookingLead = 1
  WaitlistLead = 2
  RefundLead = 3
  ReminderLead = 3
  Duration = 2
  PromotionGrace = 1
CHECK_DEADLOCK FALSE
INVARIANTS
  AcceptedReplacementSucceeds

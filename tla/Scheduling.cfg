SPECIFICATION SchedulingSpec
CONSTANTS
  u1 = u1
  u2 = u2
  u3 = u3
  t1 = t1
  t2 = t2
  Students = {u1, u2, u3, t2}
  Teachers = {t1, t2}
  Sessions <- TwoSessions
  StartsAt <- OverlappingStarts
  LessonUnit <- SameUnit
  Qualified <- AllQualified
  Available <- AnySession
  Capacities = {2}
  Adjustments = {}
  SuspensionTargets = {}
  RoleTargets = {}
  InitialCredits = 1
  MaxBookings = 3
  MaxEntries = 0
  MaxAbsences = 2
  MaxBalance = 2
  MaxVersion = 0
  MaxTime = 5
  MaxLag = 0
  BookingLead = 1
  WaitlistLead = 2
  RefundLead = 3
  ReminderLead = 3
  Duration = 2
  PromotionGrace = 1
  StudentEarly = 0
  TeacherEarly = 1
  TeachingAccess = 3
SYMMETRY LearnerSymmetry
CHECK_DEADLOCK FALSE
INVARIANTS
  SeatsReconcile
  CreditFollowsChain
  NoDoubleCommitment
  CommitmentsAreKept
  PagesAreTrue
PROPERTIES
  HistoryIsFinal

SPECIFICATION AccessSpec
CONSTANTS
  u1 = u1
  u2 = u2
  u3 = u3
  t1 = t1
  t2 = t2
  Students = {u1, u2, u3}
  Teachers = {t1}
  Sessions <- OneSession
  StartsAt <- EarlyStart
  LessonUnit <- OneUnit
  Qualified <- AllQualified
  Available <- AnySession
  Capacities = {2, 3}
  Adjustments <- CreditTaken
  SuspensionTargets = {u1}
  RoleTargets <- BothRoles
  InitialCredits = 1
  MaxBookings = 3
  MaxEntries = 1
  MaxAbsences = 1
  MaxBalance = 2
  MaxVersion = 1
  MaxTime = 3
  MaxLag = 0
  BookingLead = 1
  WaitlistLead = 2
  RefundLead = 3
  ReminderLead = 3
  Duration = 2
  PromotionGrace = 1
  StudentEarly = 0
  TeacherEarly = 1
  TeachingAccess = 3
  v1 = v1
  v2 = v2
  ReportedBookings <- ThreeBookings
  Attendees = {v1, v2}
  AttendeeOf <- AttendeeOfBooking
  HeldSessions <- TwoSessions
  SessionAttended <- SessionOfBooking
  SessionStart <- ConsecutiveStarts
  UnitTaught <- UnitOfSession
  Ties <- TwoTies
  TiedStudent <- StudentOfTie
  TiedTo <- OrganizationOfTie
  SessionLength = 1
  TimelyWindow = 1
  Ranges <- SomeRanges
  Cohorted <- SomeWindows
  CreditsPerGrant = 8
  ListLimit = 1
  AskedFor = {"b1"}
  Vacating = {"b1"}
  MaxRevised = 1
  LastInstant = 3
SYMMETRY OtherStudentSymmetry
CHECK_DEADLOCK FALSE
INVARIANTS
  CreditsReconcile
  CleanupsAreComplete
  ReportsHold
  PagesAreTrue
PROPERTIES
  FreedSeatIsRequested

SPECIFICATION FairWorkerSpec
CONSTANTS
  u1 = u1
  u2 = u2
  u3 = u3
  t1 = t1
  Students = {u1, u2, u3}
  Teachers = {t1}
  Sessions <- OneSession
  StartsAt <- OneStart
  LessonUnit <- OneUnit
  Qualified <- AllQualified
  Available <- AnySession
  Capacities = {2, 3}
  Adjustments = {}
  SuspensionTargets = {}
  RoleTargets = {}
  InitialCredits = 1
  MaxBookings = 3
  MaxEntries = 2
  MaxAbsences = 0
  MaxBalance = 2
  MaxVersion = 1
  MaxTime = 1
  MaxLag = 1
  MaxFailures = 1
  BookingLead = 1
  WaitlistLead = 2
  RefundLead = 3
  ReminderLead = 3
  Duration = 2
  PromotionGrace = 1
CHECK_DEADLOCK FALSE
INVARIANTS
  NoLostPromotion
  PromotionIsOneToOne
PROPERTIES
  ImplementsMarketplace
  EveryEntryIsServed

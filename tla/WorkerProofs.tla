---------------------------- MODULE WorkerProofs ----------------------------
(***************************************************************************)
(* Theorems about WaitlistWorker, for every value of its constants: the    *)
(* passes of the worker implement the atomic steps of Marketplace, and no  *)
(* promotion is lost however they interleave with everybody's requests.    *)
(***************************************************************************)
EXTENDS WaitlistWorker, MarketplaceProofs

PassType ==
  /\ phase \in {"IDLE", "EXPIRING", "REQUESTS", "CANDIDATES"}
  /\ passNow \in Int
  /\ todo \in SUBSET EntryIds
  /\ snapshot \in [Sessions -> Int]
  /\ current \in Sessions \cup {NoSession}

(* The clock of a pass is behind by no more than its bound, and while the  *)
(* candidates of a session are processed there is such a session: what     *)
(* every step of a pass needs to be a step of Marketplace.                 *)
PassIsTimely == phase # "IDLE" => passNow \in WorkerClocks

PassHasSession == phase = "CANDIDATES" => current \in Sessions

PassInvariant == TypedRows /\ PassType /\ PassIsTimely /\ PassHasSession

----------------------------------------------------------------------------
(* The refinement.                                                         *)

(* Every nonempty set of natural numbers has a least element.              *)
LEMMA LeastNumber ==
  ASSUME NEW S \in SUBSET Nat, S # {}
  PROVE  \E m \in S : \A n \in S : m <= n
<1> DEFINE Less == {ss \in Nat \X Nat : ss[1] < ss[2]}
<1>1. IsWellFoundedOn(Less, Nat)
  BY NatLessThanWellFounded DEF OpToRel
<1>2. PICK m \in S : \A n \in S : <<n, m>> \notin Less
  <2> HIDE DEF Less
  <2> QED BY <1>1, WFMin
<1>3. ASSUME NEW n \in S PROVE m <= n
  <2>1. m \in Nat /\ n \in Nat /\ <<n, m>> \notin Less
    BY <1>2
  <2> QED BY <2>1
<1> QED BY <1>3

LEMMA SomebodyIsNext ==
  ASSUME PassType, todo # {}
  PROVE  NextInLine \in todo
<1>1. todo \in SUBSET Nat
  BY ConstantsAssumption DEF PassType, EntryIds
<1>2. \E e \in todo : \A d \in todo : e <= d
  BY <1>1, LeastNumber
<1> QED BY <1>2 DEF NextInLine

\* What a candidate's transaction comes to.
LEMMA CandidateStep ==
  ASSUME PassInvariant, NEW requested, ProcessCandidate(requested),
         phase # "IDLE"
  PROVE  UNCHANGED vars \/ WaitlistWorkerStep
<1> DEFINE e == NextInLine
<1>1. e \in EntryIds
  BY SomebodyIsNext DEF ProcessCandidate, PassInvariant, PassType
<1>2. passNow \in WorkerClocks
  BY DEF PassInvariant, PassIsTimely
<1>3. \/ LeaveEntry(e, requested)
      \/ ExpireEntry(e, passNow)
      \/ CloseIneligibleEntry(e, passNow)
      \/ \E b \in BookingIds : PromoteEntry(e, b, passNow)
  BY DEF ProcessCandidate
<1> HIDE DEF e
<1> QED BY <1>1, <1>2, <1>3 DEF LeaveEntry, WaitlistWorkerStep

\* Every step of the worker's specification is a step of Marketplace or
\* changes no table.
LEMMA WorkerStepImplements ==
  PassInvariant /\ [WorkerNext]_workerVars => [Next]_vars
<1> SUFFICES ASSUME PassInvariant, [WorkerNext]_workerVars PROVE [Next]_vars
  OBVIOUS
<1>1. CASE EnvironmentStep
  BY <1>1 DEF EnvironmentStep, TimePasses, Next
<1>2. CASE PassStep
  <2>1. CASE StartPass \/ ReadRequests \/ EndPass \/ \E s \in Sessions : TakeRequest(s)
    BY <2>1 DEF StartPass, ReadRequests, EndPass, TakeRequest
  <2>2. CASE ProcessExpired \/ ProcessRequested
    BY <2>2, CandidateStep DEF ProcessExpired, ProcessRequested, Next
  <2>3. CASE FinishRequest
    BY <2>3 DEF FinishRequest, Next, WaitlistWorkerStep, PassInvariant,
                PassHasSession
  <2> QED BY <1>2, <2>1, <2>2, <2>3 DEF PassStep
<1>3. CASE FailPass
  BY <1>3 DEF FailPass
<1>4. CASE UNCHANGED workerVars
  BY <1>4 DEF workerVars
<1> QED BY <1>1, <1>2, <1>3, <1>4 DEF WorkerNext

LEMMA InitPass == WorkerInit => PassInvariant
<1> SUFFICES ASSUME WorkerInit PROVE PassInvariant
  OBVIOUS
<1> QED BY InitType DEF WorkerInit, PassInvariant, PassType, PassIsTimely,
                        PassHasSession, NoRequest

\* A clock that was in time still is, as long as no time passes.
LEMMA ClocksStay ==
  ASSUME now' = now
  PROVE  WorkerClocks' = WorkerClocks
BY DEF WorkerClocks

\* Everybody's requests leave the pass as it is, and time passes within its
\* bound.
LEMMA EnvironmentPass ==
  ASSUME PassInvariant, EnvironmentStep
  PROVE  UNCHANGED passVars /\ PassIsTimely'
<1>1. UNCHANGED passVars
  BY DEF EnvironmentStep
<1>2. CASE now' = now
  BY <1>1, <1>2, ClocksStay DEF PassInvariant, PassIsTimely, passVars
<1>3. CASE TimePasses
  <2>1. now \in 0 .. MaxTime /\ now' = now + 1 /\ MaxLag \in Nat
    BY <1>3, ConstantsAssumption DEF TimePasses, Tick, PassInvariant, TypedRows,
                                     TypeOK
  <2>2. phase # "IDLE" => passNow \in 0 .. now /\ now - passNow < MaxLag
    BY <1>3 DEF TimePasses, PassInvariant, PassIsTimely, WorkerClocks
  <2>3. phase # "IDLE" => passNow \in 0 .. now' /\ now' - passNow <= MaxLag
    BY <2>1, <2>2, ConstantsAssumption
  <2> QED BY <1>1, <2>3 DEF PassIsTimely, WorkerClocks, passVars
<1>4. now' = now \/ TimePasses
  <2>1. \A u \in Students : StudentRequest(u) => now' = now
    BY ZenonT(60) DEF StudentRequest, BookClassSession, CancelBooking, RescheduleBooking,
           JoinWaitlist, WithdrawWaitlist
  <2>2. \A t \in Teachers : TeacherRequest(t) => now' = now
    BY DEF TeacherRequest, ReportAbsence
  <2>3. AdministratorRequest => now' = now
    BY DEF AdministratorRequest, PublishClassSession, AdjustClassCredits,
           ChangeClassSessionSeatCapacity, SubstituteTeacher, CancelClassSession
  <2>4. AccessRequest => now' = now
    BY DEF AccessRequest, SuspendUser, ReactivateUser, GrantRoleAssignment,
           RemoveStudentRole, RemoveTeacherRole
  <2>5. ReminderWorkerStep => now' = now
    BY DEF ReminderWorkerStep, DeliverClassSessionReminder
  <2> QED BY <2>1, <2>2, <2>3, <2>4, <2>5 DEF EnvironmentStep
<1> QED BY <1>1, <1>2, <1>3, <1>4

LEMMA WorkerClockKept ==
  ASSUME PassInvariant, PassStep \/ FailPass
  PROVE  now' = now
<1>1. ASSUME NEW requested, ProcessCandidate(requested) PROVE now' = now
  BY <1>1 DEF ProcessCandidate, LeaveEntry, ExpireEntry, CloseIneligibleEntry,
              PromoteEntry, vars
<1>2. FinishRequest => now' = now
  BY DEF FinishRequest, MarkRequestProcessed, vars
<1> QED BY <1>1, <1>2 DEF PassStep, FailPass, StartPass, ProcessExpired,
           ReadRequests, TakeRequest, ProcessRequested, EndPass, vars

LEMMA StepPass == PassInvariant /\ [WorkerNext]_workerVars => PassInvariant'
<1> SUFFICES ASSUME PassInvariant, [WorkerNext]_workerVars PROVE PassInvariant'
  OBVIOUS
<1>1. TypedRows'
  BY WorkerStepImplements, StepType DEF PassInvariant
<1>2. /\ PassType /\ PassIsTimely /\ PassHasSession
      /\ now \in 0 .. MaxTime /\ requestVersion \in [Sessions -> Nat]
  BY DEF PassInvariant, TypedRows, TypeOK
<1>3. CASE EnvironmentStep
  <2>1. UNCHANGED passVars /\ PassIsTimely'
    BY <1>3, EnvironmentPass
  <2> QED BY <1>1, <1>2, <2>1 DEF PassInvariant, PassType, PassHasSession, passVars
<1>4. CASE PassStep
  <2>1. WorkerClocks' = WorkerClocks
    BY <1>4, WorkerClockKept, ClocksStay
  <2>2. CASE StartPass
    <3>1. now \in WorkerClocks
      BY <1>2, ConstantsAssumption DEF WorkerClocks
    <3> QED BY <1>1, <1>2, <2>1, <2>2, <3>1
            DEF StartPass, PassInvariant, PassType, PassIsTimely, PassHasSession,
                ActiveEntries
  <2>3. ASSUME NEW requested, ProcessCandidate(requested),
               phase \in {"EXPIRING", "CANDIDATES"}
        PROVE  PassInvariant'
    BY <1>1, <1>2, <2>1, <2>3
       DEF ProcessCandidate, PassInvariant, PassType, PassIsTimely, PassHasSession
  <2>4. CASE ReadRequests
    BY <1>1, <1>2, <2>1, <2>4
       DEF ReadRequests, PassInvariant, PassType, PassIsTimely, PassHasSession,
           NoRequest
  <2>5. ASSUME NEW s \in Sessions, TakeRequest(s) PROVE PassInvariant'
    BY <1>1, <1>2, <2>1, <2>5
       DEF TakeRequest, PassInvariant, PassType, PassIsTimely, PassHasSession,
           ActiveEntries
  <2>6. CASE FinishRequest
    BY <1>1, <1>2, <2>1, <2>6
       DEF FinishRequest, PassInvariant, PassType, PassIsTimely, PassHasSession,
           NoRequest
  <2>7. CASE EndPass
    BY <1>1, <1>2, <2>1, <2>7
       DEF EndPass, Idle, PassInvariant, PassType, PassIsTimely, PassHasSession,
           NoRequest
  <2> QED BY <1>4, <2>2, <2>3, <2>4, <2>5, <2>6, <2>7
          DEF PassStep, ProcessExpired, ProcessRequested
<1>5. CASE FailPass
  BY <1>1, <1>5
     DEF FailPass, Idle, PassInvariant, PassType, PassIsTimely, PassHasSession,
         NoRequest
<1>6. CASE UNCHANGED workerVars
  <2>1. UNCHANGED <<now, passVars>>
    BY <1>6 DEF workerVars, vars
  <2> QED BY <1>1, <1>2, <2>1, ClocksStay
          DEF PassInvariant, PassType, PassIsTimely, PassHasSession, passVars
<1> QED BY <1>3, <1>4, <1>5, <1>6 DEF WorkerNext

LEMMA PassesStayTimely == WorkerSpec => []PassInvariant
<1> QED BY InitPass, StepPass, PTL DEF WorkerSpec

(* Every pass of the worker, with its snapshots, its stale clock and its   *)
(* failures, is made of the atomic steps of Marketplace: a transaction per *)
(* candidate that promotes, expires or closes one entry or leaves all      *)
(* tables alone (processWaitlistEntries).  So everything proved of         *)
(* Marketplace holds with the worker running.                              *)
THEOREM WorkerImplementsMarketplace == WorkerSpec => ImplementsMarketplace
<1>1. WorkerInit => Init
  BY DEF WorkerInit
<1> QED BY <1>1, InitPass, StepPass, WorkerStepImplements, PTL
        DEF WorkerSpec, ImplementsMarketplace, Spec

(* With the worker's passes running, a promoted entry is still one Booking *)
(* of the same Student and session, made once.                             *)
THEOREM WorkerPromotesOneToOne == WorkerSpec => []PromotionIsOneToOne
<1>1. Spec => []PromotionIsOneToOne
  BY PromotionsAreOneToOne
<1> QED BY <1>1, WorkerImplementsMarketplace, PTL DEF ImplementsMarketplace

----------------------------------------------------------------------------
(* What a step of Marketplace does to whoever waits.                       *)

OffersSeat(s) == sessionState[s] = "PUBLISHED" /\ HasFreeSeat(s)

\* The entry keeps its session, and waits only if it did.
Follows(e) ==
  /\ entries'[e].session = entries[e].session
  /\ \/ entries'[e].state = entries[e].state
     \/ entries[e].state # "NONE" /\ entries'[e].state \notin {"NONE", "ACTIVE"}

\* A new entry waits for a session that is full.
JoinsQueue(e) ==
  /\ entries[e].state = "NONE"
  /\ UNCHANGED sessionVars
  /\ sessionState[entries'[e].session] = "PUBLISHED"
  /\ ~HasFreeSeat(entries'[e].session)

EntriesAdvance == \A e \in EntryIds : Follows(e) \/ JoinsQueue(e)

\* A session is published once.
SessionsStayPublished ==
  \A s \in Sessions :
    /\ sessionState[s] # "NONE" => sessionState'[s] # "NONE"
    /\ sessionState[s] = "CANCELLED" => sessionState'[s] = "CANCELLED"

VersionsGrow == \A s \in Sessions : requestVersion'[s] >= requestVersion[s]

RequestsStay == \A s \in Sessions : requestPending[s] => requestPending'[s]

LEMMA ClosedEntriesAdvance ==
  ASSUME TypedRows, NEW E \in SUBSET ActiveEntries, entries' = CloseEntries(E)
  PROVE  EntriesAdvance
<1> SUFFICES ASSUME NEW e \in EntryIds PROVE Follows(e)
  BY DEF EntriesAdvance
<1>1. entries[e] \in Entry
  BY DEF TypedRows, TypeOK
<1>2. CASE e \in E
  <2>1. /\ entries'[e] = [entries[e] EXCEPT !.state = "INELIGIBLE"]
        /\ entries[e].state = "ACTIVE"
    BY <1>2 DEF CloseEntries, ActiveEntries
  <2> QED BY <1>1, <2>1 DEF Follows, Entry
<1>3. CASE e \notin E
  <2>1. entries'[e] = entries[e]
    BY <1>3 DEF CloseEntries
  <2> QED BY <2>1 DEF Follows
<1> QED BY <1>2, <1>3

LEMMA OneEntryAdvances ==
  ASSUME TypedRows, NEW e \in EntryIds, entries[e].state = "ACTIVE",
         NEW state \in {"WITHDRAWN", "EXPIRED", "INELIGIBLE"},
         entries' = [entries EXCEPT ![e].state = state]
  PROVE  EntriesAdvance
BY DEF EntriesAdvance, Follows, TypedRows, TypeOK, Entry

LEMMA NextEntriesAdvance == TypedRows /\ [Next]_vars => EntriesAdvance
<1> SUFFICES ASSUME TypedRows, [Next]_vars PROVE EntriesAdvance
  OBVIOUS
<1>1. ASSUME UNCHANGED entries PROVE EntriesAdvance
  BY <1>1 DEF EntriesAdvance, Follows
<1>2. entries \in [EntryIds -> Entry]
  BY DEF TypedRows, TypeOK
<1>3. CASE \E u \in Students : StudentRequest(u)
  <2>1. ASSUME NEW u \in Students, NEW s \in Sessions, NEW e \in EntryIds,
               JoinWaitlist(u, s, e)
        PROVE  EntriesAdvance
    <3>1. /\ entries[e].state = "NONE" /\ UNCHANGED sessionVars
          /\ sessionState[s] = "PUBLISHED" /\ ~HasFreeSeat(s)
          /\ entries'[e].session = s
          /\ \A d \in EntryIds \ {e} : entries'[d] = entries[d]
      BY <1>2, <2>1 DEF JoinWaitlist, FreshEntry
    <3> QED BY <3>1 DEF EntriesAdvance, Follows, JoinsQueue
  <2>2. ASSUME NEW e \in EntryIds, WithdrawWaitlist(e) PROVE EntriesAdvance
    BY <2>2, OneEntryAdvances DEF WithdrawWaitlist
  <2>3. \/ UNCHANGED entries
        \/ \E u \in Students, s \in Sessions, e \in EntryIds : JoinWaitlist(u, s, e)
        \/ \E e \in EntryIds : WithdrawWaitlist(e)
    BY <1>3, ZenonT(30) DEF StudentRequest, BookClassSession, CancelBooking,
                RescheduleBooking
  <2> QED BY <1>1, <2>1, <2>2, <2>3
<1>4. CASE \E t \in Teachers : TeacherRequest(t)
  BY <1>1, <1>4 DEF TeacherRequest, ReportAbsence
<1>5. CASE AdministratorRequest
  <2>1. ASSUME NEW a, NEW s, CancelClassSession(a, s) PROVE EntriesAdvance
    BY <2>1, ClosedEntriesAdvance DEF CancelClassSession, ActiveEntries
  <2>2. UNCHANGED entries \/ \E a, s : CancelClassSession(a, s)
    BY <1>5 DEF AdministratorRequest, PublishClassSession, AdjustClassCredits,
                ChangeClassSessionSeatCapacity, SubstituteTeacher
  <2> QED BY <1>1, <2>1, <2>2
<1>6. CASE AccessRequest
  <2>1. ASSUME NEW u, NEW reason, EndStudentCommitments(u, reason)
        PROVE  EntriesAdvance
    BY <2>1, ClosedEntriesAdvance DEF EndStudentCommitments, ActiveEntries
  <2>2. UNCHANGED entries \/ \E u, reason : EndStudentCommitments(u, reason)
    BY <1>6 DEF AccessRequest, SuspendUser, RemoveStudentRole, ReactivateUser,
                GrantRoleAssignment, RemoveTeacherRole
  <2> QED BY <1>1, <2>1, <2>2
<1>7. CASE WaitlistWorkerStep
  <2>1. ASSUME NEW e \in EntryIds, NEW t, ExpireEntry(e, t) PROVE EntriesAdvance
    BY <2>1, OneEntryAdvances DEF ExpireEntry
  <2>2. ASSUME NEW e \in EntryIds, NEW t, CloseIneligibleEntry(e, t)
        PROVE  EntriesAdvance
    BY <2>2, OneEntryAdvances DEF CloseIneligibleEntry
  <2>3. ASSUME NEW e \in EntryIds, NEW b \in BookingIds, NEW t,
               PromoteEntry(e, b, t)
        PROVE  EntriesAdvance
    <3> DEFINE promoted == [entries[e] EXCEPT !.state = "PROMOTED"]
    <3>1. /\ promoted \in Entry /\ promoted.state = "PROMOTED"
          /\ promoted.session = entries[e].session
      BY <1>2 DEF Entry
    <3>2. /\ entries'[e] = [promoted EXCEPT !.booking = b]
          /\ \A d \in EntryIds \ {e} : entries'[d] = entries[d]
          /\ entries[e].state = "ACTIVE"
      BY <1>2, <2>3 DEF PromoteEntry
    <3> HIDE DEF promoted
    <3>3. /\ entries'[e].state = "PROMOTED"
          /\ entries'[e].session = entries[e].session
      BY <3>1, <3>2 DEF Entry
    <3> QED BY <3>2, <3>3 DEF EntriesAdvance, Follows
  <2>4. \/ UNCHANGED entries
        \/ \E e \in EntryIds, t \in WorkerClocks : ExpireEntry(e, t)
        \/ \E e \in EntryIds, t \in WorkerClocks : CloseIneligibleEntry(e, t)
        \/ \E e \in EntryIds, b \in BookingIds, t \in WorkerClocks :
             PromoteEntry(e, b, t)
    BY <1>7 DEF WaitlistWorkerStep, MarkRequestProcessed
  <2> QED BY <1>1, <2>1, <2>2, <2>3, <2>4
<1>8. CASE ReminderWorkerStep \/ Tick \/ UNCHANGED vars
  BY <1>1, <1>8 DEF ReminderWorkerStep, DeliverClassSessionReminder, Tick, vars
<1> QED BY <1>3, <1>4, <1>5, <1>6, <1>7, <1>8 DEF Next

LEMMA NextSessionsStay == TypedRows /\ [Next]_vars => SessionsStayPublished
<1> SUFFICES ASSUME TypedRows, [Next]_vars PROVE SessionsStayPublished
  OBVIOUS
<1>1. ASSUME UNCHANGED sessionState PROVE SessionsStayPublished
  BY <1>1 DEF SessionsStayPublished
<1>2. sessionState \in [Sessions -> {"NONE", "PUBLISHED", "CANCELLED"}]
  BY DEF TypedRows, TypeOK
<1>3. ASSUME NEW s \in Sessions, NEW t \in Teachers, NEW c \in Capacities,
             PublishClassSession(s, t, c)
      PROVE  SessionsStayPublished
  BY <1>2, <1>3 DEF PublishClassSession, SessionsStayPublished
<1>4. ASSUME NEW a \in AbsenceIds, NEW s \in Sessions, CancelClassSession(a, s)
      PROVE  SessionsStayPublished
  BY <1>2, <1>4 DEF CancelClassSession, SessionsStayPublished
<1>5. \/ UNCHANGED sessionState
      \/ \E s \in Sessions, t \in Teachers, c \in Capacities :
           PublishClassSession(s, t, c)
      \/ \E a \in AbsenceIds, s \in Sessions : CancelClassSession(a, s)
  <2>1. \A u \in Students : StudentRequest(u) => UNCHANGED sessionState
    BY ZenonT(60) DEF StudentRequest, BookClassSession, CancelBooking, RescheduleBooking,
           JoinWaitlist, WithdrawWaitlist, sessionVars
  <2>2. \A t \in Teachers : TeacherRequest(t) => UNCHANGED sessionState
    BY DEF TeacherRequest, ReportAbsence, sessionVars
  <2>3. AdministratorRequest =>
          \/ UNCHANGED sessionState
          \/ \E s \in Sessions, t \in Teachers, c \in Capacities :
               PublishClassSession(s, t, c)
          \/ \E a \in AbsenceIds, s \in Sessions : CancelClassSession(a, s)
    BY DEF AdministratorRequest, SubstituteTeacher, AdjustClassCredits,
           ChangeClassSessionSeatCapacity, sessionVars
  <2>4. AccessRequest => UNCHANGED sessionState
    BY DEF AccessRequest, SuspendUser, ReactivateUser, sessionVars,
           GrantRoleAssignment, RemoveStudentRole, RemoveTeacherRole
  <2>5. WaitlistWorkerStep => UNCHANGED sessionState
    BY DEF WaitlistWorkerStep, ExpireEntry, CloseIneligibleEntry, PromoteEntry,
           MarkRequestProcessed, sessionVars
  <2>6. ReminderWorkerStep \/ Tick \/ UNCHANGED vars => UNCHANGED sessionState
    BY DEF ReminderWorkerStep, DeliverClassSessionReminder, Tick, vars, sessionVars
  <2> QED BY <2>1, <2>2, <2>3, <2>4, <2>5, <2>6 DEF Next
<1> QED BY <1>1, <1>3, <1>4, <1>5

\* Nothing but the end of a pass over a session takes its request away.
NothingIsWithdrawn == VersionsGrow /\ RequestsStay

LEMMA UnchangedRequests ==
  ASSUME TypedRows, UNCHANGED requestVars
  PROVE  NothingIsWithdrawn
BY DEF NothingIsWithdrawn, VersionsGrow, RequestsStay, requestVars, TypedRows, TypeOK

LEMMA RequestedPromotions ==
  ASSUME TypedRows, NEW n \in [Sessions -> Nat], RequestPromotions(n)
  PROVE  NothingIsWithdrawn
<1> SUFFICES ASSUME NEW s \in Sessions
             PROVE  /\ requestVersion'[s] >= requestVersion[s]
                    /\ requestPending[s] => requestPending'[s]
  BY DEF NothingIsWithdrawn, VersionsGrow, RequestsStay
<1>1. requestVersion'[s] = requestVersion[s] + n[s] /\ n[s] \in Nat
  BY DEF RequestPromotions
<1>2. requestPending'[s] = (requestPending[s] \/ n[s] > 0)
  BY DEF RequestPromotions
<1> QED BY <1>1, <1>2 DEF TypedRows, TypeOK

LEMMA EnvironmentWithdrawsNothing ==
  TypedRows /\ EnvironmentStep => NothingIsWithdrawn
<1> SUFFICES ASSUME TypedRows, EnvironmentStep PROVE NothingIsWithdrawn
  OBVIOUS
<1>1. ASSUME NEW s, RequestPromotions(Once(s)) PROVE NothingIsWithdrawn
  <2>1. Once(s) \in [Sessions -> Nat]
    BY DEF Once
  <2> QED BY <1>1, <2>1, RequestedPromotions
<1>2. ASSUME NEW u, NEW reason, EndStudentCommitments(u, reason)
      PROVE  NothingIsWithdrawn
  <2>1. SeatsFreed(FutureBookings(u)) \in [Sessions -> Nat]
    BY SeatsFreedType DEF FutureBookings
  <2> QED BY <1>2, <2>1, RequestedPromotions DEF EndStudentCommitments
<1>3. \A u \in Students : StudentRequest(u) =>
        UNCHANGED requestVars \/ \E s : RequestPromotions(Once(s))
  BY ZenonT(60) DEF StudentRequest, BookClassSession, CancelBooking, RescheduleBooking,
         JoinWaitlist, WithdrawWaitlist
<1>4. \A t \in Teachers : TeacherRequest(t) => UNCHANGED requestVars
  BY DEF TeacherRequest, ReportAbsence
<1>5. AdministratorRequest =>
        UNCHANGED requestVars \/ \E s : RequestPromotions(Once(s))
  BY DEF AdministratorRequest, PublishClassSession, AdjustClassCredits,
         ChangeClassSessionSeatCapacity, SubstituteTeacher, CancelClassSession
<1>6. AccessRequest =>
        UNCHANGED requestVars \/ \E u, reason : EndStudentCommitments(u, reason)
  BY DEF AccessRequest, SuspendUser, ReactivateUser, GrantRoleAssignment,
         RemoveStudentRole, RemoveTeacherRole
<1>7. ReminderWorkerStep \/ TimePasses => UNCHANGED requestVars
  BY DEF ReminderWorkerStep, DeliverClassSessionReminder, TimePasses, Tick
<1> QED BY <1>1, <1>2, <1>3, <1>4, <1>5, <1>6, <1>7, UnchangedRequests
        DEF EnvironmentStep

LEMMA CandidateWithdrawsNothing ==
  ASSUME TypedRows, NEW requested, ProcessCandidate(requested)
  PROVE  NothingIsWithdrawn
<1>1. UNCHANGED requestVars
  BY DEF ProcessCandidate, LeaveEntry, ExpireEntry, CloseIneligibleEntry,
         PromoteEntry, vars, requestVars
<1> QED BY <1>1, UnchangedRequests

----------------------------------------------------------------------------
(* No promotion is lost.                                                   *)

EntriesArePublished ==
  \A e \in EntryIds : entries[e].state # "NONE" =>
    entries[e].session \in Sessions /\ sessionState[entries[e].session] # "NONE"

(* A version read by the pass is one the request had.                      *)
SnapshotsAreOld == \A s \in Sessions : snapshot[s] <= requestVersion[s]

CandidatesAreOfSession ==
  phase = "CANDIDATES" =>
    \A e \in todo : entries[e].state # "NONE" /\ entries[e].session = current

(* As long as nobody asked again, whoever waits for the session while it   *)
(* has a free seat is still among the candidates to be processed: the ones *)
(* behind were promoted or closed, and nobody joins the queue of a session *)
(* with a free seat.                                                       *)
CandidatesAreComplete ==
  phase = "CANDIDATES" /\ snapshot[current] = requestVersion[current]
    /\ OffersSeat(current)
  => WaitingFor(current) \subseteq todo

WaitlistInvariant ==
  /\ PassInvariant
  /\ EntriesArePublished /\ SnapshotsAreOld
  /\ CandidatesAreOfSession /\ CandidatesAreComplete
  /\ NoLostPromotion

LEMMA InitWaitlist == WorkerInit => WaitlistInvariant
<1> SUFFICES ASSUME WorkerInit PROVE WaitlistInvariant
  OBVIOUS
<1>1. \A e \in EntryIds : entries[e].state = "NONE"
  BY DEF WorkerInit, Init, NoEntry
<1>2. NoLostPromotion /\ EntriesArePublished
  BY <1>1 DEF NoLostPromotion, EntriesArePublished, WaitingFor, ActiveEntries
<1>3. SnapshotsAreOld /\ CandidatesAreOfSession /\ CandidatesAreComplete
  BY DEF WorkerInit, Init, SnapshotsAreOld, CandidatesAreOfSession,
         CandidatesAreComplete, NoRequest
<1> QED BY <1>2, <1>3, InitPass DEF WaitlistInvariant

\* What is known of every step.
LEMMA StepAdvances ==
  ASSUME WaitlistInvariant, [WorkerNext]_workerVars
  PROVE  /\ PassInvariant' /\ EntriesAdvance /\ SessionsStayPublished
         /\ RequestsFreedSeats
BY StepPass, WorkerStepImplements, NextEntriesAdvance, NextSessionsStay,
   NextRequestsFreedSeats DEF WaitlistInvariant, PassInvariant

LEMMA StepEntriesPublished ==
  ASSUME WaitlistInvariant, [WorkerNext]_workerVars
  PROVE  EntriesArePublished'
<1> SUFFICES ASSUME NEW e \in EntryIds, entries'[e].state # "NONE"
             PROVE  /\ entries'[e].session \in Sessions
                    /\ sessionState'[entries'[e].session] # "NONE"
  BY DEF EntriesArePublished
<1>1. entries'[e].session \in Sessions
  BY StepAdvances DEF PassInvariant, TypedRows, RowsNamed
<1>2. CASE Follows(e)
  BY <1>1, <1>2, StepAdvances
     DEF Follows, WaitlistInvariant, EntriesArePublished, SessionsStayPublished
<1>3. CASE JoinsQueue(e)
  <2>1. /\ sessionState' = sessionState
        /\ sessionState[entries'[e].session] = "PUBLISHED"
    BY <1>3 DEF JoinsQueue, sessionVars
  <2> QED BY <1>1, <2>1
<1> QED BY <1>2, <1>3, StepAdvances DEF EntriesAdvance

\* Whoever waits for a session with a free seat waited for it before.
LEMMA WaitedBefore ==
  ASSUME WaitlistInvariant, EntriesAdvance, NEW s \in Sessions,
         OffersSeat(s)', NEW e \in WaitingFor(s)'
  PROVE  e \in WaitingFor(s) /\ sessionState[s] # "NONE"
<1>1. e \in EntryIds /\ entries'[e].state = "ACTIVE" /\ entries'[e].session = s
  BY DEF WaitingFor, ActiveEntries
<1>2. ~JoinsQueue(e)
  BY <1>1 DEF JoinsQueue, OffersSeat, HasFreeSeat, sessionVars
<1>3. entries[e].state = "ACTIVE" /\ entries[e].session = s
  BY <1>1, <1>2 DEF EntriesAdvance, Follows
<1> QED BY <1>1, <1>3 DEF WaitingFor, ActiveEntries, WaitlistInvariant,
                          EntriesArePublished

\* A session that has come to have a free seat was asked for.
LEMMA OfferedBefore ==
  ASSUME WaitlistInvariant, TypedRows', SessionsStayPublished, RequestsFreedSeats,
         NEW s \in Sessions, OffersSeat(s)', sessionState[s] # "NONE"
  PROVE  OffersSeat(s) \/ IsRequested(s)
<1>1. sessionState[s] = "PUBLISHED" /\ sessionState'[s] = "PUBLISHED"
  BY DEF OffersSeat, SessionsStayPublished, WaitlistInvariant, PassInvariant,
         TypedRows, TypeOK
<1>2. /\ seatCapacity[s] \in Int /\ occupiedSeats[s] \in Int
      /\ seatCapacity'[s] \in Int /\ occupiedSeats'[s] \in Int
  BY DEF WaitlistInvariant, PassInvariant, TypedRows, TypeOK
<1>3. occupiedSeats'[s] < seatCapacity'[s]
  BY DEF OffersSeat, HasFreeSeat
<1>4. CASE occupiedSeats[s] < seatCapacity[s]
  BY <1>1, <1>4 DEF OffersSeat, HasFreeSeat
<1>5. CASE ~(occupiedSeats[s] < seatCapacity[s])
  <2>1. seatCapacity'[s] - occupiedSeats'[s] > seatCapacity[s] - occupiedSeats[s]
    BY <1>2, <1>3, <1>5
  <2> QED BY <1>1, <2>1 DEF RequestsFreedSeats, IsRequested
<1> QED BY <1>4, <1>5

LEMMA StepNoLostPromotion ==
  ASSUME WaitlistInvariant, [WorkerNext]_workerVars, NothingIsWithdrawn
  PROVE  NoLostPromotion'
<1> SUFFICES ASSUME NEW s \in Sessions, OffersSeat(s)', NEW e \in WaitingFor(s)'
             PROVE  requestPending'[s]
  BY DEF NoLostPromotion, OffersSeat
<1>1. e \in WaitingFor(s) /\ sessionState[s] # "NONE"
  BY StepAdvances, WaitedBefore
<1>2. OffersSeat(s) \/ IsRequested(s)
  BY <1>1, StepAdvances, OfferedBefore DEF PassInvariant
<1>3. OffersSeat(s) => requestPending[s]
  BY <1>1 DEF WaitlistInvariant, NoLostPromotion, OffersSeat
<1> QED BY <1>2, <1>3 DEF NothingIsWithdrawn, RequestsStay, IsRequested

\* While the pass stays with its session, only candidates it has processed
\* may leave the list.
LEMMA StepCandidates ==
  ASSUME WaitlistInvariant, [WorkerNext]_workerVars, NothingIsWithdrawn,
         UNCHANGED <<phase, snapshot, current>>, todo' \subseteq todo,
         phase = "CANDIDATES" =>
           \A e \in todo \ todo' :
             OffersSeat(current)' => e \notin WaitingFor(current)'
  PROVE  SnapshotsAreOld' /\ CandidatesAreOfSession' /\ CandidatesAreComplete'
<1>1. SnapshotsAreOld'
  <2> SUFFICES ASSUME NEW s \in Sessions PROVE snapshot[s] <= requestVersion'[s]
    BY DEF SnapshotsAreOld
  <2>1. /\ snapshot[s] <= requestVersion[s]
        /\ requestVersion[s] <= requestVersion'[s]
        /\ snapshot[s] \in Int /\ requestVersion[s] \in Int
        /\ requestVersion'[s] \in Int
    BY StepAdvances DEF WaitlistInvariant, SnapshotsAreOld, NothingIsWithdrawn,
       VersionsGrow, PassInvariant, PassType, TypedRows, TypeOK
  <2> QED BY <2>1
<1>2. CandidatesAreOfSession'
  <2> SUFFICES ASSUME phase = "CANDIDATES", NEW e \in todo'
               PROVE  entries'[e].state # "NONE" /\ entries'[e].session = current
    BY DEF CandidatesAreOfSession
  <2>1. /\ e \in EntryIds /\ entries[e].state # "NONE"
        /\ entries[e].session = current
    BY DEF WaitlistInvariant, CandidatesAreOfSession, PassInvariant, PassType
  <2>2. Follows(e)
    BY <2>1, StepAdvances DEF EntriesAdvance, JoinsQueue
  <2> QED BY <2>1, <2>2 DEF Follows
<1>3. CandidatesAreComplete'
  <2> SUFFICES ASSUME phase = "CANDIDATES",
                      snapshot[current] = requestVersion'[current],
                      OffersSeat(current)', NEW e \in WaitingFor(current)'
               PROVE  e \in todo'
    BY DEF CandidatesAreComplete, WaitingFor, OffersSeat, HasFreeSeat
  <2>1. current \in Sessions
    BY DEF WaitlistInvariant, PassInvariant, PassHasSession
  <2>2. e \in WaitingFor(current) /\ sessionState[current] # "NONE"
    BY <2>1, StepAdvances, WaitedBefore
  <2>3. /\ requestVersion[current] = requestVersion'[current]
        /\ ~(requestVersion'[current] > requestVersion[current])
    <3>1. /\ snapshot[current] <= requestVersion[current]
          /\ requestVersion[current] <= requestVersion'[current]
          /\ requestVersion[current] \in Int /\ requestVersion'[current] \in Int
      BY <2>1, StepAdvances
         DEF WaitlistInvariant, SnapshotsAreOld, NothingIsWithdrawn, VersionsGrow,
             PassInvariant, TypedRows, TypeOK
    <3> QED BY <3>1
  <2>4. OffersSeat(current)
    BY <2>1, <2>2, <2>3, StepAdvances, OfferedBefore
       DEF PassInvariant, IsRequested
  <2>5. e \in todo
    BY <2>2, <2>3, <2>4 DEF WaitlistInvariant, CandidatesAreComplete
  <2> QED BY <2>5
<1> QED BY <1>1, <1>2, <1>3

\* A candidate that was processed no longer waits, unless there is no seat.
LEMMA ProcessedCandidate ==
  ASSUME WaitlistInvariant, phase = "CANDIDATES", ProcessCandidate(TRUE)
  PROVE  \A e \in todo \ todo' :
           OffersSeat(current)' => e \notin WaitingFor(current)'
<1> DEFINE e == NextInLine
<1>1. /\ e \in todo /\ e \in EntryIds /\ todo' = todo \ {e}
      /\ UNCHANGED current
  BY SomebodyIsNext DEF ProcessCandidate, WaitlistInvariant, PassInvariant, PassType
<1>2. \/ LeaveEntry(e, TRUE)
      \/ ExpireEntry(e, passNow)
      \/ CloseIneligibleEntry(e, passNow)
      \/ \E b \in BookingIds : PromoteEntry(e, b, passNow)
  BY DEF ProcessCandidate
<1>3. entries \in [EntryIds -> Entry]
  BY DEF WaitlistInvariant, PassInvariant, TypedRows, TypeOK
<1> HIDE DEF e
<1>4. SUFFICES ASSUME OffersSeat(current)', entries'[e].state = "ACTIVE"
               PROVE  FALSE
  BY <1>1 DEF WaitingFor, ActiveEntries
<1>5. CASE LeaveEntry(e, TRUE)
  <2>1. UNCHANGED <<sessionState, seatCapacity, occupiedSeats, entries>>
    BY <1>5 DEF LeaveEntry, vars, sessionVars
  <2>2. OffersSeat(current) /\ entries[e].session = current
    BY <1>1, <1>4, <2>1
       DEF OffersSeat, HasFreeSeat, WaitlistInvariant, CandidatesAreOfSession
  <2>3. entries[e].state = "ACTIVE"
    BY <1>4, <2>1
  <2> QED BY <1>5, <2>2, <2>3 DEF LeaveEntry, OffersSeat
<1>6. ASSUME NEW state \in {"EXPIRED", "INELIGIBLE"},
             entries' = [entries EXCEPT ![e].state = state]
      PROVE  FALSE
  BY <1>1, <1>3, <1>4, <1>6 DEF Entry
<1>7. ASSUME NEW b \in BookingIds, PromoteEntry(e, b, passNow) PROVE FALSE
  <2> DEFINE promoted == [entries[e] EXCEPT !.state = "PROMOTED"]
  <2>1. promoted \in Entry /\ promoted.state = "PROMOTED"
    BY <1>1, <1>3 DEF Entry
  <2>2. entries'[e] = [promoted EXCEPT !.booking = b]
    BY <1>1, <1>3, <1>7 DEF PromoteEntry
  <2> HIDE DEF promoted
  <2> QED BY <1>4, <2>1, <2>2 DEF Entry
<1> QED BY <1>2, <1>5, <1>6, <1>7 DEF ExpireEntry, CloseIneligibleEntry

\* The request is marked in the version that was read: nobody is left.
LEMMA FinishedRequest ==
  ASSUME WaitlistInvariant, FinishRequest
  PROVE  NoLostPromotion' /\ SnapshotsAreOld'
<1>1. /\ current \in Sessions /\ todo = {} /\ phase = "CANDIDATES"
      /\ UNCHANGED <<sessionVars, entries, requestVersion>>
      /\ snapshot' = [snapshot EXCEPT ![current] = NoRequest]
  BY DEF FinishRequest, MarkRequestProcessed, vars, requestVars, WaitlistInvariant,
         PassInvariant, PassHasSession
<1>2. NoLostPromotion'
  <2> SUFFICES ASSUME NEW s \in Sessions, OffersSeat(s), WaitingFor(s) # {}
               PROVE  requestPending'[s]
    BY <1>1 DEF NoLostPromotion, OffersSeat, HasFreeSeat, WaitingFor,
                ActiveEntries, sessionVars
  <2>1. requestPending[s]
    BY DEF WaitlistInvariant, NoLostPromotion, OffersSeat
  <2>2. CASE UNCHANGED vars
    BY <2>1, <2>2 DEF vars, requestVars
  <2>3. CASE requestVersion[current] = snapshot[current]
             /\ MarkRequestProcessed(current)
    <3>1. s # current
      BY <1>1, <2>3 DEF WaitlistInvariant, CandidatesAreComplete
    <3> QED BY <2>1, <2>3, <3>1 DEF MarkRequestProcessed
  <2> QED BY <2>2, <2>3 DEF FinishRequest
<1>3. SnapshotsAreOld'
  <2> SUFFICES ASSUME NEW s \in Sessions PROVE snapshot'[s] <= requestVersion[s]
    BY <1>1 DEF SnapshotsAreOld
  <2>1. snapshot[s] <= requestVersion[s] /\ requestVersion[s] \in Nat
    BY DEF WaitlistInvariant, SnapshotsAreOld, PassInvariant, TypedRows, TypeOK
  <2>2. snapshot'[s] = snapshot[s] \/ snapshot'[s] = -1
    BY <1>1 DEF WaitlistInvariant, PassInvariant, PassType, NoRequest
  <2> QED BY <2>1, <2>2
<1> QED BY <1>2, <1>3

LEMMA StepWaitlist ==
  WaitlistInvariant /\ [WorkerNext]_workerVars => WaitlistInvariant'
<1> SUFFICES ASSUME WaitlistInvariant, [WorkerNext]_workerVars
             PROVE  WaitlistInvariant'
  OBVIOUS
<1>1. PassInvariant' /\ EntriesArePublished' /\ TypedRows
  BY StepAdvances, StepEntriesPublished DEF WaitlistInvariant, PassInvariant
<1>2. ASSUME UNCHANGED vars PROVE NothingIsWithdrawn
  BY <1>1, <1>2, UnchangedRequests DEF vars
<1>3. CASE EnvironmentStep
  <2>1. NothingIsWithdrawn /\ UNCHANGED <<phase, snapshot, current, todo>>
    BY <1>1, <1>3, EnvironmentWithdrawsNothing DEF EnvironmentStep, passVars
  <2> QED BY <1>1, <2>1, StepNoLostPromotion, StepCandidates DEF WaitlistInvariant
<1>4. CASE UNCHANGED workerVars
  <2>1. NothingIsWithdrawn /\ UNCHANGED <<phase, snapshot, current, todo>>
    BY <1>2, <1>4 DEF workerVars, passVars
  <2> QED BY <1>1, <2>1, StepNoLostPromotion, StepCandidates DEF WaitlistInvariant
<1>5. CASE ProcessExpired \/ ProcessRequested
  <2>1. /\ NothingIsWithdrawn /\ UNCHANGED <<phase, snapshot, current>>
        /\ todo' \subseteq todo
    BY <1>1, <1>5, CandidateWithdrawsNothing
       DEF ProcessExpired, ProcessRequested, ProcessCandidate
  <2>2. phase = "CANDIDATES" =>
          \A e \in todo \ todo' :
            OffersSeat(current)' => e \notin WaitingFor(current)'
    BY <1>5, ProcessedCandidate DEF ProcessExpired, ProcessRequested
  <2> QED BY <1>1, <2>1, <2>2, StepNoLostPromotion, StepCandidates
          DEF WaitlistInvariant
<1>6. CASE StartPass \/ ReadRequests \/ EndPass \/ FailPass
  <2>1. UNCHANGED vars /\ NoLostPromotion'
    BY <1>2, <1>6, StepNoLostPromotion
       DEF StartPass, ReadRequests, EndPass, FailPass
  <2>2. phase' # "CANDIDATES"
    BY <1>6 DEF StartPass, ReadRequests, EndPass, FailPass, Idle
  <2>3. SnapshotsAreOld'
    <3> SUFFICES ASSUME NEW s \in Sessions PROVE snapshot'[s] <= requestVersion[s]
      BY <2>1 DEF SnapshotsAreOld, vars, requestVars
    <3>1. snapshot[s] <= requestVersion[s] /\ requestVersion[s] \in Nat
      BY DEF WaitlistInvariant, SnapshotsAreOld, PassInvariant, TypedRows, TypeOK
    <3>2. snapshot'[s] \in {snapshot[s], requestVersion[s], -1}
      BY <1>6 DEF StartPass, ReadRequests, EndPass, FailPass, Idle, NoRequest
    <3> QED BY <3>1, <3>2
  <2> QED BY <1>1, <2>1, <2>2, <2>3
          DEF WaitlistInvariant, CandidatesAreOfSession, CandidatesAreComplete
<1>7. ASSUME NEW s \in Sessions, TakeRequest(s) PROVE WaitlistInvariant'
  <2>1. UNCHANGED vars /\ NoLostPromotion'
    BY <1>2, <1>7, StepNoLostPromotion DEF TakeRequest
  <2>2. /\ current' = s /\ snapshot' = snapshot /\ todo' = WaitingFor(s)
        /\ UNCHANGED <<entries, requestVersion>>
    BY <1>7, <2>1 DEF TakeRequest, WaitingFor, vars, requestVars
  <2>3. SnapshotsAreOld' /\ CandidatesAreOfSession' /\ CandidatesAreComplete'
    BY <2>2 DEF WaitlistInvariant, SnapshotsAreOld, CandidatesAreOfSession,
                CandidatesAreComplete, WaitingFor, ActiveEntries
  <2> QED BY <1>1, <2>1, <2>3 DEF WaitlistInvariant
<1>8. CASE FinishRequest
  <2>1. phase' = "REQUESTS"
    BY <1>8 DEF FinishRequest
  <2> QED BY <1>1, <1>8, <2>1, FinishedRequest
          DEF WaitlistInvariant, CandidatesAreOfSession, CandidatesAreComplete
<1> QED BY <1>3, <1>4, <1>5, <1>6, <1>7, <1>8 DEF WorkerNext, PassStep

(* Whatever seats are freed while a pass looks elsewhere, whichever pass   *)
(* fails half-way and however stale its snapshots are: while a published   *)
(* session has a free seat and somebody waiting, a request for it is       *)
(* pending (waitlist-worker.ts, the conditional update of                  *)
(* waitlist_promotion_requests).                                           *)
THEOREM NoPromotionIsLost == WorkerSpec => []NoLostPromotion
<1> QED BY InitWaitlist, StepWaitlist, PTL DEF WorkerSpec, WaitlistInvariant

============================================================================

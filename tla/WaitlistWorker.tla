--------------------------- MODULE WaitlistWorker ---------------------------
(***************************************************************************)
(* The waitlist worker pass by pass.  A pass (processWaitlistEntries)      *)
(* reads the clock once, takes snapshots of the expired entries, of the    *)
(* pending promotion requests with their versions and of the candidates of *)
(* each request, and then runs one transaction per candidate; requests of  *)
(* Students and Administrators commit between any two of those.  The job   *)
(* queue runs one pass at a time (WORKER_CONCURRENCY = 1), a pass that     *)
(* throws is abandoned, and the next one starts from new snapshots.        *)
(***************************************************************************)
EXTENDS MarketplaceProperties

CONSTANT MaxFailures      \* bound: passes that fail half-way

ASSUME FailuresAssumption == MaxFailures \in Nat

VARIABLES
  phase,        \* where the pass is
  passNow,      \* the clock the pass was started with
  todo,         \* entries of the current loop still to process
  snapshot,     \* request_version of the requests still to process
  current,      \* the Class Session whose request is being processed
  failures      \* passes that have failed so far

passVars == <<phase, passNow, todo, snapshot, current>>
workerVars == <<vars, passVars, failures>>

NoRequest == -1

Idle ==
  /\ phase' = "IDLE"
  /\ passNow' = 0
  /\ todo' = {}
  /\ snapshot' = [s \in Sessions |-> NoRequest]
  /\ current' = NoSession

WorkerInit ==
  /\ Init
  /\ phase = "IDLE"
  /\ passNow = 0
  /\ todo = {}
  /\ snapshot = [s \in Sessions |-> NoRequest]
  /\ current = NoSession
  /\ failures = 0

----------------------------------------------------------------------------
(* One pass.                                                               *)

\* Mutant: expired entries of sessions without a request are not looked for.
StartPassRequestsOnly ==
  /\ phase = "IDLE"
  /\ phase' = "EXPIRING"
  /\ passNow' = now
  /\ todo' = {}
  /\ UNCHANGED <<vars, snapshot, current, failures>>

StartPass ==
  /\ phase = "IDLE"
  /\ phase' = "EXPIRING"
  /\ passNow' = now
  /\ todo' = {e \in ActiveEntries : EntryExpired(e, now)}
  /\ UNCHANGED <<vars, snapshot, current, failures>>

\* Both loops go through their entries in join order.
NextInLine == CHOOSE e \in todo : \A d \in todo : e <= d

\* processCandidate leaves the entry as it is.
LeaveEntry(e, requested) ==
  /\ \/ entries[e].state # "ACTIVE"
     \/ /\ ~EntryExpired(e, passNow)
        /\ \/ ~requested
           \/ sessionState[entries[e].session] = "PUBLISHED"
                /\ ~HasFreeSeat(entries[e].session)
  /\ UNCHANGED vars

ProcessCandidate(requested) ==
  LET e == NextInLine IN
  /\ todo # {}
  /\ \/ LeaveEntry(e, requested)
     \/ ExpireEntry(e, passNow)
     \/ requested /\ CloseIneligibleEntry(e, passNow)
     \/ requested /\ \E b \in BookingIds : PromoteEntry(e, b, passNow)
  /\ todo' = todo \ {e}
  /\ UNCHANGED <<phase, passNow, snapshot, current, failures>>

ProcessExpired == phase = "EXPIRING" /\ ProcessCandidate(FALSE)

ReadRequests ==
  /\ phase = "EXPIRING" /\ todo = {}
  /\ phase' = "REQUESTS"
  /\ snapshot' = [s \in Sessions |-> IF requestPending[s]
                                     THEN requestVersion[s] ELSE NoRequest]
  /\ UNCHANGED <<vars, passNow, todo, current, failures>>

TakeRequest(s) ==
  /\ phase = "REQUESTS"
  /\ snapshot[s] # NoRequest
  /\ phase' = "CANDIDATES"
  /\ current' = s
  /\ todo' = {e \in ActiveEntries : entries[e].session = s}
  /\ UNCHANGED <<vars, passNow, snapshot, failures>>

ProcessRequested == phase = "CANDIDATES" /\ ProcessCandidate(TRUE)

\* Mutant: whatever the version is by now.
FinishAnyVersion ==
  /\ phase = "CANDIDATES" /\ todo = {}
  /\ IF requestPending[current]
     THEN MarkRequestProcessed(current) ELSE UNCHANGED vars
  /\ phase' = "REQUESTS"
  /\ snapshot' = [snapshot EXCEPT ![current] = NoRequest]
  /\ current' = NoSession
  /\ UNCHANGED <<passNow, todo, failures>>

\* Mutant: the request row is deleted, so that its version starts again.
FinishAndDelete ==
  /\ phase = "CANDIDATES" /\ todo = {}
  /\ requestVersion' = [requestVersion EXCEPT ![current] = 0]
  /\ requestPending' = [requestPending EXCEPT ![current] = FALSE]
  /\ phase' = "REQUESTS"
  /\ snapshot' = [snapshot EXCEPT ![current] = NoRequest]
  /\ current' = NoSession
  /\ UNCHANGED <<now, sessionVars, bookings, commitments, creditVars, entries,
                 absences, reminders, accessVars, passNow, todo, failures>>

\* The request is marked processed only in the version that was read.
FinishRequest ==
  /\ phase = "CANDIDATES" /\ todo = {}
  /\ IF requestVersion[current] = snapshot[current] /\ requestPending[current]
     THEN MarkRequestProcessed(current) ELSE UNCHANGED vars
  /\ phase' = "REQUESTS"
  /\ snapshot' = [snapshot EXCEPT ![current] = NoRequest]
  /\ current' = NoSession
  /\ UNCHANGED <<passNow, todo, failures>>

EndPass ==
  /\ phase = "REQUESTS"
  /\ \A s \in Sessions : snapshot[s] = NoRequest
  /\ Idle
  /\ UNCHANGED <<vars, failures>>

\* A transaction throws: it is rolled back and the whole pass ends.
FailPass ==
  /\ phase # "IDLE"
  /\ failures < MaxFailures
  /\ failures' = failures + 1
  /\ Idle
  /\ UNCHANGED vars

PassStep ==
  \/ StartPass
  \/ ProcessExpired
  \/ ReadRequests
  \/ \E s \in Sessions : TakeRequest(s)
  \/ ProcessRequested
  \/ FinishRequest
  \/ EndPass

----------------------------------------------------------------------------
(* Everybody else.                                                         *)

\* Bound: requests leave a Booking row for each entry still waiting, so that
\* the bound on Bookings never stops the worker.
RowsLeftForWaiting ==
  Cardinality(ActiveEntries)
    <= Cardinality({b \in BookingIds : bookings[b].state = "NONE"})

\* Bound: a pass lasts at most MaxLag ticks.
TimePasses == Tick /\ (phase # "IDLE" => now - passNow < MaxLag)

EnvironmentStep ==
  /\ \/ \E u \in Students : StudentRequest(u)
     \/ \E t \in Teachers : TeacherRequest(t)
     \/ AdministratorRequest
     \/ AccessRequest
     \/ ReminderWorkerStep
     \/ TimePasses
  /\ RowsLeftForWaiting'
  /\ UNCHANGED <<passVars, failures>>

WorkerNext == EnvironmentStep \/ PassStep \/ FailPass

WorkerSpec == WorkerInit /\ [][WorkerNext]_workerVars

\* The cron entry starts a pass every minute and the queue runs it.
FairWorkerSpec == WorkerSpec /\ WF_workerVars(PassStep)

----------------------------------------------------------------------------
(* Properties.                                                             *)

WaitingFor(s) == {e \in ActiveEntries : entries[e].session = s}

(* No promotion is lost: while a published session has both a free seat    *)
(* and somebody waiting, a promotion request for it is pending, whatever   *)
(* seats were freed while a pass was looking elsewhere and whichever pass  *)
(* failed half-way.                                                        *)
NoLostPromotion ==
  \A s \in Sessions :
    sessionState[s] = "PUBLISHED" /\ HasFreeSeat(s) /\ WaitingFor(s) # {}
      => requestPending[s]

(* The worker is an implementation of the atomic promotion steps of        *)
(* Marketplace: every pass step is one of them or changes no table.        *)
ImplementsMarketplace == Spec

(* A free seat with somebody waiting never stays so: it is given away or   *)
(* the queue empties.                                                      *)
FreeSeatIsOffered ==
  \A s \in Sessions :
    (sessionState[s] = "PUBLISHED" /\ HasFreeSeat(s) /\ WaitingFor(s) # {})
      ~> ~(sessionState[s] = "PUBLISHED" /\ HasFreeSeat(s) /\ WaitingFor(s) # {})

(* Every entry is closed, one way or another, once it has expired.         *)
ExpiredEntryIsClosed ==
  \A e \in EntryIds :
    (entries[e].state = "ACTIVE" /\ EntryExpired(e, now))
      ~> (entries[e].state # "ACTIVE")

(* Whoever waits is served in the end: offered the seat, or told it is     *)
(* over.                                                                   *)
EveryEntryIsServed == FreeSeatIsOffered /\ ExpiredEntryIsClosed

============================================================================

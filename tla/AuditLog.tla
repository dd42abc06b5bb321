------------------------------ MODULE AuditLog ------------------------------
(***************************************************************************)
(* The Audit Log: entries written into monthly partitions, the daily sweep  *)
(* that prepares partitions ahead and drops the expired ones, and a viewer *)
(* who reads the log page by page, newest first, and exports it while      *)
(* entries are written, roles change and requests are slow.                *)
(*                                                                         *)
(* Instants are those of the database; the client and the cursors know     *)
(* them to the Millisecond only.  Entries of one transaction carry the     *)
(* same instant, that of its beginning.                                    *)
(***************************************************************************)
EXTENDS Integers, Sequences, FiniteSets

CONSTANTS
  EntryIds,        \* numbers: ids are ordered and drawn at random
  EntryKinds,      \* what is written: by whom, in which role, the outcome
  Viewer, Colleagues, AuditFilters,
  PageSize, ExportLimit,
  Millisecond, Day, RangeDays, Month, RetentionTime,
  Delay,           \* how long a writing transaction lasts
  MaxInstant

ASSUME AuditLogAssumption ==
  /\ EntryIds \subseteq Nat
  /\ {PageSize, ExportLimit, Millisecond, Day, RangeDays, Month, RetentionTime}
       \subseteq Nat \ {0}

VARIABLES
  instant,
  partitions,      \* the months that have one
  log,             \* audit_entries
  written,         \* every entry ever written
  managers,        \* who manages the Organization of the viewer
  administers,     \* whether the viewer is a Platform Administrator
  sweep,           \* the pass of maintain_audit_partitions
  lastSweep,       \* the month of the last sweep that prepared partitions
  panel,           \* what the viewer's browser holds
  cached,          \* the first pages Apollo keeps, by filter
  older, export    \* the two queries it may have under way

auditVars ==
  <<instant, partitions, log, written, managers, administers, sweep,
    lastSweep, panel, cached, older, export>>
panelVars == <<panel, cached, older, export>>

MonthOf(i) == i \div Month
MillisecondOf(i) == (i \div Millisecond) * Millisecond
NoCursor == [at |-> -1, id |-> -1]
NoInfo == [next |-> FALSE, after |-> NoCursor]
NoPage == [entries |-> {}, info |-> NoInfo, basis |-> {}]
Unasked == [step |-> "NONE"]
Idle == [step |-> "IDLE"]

AuditLogInit ==
  /\ instant = 0
  /\ partitions = -3 .. 12
  /\ log = {}
  /\ written = {}
  /\ managers = Colleagues
  /\ administers \in BOOLEAN
  /\ sweep = Idle
  /\ lastSweep = 9
  /\ panel = [applied |-> CHOOSE f \in AuditFilters : f.outcome = "ANY",
              phase |-> "LOADING", first |-> NoPage, more |-> << >>,
              info |-> NoInfo, paging |-> FALSE, file |-> Unasked,
              basis |-> {}, mixed |-> FALSE]
  /\ cached = [f \in AuditFilters |-> NoPage]
  /\ older = Unasked
  /\ export = Unasked

----------------------------------------------------------------------------
(* Writing.                                                                *)

\* An entry needs the partition of its month; the trigger refuses any change
\* of one that is written.
Added(entries) ==
  /\ \A e \in entries : MonthOf(e.at) \in partitions
  /\ log' = log \cup entries
  /\ written' = written \cup entries

UnusedIds == EntryIds \ {e.id : e \in written}
Entry(i, at, kind) ==
  [id |-> i, at |-> at, by |-> kind.by, as |-> kind.as,
   outcome |-> kind.outcome]

\* A transaction that began a little earlier commits with its entries.
Write(ids, at, kind) ==
  /\ ids \subseteq UnusedIds
  /\ at >= 0
  /\ Added({Entry(i, at, kind) : i \in ids})
  /\ UNCHANGED <<instant, partitions, managers, administers, sweep, lastSweep,
                 panelVars>>

----------------------------------------------------------------------------
(* Retention.                                                              *)

Prepared(i) == MonthOf(i) .. MonthOf(i) + 3

\* Mutant: the month the cutoff falls into is dropped with the others.
ExpireTheCutoffMonth(i) ==
  {p \in partitions : p <= MonthOf(i - RetentionTime)}

ExpiredPartitions(i) == {p \in partitions : p < MonthOf(i - RetentionTime)}

PrepareSweep ==
  /\ sweep = Idle
  /\ partitions' = partitions \cup Prepared(instant)
  /\ sweep' = [step |-> "PREPARED", now |-> instant,
               unrecorded |-> Cardinality(Prepared(instant) \ partitions)]
  /\ lastSweep' = IF MonthOf(instant) > lastSweep THEN MonthOf(instant)
                                                  ELSE lastSweep
  /\ UNCHANGED <<instant, log, written, managers, administers, panelVars>>

\* The entries of a partition go with it.
ExpireSweep ==
  /\ sweep.step = "PREPARED"
  /\ partitions' = partitions \ ExpiredPartitions(sweep.now)
  /\ log' = {e \in log : MonthOf(e.at) \in partitions'}
  /\ sweep' = [sweep EXCEPT !.step = "EXPIRED",
                 !.unrecorded =
                   @ + Cardinality(ExpiredPartitions(sweep.now))]
  /\ UNCHANGED <<instant, written, managers, administers, lastSweep, panelVars>>

\* One entry for each partition, dated when the sweep began; nothing pages
\* through these, so how many are left to write is all that is kept.
RecordSweep ==
  /\ sweep.step = "EXPIRED" /\ sweep.unrecorded > 0
  /\ MonthOf(sweep.now) \in partitions
  /\ sweep' = [sweep EXCEPT !.unrecorded = @ - 1]
  /\ UNCHANGED <<instant, partitions, log, written, managers, administers,
                 lastSweep, panelVars>>

\* The pass is over; or the worker stops, and what was not recorded never is.
EndSweep ==
  /\ sweep # Idle
  /\ sweep' = Idle
  /\ UNCHANGED <<instant, partitions, log, written, managers, administers,
                 lastSweep, panelVars>>

----------------------------------------------------------------------------
(* Reading.                                                                *)

Scope ==
  IF administers THEN "MARKETPLACE_WIDE"
  ELSE IF Viewer \in managers THEN "ASSIGNED_ORGANIZATION" ELSE "NONE"

InScope(e) ==
  \/ Scope = "MARKETPLACE_WIDE"
  \/ /\ Scope = "ASSIGNED_ORGANIZATION"
     /\ e.as = "ORGANIZATION_MANAGER" /\ e.by \in managers

\* No dates were chosen: the range is the last days, today included.
RangeStart == (instant \div Day - (RangeDays - 1)) * Day

ScopedEntries(f) ==
  {e \in log : /\ e.at >= RangeStart
               /\ InScope(e)
               /\ f.outcome \in {"ANY", e.outcome}}

Newer(d, e) == d.at > e.at \/ (d.at = e.at /\ d.id > e.id)

\* Mutant: the entry the cursor names is listed again.
AfterInclusive(entries, cursor) ==
  IF cursor = NoCursor THEN entries
  ELSE {e \in entries : \/ e.at < cursor.at
                        \/ e.at = cursor.at /\ e.id <= cursor.id}

After(entries, cursor) ==
  IF cursor = NoCursor THEN entries
  ELSE {e \in entries : \/ e.at < cursor.at
                        \/ e.at = cursor.at /\ e.id < cursor.id}

NewestOf(entries, n) ==
  {e \in entries : Cardinality({d \in entries : Newer(d, e)}) < n}

\* The cursor holds the last instant to the millisecond.
PageOf(f, cursor) ==
  LET found == NewestOf(After(ScopedEntries(f), cursor), PageSize + 1)
      page == NewestOf(found, PageSize)
  IN [entries |-> page,
      info |->
        [next |-> Cardinality(found) > PageSize,
         after |-> IF page = {} THEN NoCursor
                   ELSE LET last == CHOOSE e \in page :
                                      \A d \in page \ {e} : Newer(d, e)
                        IN [at |-> MillisecondOf(last.at), id |-> last.id]],
      basis |-> ScopedEntries(f)]

\* Whoever holds neither role is refused, and the refusal is an entry.
Refusal == [by |-> Viewer, as |-> "NONE", outcome |-> "DENIED"]
Denied == \E i \in UnusedIds : Added({Entry(i, instant, Refusal)})

\* The older pages that were added stay behind a first page.
InfoOf(p) == IF p.more = << >> THEN p.first.info ELSE p.info
WithFirst(p, page) ==
  [p EXCEPT !.phase = "SHOWN", !.first = page, !.basis = page.basis]

LoadFirst ==
  /\ panel.phase = "LOADING"
  /\ IF Scope = "NONE"
     THEN /\ Denied
          /\ panel' = [panel EXCEPT !.phase = "FAILED"]
          /\ UNCHANGED cached
     ELSE LET page == PageOf(panel.applied, NoCursor)
          IN /\ panel' = WithFirst(panel, page)
             /\ cached' = [cached EXCEPT ![panel.applied] = page]
             /\ UNCHANGED <<log, written>>
  /\ UNCHANGED <<instant, partitions, managers, administers, sweep, lastSweep,
                 older, export>>

\* The older pages are let go.  A filter loaded before is shown from the
\* cache.
ApplyFilter(f) ==
  /\ panel.phase = "SHOWN"
  /\ LET cleared == [panel EXCEPT !.applied = f, !.more = << >>,
                       !.info = NoInfo, !.file = Unasked, !.mixed = FALSE]
     IN panel' = IF cached[f] = NoPage
                 THEN [cleared EXCEPT !.phase = "LOADING", !.first = NoPage,
                                      !.basis = {}]
                 ELSE WithFirst(cleared, cached[f])
  /\ UNCHANGED <<instant, partitions, log, written, managers, administers,
                 sweep, lastSweep, cached, older, export>>

\* The button of older entries is disabled until its query has ended.
ShowOlder ==
  /\ panel.phase = "SHOWN" /\ InfoOf(panel).next /\ ~panel.paging
  /\ panel' = [panel EXCEPT !.paging = TRUE]
  /\ older' = [step |-> "ASKED", filter |-> panel.applied,
               after |-> InfoOf(panel).after]
  /\ UNCHANGED <<instant, partitions, log, written, managers, administers,
                 sweep, lastSweep, cached, export>>

ReadOlder ==
  /\ older.step = "ASKED"
  /\ IF Scope = "NONE"
     THEN Denied /\ older' = [step |-> "REFUSED"]
     ELSE /\ older' = [step |-> "READ", filter |-> older.filter,
                       after |-> older.after,
                       page |-> PageOf(older.filter, older.after)]
          /\ UNCHANGED <<log, written>>
  /\ UNCHANGED <<instant, partitions, managers, administers, sweep, lastSweep,
                 panel, cached, export>>

\* Whether the page that arrives continues what is shown.
Continues ==
  /\ panel.phase = "SHOWN" /\ older.filter = panel.applied
  /\ older.after = InfoOf(panel).after

\* Whatever was applied meanwhile, the answer is added to what is shown.
AddOlder ==
  /\ older.step \in {"READ", "REFUSED"}
  /\ panel' = IF older.step = "REFUSED"
              THEN [panel EXCEPT !.paging = FALSE]
              ELSE [panel EXCEPT !.paging = FALSE,
                      !.more = Append(@, older.page.entries),
                      !.info = older.page.info,
                      !.basis = @ \cap older.page.basis,
                      !.mixed = @ \/ ~Continues]
  /\ older' = Unasked
  /\ UNCHANGED <<instant, partitions, log, written, managers, administers,
                 sweep, lastSweep, cached, export>>

\* Mutant: the export is cut at the limit and not refused.
FileCut(f) ==
  [kept |-> TRUE, entries |-> NewestOf(ScopedEntries(f), ExportLimit),
   all |-> ScopedEntries(f)]

\* One more than the limit is read, and refused.
FileOf(f) ==
  LET found == NewestOf(ScopedEntries(f), ExportLimit + 1)
  IN [kept |-> Cardinality(found) <= ExportLimit, entries |-> found,
      all |-> ScopedEntries(f)]

ExportEntries ==
  /\ panel.phase = "SHOWN" /\ export = Unasked
  /\ panel' = [panel EXCEPT !.file = Unasked]
  /\ export' = [step |-> "ASKED", filter |-> panel.applied]
  /\ UNCHANGED <<instant, partitions, log, written, managers, administers,
                 sweep, lastSweep, cached, older>>

\* Both outcomes leave an entry, in the role the viewer acts in.
ReadExport ==
  /\ export.step = "ASKED"
  /\ IF Scope = "NONE"
     THEN Denied /\ export' = [step |-> "REFUSED"]
     ELSE LET file == FileOf(export.filter)
          IN /\ export' = IF file.kept THEN [step |-> "READ", file |-> file]
                                       ELSE [step |-> "REFUSED"]
             /\ \E i \in UnusedIds :
                  Added({Entry(i, instant,
                    [by |-> Viewer,
                     as |-> IF administers THEN "PLATFORM_ADMINISTRATOR"
                            ELSE "ORGANIZATION_MANAGER",
                     outcome |-> IF file.kept THEN "SUCCEEDED" ELSE "DENIED"])})
  /\ UNCHANGED <<instant, partitions, managers, administers, sweep, lastSweep,
                 panel, cached, older>>

OfferExport ==
  /\ export.step \in {"READ", "REFUSED"}
  /\ panel' = IF export.step = "READ"
              THEN [panel EXCEPT
                      !.file = [step |-> "OFFERED", file |-> export.file]]
              ELSE panel
  /\ export' = Unasked
  /\ UNCHANGED <<instant, partitions, log, written, managers, administers,
                 sweep, lastSweep, cached, older>>

----------------------------------------------------------------------------
(* What happens around them.                                               *)

ChangeAdministration ==
  /\ administers' = ~administers
  /\ UNCHANGED <<instant, partitions, log, written, managers, sweep,
                 lastSweep, panelVars>>

ChangeManagers(m) ==
  /\ managers' = m
  /\ UNCHANGED <<instant, partitions, log, written, administers, sweep,
                 lastSweep, panelVars>>

\* The sweep runs every day: three months do not pass without one, counted
\* from the twelve that the migration prepares.
AuditTick ==
  /\ instant < MaxInstant
  /\ MonthOf(instant + 1) <= lastSweep + 3
  /\ instant' = instant + 1
  /\ UNCHANGED <<partitions, log, written, managers, administers, sweep,
                 lastSweep, panelVars>>

AuditLogNext ==
  \/ \E ids \in SUBSET EntryIds \ {{}} :
       \E d \in 0 .. Delay : \E kind \in EntryKinds : Write(ids, instant - d, kind)
  \/ PrepareSweep \/ ExpireSweep \/ RecordSweep \/ EndSweep
  \/ LoadFirst \/ ShowOlder \/ ReadOlder \/ AddOlder
  \/ \E f \in AuditFilters : ApplyFilter(f)
  \/ ExportEntries \/ ReadExport \/ OfferExport
  \/ ChangeAdministration
  \/ \E m \in SUBSET (Colleagues \cup {Viewer}) : ChangeManagers(m)
  \/ AuditTick

AuditLogSpec == AuditLogInit /\ [][AuditLogNext]_auditVars

----------------------------------------------------------------------------
(* Properties.                                                             *)

\* Retention takes nothing younger than its ninety days (the comment of
\* audit-retention-worker.ts:8-16), and as long as a sweep runs once in three
\* months every entry finds the partition of its month.
RetentionIsKept ==
  /\ \A e \in written \ log : e.at < instant - RetentionTime
  /\ MonthOf(instant) \in partitions

Pages == <<panel.first.entries>> \o panel.more
Listed == UNION {Pages[n] : n \in 1 .. Len(Pages)}
LastOf(page) == CHOOSE e \in page : \A d \in page \ {e} : Newer(d, e)
PageEnds == {LastOf(Pages[n]) : n \in {m \in 1 .. Len(Pages) : Pages[m] # {}}}

\* Pages read one after the other, while entries are written, expire and
\* change hands, list newest first, no entry twice, and leave out no entry
\* that was there for all of them, but one written in the same millisecond as
\* the last entry of a page: the cursor is no finer.  Pages asked for before
\* another filter was applied are excepted.
PagesListOnce ==
  panel.phase = "SHOWN" /\ ~panel.mixed =>
    /\ \A n, m \in 1 .. Len(Pages) : n < m =>
         \A d \in Pages[n], e \in Pages[m] : Newer(d, e)
    /\ \A e \in panel.basis \ Listed :
         \/ InfoOf(panel).next /\ \A d \in Listed : Newer(d, e)
         \/ \E d \in PageEnds : MillisecondOf(d.at) = MillisecondOf(e.at)

\* A file that is offered has every entry of its filter.
FilesAreWhole ==
  panel.file # Unasked => panel.file.file.entries = panel.file.file.all

\* What the log lists, gives away and forgets is accounted for.
AuditLogIsWhole == RetentionIsKept /\ PagesListOnce /\ FilesAreWhole

=============================================================================

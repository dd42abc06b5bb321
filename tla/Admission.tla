------------------------------ MODULE Admission ------------------------------
(* How the API decides whether to serve a request: the transport charges    *)
(* the source of the request, the boundary turns away a source that was     *)
(* denied too often, and a User pays for mutations and reports.  Budgets    *)
(* and the counters behind the abuse alerts live in the memory of the one   *)
(* API process.  Between these steps the process serves other requests.     *)
EXTENDS Integers, FiniteSets, FiniteSetsExt

CONSTANTS
  Sources,        \* addresses that Caddy verifies
  Proxy,          \* the address of Caddy, from which their requests come
  Prober,         \* the platform, which probes the API directly
  Accounts,       \* Users, whom a token resolves to
  NoAccount,      \* no token, or one that resolves to no User
  Slots,          \* requests under way at once
  SourceLimit, DenialLimit, MutationLimit, ReportLimit,
  SweepAt,        \* live keys at which expired windows are swept
  Minute,         \* ticks in a minute, and in the window of a budget
  AbuseMinutes,   \* minutes an alert looks back
  MaxRequests, LastTick    \* bounds

ASSUME AdmissionAssumption ==
  /\ SourceLimit \in Nat \ {0} /\ DenialLimit \in Nat \ {0}
  /\ MutationLimit \in Nat \ {0} /\ ReportLimit \in Nat \ {0}
  /\ Minute \in Nat \ {0} /\ AbuseMinutes \in Nat \ {0}

VARIABLES
  tick,
  bySource,     \* the budget of each address
  denials,      \* the budget of denied authorization of each address
  byUser,       \* the budgets of each User: one for mutations, one for reports
  slot,         \* the requests under way
  counted,      \* refusals by minute, those of unverified sources, denials
  runs,         \* consecutive minutes in which a source was refused
  history       \* what really happened, for the properties

admissionVars ==
  <<tick, bySource, denials, byUser, slot, counted, runs, history>>

Addresses == Sources \cup {Proxy, Prober}
Budgets == {"MUTATION", "REPORT"}

NoCounter == [count |-> 0, startedAt |-> -1]
NoRun == [minute |-> -1, run |-> 0]
Vacant == [stage |-> "NONE"]

-----------------------------------------------------------------------------
(* createWindowedBudget: a window begins with the first charge after the    *)
(* last one ended.                                                          *)

\* Mutant: a window that lasts one instant too long.
InWindowToEnd(counter, t) ==
  counter # NoCounter /\ t - counter.startedAt <= Minute

InWindow(counter, t) ==
  counter # NoCounter /\ t - counter.startedAt < Minute

\* A new key sweeps the windows that ended when there are many.
Swept(budget, t) ==
  IF Cardinality({k \in DOMAIN budget : budget[k] # NoCounter}) < SweepAt
  THEN budget
  ELSE [k \in DOMAIN budget |->
         IF InWindow(budget[k], t) THEN budget[k] ELSE NoCounter]

Consumed(budget, key, t) ==
  IF InWindow(budget[key], t)
  THEN [budget EXCEPT ![key].count = @ + 1]
  ELSE [Swept(budget, t) EXCEPT ![key] = [count |-> 1, startedAt |-> t]]

\* The outcome of a charge that left this count.
Outcome(count, limit) ==
  IF count <= limit THEN "ACCEPTED"
  ELSE IF count = limit + 1 THEN "FIRST_REFUSAL" ELSE "REFUSED"

IsExhausted(budget, key, t, limit) ==
  InWindow(budget[key], t) /\ budget[key].count > limit

LimitOf(class) == IF class = "REPORT" THEN ReportLimit ELSE MutationLimit

-----------------------------------------------------------------------------
(* createOperationalCounters: minutes of the calendar, oldest ones dropped. *)

MinuteOf(t) == t \div Minute

Bumped(buckets, t) ==
  [m \in DOMAIN buckets |->
    IF m <= MinuteOf(t) - AbuseMinutes THEN 0
    ELSE buckets[m] + (IF m = MinuteOf(t) THEN 1 ELSE 0)]

Total(buckets, t) ==
  MapThenSumSet(LAMBDA m : buckets[m],
                {m \in DOMAIN buckets : m > MinuteOf(t) - AbuseMinutes})

\* Mutant: a run that goes on after a minute without a refusal.
RanOn(s, t) ==
  IF runs[s].minute = MinuteOf(t) THEN runs
  ELSE [runs EXCEPT ![s] = [minute |-> MinuteOf(t), run |-> @.run + 1]]

\* recordRefusedRequest: a source's run grows with the next minute.
Ran(s, t) ==
  IF runs[s].minute = MinuteOf(t) THEN runs
  ELSE [runs EXCEPT ![s] =
         [minute |-> MinuteOf(t),
          run |-> IF runs[s].minute = MinuteOf(t) - 1
                  THEN runs[s].run + 1 ELSE 1]]

\* read: a run that skipped a minute is over.
LongestRun(t) ==
  LET lasting == {s \in DOMAIN runs : runs[s].minute >= MinuteOf(t) - 1} IN
  Max({0} \cup {runs[s].run : s \in lasting})

-----------------------------------------------------------------------------
(* What happened, kept for the properties only.                             *)

Happenings(kind, who, from, to) ==
  Cardinality({h \in history : h.kind = kind /\ h.who = who
                               /\ h.at >= from /\ h.at < to})

Happened(kinds, who) ==
  {[kind |-> k, who |-> who, at |-> tick,
    n |-> Happenings(k, who, tick, tick + 1)] : k \in kinds}

Asked == Cardinality({h \in history : h.kind = "REQUEST"})

-----------------------------------------------------------------------------
(* A request that Caddy verified has the source it names; any other is      *)
(* known by its connection.                                                 *)

AdmissionInit ==
  /\ tick = 0
  /\ bySource = [a \in Addresses |-> NoCounter]
  /\ denials = [a \in Addresses |-> NoCounter]
  /\ byUser = [b \in Budgets |-> [u \in Accounts |-> NoCounter]]
  /\ slot = [q \in Slots |-> Vacant]
  /\ counted = [c \in {"REFUSED", "UNVERIFIED", "DENIED"} |->
                 [m \in 0..MinuteOf(LastTick) |-> 0]]
  /\ runs = [a \in Addresses |-> NoRun]
  /\ history = {}

Tick ==
  /\ tick < LastTick
  /\ tick' = tick + 1
  /\ UNCHANGED <<bySource, denials, byUser, slot, counted, runs, history>>

\* The server charges every request, whatever becomes of it.
Charge(key) ==
  /\ Asked < MaxRequests
  /\ bySource' = Consumed(bySource, key, tick)

Accepts(key) == Outcome(bySource'[key].count, SourceLimit) = "ACCEPTED"

\* A request for /graphql with a verified source goes on.
Receive(q, s, user, class) ==
  /\ slot[q] = Vacant
  /\ Charge(s)
  /\ Accepts(s)
  /\ slot' = [slot EXCEPT ![q] =
       [stage |-> "RECEIVED", source |-> s, user |-> user, class |-> class,
        charged |-> FALSE]]
  /\ history' = history \cup Happened({"REQUEST", "ADMITTED"}, s)
  /\ UNCHANGED <<tick, denials, byUser, counted, runs>>

\* One beyond the limit is refused, and so is a probe, whoever sends it.
RefuseSource(s) ==
  /\ Charge(s)
  /\ ~Accepts(s)
  /\ counted' = [counted EXCEPT !["REFUSED"] = Bumped(@, tick)]
  /\ runs' = Ran(s, tick)
  /\ history' = history \cup Happened({"REQUEST", "REFUSED"}, s)
  /\ UNCHANGED <<tick, denials, byUser, slot>>

\* A request that Caddy did not verify is refused within or beyond the limit.
RefuseUnverified ==
  /\ Charge(Proxy)
  /\ counted' = [counted EXCEPT !["UNVERIFIED"] = Bumped(@, tick)]
  /\ history' = history \cup Happened({"REQUEST", "UNVERIFIED"}, Proxy)
  /\ UNCHANGED <<tick, denials, byUser, slot, runs>>

\* A probe is known by its connection, and answered whoever sends it.
AnswerProbe(a) ==
  /\ Charge(a)
  /\ Accepts(a)
  /\ history' = history \cup Happened({"REQUEST", "ADMITTED"}, a)
  /\ UNCHANGED <<tick, denials, byUser, slot, counted, runs>>

\* Maintenance, the size of the body, the origin, the method, the variables,
\* an operation that is not persisted, and a suspended User end a request
\* that nobody was charged for.
TurnAway(q) ==
  /\ slot[q] # Vacant
  /\ slot[q].stage = "RUNNING" =>
       slot[q].user # NoAccount /\ ~slot[q].charged
  /\ slot' = [slot EXCEPT ![q] = Vacant]
  /\ UNCHANGED <<tick, bySource, denials, byUser, counted, runs, history>>

\* onParams: a source that was denied too often is not answered.
RefuseDenied(q) ==
  /\ slot[q].stage = "RECEIVED"
  /\ IsExhausted(denials, slot[q].source, tick, DenialLimit)
  /\ slot' = [slot EXCEPT ![q] = Vacant]
  /\ UNCHANGED <<tick, bySource, denials, byUser, counted, runs, history>>

Begin(q) ==
  /\ slot[q].stage = "RECEIVED"
  /\ ~IsExhausted(denials, slot[q].source, tick, DenialLimit)
  /\ slot' = [slot EXCEPT ![q].stage = "RUNNING"]
  /\ UNCHANGED <<tick, bySource, denials, byUser, counted, runs, history>>

\* authenticate, which each resolver of an operation calls: the first call
\* charges the User, unless the operation only reads.
ChargeUser(q) ==
  LET c == slot[q]
      budget == Consumed(byUser[c.class], c.user, tick)
      outcome == Outcome(budget[c.user].count, LimitOf(c.class))
      who == <<c.user, c.class>> IN
  /\ c.stage = "RUNNING"
  /\ c.user # NoAccount
  /\ ~c.charged
  /\ IF c.class = "QUERY"
     THEN /\ slot' = [slot EXCEPT ![q].charged = TRUE]
          /\ UNCHANGED <<byUser, history>>
     ELSE /\ byUser' = [byUser EXCEPT ![c.class] = budget]
          /\ slot' = [slot EXCEPT ![q] =
               IF outcome = "ACCEPTED" THEN [c EXCEPT !.charged = TRUE]
               ELSE Vacant]
          /\ history' = history \cup
               Happened({"ASKED"} \cup
                 CASE outcome = "ACCEPTED" -> {"ACCEPTED"}
                   [] outcome = "FIRST_REFUSAL" -> {"TOLD", "AUDITED"}
                   [] OTHER -> {"TOLD"}, who)
  /\ UNCHANGED <<tick, bySource, denials, counted, runs>>

\* onExecutionResult: the request is over, allowed or denied.
Respond(q, denied) ==
  LET s == slot[q].source IN
  /\ slot[q].stage = "RUNNING"
  /\ slot[q].charged \/ slot[q].user = NoAccount
  /\ slot[q].user = NoAccount => denied
  /\ slot' = [slot EXCEPT ![q] = Vacant]
  /\ IF denied
     THEN /\ denials' = Consumed(denials, s, tick)
          /\ counted' = [counted EXCEPT !["DENIED"] = Bumped(@, tick)]
          /\ history' = history \cup Happened({"DENIED"}, s)
     ELSE UNCHANGED <<denials, counted, history>>
  /\ UNCHANGED <<tick, bySource, byUser, runs>>

AdmissionNext ==
  \/ Tick
  \/ \E q \in Slots, s \in Sources, u \in Accounts \cup {NoAccount},
        class \in {"QUERY", "MUTATION", "REPORT"} : Receive(q, s, u, class)
  \/ \E a \in Addresses : RefuseSource(a)
  \/ RefuseUnverified
  \/ \E a \in {Proxy, Prober} : AnswerProbe(a)
  \/ \E q \in Slots :
       \/ TurnAway(q) \/ RefuseDenied(q) \/ Begin(q)
       \/ ChargeUser(q)
       \/ \E denied \in BOOLEAN : Respond(q, denied)

-----------------------------------------------------------------------------
(* What the budgets and the counters promise. *)

LastMinute(kind, who, t) == Happenings(kind, who, t - Minute + 1, t + 1)

\* Nobody is refused for what others did or for what one request asked twice:
\* a refusal has more requests than the limit in the minute before it.  It is
\* audited once until the window ends.
RefusalsAreEarned ==
  \A h \in history :
    /\ h.kind = "REFUSED" => LastMinute("REQUEST", h.who, h.at) > SourceLimit
    /\ h.kind = "TOLD" =>
         LastMinute("ASKED", h.who, h.at) > LimitOf(h.who[2])
    /\ h.kind = "AUDITED" => LastMinute("AUDITED", h.who, h.at) = 1

\* A minute that overlaps two windows admits twice the limit and no more.
\* Denials are counted when a request is over, so those under way beside the
\* one that spends the budget are denied as well.
AdmissionIsBounded ==
  \A h \in history :
    /\ h.kind = "ADMITTED" =>
         LastMinute("ADMITTED", h.who, h.at) <= 2 * SourceLimit
    /\ h.kind = "ACCEPTED" =>
         LastMinute("ACCEPTED", h.who, h.at) <= 2 * LimitOf(h.who[2])
    /\ h.kind = "DENIED" =>
         LastMinute("DENIED", h.who, h.at)
           <= 2 * (DenialLimit + Cardinality(Slots))

BudgetsHold == RefusalsAreEarned /\ AdmissionIsBounded

\* The first tick of the minutes an alert looks back.
Since == Minute * (MinuteOf(tick) - AbuseMinutes + 1)

RefusedIn(s, m) == Happenings("REFUSED", s, Minute * m, Minute * (m + 1)) > 0

\* The counters that raise the abuse alerts agree with what happened in the
\* minutes they cover, and the longest run is of consecutive minutes, each
\* with a refusal of one source, up to this minute or the one before.
AbuseIsCounted ==
  /\ \A kind \in DOMAIN counted :
       Total(counted[kind], tick) =
         Cardinality({h \in history : h.kind = kind /\ h.at >= Since})
  /\ LET ended == MinuteOf(tick)
         Run(s, n) == \E last \in {ended - 1, ended} :
                        \A m \in (last - n + 1)..last : RefusedIn(s, m) IN
     \A n \in 1..(ended + 1) :
       (\E s \in Addresses : Run(s, n)) <=> LongestRun(tick) >= n

\* What the boundary limits and what the alerts count are one truth: no source
\* or User gets more than its budgets, none is refused unearned, and the abuse
\* counters agree with what happened (resource-budget.ts:69-101,
\* operational-counters.ts:23-134).
AdmissionIsLimited == BudgetsHold /\ AbuseIsCounted

=============================================================================

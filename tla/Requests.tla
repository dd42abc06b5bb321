------------------------------ MODULE Requests ------------------------------
(***************************************************************************)
(* The idempotent mutations of the API.  A client sends a request under an  *)
(* idempotency key, and sends it again when no answer comes.  Each arrival *)
(* is a transaction of its own that waits for the lock of the actor, then  *)
(* for that of the key; now() is when it began, not when it got the locks. *)
(* What the mutation itself does is an effect that is decided once: it is  *)
(* accepted or refused.                                                    *)
(***************************************************************************)
EXTENDS Naturals, FiniteSets

CONSTANTS
  Arrivals,        \* requests as they reach the API, retries included
  Keys,            \* actor, operation and idempotency key
  Actors, ActorOf,
  Inputs,          \* fingerprints of the input
  Retention,       \* the seven days a record is kept
  MaxClock

ASSUME RequestsAssumption ==
  ActorOf \in [Keys -> Actors] /\ Retention \in Nat \ {0} /\ MaxClock \in Nat

VARIABLES
  clock,
  suspended,       \* actors whose access_status is not ACTIVE
  record,          \* mutation_idempotency_records
  mutation,        \* the transaction of each arrival
  lockedBy,          \* the arrival that holds the lock of each actor
  effect,          \* what mutations did, with the now() of their transaction
  audit            \* audit_entries about each arrival

requestVars == <<clock, suspended, record, mutation, lockedBy, effect, audit>>

Decisions == {"ACCEPTED", "REFUSED"}
NoRecord == [kept |-> FALSE]
Nobody == "NOBODY"
Fresh == [step |-> "UNSENT"]
Recorded(k) == record[k].kept

RequestsInit ==
  /\ clock = 0
  /\ suspended = {}
  /\ record = [k \in Keys |-> NoRecord]
  /\ mutation = [r \in Arrivals |-> Fresh]
  /\ lockedBy = [a \in Actors |-> Nobody]
  /\ effect = {}
  /\ audit = [r \in Arrivals |-> {}]

\* An arrival authenticates and its transaction begins.
Arrive(r, k, i) ==
  /\ mutation[r].step = "UNSENT"
  /\ mutation' = [mutation EXCEPT ![r] =
       [step |-> "WAITING", key |-> k, input |-> i, now |-> clock]]
  /\ UNCHANGED <<clock, suspended, record, lockedBy, effect, audit>>

KeyOf(r) == mutation[r].key
Actor(r) == ActorOf[KeyOf(r)]
StepIs(r, step) == mutation[r].step = step

\* The end of a transaction releases its locks.
Released(r) == [lockedBy EXCEPT ![Actor(r)] = Nobody]
Answers(r, answer) ==
  mutation' = [mutation EXCEPT ![r].step = answer]

\* lockActiveActor: a suspended User is refused, and the denial is written by
\* a statement of its own after the transaction.
LockActiveActor(r) ==
  /\ StepIs(r, "WAITING")
  /\ lockedBy[Actor(r)] = Nobody
  /\ IF Actor(r) \in suspended
     THEN Answers(r, "SUSPENDED") /\ UNCHANGED lockedBy
     ELSE /\ mutation' = [mutation EXCEPT ![r].step = "ADMITTED"]
          /\ lockedBy' = [lockedBy EXCEPT ![Actor(r)] = r]
  /\ UNCHANGED <<clock, suspended, record, effect, audit>>

\* Mutant: the age of a record is taken when it is read, not at now().
ExpiredWhenRead(r) ==
  Recorded(KeyOf(r)) /\ record[KeyOf(r)].since + Retention <= clock

Expired(r) ==
  Recorded(KeyOf(r)) /\ record[KeyOf(r)].since + Retention <= mutation[r].now

SameInput(r) ==
  Recorded(KeyOf(r)) /\ record[KeyOf(r)].input = mutation[r].input

\* A record within its time answers for the mutation.
Replay(r) ==
  /\ StepIs(r, "ADMITTED")
  /\ Recorded(KeyOf(r)) /\ ~Expired(r)
  /\ IF SameInput(r)
     THEN /\ Answers(r, record[KeyOf(r)].outcome)
          /\ audit' = [audit EXCEPT ![r] =
               @ \cup {IF record[KeyOf(r)].outcome = "ACCEPTED"
                       THEN "REPLAY_SUCCEEDED" ELSE "REPLAY_DENIED"}]
     ELSE /\ Answers(r, "KEY_REUSED")
          /\ audit' = [audit EXCEPT ![r] = @ \cup {"KEY_REUSED"}]
  /\ lockedBy' = Released(r)
  /\ UNCHANGED <<clock, suspended, record, effect>>

\* created_at defaults to now().
Remembered(r, outcome) ==
  [record EXCEPT ![KeyOf(r)] =
    [kept |-> TRUE, input |-> mutation[r].input, outcome |-> outcome,
     since |-> mutation[r].now]]

\* Otherwise it is performed, and remembered by the same transaction: a
\* refusal is an outcome like any other.
Perform(r) ==
  /\ StepIs(r, "ADMITTED")
  /\ ~Recorded(KeyOf(r)) \/ Expired(r)
  /\ \E outcome \in Decisions :
       /\ record' = Remembered(r, outcome)
       /\ effect' = effect \cup
            {[by |-> r, key |-> KeyOf(r), input |-> mutation[r].input,
              outcome |-> outcome, now |-> mutation[r].now]}
       /\ Answers(r, outcome)
  /\ lockedBy' = Released(r)
  /\ UNCHANGED <<clock, suspended, audit>>

\* A statement of the mutation fails, or its connection is lost: nothing of
\* the transaction stays.
Fail(r) ==
  /\ StepIs(r, "WAITING") \/ StepIs(r, "ADMITTED")
  /\ Answers(r, "FAILED")
  /\ lockedBy' = IF StepIs(r, "ADMITTED") THEN Released(r) ELSE lockedBy
  /\ UNCHANGED <<clock, suspended, record, effect, audit>>

\* The catch writes what became of the transaction; it may fail as well.
AuditFailure(r) ==
  /\ StepIs(r, "SUSPENDED") \/ StepIs(r, "FAILED")
  /\ \E entry \in {{}, {mutation[r].step}} :
       audit' = [audit EXCEPT ![r] = @ \cup entry]
  /\ mutation' = [mutation EXCEPT ![r].step = "REPORTED"]
  /\ UNCHANGED <<clock, suspended, record, lockedBy, effect>>

\* Suspension and reactivation take the lock of the User they are about.
SuspendActor(a) ==
  /\ lockedBy[a] = Nobody
  /\ a \notin suspended
  /\ suspended' = suspended \cup {a}
  /\ UNCHANGED <<clock, record, mutation, lockedBy, effect, audit>>

ReactivateActor(a) ==
  /\ lockedBy[a] = Nobody
  /\ a \in suspended
  /\ suspended' = suspended \ {a}
  /\ UNCHANGED <<clock, record, mutation, lockedBy, effect, audit>>

PassTime ==
  /\ clock < MaxClock
  /\ clock' = clock + 1
  /\ UNCHANGED <<suspended, record, mutation, lockedBy, effect, audit>>

RequestStep(r) ==
  LockActiveActor(r) \/ Replay(r) \/ Perform(r) \/ Fail(r) \/ AuditFailure(r)

RequestsNext ==
  \/ \E r \in Arrivals : \E k \in Keys : \E i \in Inputs : Arrive(r, k, i)
  \/ \E r \in Arrivals : RequestStep(r)
  \/ \E a \in Actors : SuspendActor(a) \/ ReactivateActor(a)
  \/ PassTime

RequestsSpec == RequestsInit /\ [][RequestsNext]_requestVars

----------------------------------------------------------------------------
(* Properties.                                                             *)

Answered == {"ACCEPTED", "REFUSED", "KEY_REUSED"}
RequestSteps ==
  {"WAITING", "ADMITTED", "SUSPENDED", "FAILED", "REPORTED"} \cup Answered
RequestRecords ==
  [step : RequestSteps, key : Keys, input : Inputs, now : 0 .. MaxClock]

\* The rows have their shapes.
RequestsTypeOK ==
  /\ clock \in 0 .. MaxClock
  /\ suspended \subseteq Actors
  /\ record \in [Keys -> {NoRecord} \cup
       [kept : {TRUE}, input : Inputs, outcome : Decisions,
        since : 0 .. MaxClock]]
  /\ mutation \in [Arrivals -> {Fresh} \cup RequestRecords]
  /\ lockedBy \in [Actors -> Arrivals \cup {Nobody}]
  /\ effect \subseteq
       [by : Arrivals, key : Keys, input : Inputs, outcome : Decisions,
        now : 0 .. MaxClock]
  /\ audit \in [Arrivals -> SUBSET
       {"REPLAY_SUCCEEDED", "REPLAY_DENIED", "KEY_REUSED", "SUSPENDED", "FAILED"}]

Apart(m, n) == m >= n + Retention \/ n >= m + Retention

\* Whatever is retried, delayed, refused, aborted or suspended between, two
\* effects under one key began a whole retention apart.
EffectsAreApart ==
  \A e, f \in effect : e # f /\ e.key = f.key => Apart(e.now, f.now)

\* Nobody is given an answer that no mutation gave to the same input, and it
\* is one the platform may still be asked about.
AnswersAreOfEffects ==
  \A r \in Arrivals : mutation[r].step \in Decisions =>
    \E e \in effect :
      /\ e.key = KeyOf(r) /\ e.input = mutation[r].input
      /\ e.outcome = mutation[r].step
      /\ mutation[r].now < e.now + Retention

\* A retry takes effect once and is told what became of the first.
RetriesTakeEffectOnce ==
  RequestsTypeOK /\ EffectsAreApart /\ AnswersAreOfEffects

=============================================================================

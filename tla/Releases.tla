------------------------------ MODULE Releases ------------------------------
(* How a release replaces the one before it: the API, the worker, and,      *)
(* behind a gate that probes both, the bundle that browsers load.  An API   *)
(* records its persisted operations as it starts and accepts those of the   *)
(* two releases recorded last; the bundle of a release sends its own.       *)
(* A tick is the time between two probes.                                   *)
EXTENDS Integers, Sequences, Functions

CONSTANTS
  ReleaseNames,
  Interval,       \* ticks between two heartbeats of a worker
  StaleAfter,     \* age at which a heartbeat proves nothing
  Required,       \* consecutive answers that open a gate
  ApiTimeout, WorkerTimeout,     \* ticks a gate waits
  MaxRollouts     \* bound

ASSUME ReleaseAssumption ==
  /\ Interval \in Nat \ {0} /\ StaleAfter \in Nat \ {0}
  /\ Required \in Nat \ {0}
  /\ ApiTimeout \in Nat /\ WorkerTimeout \in Nat

VARIABLES
  recorded,    \* releases of persisted_operation_manifests, newest first
  serving,     \* the API process that answers
  candidate,   \* the one a rollout has started, until it is healthy
  web,         \* the release whose bundle is served
  workers,     \* releases that have a worker process, and when it writes next
  heartbeat,   \* the row worker_heartbeats
  rollout,     \* the release job
  gate,        \* the run of probes before the bundle is replaced
  rollouts,    \* how many have begun
  newest,      \* the release whose API started last
  behind       \* a rollout began when the bundle was not of the release that
               \* the API runs and that started last

releaseVars ==
  <<recorded, serving, candidate, web, workers, heartbeat, rollout, gate,
    rollouts, newest, behind>>

NoProcess == [release |-> "NONE", accepts |-> {}]
NoRollout == [release |-> "NONE", stage |-> "NONE"]
NoGate == [kind |-> "NONE"]

-----------------------------------------------------------------------------
(* acceptedPersistedOperations *)

\* Mutant: a release that is already recorded keeps its place.
RecordedOnce(r) ==
  IF r \in Range(recorded) THEN recorded ELSE <<r, Head(recorded)>>

\* Recording again makes a release the newest; beside it the one before is
\* kept, and older ones are deleted (ACCEPTED_RELEASE_GENERATIONS = 2).
WithRelease(r) ==
  IF r = Head(recorded) THEN recorded ELSE <<r, Head(recorded)>>

\* An API that starts accepts what is recorded with its own release.
Started(r) == [release |-> r, accepts |-> Range(WithRelease(r))]

-----------------------------------------------------------------------------
(* The heartbeat *)

Older(age) == IF age < StaleAfter THEN age + 1 ELSE age

IsFresh == heartbeat.release # "NONE" /\ heartbeat.age < StaleAfter

\* A worker writes when it starts and then at every interval.
Written(r) == [release |-> r, age |-> 0]

-----------------------------------------------------------------------------
(* awaitReleaseGate *)

\* A probe of the API says nothing of its release.
Opened(kind) ==
  [kind |-> kind, elapsed |-> 0, consecutive |-> 0,
   advanced |-> kind = "API", previous |-> StaleAfter + 1,
   wrote |-> FALSE, probed |-> FALSE]

\* The gate after an answer; a later heartbeat is younger.  That its worker
\* wrote since the first of these answers is kept for BundleFollowsWorker.
Confirmed(g) ==
  [g EXCEPT
    !.consecutive = @ + 1,
    !.advanced = \/ @
                 \/ /\ g.kind = "WORKER"
                    /\ g.previous <= StaleAfter
                    /\ heartbeat.age < g.previous,
    !.previous = IF g.kind = "WORKER" THEN heartbeat.age ELSE @,
    !.wrote = g.consecutive > 0 /\ @,
    !.probed = TRUE]

\* Mutant: the heartbeats seen before the answers broke off still count.
BrokenAnswers(g) == [g EXCEPT !.consecutive = 0, !.probed = TRUE]

\* No answer, or one of another release, begins again.
Broken(g) ==
  [g EXCEPT !.consecutive = 0, !.advanced = g.kind = "API",
            !.previous = StaleAfter + 1, !.probed = TRUE]

IsReady(g) == g.consecutive >= Required /\ g.advanced

TimesOut(g) ==
  g.elapsed + 1 > IF g.kind = "API" THEN ApiTimeout ELSE WorkerTimeout

-----------------------------------------------------------------------------

\* A release has been rolled out.
ReleasesInit ==
  \E r \in ReleaseNames :
    /\ recorded = <<r>>
    /\ serving = [release |-> r, accepts |-> {r}]
    /\ candidate = NoProcess
    /\ web = r
    /\ workers = [x \in ReleaseNames |-> IF x = r THEN Interval ELSE -1]
    /\ heartbeat = Written(r)
    /\ rollout = NoRollout
    /\ gate = NoGate
    /\ rollouts = 0
    /\ newest = r
    /\ behind = FALSE

\* The release job is serialized.  It may deploy a release again, or an
\* earlier one.
BeginRollout(r) ==
  /\ rollout = NoRollout
  /\ rollouts < MaxRollouts
  /\ rollouts' = rollouts + 1
  /\ rollout' = [release |-> r, stage |-> "API"]
  /\ behind' = (behind \/ serving.release # web \/ newest # web)
  /\ UNCHANGED <<recorded, serving, candidate, web, workers, heartbeat, gate,
                 newest>>

\* The new API records its operations before it listens.
StartApi ==
  /\ rollout.stage = "API"
  /\ candidate = NoProcess
  /\ recorded' = WithRelease(rollout.release)
  /\ candidate' = Started(rollout.release)
  /\ newest' = rollout.release
  /\ UNCHANGED <<serving, web, workers, heartbeat, rollout, gate, rollouts,
                 behind>>

\* It replaces the old one once it is healthy.
ApiIsHealthy ==
  /\ candidate # NoProcess
  /\ serving' = candidate
  /\ candidate' = NoProcess
  /\ rollout' = [rollout EXCEPT !.stage = "WORKER"]
  /\ UNCHANGED <<recorded, web, workers, heartbeat, gate, rollouts,
                 behind, newest>>

\* The platform restarts the API that answers, of the release it has.
RestartApi ==
  /\ recorded' = WithRelease(serving.release)
  /\ serving' = Started(serving.release)
  /\ newest' = serving.release
  /\ UNCHANGED <<candidate, web, workers, heartbeat, rollout, gate, rollouts,
                 behind>>

\* The worker starts with a heartbeat, and the old one may still run.
DeployWorker ==
  LET r == rollout.release IN
  /\ rollout.stage = "WORKER"
  /\ workers' = [workers EXCEPT ![r] = Interval]
  /\ heartbeat' = Written(r)
  /\ rollout' = [rollout EXCEPT !.stage = "GATES"]
  /\ gate' = Opened("API")
  /\ UNCHANGED <<recorded, serving, candidate, web, rollouts,
                 behind, newest>>

\* A worker writes, unless the write fails.
Beat(r) ==
  /\ workers[r] = 0
  /\ workers' = [workers EXCEPT ![r] = Interval]
  /\ \/ /\ heartbeat' = Written(r)
        /\ gate' = IF gate.kind = "WORKER" /\ r = rollout.release
                   THEN [gate EXCEPT !.wrote = TRUE] ELSE gate
     \/ UNCHANGED <<heartbeat, gate>>
  /\ UNCHANGED <<recorded, serving, candidate, web, rollout, rollouts,
                 behind, newest>>

StopWorker(r) ==
  /\ workers[r] # -1
  /\ workers' = [workers EXCEPT ![r] = -1]
  /\ UNCHANGED <<recorded, serving, candidate, web, heartbeat, rollout, gate,
                 rollouts, newest, behind>>

\* What the gate decides after a probe: it opens, gives up, or goes on.
\* Behind the gate of the API is that of the worker, and behind that the
\* bundle is replaced.
Proceed(g) ==
  IF ~IsReady(g)
  THEN /\ gate' = IF TimesOut(g) THEN NoGate ELSE g
       /\ rollout' = IF TimesOut(g) THEN NoRollout ELSE rollout
       /\ UNCHANGED <<web, behind>>
  ELSE IF g.kind = "API"
  THEN /\ gate' = Opened("WORKER")
       /\ UNCHANGED <<rollout, web, behind>>
  ELSE /\ gate' = NoGate
       /\ rollout' = [rollout EXCEPT !.stage = "VERIFY"]
       /\ web' = rollout.release
       /\ behind' = FALSE

ProbeApi(answers) ==
  /\ gate.kind = "API"
  /\ ~gate.probed
  /\ Proceed(IF answers THEN Confirmed(gate) ELSE Broken(gate))
  /\ UNCHANGED <<recorded, serving, candidate, workers, heartbeat, rollouts,
                 newest>>

ProbeWorker(answers) ==
  /\ gate.kind = "WORKER"
  /\ ~gate.probed
  /\ Proceed(IF answers /\ IsFresh /\ heartbeat.release = rollout.release
            THEN Confirmed(gate) ELSE Broken(gate))
  /\ UNCHANGED <<recorded, serving, candidate, workers, heartbeat, rollouts,
                 newest>>

\* The surface and the smoke journey are verified, or a stage fails and the
\* later ones do not happen.
EndRollout ==
  /\ rollout.stage \in {"API", "WORKER", "VERIFY"}
  /\ rollout' = NoRollout
  /\ candidate' = NoProcess
  /\ UNCHANGED <<recorded, serving, web, workers, heartbeat, gate, rollouts,
                 behind, newest>>

\* Workers write in time, and a gate probes at every tick.
ReleaseTick ==
  /\ \A r \in ReleaseNames : workers[r] # 0
  /\ gate # NoGate => gate.probed
  /\ workers' = [r \in ReleaseNames |->
                  IF workers[r] > 0 THEN workers[r] - 1 ELSE workers[r]]
  /\ heartbeat' = [heartbeat EXCEPT !.age = Older(@)]
  /\ gate' = IF gate = NoGate THEN NoGate
             ELSE [gate EXCEPT
                    !.elapsed = @ + 1,
                    !.previous = IF @ <= StaleAfter THEN Older(@) ELSE @,
                    !.probed = FALSE]
  /\ UNCHANGED <<recorded, serving, candidate, web, rollout, rollouts,
                 behind, newest>>

ReleasesNext ==
  \/ \E r \in ReleaseNames : BeginRollout(r) \/ Beat(r) \/ StopWorker(r)
  \/ StartApi \/ ApiIsHealthy \/ RestartApi \/ DeployWorker
  \/ \E answers \in BOOLEAN : ProbeApi(answers) \/ ProbeWorker(answers)
  \/ EndRollout
  \/ ReleaseTick

ReleasesSpec == ReleasesInit /\ [][ReleasesNext]_releaseVars

-----------------------------------------------------------------------------

\* Through a rollout, a rollback, a restart or a stage that fails, the API
\* accepts the operations of the bundle that browsers load (ADR 0038), for
\* rollouts that begin where the bundle is of the release that the API runs
\* and that recorded itself last.  One that follows a rollout which replaced
\* the API and not the bundle is not of this kind, nor one that follows a
\* rollout in which the old API restarted after the new one had recorded.
BundleIsAccepted == web \in serving.accepts \/ behind

\* The bundle is replaced when the worker of its release has written since
\* the first of the answers that opened the gate, and the API is of this
\* release.
BundleFollowsWorker ==
  [][web' # web =>
       /\ serving.release = web'
       /\ heartbeat.release = web'
       /\ gate.wrote]_releaseVars

=============================================================================

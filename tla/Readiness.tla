----------------------------- MODULE Readiness -----------------------------
(***************************************************************************)
(* What one pod says about itself while Redis comes and goes: the worker's *)
(* heartbeat and the readiness checks built on it (pkg/queue/stream.go:    *)
(* beat, Healthy, Active; GetReady), and the sampler of the queue          *)
(* (pkg/queue/metrics.go). Delivery has what the worker does to the jobs;  *)
(* here only the time its steps take, and what they prove, matter.         *)
(*                                                                         *)
(* Time is discrete. A step of the worker takes any time up to the bound   *)
(* of its kind. Redis executes a call at some moment of it, and the answer *)
(* may reach the worker later, or never. A sample takes no time, though    *)
(* other steps come between its queries.                                   *)
(***************************************************************************)
EXTENDS Integers

CONSTANTS
  Lease,    \* leaseDuration, in units of time: the lease is renewed thrice in it
  Call,     \* the longest time until a Redis call, with the retries of its
            \* client, or a blocking one, has answered or failed
  Wait,     \* waitRetry
  Linger,   \* the longest time a cancelled scan takes to return
  Grace,    \* groupWaitGrace
  Period    \* the time between two samples of the queue

Limit   == 3 * Lease
Renewal == Lease \div 3

Longer(a, b) == IF a > b THEN a ELSE b

(* How long after a trouble the worker may still be seen as dead. The longest way
   to its next answer begins with a call that is answered just before the group is
   lost: the claim of a delivery, SETNX, a scan up to the renewal that fails, its
   cancellation, the release; or with a call that fails, and a wait. Then come
   cleanConsumers, the read that finds no group, its recreation, the wait,
   cleanConsumers, and the read that answers. *)
Recovery == Longer(Renewal + 3 * Call + Linger, Wait) + 6 * Call + Wait

(* In a minute's lease the longest time between two answers of a healthy backend
   fits thrice, with a second to spare. *)
ASSUME ReadinessAssumption ==
  /\ {Lease, Call, Wait, Linger, Grace, Period} \subseteq Nat \ {0}
  /\ Renewal > 0 /\ Renewal + 5 * Call + Linger + 1 <= Limit
  /\ Call < Grace

VARIABLES
  redis,    \* whether the backend answers
  group,    \* whether it has the consumer group
  stopped,  \* whether the worker's context is cancelled
  at,       \* where the read loop is, see Points
  timer,    \* how long it has been there
  reply,    \* what the call it waits for will return: "none" as long as Redis has
            \* not executed it, "ok", "nogroup" or "error"
  beat,     \* the age of the heartbeat; beyond Limit also when there is none
  grouped,  \* whether startup has seen the group
  monitor,  \* the sampler: "grace", "pause", "done", or the query it is at
  clock,    \* how long it has been in "grace" or "pause"
  failure,  \* whether a query of the current sample failed
  gauge,    \* queue_collection_success: "unset", "ok" or "failed"
  shown,    \* the measurements that have a series
  trouble,  \* history: whether Redis was away, or lost the group, since the start
  calm,     \* history: for how long Redis has answered and not lost the group
  away      \* history: the time since Redis was last there with the group

worker  == <<at, timer, reply, beat, grouped>>
sampler == <<monitor, clock, failure, gauge, shown>>
backend == <<redis, group>>
history == <<trouble, calm, away>>
vars    == <<backend, stopped, worker, sampler, history>>

Queries == {"quarantine", "length", "group", "oldest"}
NeedGroup == {"claim", "read", "renew"}
Calls     == {"boot", "clean", "recreate", "lock", "release"} \cup NeedGroup
Points    == {"bootwait", "wait", "scan", "cancelled", "done"} \cup Calls

Longest ==
  [p \in Points |->
     CASE p \in {"bootwait", "wait"} -> Wait
       [] p = "scan"                 -> Renewal
       [] p = "cancelled"            -> Linger
       [] OTHER                      -> Call]

TypeOK ==
  /\ redis \in BOOLEAN /\ group \in BOOLEAN /\ stopped \in BOOLEAN
  /\ at \in Points /\ timer \in 0..Longest[at]
  /\ reply \in {"none", "ok", "nogroup", "error"}
  /\ beat \in 0..(Limit + 1) /\ away \in 0..(Limit + Call + 1)
  /\ grouped \in BOOLEAN
  /\ monitor \in {"grace", "pause", "done"} \cup Queries
  /\ clock \in 0..(Grace + Period)
  /\ failure \in BOOLEAN
  /\ gauge \in {"unset", "ok", "failed"}
  /\ shown \subseteq Queries \ {"group"}
  /\ trouble \in BOOLEAN /\ calm \in 0..(Recovery + 1)

(* A pod starts, possibly against a backend that lost its consumer group. *)
Init ==
  /\ redis \in BOOLEAN /\ group \in BOOLEAN /\ stopped = FALSE
  /\ at = "boot" /\ timer = 0 /\ reply = "none" /\ grouped = FALSE
  /\ beat = Limit + 1
  /\ monitor = "grace" /\ clock = 0 /\ failure = FALSE
  /\ gauge = "unset" /\ shown = {}
  /\ trouble = ~redis /\ calm = 0
  /\ away = IF redis /\ group THEN 0 ELSE Limit + Call + 1

-----------------------------------------------------------------------------
(* The read loop. *)

GoToWithoutReset(point) == at' = point /\ reply' = "none" /\ UNCHANGED timer   \* mutant
GoTo(point) == at' = point /\ timer' = 0 /\ reply' = "none"

(* The top of the loop: cleanConsumers comes first once in ten seconds. *)
GoToTop == \E point \in {"clean", "claim"} : GoTo(point)

Sighted(there) == away' = IF there THEN 0 ELSE away

(* Redis executes the call that the worker waits for. XGROUP CREATE makes the
   group, unless it is there; reads and renewals need it. *)
Serve ==
  /\ at \in Calls /\ reply = "none" /\ redis
  /\ reply' = IF at \in NeedGroup /\ ~group THEN "nogroup" ELSE "ok"
  /\ group' = (group \/ at \in {"boot", "recreate"})
  /\ Sighted(group')
  /\ UNCHANGED <<redis, stopped, at, timer, beat, grouped, sampler, trouble, calm>>

(* The call, or its answer, is lost with Redis. *)
Break ==
  /\ at \in Calls /\ reply # "error" /\ ~redis
  /\ reply' = "error"
  /\ UNCHANGED <<backend, stopped, at, timer, beat, grouped, sampler, history>>

(* The heartbeat is kept in whole seconds, so it may count as a unit older. *)
Beat   == beat' \in {0, 1}
NoBeat == UNCHANGED beat

(* What an answered read proves, and what entering the loop would. *)
BeatOfClaim(answered) == IF answered THEN Beat ELSE NoBeat
BeatAnyway(answered)  == Beat   \* mutant: beat on entering the loop
BeatOfRead(answered)  == BeatOfClaim(answered)

Boot ==
  /\ at = "boot" /\ reply # "none"
  /\ GoTo(IF reply = "ok" THEN "clean" ELSE "bootwait")
  /\ grouped' = (reply = "ok")
  /\ UNCHANGED <<backend, stopped, beat, sampler, history>>

Retry ==
  /\ timer = Wait
  /\ \/ at = "bootwait" /\ GoTo("boot")
     \/ at = "wait" /\ GoToTop
  /\ UNCHANGED <<backend, stopped, beat, grouped, sampler, history>>

(* cleanConsumers; its error is ignored. *)
Clean ==
  /\ at = "clean" /\ reply # "none"
  /\ GoTo("claim")
  /\ UNCHANGED <<backend, stopped, beat, grouped, sampler, history>>

(* XAUTOCLAIM; without an entry to recover, XREADGROUP follows. *)
Claim ==
  /\ at = "claim" /\ reply = "ok"
  /\ BeatOfRead(TRUE)
  /\ \E next \in {"lock", "read"} : GoTo(next)
  /\ UNCHANGED <<backend, stopped, grouped, sampler, history>>

Read ==
  /\ at = "read" /\ reply = "ok"
  /\ BeatOfRead(TRUE)
  /\ GoTo("lock") \/ GoToTop
  /\ UNCHANGED <<backend, stopped, grouped, sampler, history>>

(* recoverMissingGroup makes the group again if that is what a read misses. *)
WaitInAnyCase(answer) == "wait"   \* mutant: only the start of a worker makes it
AfterFailure(answer)  == IF answer = "nogroup" THEN "recreate" ELSE "wait"

ReadFails ==
  /\ at \in {"claim", "read"} /\ reply \in {"nogroup", "error"}
  /\ BeatOfRead(FALSE)
  /\ GoTo(AfterFailure(reply))
  /\ UNCHANGED <<backend, stopped, grouped, sampler, history>>

Recreate ==
  /\ at = "recreate" /\ reply # "none"
  /\ GoTo("wait")
  /\ UNCHANGED <<backend, stopped, beat, grouped, sampler, history>>

(* process() begins with SETNX: the lease is taken, busy, or the call fails. An
   undecodable delivery costs one call, too, for its quarantine. *)
Lock ==
  /\ at = "lock" /\ reply # "none"
  /\ (reply = "ok" /\ GoTo("scan")) \/ GoToTop
  /\ UNCHANGED <<backend, stopped, beat, grouped, sampler, history>>

(* The ticker does not wait for the renewal that it started before. *)
StartRenewal ==
  /\ at = "scan" /\ timer + Call >= Renewal
  /\ GoTo("renew")
  /\ UNCHANGED <<backend, stopped, beat, grouped, sampler, history>>

RenewSilently == NoBeat   \* mutant: a renewal does not beat
RenewalProves == Beat

Renew ==
  /\ at = "renew" /\ reply = "ok"
  /\ RenewalProves
  /\ GoTo("scan")
  /\ UNCHANGED <<backend, stopped, grouped, sampler, history>>

(* The renewal fails, or another worker has taken the lease over. *)
LoseLease ==
  /\ at = "renew" /\ reply # "none"
  /\ GoTo("cancelled")
  /\ UNCHANGED <<backend, stopped, beat, grouped, sampler, history>>

(* The scan, of any length, returns between two renewals: process() waits for the
   one in progress, and releases the lease. *)
ScanEnds ==
  /\ at = "scan"
  /\ GoTo("release")
  /\ UNCHANGED <<backend, stopped, beat, grouped, sampler, history>>

CancelledScanEnds ==
  /\ at = "cancelled"
  /\ GoTo("release")
  /\ UNCHANGED <<backend, stopped, beat, grouped, sampler, history>>

Release ==
  /\ at = "release" /\ reply # "none"
  /\ GoToTop
  /\ UNCHANGED <<backend, stopped, beat, grouped, sampler, history>>

Leave ==
  /\ stopped /\ at # "done"
  /\ GoTo("done")
  /\ UNCHANGED <<backend, stopped, beat, grouped, sampler, history>>

WorkerStep ==
  \/ Serve \/ Break
  \/ Boot \/ Retry \/ Clean \/ Claim \/ Read \/ ReadFails \/ Recreate \/ Lock
  \/ StartRenewal \/ Renew \/ LoseLease \/ CancelledScanEnds \/ Release \/ Leave

-----------------------------------------------------------------------------
(* The sampler. *)

GraceOverAtOnce == TRUE   \* mutant: the first sample does not wait
GraceOverWithGroup == grouped   \* mutant: an unreachable backend is waited for
GraceOver == grouped \/ clock = Grace

StartSample ==
  /\ \/ monitor = "grace" /\ GraceOver
     \/ monitor = "pause" /\ clock = Period
  /\ monitor' = "quarantine" /\ clock' = 0 /\ failure' = FALSE
  /\ UNCHANGED <<backend, stopped, worker, gauge, shown, history>>

(* One query of observeQueue: XINFO also fails if the group is not there. *)
Measured(q) == redis /\ ~stopped /\ (q = "group" => group)
NextQuery == [quarantine |-> "length", length |-> "group", group |-> "oldest"]

Query(q) ==
  /\ monitor = q /\ q # "oldest"
  /\ failure' = (failure \/ ~Measured(q))
  /\ shown' = IF Measured(q) THEN shown \cup ({q} \ {"group"}) ELSE shown \ {q}
  /\ monitor' = NextQuery[q]
  /\ UNCHANGED <<backend, stopped, worker, clock, gauge, history>>

(* The last query, and reportCollection unless the adapter is stopping. *)
ReportAlways == TRUE   \* mutant: a cancelled sample is reported
MayReport == ~stopped

Report ==
  /\ monitor = "oldest"
  /\ LET failed == failure \/ ~Measured("oldest") IN
     gauge' = IF MayReport THEN (IF failed THEN "failed" ELSE "ok") ELSE gauge
  /\ shown' = IF Measured("oldest") THEN shown \cup {"oldest"} ELSE shown \ {"oldest"}
  /\ monitor' = "pause"
  /\ UNCHANGED <<backend, stopped, worker, clock, failure, history>>

LeaveSampler ==
  /\ stopped /\ monitor \in {"grace", "pause"}
  /\ monitor' = "done"
  /\ UNCHANGED <<backend, stopped, worker, clock, failure, gauge, shown, history>>

SamplerStep == StartSample \/ (\E q \in Queries : Query(q)) \/ Report \/ LeaveSampler

-----------------------------------------------------------------------------
(* The environment. *)

Upset == trouble' = TRUE /\ calm' = 0

RedisLost ==
  /\ redis
  /\ redis' = FALSE
  /\ Upset
  /\ UNCHANGED <<group, stopped, worker, sampler, away>>

RedisBack ==
  /\ ~redis
  /\ redis' = TRUE
  /\ Upset /\ Sighted(group)
  /\ UNCHANGED <<group, stopped, worker, sampler>>

GroupLost ==
  /\ group
  /\ group' = FALSE
  /\ Upset
  /\ UNCHANGED <<redis, stopped, worker, sampler, away>>

(* Another pod makes the group again. *)
GroupMade ==
  /\ redis /\ ~group
  /\ group' = TRUE
  /\ Sighted(TRUE)
  /\ UNCHANGED <<redis, stopped, worker, sampler, trouble, calm>>

Stop ==
  /\ ~stopped
  /\ stopped' = TRUE
  /\ UNCHANGED <<backend, worker, sampler, history>>

Older(age, bound) == IF age > bound THEN age ELSE age + 1

Tick ==
  /\ at # "done" => timer < Longest[at]
  /\ CASE monitor = "grace" -> clock < Grace
       [] monitor = "pause" -> clock < Period
       [] OTHER             -> monitor = "done"
  /\ timer' = IF at = "done" THEN 0 ELSE timer + 1
  /\ clock' = IF monitor = "done" THEN 0 ELSE clock + 1
  /\ beat' = Older(beat, Limit)
  /\ calm' = IF redis THEN Older(calm, Recovery) ELSE 0
  /\ away' = IF redis /\ group THEN 0 ELSE Older(away, Limit + Call)
  /\ UNCHANGED <<backend, stopped, at, reply, grouped, monitor, failure, gauge, shown, trouble>>

Next ==
  \/ WorkerStep \/ ScanEnds \/ SamplerStep
  \/ RedisLost \/ RedisBack \/ GroupLost \/ GroupMade \/ Stop \/ Tick

Spec == Init /\ [][Next]_vars

(* Goroutines take their next step, calls end and time goes on; a scan need not
   end. *)
Fairness == WF_vars(WorkerStep) /\ WF_vars(SamplerStep) /\ WF_vars(Tick)

FairSpec == Spec /\ Fairness

-----------------------------------------------------------------------------
(* The checks of GET /probe/ready that concern the queue. *)

Healthy == redis /\ group
Active  == beat <= Limit
Ready   == Healthy /\ Active

(* The backend of an active worker was there, with its consumer group, within three
   lease periods and the time of an answer: a loop that spins on a backend that
   refuses every call, or has lost the group, does not count as working for longer. *)
ActiveWasReached == Active => away <= Limit + Call

(* A worker whose backend is well is active, whatever it does: waiting for
   deliveries, recovering from an outage that ended some calls ago, or in a scan
   much longer than three lease periods. *)
WorkingIsActive == ~stopped /\ calm > Recovery => Active

(* Without an outage the sampler reports none: a pod that boots against a
   backend without the consumer group waits until its own read loop has repaired
   that, and a pod that shuts down, which cancels the queries in flight, does not
   leave a failure as its last word on the queue. *)
NoFalseAlarm == ~trouble => gauge # "failed"

(* A lasting outage, even from before the start, is reported by the sampler,
   which removes every measurement it can no longer make, and ends the worker's
   activity. *)
OutageIsReported ==
  <>[](~redis /\ ~stopped) => <>[](gauge = "failed" /\ ~Active /\ shown = {})

(* When Redis stays, the group is made again, the sampler reports recovery and
   the pod becomes and remains ready. *)
RecoveryIsReported ==
  <>[](redis /\ ~stopped) /\ <>[][~GroupLost]_vars => <>[](Ready /\ gauge = "ok")
=============================================================================

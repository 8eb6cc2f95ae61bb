# Verification of harbor-scanner-trivy

The adapter lets Harbor scan artifacts with Trivy. Harbor posts a scan request,
the adapter stores one job per report format in a Redis Stream, a worker in some
pod runs Trivy, and Harbor polls for the report. All pods share one Redis and
one consumer group; any of them may crash, lose a lease or lose an answer at any
time, and the documentation (`docs/SCALING.md`, "Delivery and recovery") promises
at-least-once delivery, three attempts, one verdict and one report.

This directory holds TLA+ models of that system, TLC configurations that check
them on small instances, and TLAPS proofs, for every value of the constants, of
all the invariants and action properties that the configurations check: for every
set of keys, workers and requests and any number of faults, for every number of
scans, for every lease, interval and timeout that the assumptions admit. Liveness
is only model-checked.

    tlc -workers 2 -config delivery_faults.cfg MCDelivery.tla
    tlapm DeliveryProofs.tla       # the same for ScanApiProofs, TrivyScanProofs,
                                   # ChildProcessProofs, CollectorProofs and
                                   # ReadinessProofs

## The system

| Part | State | Operations | Talks to |
|---|---|---|---|
| HTTP API (`pkg/http/api/v1/handler.go`) | none | AcceptScanRequest, GetScanReport, metadata, probes | enqueuer, store, wrapper |
| Enqueuer (`pkg/queue/enqueuer.go`) | none | Enqueue: one script per MIME and media type | store |
| Store (`pkg/persistence/redis/store.go`) | job key, report key, their expiry | Enqueue, Get, UpdateStatus, UpdateReport, Acknowledge | Redis, by Lua scripts fenced with the lease |
| Stream worker (`pkg/queue/stream.go`) | consumer, current delivery, lease token, heartbeat | run, process, renew, recoverMissingGroup, cleanConsumers, Stop | Redis stream and group, controller |
| Quarantine (`pkg/queue/quarantine.go`) | a Redis hash | quarantineDelivery | Redis |
| Controller (`pkg/scan/controller.go`) | none | Scan: Pending, scan, report, Finished or Failed | store, wrapper |
| Wrapper, targets (`pkg/trivy/wrapper.go`, `target.go`, `errors.go`) | temporary files, the child | Scan, scan, newTarget, classification, GetVersion | registry, Trivy child |
| Temp roots, reaper (`tempdir.go`, `reaper.go`) | directories in `/tmp` | NewTempRoot, Start, Close | the file system of the pod |
| Collector, version cache (`pkg/metrics/background.go`, `recorder.go`) | the last probe and its generation, the series of the metadata | Start, probeEngine, collectMetadata, CachedVersion, DiscardVersion | the Trivy binary, `GetVersion` |
| Queue monitor, readiness (`pkg/queue/metrics.go`, `stream.go`, `GetReady`) | the heartbeat, the gauges of the queue | monitorQueue, observeQueue, beat, Active, Healthy | Redis, the read loop |
| Bounded output, memory limit (`pkg/ext/buffer.go`, `pkg/trivy/memory.go`) | a buffer | Write, Bytes; childGoMemLimit | the child |
| Transformer, configuration, tools | none | pure mappings and wiring | |

What is hard here: every Redis call is a point where another pod may act; a
lease may lapse while its holder is paused, so that two workers hold the same
job; a call may take effect and its answer be lost; the group, a job key or the
whole backend may disappear under a running scan; jobs and reports are written
and read in two calls each; a worker may die between any two of them. Inside one
scan, each step may fail, the accessory's SBOM may be tried before the image, a
deadline and a cancellation may come at any step, and the text of an error
decides whether the scan is tried again. Beside the scans, a loop probes the
engine while polls decode and discard what it cached, and a sampler and the
readiness checks must tell a lost group, an outage, a long scan and a dead loop
apart by the age of what they know.

`PROJECT.json` lists every component and every hazard at its line, with the
property that guards it or the reason why none does yet.

## The modules

### Delivery: the queue, the store and the workers

`Delivery.tla` is the core. One Redis call or Lua script of the code is one
step; everything a script does is in that step (`EnqueueScript`,
`UpdateJobScript`, `UpdateReportScript`, `AcknowledgeScript`,
`QuarantineScript`).

| Variable | In the code |
|---|---|
| `jobs` | the job key: status and `Attempts`. `New` is a key never enqueued, `Gone` a key that was deleted or has expired |
| `reports` | the report key, as the number of the attempt that wrote it; 0 is no report |
| `ttl` | whether the two keys are expiring |
| `entry` | the stream entry: absent, stored (no group knows it), unread in the group, or pending with a worker |
| `group`, `consumers` | the consumer group and its consumers |
| `quarantine` | the quarantine hash |
| `lease` | the lease key: free, the token of a worker's present `process()` call, or stale, a token no call carries |
| `pc`, `msg`, `seen`, `goal`, `ctx` | a worker: where it is between two calls, its delivery, the job `UpdateStatus` read, the status it writes, its context |
| `faults`, `started`, `retired` | the fault budget, and history: attempts begun, deliveries acknowledged |

A worker is one incarnation of a process: a restarted pod is another member of
`Workers` with a consumer name of its own, as in the code. `run()` is `Boot`,
`ClaimIdle`, `ReadNew`, `PollEmpty`, `CleanIdle`, `RecoverGroup`, `LeaveLoop`
and `Exit`; `process()` is `AcquireLease`, `LeaseBusy`, `GetJob`,
`QuarantineMissing`, `QuarantineUndecodable`, `AckRead`, `Acknowledge` and
`ReleaseLease`; its heartbeat goroutine is `Renew` and `LoseLease`;
`UpdateStatus` is `ReadJob` and `WriteJob`; `controller.Scan` is `ScanReports`,
`ScanFails`, `ScanInterrupted` and `WriteReport`. `Foreign` entries are
deliveries that cannot be decoded.

The environment has eight kinds of fault, which share the budget `MaxFaults`:
`error` (a call fails without effect), `reply` (it takes effect and the answer
is lost), `lapse` (a holder is paused for a lease period), `crash`, `stop`
(SIGTERM), `group` (the consumer group is lost), `evict` (a job key is deleted)
and `flush` (Redis restarts empty). Time is not measured: a lease lapses, an
entry becomes idle and retention ends whenever the code allows them to.

### ScanJob: what is promised

`ScanJob.tla` is the life of a job as Harbor sees it, with no stream, lease or
worker: accepted, at most `MaxAttempts` attempts, one verdict, a report that
appears with the Finished verdict and is the one of that attempt, retention only
after the delivery was retired. `Delivery!ImplementsScanJob` states that the
protocol implements it under the mapping `Shown`: a report stored ahead of its
Finished status is not shown.

### ScanApi: requests and polls

`ScanApi.tla` extends `Delivery`. A request enqueues its keys one by one and is
accepted after the last; an error refuses it and leaves the keys stored so far.
A poll is the two reads of `store.Get`. Polls only read and Harbor polls one
report at a time, so one poller per key stands for all. `poll[k].answer` keeps
the last answer that was not an error. Failures of API calls are free; they do
not use the fault budget.

### TrivyScan: inside one scan

`TrivyScan.tla` details what `Delivery` takes as a choice (`ScanReports`,
`ScanFails`, `ScanInterrupted`): `wrapper.Scan` and `newTarget` step by step,
from the image to the target (an SBOM that Harbor stored, the image, or the SBOM
accessory of the image), the report file, the child's scratch directory, the
child, its report, the deferred removals, the fallback and the verdict of
`controller.Scan` (`verdict.outcome`: "report" and "failed" are verdicts, "retry"
and "pending" leave the delivery for another attempt). The history variable `blamed`
keeps whose error decides: that of the artifact, or of its accessory (its lookup, its
download, or any later step of a scan whose target it is), or whether a second pass
began when the time was over.

Texts are abstracted to the signs that the rules of the code look for, and every
error carries its true cause, which the adapter does not see; the rules
(`ClassifyTrivyError`, `ClassifyRemoteError`, `FatalDiagnostics`, `NotFound`,
`Refused`, `Retryable`) are translated in their order. `FatalReports` and
`RegistryErrors` are the error texts that the code's comments and tests name,
with the combinations in which one failure carries the signs of another. The
module also has the adapter processes on one temp filesystem: start, reap,
crash, clean exit and a sweep of the filesystem between scans.

### ChildProcess: the bounds of the child

`ChildProcess.tla` looks into the step `RunChild` of `TrivyScan`. `Start` is the
part of `prepareScanCmd` that chooses GOMEMLIMIT: `ChildGoMemLimit` is the set of
values the child's environment gets, with one member or none. `Write(n)` is
`LimitedBuffer.Write` of n bytes, append and trim in one step, and `Exit` is what
`RunCmd` returns. A byte is
its position in the stream, so that a sequence of bytes says what it left out.
`MaxInt64` is the largest integer (2^63 - 1 in Go), `Unlimited` what a cgroup of v1
without a limit says or exceeds (2^62), and the units are powers of `Kilo` (2^10):
numbers rather than exponents, about which the prover can reason. Configuration and cgroup files do not change
while the adapter runs.

### Collector: the engine's version

`Collector.tla` has the loop of `Recorder.Start` (`loop`, with `version` its
local variable), the cache with its generation, the polls of `GET
/api/v1/metadata` (`reader`: a poll copies the cached bytes, decodes them without
the lock, and discards them if it cannot), the series that tell the engine's
version, and the gauge that vouches for them. What the engine prints is good,
readable for the probe only (`odd`: the probe does not read the time stamps), or
a failure. Time is in discrete units, and all times are relative: `timer` since
the loop is where it is, `age` of the cached probe. `Overhead` bounds the calls of
a collection that have no timeout of their own (the files of the databases, the
samples of the file systems), which the code leaves open. `Gap` is by how much a
round of the loop, from the end of one probe to the end of the next, may exceed the
two intervals for which a probe is cached: with the default timeout of 5 s in a minute
it is 0, with a timeout near the interval, which `GetConfig` admits, it is not.

### Readiness: the worker as its pod reports it

`Readiness.tla` has the read loop once more, now with the time that each step
takes and with nothing of the jobs: `at` and `timer`, the age of the heartbeat
(`beat`), the channel `grouped`, the sampler of `metrics.go` with its four
queries, and the checks of `GET /probe/ready` that concern the queue.

Every Redis call of the loop is a point of its own, with up to `Call` time: XGROUP
CREATE at the start ("boot"), `cleanConsumers` ("clean", once in ten seconds, so at
the top of the loop or not), XAUTOCLAIM ("claim"), XREADGROUP ("read"), the XGROUP
CREATE of `recoverMissingGroup` ("recreate"), SETNX ("lock"), the renewals ("renew")
and the release of the lease ("release"). A call has two moments. Redis executes it
(`Serve`), which decides the `reply` and may make the group; the worker gets the reply
later, by an action of its own. In between Redis may go, and the reply is lost
(`Break`), or the group may go, and the worker does not know. So each call fails on
its own, also one that took effect.

Redis goes and comes, and the group is lost, or made by another pod (`GroupMade`), at
any time. The heartbeat is a time in whole seconds, so an answer may count as a unit
old (`Beat`). Two variables are history: `away` is the time since Redis was
last there with the group, `calm` how long there has been no trouble. A worker that is up but
has another one's lease in its way goes on reading (`Lock`), a cancelled scan takes at
most `Linger`. The calls of a scan itself, to the store and to Trivy, are the scan.

## The runs

| Run | Instance | Distinct states | Shows |
|---|---|---|---|
| `delivery_faults` | 1 key and an undecodable entry, 2 workers, 2 attempts, any 3 faults | 1 313 000 | nine invariants, `VerdictIsFinal`, `ImplementsScanJob` |
| `api_faults` | 1 key, 2 workers, 2 attempts, any 2 faults, polls | 1 520 000 | no answer is taken back, a served report is its verdict's |
| `api_request` | 2 keys in a request, an undecodable entry, 1 worker, 1 fault | 318 000 | a 202 means that every key can be polled |
| `api_liveness` | 1 key, 2 workers, 1 fault, polls | 351 000 | `DeliveriesAreServed`, `AcceptedIsAnswered` |
| `scan_calls` | 2 scans, 3 adapter processes | 54 000 | what a scan leaves, what an accessory may decide, what is retried, that it ends |
| `child_process` | limit 2, outputs of up to 7 bytes, 63 as the largest integer, all settings and cgroups over 10 values | 354 000 | `OutputIsItsTail`, `MemoryLimitIsUsable` |
| `collector` | 2 versions, 1 database, 1 poll at a time, an interval and a timeout of 2 units | 368 000 | six invariants, `EngineIsServed` |
| `readiness` | a lease of 3 units, a grace and a cancelled scan of 2, else 1 | 1 692 000 | three invariants and the type, an outage and its end are reported |
| `failed_report`, `report_reads`, `error_categories`, `probe_gap` | smallest | | the divergences below |

**Why these bounds.** Two workers are enough for every race of the protocol,
since a fence involves one holder and one former holder; a third incarnation
only repeats the second. Two attempts let one worker be on an older attempt than
another and let the limit be reached by a counted but unfinished attempt. Three
faults allow, for example, a lapse, a lost group and a lost reply in one
behaviour. `MaxAttempts` is 3 in the code; the proofs hold for any positive
number. Two scans let the second find what the first left, three processes let
one be killed, one reap and one exit cleanly. Deadlock is not checked where
the system may really stop: with the fault budget all workers may crash, and
every scan and start may have been used.

`delivery_faults` and `api_request` do not have several keys, several workers
and all faults at once; that jobs do not disturb each other in the queue is what
the proof of `IInv` shows for any set of keys.

In `child_process` the limit is a third of the longest output, so that writes
shorter and longer than the limit fall into an empty, a partly filled, a full and
a twice filled buffer; the values include each bound of the arithmetic, its
neighbours, 0, and what overflows with every unit. In `collector` the timeout is the
interval, the most that `GetConfig` admits, and probe, collection and jitter take a unit
or more each, so that `Gap` is 4: polls come before, in and after a gap. Three
generations are one for the cache, one for a poll and a fresh one. With the proportions
of the defaults (an interval of 5, a timeout of 1, an overhead of 2) `Gap` is 0, and the
run passes too, in 441 000 states.

In `readiness` a lease of three units is the shortest whose third is a unit. There
`ReadinessAssumption` (a renewal, five calls, a cancelled scan and a unit of the
heartbeat's clock fit into three lease periods; a call is shorter than the grace) holds
with equality, while the real values (20 s, a few seconds each, 180 s) leave a wide
margin. The bounds are exact: with `Recovery` less by one, or with a `Linger` of 3, which
the assumption excludes, TLC finds `WorkingIsActive` violated.

**Fairness.** Workers take their next step (weak fairness on `WorkerStep`):
Redis calls time out and a scan has a deadline. For each entry, a claim that is
possible again and again is made (strong fairness on `ClaimIdle` and `ReadNew`,
over all workers): XREADGROUP goes through the entries in order and XAUTOCLAIM
by a cursor, but another worker's lease may make a claim impossible for a while.
Redis expires the key of a stale lease (weak fairness on `StaleExpires`).
Environment faults, idle polls and renewals have no fairness, and at most one
fault happens in the liveness runs, so at least one of the two workers survives.
In the API, Harbor keeps polling and in the end both reads are answered (weak on
`PollJob`, strong on `PollReport`, since a read may fail any number of times).
In `scan_calls`, the calls of a scan return: the deadline bounds the registry
and kills the child. In `collector` and `readiness` the goroutines take their next
step and time goes on (weak fairness on `LoopStep`, `WorkerStep`, `SamplerStep`
and `Tick`): probes, walks and Redis calls have timeouts. The polls of
`collector`, and a scan in `readiness`, need not ever end.

Every property has a mutant in `PROJECT.json`: an operator that changes a
definition as a plausible bug would (the lease is not checked, the group is
created at the end of the stream, the whole output is classified), under which
its run finds the property violated.

## Where the documentation and the code disagree

- `failed_report`: a terminally failed scan is acknowledged "with no report"; a
  worker that dies between the report and the Finished status of the last
  attempt leaves one (`stream.go:348`). The API does not serve it.
- `report_reads`: retention may end between the two reads of `store.Get`; the
  poll then answers 200 with an empty report (`store.go:172`).
- `probe_gap`: the comment on `CachedVersion` (`recorder.go:183-185`) and
  `docs/metrics.md:34-36` say that an answer kept for two intervals leaves no gap, so that polls do
  not start a Trivy process each. With the longest timeout that `GetConfig` admits
  (`config.go:132`), a probe is followed by a walk of the caches, an interval and a probe
  of an interval: the cached answer expires while a healthy, slow engine is being
  probed, and every poll in between starts a process. `GapIsTheExcess` bounds that time.
- `error_categories`: the documentation's table of categories and retries is not
  what the controller gets. ENOSPC and EIO of the adapter's own files are
  documented as retried; they arrive as plain errors and fail the job at once
  (`StorageFailuresAreRetried`, the shortest counterexample). Registry fetch errors
  are documented as retried; those of the layer of an SBOM fail the job at once
  (`FetchErrorsAreRetried`, `target.go:163`). The deadline is documented as category
  `timeout`; the killed child's log is classified instead, by default as
  `trivy_execution` (`DeadlineIsTimeout`, `wrapper.go:209`). Each of the three is a
  definition of `TrivyScan` and is violated on its own under the same constants.

Met while modelling, without a run: the comment in `GetVersion`
(`wrapper.go:578-582`) and `docs/metrics.md:34` say that polls do not start a Trivy
process each. The first poll that cannot decode the cached bytes discards them, so
every further poll until the next probe runs the command (`Poll` finds `Valid`
false in `Collector`). And a `LimitedBuffer` with a negative limit that was never
written panics in `Bytes` (`buffer.go:52`); the comment in `Write` (`buffer.go:26`)
promises otherwise, and no caller has such a limit.

## What is proved

Each invariant and action property that a passing run checks is also a theorem,
for every value of the constants that meets the `ASSUME` of its module. TLC
evaluates those assumptions in each run; they say no more than this:

| Module | Assumption |
|---|---|
| `Delivery` | keys and undecodable entries are disjoint, no worker or delivery is called like one of the markers the variables use, `MaxAttempts` is positive, the fault kinds are among `AllFaults` |
| `ScanApi` | no key belongs to two requests (a key is made of a fresh id) |
| `TrivyScan` | the bounds on scans and starts are natural numbers |
| `ChildProcess` | the limit and the integers are natural numbers, `Unlimited` is one that an integer holds, a unit is not 0 |
| `Collector` | durations are natural numbers; the timeout is positive and at most the interval, as `GetConfig` demands |
| `Readiness` | durations are positive, a third of a lease is a unit or more; three lease periods hold a renewal, five calls, a cancelled scan and a unit; a call is shorter than the grace |

Few of the properties are inductive. What each proof adds is said below, and at
the head of its module; TLC checked each strengthened invariant on the instance of
its run before it was proved.

### The delivery protocol

`DeliveryProofs.tla` proves `Invariant`: `Spec => []IInv`, and from it `TypeCorrect`,
`OpenJobsKeepTheirDelivery`, `EntriesStayReachable`, `AttemptLimit`,
`ReportBelongsToVerdict`, `SettledDeliveries`, `RetentionComesLast`,
`QuarantineIsJustified`, `NewestAttemptOwns`; then `Verdicts` (a verdict never
changes) and `Refinement`: `Spec => ImplementsScanJob`.

`FinishedHasItsReport`, say, holds of a write of Finished only because the writer,
*if it still owns the lease when the script runs*, wrote the report of the attempt
that is the job's current one, and nobody wrote since. `IInv` therefore adds what a
worker knows: `LeaseHolderHolds` (a token belongs to a `process()` call in progress
for that very delivery), `Coherent` (at each point between two calls, what the
worker's locals say of the job, unconditionally or as long as it owns the lease)
and `JobConsistent` (how status, attempts and history of a key relate). A worker
that lost its lease knows nothing, and needs to know nothing, since every script
checks the fence.

The lemmas follow the conjuncts of `IInv` (`WorkTypesStep`, `StoreTypesStep`,
`QueueTypesStep`, `LeaseStep`, `CoherentStep`, `JobStep`, `ReportStep`,
`RetiredStep`, `OrphanStep`), each by cases on the actions; `WriterKnows`,
`ReporterKnows` and `RetirerKnows` extract what a worker about to write knows, and
`Inductive` puts them together. `StoreStep` says what any step may do to the two
keys of a job (`StoreMovesForward`): `Verdicts` and the proofs about the API rest on
it. The refinement has one lemma per action that changes what is shown
(`WriteRefines`, `ReportRefines`, `AcknowledgeRefines`, `LossRefines`); all other
steps stutter.

### Requests and polls

`ScanApiProofs.tla` first shows that the API is a user of the protocol,
`ApiServesDelivery`: `ApiSpec => Spec`. So what is proved of `Delivery` holds with
the API, and `ApiServesScanJobs` follows from `Refinement`. A poll reads the job and
the report in two calls; `ApiInv` says what it may rely on in between (`Answered`: a
verdict it read is still that of the job, or the job is gone, and the report key
holds the report of that attempt or none; an answer it gave is still true) and what
a request knows of the keys it no longer has to enqueue (`Enqueued`). From it
`UnknownJobsAreGone`, `ReportFitsItsAnswer`, `ReadsGoForward` and, step by step,
`NoAnswerIsTakenBack`.

### A scan

`TrivyScanProofs.tla` proves `ScanInvariant`: `Spec => []ScanInv`, with one
lemma per part. `TempInv` is the account of the temp filesystem: every file and
root is of a process that was started, those of the running one only while its
scan has a target, an SBOM file only if the target is an SBOM. `NothingLeftBehind`
and `OnlyOwnRoot` (`ScansCleanUp`, `RootsAreReaped`) follow, across kills, reaping
and exits. `AccessoryInv` follows an error from the step that failed to the verdict:
up to `Return` it is blamed on the accessory if the scan's target is one, and from there
on only if there was no time left, since `FallBack` forgets target and blame; the lookup
and the download of an accessory leave no error at all (`ImageDecides`).

`ErrorInv` says that every error is `Judged` right: one with a passing cause is
retryable, one with a lasting cause is not. From it `PassingTroubleIsRetried` and
`LastingTroubleIsFinal`. The classification is a list of rules of which the first
that applies counts. `FirstRule` reduces such a choice to the rule that has no
applicable one before it; `RemoteRules` and `TrivyRules` spell the two lists out as
chains of conditions, so that `RemoteErrorsAreJudged` and `TrivyErrorsAreJudged`
can go through the texts one by one. They hold for the texts listed in
`RegistryErrors` and `FatalReports`, and for routine lines of any kind before a
fatal one, as far as the module has them.

### The child

`ChildProcessProofs.tla` proves `OutputBounded`: for every limit, and for outputs of
any length in writes of any size, `RunCmd` returns the end of the output, marked if
something is missing, and between two writes the buffer holds at most twice the limit
(inside a write it may hold three times the limit, after the append and before the
trim). The buffer need not hold a contiguous part of the stream,
since of a long write only the end is appended to what was there, so the invariant
`IsTail` speaks of its last `Limit` bytes only. `LastOfConcat` carries the proof:
the last bytes of a concatenation depend on the last bytes of its parts (`SameEnd`
compares sequences counted from their end). `MemoryLimited` is the arithmetic of
GOMEMLIMIT: a value that was compared with a quotient does not overflow when it is
multiplied (`QuotientBounds`), and a share of a limit is less than the limit
(`ShareIsLess`).

### The engine's version

`CollectorProofs.tla` has one invariant per subject. For the cache (`CacheInv`,
giving `LatestProbeIsCached` and `ReadersSpareTheLatest`): a poll whose generation is
still the cache's holds the cached bytes (`ReadersHoldCopies`), since whoever stores
others takes a fresh generation; that is why `DiscardVersion` may drop what such a
poll could not decode, and nothing else. For its age (`AgeInv`, giving
`CacheLastsToTheExcess`): at each point of the loop, the age is at most the longest
way from the probe to that point and the time spent there, which adds up to two
intervals and `Gap`, for all settings that `GetConfig` admits. `QuickProbesLeaveNoGap`
is the corollary for those under which a round of the loop fits into two intervals, a
hypothesis of that theorem only. For the series
(`SeriesInv`, giving `BuildInfoIsUnique` and `SuccessIsEarned`): the loop's variable
`version` names the only version that can have a series.

### The worker as its pod reports it

`ReadinessProofs.tla` proves three things. `ActivityIsProof`: whatever starts the
heartbeat again is an answer that Redis gave, having the group, while the worker waited
for it (`AnswersAreNew`), so `away` exceeds the age of the heartbeat by a call at most.
`AlarmsAreTrue`: without a trouble the group is there before the sampler's grace ends
(`QuietStart`).

`WorkersStayActive` is the longest. Its invariant `OnItsWay` says that a worker is
either on its way from the end of a trouble to its next answer, or has had that
answer and no failure since. The way has two parts. As long as the worker has not got
to know that the group is missing, `calm` is within `EarlyBound` of the point where the
loop is (`Early`); once it may have got to know, within `LateBound` (`Late`), which adds
the recreation and the wait. After the answer, `FreshBound` bounds the age of the heartbeat
at each point up to the next read or renewal (`Fresh`). Each step of the loop leads from
the bound of one point to that of the next: `MovesOn` for the steps in `Ways`, which
prove nothing; `AnswerIsFresh` for an answer; `FailureTells` for a failure, after which
the way is at most a call old, unless it was the failure that tells the worker of the
missing group; `TroubleStartsTheWay`. `InTime` adds up: `LateBound` and the time at a point
are within `Recovery`, `FreshBound` and that time within three lease periods. The longest
way begins with a claim that is answered just before the group is lost: SETNX, a
scan up to the renewal that fails, its cancellation, the release, `cleanConsumers`, the
read that finds no group, its recreation, the wait, `cleanConsumers`, the read that
answers.

### Only model-checked

The six liveness properties (`DeliveriesAreServed`, `AcceptedIsAnswered`,
`ScansReturn`, `EngineIsServed`, `OutageIsReported`, `RecoveryIsReported`): liveness under fairness, and `ENABLED`, are out of the prover's reach. The four runs that
expect a violation are counterexamples; `probe_gap` is one to the property that
`QuickProbesLeaveNoGap` proves under its hypothesis, the others have no theorem.

### What the properties do not say

- `ImplementsScanJob` does not catch a Failed verdict one attempt too early: an attempt
  may fail for a lasting error, so the abstract job may fail at any of them. Nor does
  it catch keys that expire too early, since the abstract job may be lost at any time
  (an eviction); `RetentionAfterRetirement` does.
- `NotFoundIsGone` is of requests and polls; `api_request` can always poll, so its
  deadlock check says nothing.
- `DeliveriesAreServed` is checked for deliveries of jobs; undecodable entries take
  part in the safety runs only.
- `EngineIsServed` says that polls are served from the cache again and again, not always:
  together with `GapIsTheExcess` it is always when `Gap` is 0.
- `WorkingIsActive` is of bounds that fit into the lease. The code leaves the length of
  a call to the client's timeouts and retries, and that of a cancelled scan to its child.

## What is not modelled

- Within `Delivery`: payloads and credentials, compression, the inline report of
  values from before the key split, an enqueue sent twice with a flush in
  between, commands that arrive after a delay, a Redis with AOF that returns a
  second older, XCLAIM that recreates a consumer record for an entry that is no
  longer pending. The retries of go-redis are covered by lost replies.
- Within `TrivyScan`: command-line arguments, redaction, removals that fail,
  several adapters on one temp filesystem (not supported by the code).
- Within `ChildProcess`: a limit below zero, what the buffer takes inside a write, the rounding of `0.8 * limit` in
  floating point, a container that is resized while it runs.
- Within `Collector`: the walk of the cache directories with its budgets, the
  samples of the file systems, the times of the databases, what a poll answers.
- Within `Readiness`: the look-up of the Trivy binary (`Available`), the values of
  the measurements, clocks that jump (the heartbeat is wall-clock time), the
  duration of a sample.
- The validation of a scan request is one choice in `ScanApi`. The report
  transformer, configuration, the other metrics and the tools are mappings and
  wiring without state that anything reads back.

## Plan

Done: `Delivery`, `ScanJob`, `ScanApi`, `TrivyScan`, `ChildProcess`, `Collector`,
`Readiness`, and the proofs of all their invariants and action properties.

Next: `DeliveryWithScan`, the outcome of `TrivyScan` as the choice of `Delivery`, with
a mapping that shows every scan to be one of those outcomes, and its proof; the
bounded walk of the cache directories.

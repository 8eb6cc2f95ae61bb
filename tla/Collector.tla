----------------------------- MODULE Collector -----------------------------
(***************************************************************************)
(* The background collector of pkg/metrics (background.go, recorder.go)    *)
(* and the polls of GET /api/v1/metadata that reuse what it found          *)
(* (wrapper.GetVersion): a loop that probes the engine, collects and       *)
(* sleeps, a cache of the last probe, and readers that decode the cached   *)
(* bytes outside of its lock.                                              *)
(*                                                                         *)
(* Time is discrete and relative: the time the loop has spent where it is, *)
(* and the age of the cached probe.                                        *)
(***************************************************************************)
EXTENDS Integers, FiniteSets

CONSTANTS
  Interval,    \* SCANNER_METRICS_COLLECTION_INTERVAL, in units of time
  Jitter,      \* the most that is added to it
  Timeout,     \* SCANNER_METRICS_COLLECTION_TIMEOUT: of a probe, and of a walk
  Overhead,    \* the time the calls without a timeout of their own may take
  Versions,    \* engine versions
  Databases,   \* "vulnerability" and "java" in the code
  Readers,     \* polls of the metadata API that may overlap
  Generations  \* the values of the cache's generation counter

(* What GetConfig admits. *)
ASSUME CollectorAssumption ==
  /\ {Interval, Jitter, Timeout, Overhead} \subseteq Nat
  /\ 0 < Timeout /\ Timeout <= Interval

VARIABLES
  engine,   \* what `trivy version` answers in time at present
  loop,     \* where the loop is: "probe", "collect", "sleep" or "done"
  timer,    \* how long it has been there
  version,  \* its local variable: the version that the last good probe read
  stopped,  \* whether its context is cancelled
  cache,    \* versionCache: output, age, generation
  reader,   \* the polls in progress
  info,     \* versions that have a build_info series
  schema,   \* databases that have a db_schema_version series
  present,  \* db_present: "absent" (0), "present" (1), "unknown" (no series)
  success,  \* metadata_collection_success: "unset", "yes" or "no"
  probed    \* history: the outcome of the last probe

vars == <<engine, loop, timer, version, stopped, cache, reader,
          info, schema, present, success, probed>>
series == <<info, schema, present, success>>

(* What the command prints. The probe reads the versions only, so it accepts *)
(* an "odd" output that GetVersion, which needs the time stamps, does not.   *)
Failure  == [version |-> "none", answer |-> "bad"]
Accepted == [version : Versions, answer : {"good", "odd"}]
Nothing  == [version |-> "none", answer |-> "none"]
Idle     == [at |-> "idle", output |-> Nothing, generation |-> "none"]

TtlOneInterval == Interval   \* mutant
Ttl == 2 * Interval

(* By how much a round of the loop may exceed two intervals: from the end of a
   probe, over the collection and the pause, to the end of the next one. *)
Gap ==
  LET excess == Overhead + 2 * Timeout + Jitter - Interval IN IF excess > 0 THEN excess ELSE 0

(* How long the loop may stay where it is. *)
Deadline ==
  CASE loop = "probe"   -> Timeout
    [] loop = "collect" -> Overhead + Timeout
    [] OTHER            -> Interval + Jitter

TypeOK ==
  /\ engine \in Accepted \cup {Failure}
  /\ loop \in {"probe", "collect", "sleep", "done"}
  /\ timer \in 0..Deadline
  /\ version \in Versions \cup {"none"}
  /\ stopped \in BOOLEAN
  /\ cache \in [output : Accepted \cup {Nothing}, age : 0..(Ttl + Gap + 1), generation : Generations]
  /\ reader \in [Readers -> [at : {"idle", "decode", "command"},
                             output : Accepted \cup {Nothing},
                             generation : Generations \cup {"none"}]]
  /\ info \subseteq Versions /\ schema \subseteq Databases
  /\ present \in [Databases -> {"absent", "present", "unknown"}]
  /\ success \in {"unset", "yes", "no"}
  /\ probed \in Accepted \cup {Failure, Nothing}

Init ==
  /\ engine \in Accepted \cup {Failure}
  /\ loop = "probe" /\ timer = 0 /\ version = "none" /\ stopped = FALSE
  /\ \E g \in Generations : cache = [output |-> Nothing, age |-> 0, generation |-> g]
  /\ reader = [r \in Readers |-> Idle]
  /\ info = {} /\ schema = {} /\ success = "unset"
  /\ present = [d \in Databases |-> "unknown"]
  /\ probed = Nothing

-----------------------------------------------------------------------------
(* The cache. A generation is only compared with the one a reader holds: any *)
(* value that is not in use stands for the next one of the counter.          *)

Fresh == Generations \ ({cache.generation} \cup {reader[r].generation : r \in Readers})

CacheVersionIfEmpty(output) ==   \* mutant: the first probe is kept
  IF cache.output # Nothing THEN UNCHANGED cache
  ELSE \E g \in Fresh : cache' = [output |-> output, age |-> 0, generation |-> g]
CacheVersion(output) ==
  \E g \in Fresh : cache' = [output |-> output, age |-> 0, generation |-> g]

InvalidateVersionByFailure == CacheVersion(Failure)   \* mutant: what a failed probe printed is kept
InvalidateVersionNever == UNCHANGED cache   \* mutant: a failed probe keeps the cached one
InvalidateVersion ==
  \E g \in Fresh : cache' = [output |-> Nothing, age |-> 0, generation |-> g]

DiscardVersionWhateverIsThere(generation) == InvalidateVersion   \* mutant
DiscardVersion(generation) ==
  IF cache.generation = generation THEN InvalidateVersion ELSE UNCHANGED cache

Valid == cache.output # Nothing /\ cache.age <= Ttl

-----------------------------------------------------------------------------
(* The loop. *)

GoTo(point) == loop' = point /\ timer' = 0

ProbeSucceeds ==
  /\ loop = "probe" /\ engine \in Accepted
  /\ probed' = engine
  /\ info' = (info \ {version}) \cup {engine.version}
  /\ \E reported \in SUBSET Databases : schema' = reported
  /\ CacheVersion(engine)
  /\ version' = engine.version
  /\ GoTo("collect")
  /\ UNCHANGED <<engine, stopped, reader, present, success>>

(* The command fails, prints no version, does not answer in time, or is      *)
(* killed because the adapter stops.                                         *)
VersionForgotten == "none"   \* mutant: the loop keeps the result of every probe
VersionAfterFailure == version

ProbeFails ==
  /\ loop = "probe" /\ (stopped \/ engine = Failure)
  /\ probed' = Failure
  /\ schema' = {}
  /\ InvalidateVersion
  /\ version' = VersionAfterFailure
  /\ GoTo("collect")
  /\ UNCHANGED <<engine, stopped, reader, info, present, success>>

SuccessOfFiles(found) ==   \* mutant: the probe does not count
  IF \A d \in Databases : found[d] # "unknown" THEN "yes" ELSE "no"
Success(found) ==
  IF probed # Failure /\ (\A d \in Databases : found[d] # "unknown") THEN "yes" ELSE "no"

(* collectMetadata, the file systems and the walk of the cache directories. *)
Collect ==
  /\ loop = "collect"
  /\ \E found \in [Databases -> {"absent", "present", "unknown"}] :
       present' = found /\ success' = Success(found)
  /\ GoTo("sleep")
  /\ UNCHANGED <<engine, version, stopped, cache, reader, info, schema, probed>>

WakeUp ==
  /\ loop = "sleep" /\ timer >= Interval /\ ~stopped
  /\ GoTo("probe")
  /\ UNCHANGED <<engine, version, stopped, cache, reader, series, probed>>

Leave ==
  /\ loop \in {"probe", "sleep"} /\ stopped
  /\ loop = "probe" => timer = 0
  /\ GoTo("done")
  /\ UNCHANGED <<engine, version, stopped, cache, reader, series, probed>>

Stop ==
  /\ ~stopped
  /\ stopped' = TRUE
  /\ UNCHANGED <<engine, loop, timer, version, cache, reader, series, probed>>

LoopStep == ProbeSucceeds \/ ProbeFails \/ Collect \/ WakeUp \/ Leave

-----------------------------------------------------------------------------
(* A poll: GetMetadata calls GetVersion and answers 200 in any case, without *)
(* the times of the databases if it got no version.                          *)

(* The cached bytes are copied under the lock. Without them the command is   *)
(* started.                                                                  *)
Poll(r) ==
  /\ reader[r].at = "idle"
  /\ reader' = [reader EXCEPT ![r] =
       IF Valid THEN [at |-> "decode", output |-> cache.output, generation |-> cache.generation]
                ELSE [Idle EXCEPT !.at = "command"]]
  /\ UNCHANGED <<engine, loop, timer, version, stopped, cache, series, probed>>

Answered(r) == reader' = [reader EXCEPT ![r] = Idle]

Decode(r) ==
  /\ reader[r].at = "decode"
  /\ IF reader[r].output.answer = "good" THEN UNCHANGED cache
                                         ELSE DiscardVersion(reader[r].generation)
  /\ Answered(r)
  /\ UNCHANGED <<engine, loop, timer, version, stopped, series, probed>>

(* The answer of the command itself is never cached; it has no timeout. *)
CommandEnds(r) ==
  /\ reader[r].at = "command"
  /\ Answered(r)
  /\ UNCHANGED <<engine, loop, timer, version, stopped, cache, series, probed>>

-----------------------------------------------------------------------------
(* The environment: an upgrade of the image, a fault of the engine, time.    *)

EngineChanges ==
  /\ engine' \in (Accepted \cup {Failure}) \ {engine}
  /\ UNCHANGED <<loop, timer, version, stopped, cache, reader, series, probed>>

Tick ==
  /\ loop # "done" /\ timer < Deadline
  /\ timer' = timer + 1
  /\ cache' = [cache EXCEPT !.age = IF @ > Ttl + Gap \/ cache.output = Nothing THEN @ ELSE @ + 1]
  /\ UNCHANGED <<engine, loop, version, stopped, reader, series, probed>>

Next ==
  \/ LoopStep \/ Stop \/ EngineChanges \/ Tick
  \/ \E r \in Readers : Poll(r) \/ Decode(r) \/ CommandEnds(r)

Spec == Init /\ [][Next]_vars

(* The loop is one goroutine whose calls end, and time goes on. *)
Fairness == WF_vars(LoopStep) /\ WF_vars(Tick)

FairSpec == Spec /\ Fairness

-----------------------------------------------------------------------------
(* The cache holds what the latest probe read, or nothing: an answer of
   before a failed probe is not served again, and a reader that decodes an old
   copy cannot bring it back. *)
CacheIsLatestProbe == cache.output \in {Nothing, probed}

(* DiscardVersion drops only the bytes its caller could not decode: as long
   as the latest probe is readable it stays cached, although readers of earlier,
   unreadable probes discard what they read at any later time. *)
ReadableProbeIsKept == probed.answer = "good" => cache.output = probed

(* Two intervals bridge the time between two probes but for the excess of a slow
   probe and collection, which GetConfig's bounds admit: while the loop runs, what it
   cached is at no time out of date for longer than that. *)
GapIsTheExcess == ~stopped /\ cache.output # Nothing => cache.age <= Ttl + Gap

(* Comment on CachedVersion: two intervals leave no gap for a poll to fall into;
   docs/metrics.md: Harbor's polling does not start a process per request. *)
NoGapBetweenProbes == ~stopped /\ cache.output # Nothing => cache.age <= Ttl

(* There is one build_info series at most, also when the engine is upgraded
   around failed probes, and after a good probe it is that of the engine. *)
OneBuildInfo ==
  /\ Cardinality(info) <= 1
  /\ probed \in Accepted => info = {probed.version}

(* docs/metrics.md: build_info is to be trusted only with
   metadata_collection_success. While the loop sleeps, success vouches for every
   series of the metadata: the probe was good and each database was observed. *)
SuccessVouches ==
  loop = "sleep" /\ success = "yes" =>
    /\ probed \in Accepted /\ info = {probed.version}
    /\ \A d \in Databases : present[d] # "unknown"

(* Once the engine answers for good, the cache in the end holds a good answer for
   ever, and polls are served from it again and again, but for the gaps of a slow
   engine: no earlier fault, and no reader of an earlier output, stops the collector
   or keeps undoing its work. *)
EngineIsServed ==
  <>[](engine.answer = "good" /\ ~stopped) => <>[](cache.output.answer = "good") /\ []<>Valid
=============================================================================

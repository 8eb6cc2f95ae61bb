-------------------------- MODULE CollectorProofs --------------------------
(***************************************************************************)
(* Proofs about Collector, for every number of readers, versions and       *)
(* databases and every interval, jitter and timeout that                   *)
(* CollectorAssumption admits: the types, and what the cache of the        *)
(* engine's version and the series of the metadata say at any time.        *)
(***************************************************************************)
EXTENDS Collector, FiniteSetTheorems, TLAPS

(* The constants as numbers. *)
LEMMA Bounds ==
  /\ Interval \in Nat /\ Jitter \in Nat /\ Timeout \in Nat /\ Overhead \in Nat
  /\ Ttl = 2 * Interval /\ Ttl \in Nat
  /\ 0 < Timeout /\ Timeout <= Interval
  /\ Gap \in Nat /\ Overhead + 2 * Timeout + Jitter <= Interval + Gap
BY CollectorAssumption DEF Ttl, Gap

(* How long the loop may stay at a point. *)
LEMMA Stays ==
  /\ loop = "probe" => Deadline = Timeout
  /\ loop = "collect" => Deadline = Overhead + Timeout
  /\ loop \notin {"probe", "collect"} => Deadline = Interval + Jitter
  /\ Deadline \in Nat
BY Bounds DEF Deadline

(* What a probe that failed, or none at all, left is no output. *)
LEMMA NoOutput ==
  /\ Failure \notin Accepted /\ Nothing \notin Accepted /\ Failure # Nothing
  /\ Nothing.answer = "none" /\ Failure.answer = "bad"
BY DEF Failure, Nothing, Accepted

-----------------------------------------------------------------------------
(* Types. *)

(* What the parts of the collector other than the loop touch. *)
CacheTyped == cache \in [output : Accepted \cup {Nothing}, age : 0..(Ttl + Gap + 1), generation : Generations]
ReaderTyped == reader \in [Readers -> [at : {"idle", "decode", "command"},
                                       output : Accepted \cup {Nothing},
                                       generation : Generations \cup {"none"}]]

(* A new probe, or none, is stored under a generation that nobody holds. *)
LEMMA StoreTypes ==
  ASSUME NEW output \in Accepted \cup {Nothing}, NEW g \in Fresh,
         cache' = [output |-> output, age |-> 0, generation |-> g]
  PROVE  CacheTyped'
<1>1. 0 \in 0..(Ttl + Gap + 1) /\ g \in Generations
  BY Bounds DEF Fresh
<1>2. Ttl' = Ttl /\ Gap' = Gap /\ Accepted' = Accepted /\ Nothing' = Nothing
  BY DEF Ttl, Gap, Accepted, Nothing
<1> QED
  BY <1>1, <1>2 DEF CacheTyped

LEMMA TypesStep ==
  ASSUME TypeOK, [Next]_vars
  PROVE  TypeOK'
<1> USE Bounds DEF Accepted, Nothing, Failure
<1>a. CacheTyped /\ ReaderTyped
  BY DEF TypeOK, CacheTyped, ReaderTyped
<1>b. ASSUME NEW point, GoTo(point)
      PROVE  timer' \in 0..Deadline'
  BY <1>b DEF GoTo, Deadline
<1>c. ASSUME UNCHANGED <<loop, timer>>
      PROVE  timer' \in 0..Deadline'
  BY <1>c DEF Deadline, TypeOK
<1>1. CASE ProbeSucceeds
  <2>1. CacheTyped'
    BY <1>1, StoreTypes DEF ProbeSucceeds, CacheVersion
  <2>2. engine.version \in Versions
    BY <1>1 DEF ProbeSucceeds
  <2> QED
    BY <1>1, <1>b, <2>1, <2>2 DEF ProbeSucceeds, GoTo, TypeOK, CacheTyped
<1>2. CASE ProbeFails
  <2>1. CacheTyped'
    BY <1>2, StoreTypes DEF ProbeFails, InvalidateVersion
  <2> QED
    BY <1>2, <1>b, <2>1 DEF ProbeFails, VersionAfterFailure, GoTo, TypeOK, CacheTyped
<1>3. CASE Collect
  <2>1. \A found : Success(found) \in {"yes", "no"}
    BY DEF Success
  <2> QED
    BY <1>3, <1>b, <2>1 DEF Collect, GoTo, TypeOK
<1>4. CASE WakeUp
  BY <1>4, <1>b DEF WakeUp, GoTo, series, TypeOK
<1>5. CASE Leave
  BY <1>5, <1>b DEF Leave, GoTo, series, TypeOK
<1>6. CASE Stop
  BY <1>6, <1>c DEF Stop, series, TypeOK
<1>7. CASE EngineChanges
  BY <1>7, <1>c DEF EngineChanges, series, TypeOK
<1>8. CASE Tick
  <2>1. timer' \in 0..Deadline'
    BY <1>8, Stays DEF Tick, Deadline, TypeOK
  <2>2. CacheTyped'
    BY <1>8, <1>a DEF Tick, CacheTyped
  <2> QED
    BY <1>8, <2>1, <2>2 DEF Tick, series, TypeOK, CacheTyped
<1>9. ASSUME NEW r \in Readers, Poll(r)
      PROVE  TypeOK'
  <2>1. ReaderTyped'
    BY <1>9, <1>a DEF Poll, Idle, ReaderTyped, CacheTyped
  <2> QED
    BY <1>9, <2>1, <1>c DEF Poll, series, TypeOK, ReaderTyped
<1>10. ASSUME NEW r \in Readers, Answered(r)
       PROVE  ReaderTyped'
  BY <1>10, <1>a DEF Answered, Idle, ReaderTyped
<1>11. ASSUME NEW r \in Readers, Decode(r)
       PROVE  TypeOK'
  <2>1. CacheTyped'
    <3>1. CASE UNCHANGED cache
      BY <3>1, <1>a DEF CacheTyped
    <3>2. CASE InvalidateVersion
      BY <3>2, StoreTypes DEF InvalidateVersion
    <3> QED
      BY <1>11, <3>1, <3>2 DEF Decode, DiscardVersion
  <2>2. ReaderTyped'
    BY <1>10, <1>11 DEF Decode
  <2> QED
    BY <1>11, <2>1, <2>2, <1>c DEF Decode, series, TypeOK, CacheTyped, ReaderTyped
<1>12. ASSUME NEW r \in Readers, CommandEnds(r)
       PROVE  TypeOK'
  <2>1. ReaderTyped'
    BY <1>10, <1>12 DEF CommandEnds
  <2> QED
    BY <1>12, <2>1, <1>c DEF CommandEnds, series, TypeOK, ReaderTyped
<1>13. CASE UNCHANGED vars
  BY <1>13, <1>c DEF vars, TypeOK
<1> QED
  BY <1>1, <1>2, <1>3, <1>4, <1>5, <1>6, <1>7, <1>8, <1>9, <1>11, <1>12, <1>13
  DEF Next, LoopStep

LEMMA TypesInitially == Init => TypeOK
<1> SUFFICES ASSUME Init PROVE TypeOK
  OBVIOUS
<1>1. CacheTyped
  BY Bounds DEF Init, CacheTyped, Nothing
<1>2. ReaderTyped
  BY DEF Init, Idle, Nothing, ReaderTyped
<1>3. timer \in 0..Deadline
  BY Stays DEF Init
<1> QED
  BY <1>1, <1>2, <1>3 DEF Init, TypeOK, CacheTyped, ReaderTyped

(* TypeOK holds in every reachable state, in particular the loop stays nowhere
   for longer than the deadline of its step. *)
THEOREM TypeCorrect == Spec => []TypeOK
BY TypesInitially, TypesStep, PTL DEF Spec

-----------------------------------------------------------------------------
(* The cache and its readers. *)

(* A reader that decodes under the generation of the cache has its bytes:
   whoever stores others takes a generation that no reader holds. *)
ReadersHoldCopies ==
  \A r \in Readers :
    reader[r].at = "decode" /\ reader[r].generation = cache.generation
      => reader[r].output = cache.output

CacheInv == CacheIsLatestProbe /\ ReadableProbeIsKept /\ ReadersHoldCopies

(* Another generation makes every copy an old one. *)
LEMMA FreshAgrees ==
  ASSUME TypeOK, reader' = reader, NEW output, NEW g \in Fresh,
         cache' = [output |-> output, age |-> 0, generation |-> g]
  PROVE  ReadersHoldCopies'
BY DEF Fresh, ReadersHoldCopies

(* A step that leaves the cached bytes and the readers alone. *)
LEMMA CacheFrame ==
  ASSUME CacheInv, UNCHANGED <<reader, probed>>,
         cache'.output = cache.output, cache'.generation = cache.generation
  PROVE  CacheInv'
BY DEF CacheInv, CacheIsLatestProbe, ReadableProbeIsKept, ReadersHoldCopies, Nothing

(* A reader that ends holds no generation that could agree. *)
LEMMA EndAgrees ==
  ASSUME TypeOK, ReadersHoldCopies, NEW r \in Readers, Answered(r), UNCHANGED cache
  PROVE  ReadersHoldCopies'
BY DEF TypeOK, Answered, Idle, ReadersHoldCopies

LEMMA CacheStep ==
  ASSUME TypeOK, CacheInv, [Next]_vars
  PROVE  CacheInv'
<1> USE DEF Nothing
<1>1. CASE ProbeSucceeds
  <2>1. cache'.output = engine /\ probed' = engine
    BY <1>1 DEF ProbeSucceeds, CacheVersion
  <2>2. ReadersHoldCopies'
    BY <1>1, FreshAgrees DEF ProbeSucceeds, CacheVersion
  <2> QED
    BY <2>1, <2>2 DEF CacheInv, CacheIsLatestProbe, ReadableProbeIsKept
<1>2. CASE ProbeFails
  <2>1. cache'.output = Nothing /\ probed' = Failure
    BY <1>2 DEF ProbeFails, InvalidateVersion
  <2>2. ReadersHoldCopies'
    BY <1>2, FreshAgrees DEF ProbeFails, InvalidateVersion
  <2> QED
    BY <2>1, <2>2, NoOutput DEF CacheInv, CacheIsLatestProbe, ReadableProbeIsKept
<1>3. CASE Collect \/ WakeUp \/ Leave \/ Stop \/ EngineChanges \/ UNCHANGED vars
  BY <1>3, CacheFrame DEF Collect, WakeUp, Leave, Stop, EngineChanges, vars
<1>4. CASE Tick
  <2>1. cache'.output = cache.output /\ cache'.generation = cache.generation
    BY <1>4 DEF Tick, TypeOK
  <2> QED
    BY <1>4, <2>1, CacheFrame DEF Tick
<1>5. ASSUME NEW r \in Readers, Poll(r)
      PROVE  CacheInv'
  <2>1. ReadersHoldCopies'
    BY <1>5 DEF Poll, Idle, TypeOK, CacheInv, ReadersHoldCopies
  <2> QED
    BY <1>5, <2>1 DEF Poll, CacheInv, CacheIsLatestProbe, ReadableProbeIsKept
<1>6. ASSUME NEW r \in Readers, Decode(r)
      PROVE  CacheInv'
  <2>1. probed' = probed /\ Answered(r)
    BY <1>6 DEF Decode
  <2>2. CASE UNCHANGED cache
    BY <2>1, <2>2, EndAgrees DEF CacheInv, CacheIsLatestProbe, ReadableProbeIsKept
  <2>3. CASE InvalidateVersion /\ cache.generation = reader[r].generation
             /\ reader[r].output.answer # "good"
    <3>1. reader[r].output = cache.output
      BY <1>6, <2>3 DEF Decode, CacheInv, ReadersHoldCopies
    <3>2. probed.answer # "good"
      BY <2>3, <3>1 DEF CacheInv, ReadableProbeIsKept
    <3>3. cache'.output = Nothing
      BY <2>3 DEF InvalidateVersion
    <3>4. ReadersHoldCopies'
      <4> SUFFICES ASSUME NEW q \in Readers, reader'[q].at = "decode",
                          reader'[q].generation = cache'.generation
                   PROVE  FALSE
        BY DEF ReadersHoldCopies
      <4>1. reader'[q] = reader[q]
        BY <2>1 DEF Answered, Idle, TypeOK
      <4> QED
        BY <2>3, <4>1 DEF InvalidateVersion, Fresh
    <3> QED
      BY <2>1, <3>2, <3>3, <3>4 DEF CacheInv, CacheIsLatestProbe, ReadableProbeIsKept
  <2> QED
    BY <1>6, <2>2, <2>3 DEF Decode, DiscardVersion
<1>7. ASSUME NEW r \in Readers, CommandEnds(r)
      PROVE  CacheInv'
  BY <1>7, EndAgrees DEF CommandEnds, CacheInv, CacheIsLatestProbe, ReadableProbeIsKept
<1> QED
  BY <1>1, <1>2, <1>3, <1>4, <1>5, <1>6, <1>7 DEF Next, LoopStep

LEMMA CacheInvariant == Spec => []CacheInv
<1>1. Init => CacheInv
  BY NoOutput
  DEF Init, Idle, CacheInv, CacheIsLatestProbe, ReadableProbeIsKept, ReadersHoldCopies
<1> QED
  BY <1>1, CacheStep, TypeCorrect, PTL DEF Spec

(* CacheIsLatestProbe: neither a failed probe nor a slow reader lets an
   earlier answer be served again. *)
THEOREM LatestProbeIsCached == Spec => []CacheIsLatestProbe
<1>1. CacheInv => CacheIsLatestProbe
  BY DEF CacheInv
<1> QED
  BY <1>1, CacheInvariant, PTL

(* ReadableProbeIsKept: whatever copies readers discard, and however late, the
   latest probe stays cached if it is readable. *)
THEOREM ReadersSpareTheLatest == Spec => []ReadableProbeIsKept
<1>1. CacheInv => ReadableProbeIsKept
  BY DEF CacheInv
<1> QED
  BY <1>1, CacheInvariant, PTL

-----------------------------------------------------------------------------
(* The age of the cached probe. *)

(* The bound on the age where the loop is: that of the way from the probe, and
   the time it has been there. *)
AgeInv ==
  cache.output # Nothing =>
    /\ loop = "done" => stopped
    /\ loop = "collect" => cache.age <= timer
    /\ loop = "sleep" => cache.age <= Overhead + Timeout + timer
    /\ loop = "probe" => cache.age <= Overhead + Timeout + Interval + Jitter + timer

LEMMA AgeStep ==
  ASSUME TypeOK, AgeInv, [Next]_vars
  PROVE  AgeInv'
<1> USE Bounds
<1>a. timer \in Nat /\ cache.age \in Nat /\ timer <= Deadline
  BY Stays DEF TypeOK
<1>1. CASE ProbeSucceeds
  BY <1>1 DEF ProbeSucceeds, CacheVersion, GoTo, AgeInv
<1>2. CASE ProbeFails
  <2>1. cache'.output = Nothing /\ Nothing' = Nothing
    BY <1>2 DEF ProbeFails, InvalidateVersion, Nothing
  <2> QED
    BY <2>1 DEF AgeInv
<1>3. CASE Collect
  <2>1. loop = "collect" /\ loop' = "sleep" /\ timer' = 0 /\ cache' = cache
    BY <1>3 DEF Collect, GoTo
  <2>2. timer <= Overhead + Timeout
    BY <1>a, <2>1, Stays
  <2> QED
    BY <1>a, <2>1, <2>2 DEF AgeInv, Nothing
<1>4. CASE WakeUp
  <2>1. loop = "sleep" /\ loop' = "probe" /\ timer' = 0 /\ cache' = cache
    BY <1>4 DEF WakeUp, GoTo
  <2>2. timer <= Interval + Jitter
    BY <1>a, <2>1, Stays
  <2> QED
    BY <1>a, <2>1, <2>2 DEF AgeInv, Nothing
<1>5. CASE Leave
  BY <1>5 DEF Leave, GoTo, AgeInv
<1>6. CASE Stop
  BY <1>6 DEF Stop, AgeInv, Nothing
<1>7. CASE EngineChanges \/ UNCHANGED vars
  BY <1>7 DEF EngineChanges, vars, AgeInv, Nothing
<1>8. CASE Tick
  <2>1. loop' = loop /\ stopped' = stopped /\ loop # "done" /\ timer' = timer + 1
    BY <1>8 DEF Tick
  <2>2. cache'.output = cache.output /\ cache'.age <= cache.age + 1 /\ cache'.age \in Nat
    BY <1>8 DEF Tick, TypeOK
  <2> QED
    BY <1>a, <2>1, <2>2 DEF AgeInv, Nothing
<1>9. ASSUME NEW r \in Readers, Poll(r) \/ CommandEnds(r)
      PROVE  AgeInv'
  BY <1>9 DEF Poll, CommandEnds, AgeInv, Nothing
<1>10. ASSUME NEW r \in Readers, Decode(r)
       PROVE  AgeInv'
  <2>1. UNCHANGED <<loop, timer, stopped>>
    BY <1>10 DEF Decode
  <2>2. UNCHANGED cache \/ cache'.output = Nothing
    BY <1>10 DEF Decode, DiscardVersion, InvalidateVersion
  <2> QED
    BY <2>1, <2>2 DEF AgeInv, Nothing
<1> QED
  BY <1>1, <1>2, <1>3, <1>4, <1>5, <1>6, <1>7, <1>8, <1>9, <1>10 DEF Next, LoopStep

(* GapIsTheExcess: for every interval and every timeout that GetConfig admits, two
   intervals bridge the time from a probe to the end of the next one, except for
   what the loop takes in excess of them. *)
THEOREM CacheLastsToTheExcess == Spec => []GapIsTheExcess
<1>1. Init => AgeInv
  BY DEF Init, AgeInv
<1>2. TypeOK /\ AgeInv => GapIsTheExcess
  <2> SUFFICES ASSUME TypeOK, AgeInv, ~stopped, cache.output # Nothing
               PROVE  cache.age <= Ttl + Gap
    BY DEF GapIsTheExcess
  <2>1. /\ timer \in Nat /\ cache.age \in Nat /\ timer <= Deadline
        /\ loop \in {"probe", "collect", "sleep", "done"}
    BY Stays DEF TypeOK
  <2> QED
    BY <2>1, Stays, Bounds DEF AgeInv
<1> QED
  BY <1>1, <1>2, AgeStep, TypeCorrect, PTL DEF Spec

(* NoGapBetweenProbes holds of the configurations, the defaults among them, that
   leave the probe and the collection enough of the interval: there no poll finds
   an output that has become too old before its successor was read. *)
THEOREM QuickProbesLeaveNoGap ==
  ASSUME Overhead + 2 * Timeout + Jitter <= Interval
  PROVE  Spec => []NoGapBetweenProbes
<1>1. Gap = 0
  BY Bounds DEF Gap
<1>2. GapIsTheExcess => NoGapBetweenProbes
  BY <1>1, Bounds DEF GapIsTheExcess, NoGapBetweenProbes
<1> QED
  BY <1>2, CacheLastsToTheExcess, PTL

-----------------------------------------------------------------------------
(* The series of the metadata. *)

(* The loop's variable names the one version that can have a series, and the
   last probe, once there was one, is what the loop goes by. *)
SeriesInv ==
  /\ info \subseteq {version}
  /\ probed \in Accepted => version = probed.version /\ info = {version}
  /\ loop \in {"collect", "sleep"} => probed \in Accepted \cup {Failure}
  /\ loop = "sleep" /\ success = "yes" =>
       probed # Failure /\ \A d \in Databases : present[d] # "unknown"

(* A step of another actor, or of the loop elsewhere. *)
LEMMA SeriesFrame ==
  ASSUME SeriesInv, UNCHANGED <<info, version, probed, success, present>>,
         loop' = loop \/ loop' \in {"probe", "done"}
  PROVE  SeriesInv'
BY DEF SeriesInv, Accepted, Failure

LEMMA SeriesStep ==
  ASSUME TypeOK, SeriesInv, [Next]_vars
  PROVE  SeriesInv'
<1> USE DEF Accepted, Failure
<1>1. CASE ProbeSucceeds
  <2>1. /\ probed' = engine /\ engine \in Accepted /\ version' = engine.version
        /\ loop' = "collect"
    BY <1>1 DEF ProbeSucceeds, GoTo
  <2>2. info' = {engine.version}
    BY <1>1 DEF ProbeSucceeds, SeriesInv
  <2> QED
    BY <2>1, <2>2 DEF SeriesInv
<1>2. CASE ProbeFails
  <2>1. /\ probed' = Failure /\ UNCHANGED <<info, version>> /\ loop' = "collect"
    BY <1>2 DEF ProbeFails, VersionAfterFailure, GoTo
  <2>2. Failure \notin Accepted
    BY NoOutput
  <2> QED
    BY <2>1, <2>2 DEF SeriesInv
<1>3. CASE Collect
  <2>1. UNCHANGED <<info, version, probed>> /\ loop = "collect" /\ loop' = "sleep"
    BY <1>3 DEF Collect, GoTo
  <2>2. success' = "yes" => probed # Failure /\ \A d \in Databases : present'[d] # "unknown"
    BY <1>3 DEF Collect, Success
  <2> QED
    BY <2>1, <2>2 DEF SeriesInv
<1>4. CASE WakeUp \/ Leave \/ Stop \/ EngineChanges \/ Tick \/ UNCHANGED vars
  BY <1>4, SeriesFrame DEF WakeUp, Leave, Stop, EngineChanges, Tick, GoTo, series, vars
<1>5. ASSUME NEW r \in Readers, Poll(r) \/ Decode(r) \/ CommandEnds(r)
      PROVE  SeriesInv'
  BY <1>5, SeriesFrame DEF Poll, Decode, CommandEnds, series
<1> QED
  BY <1>1, <1>2, <1>3, <1>4, <1>5 DEF Next, LoopStep

LEMMA SeriesInvariant == Spec => []SeriesInv
<1>1. Init => SeriesInv
  BY NoOutput DEF Init, SeriesInv
<1> QED
  BY <1>1, SeriesStep, TypeCorrect, PTL DEF Spec

(* OneBuildInfo: an upgrade, also around failed probes, removes the series of the
   version before. *)
THEOREM BuildInfoIsUnique == Spec => []OneBuildInfo
<1>1. SeriesInv => OneBuildInfo
  <2> SUFFICES ASSUME SeriesInv PROVE OneBuildInfo
    OBVIOUS
  <2>1. info = {} \/ info = {version}
    BY DEF SeriesInv
  <2>2. Cardinality(info) = 0 \/ Cardinality(info) = 1
    BY <2>1, FS_EmptySet, FS_Singleton, Zenon
  <2> QED
    BY <2>2 DEF SeriesInv, OneBuildInfo
<1> QED
  BY <1>1, SeriesInvariant, PTL

(* SuccessVouches: while the loop sleeps, success means a good probe, its
   version as the only series, and no database unobserved. *)
THEOREM SuccessIsEarned == Spec => []SuccessVouches
<1>1. SeriesInv => SuccessVouches
  BY DEF SeriesInv, SuccessVouches
<1> QED
  BY <1>1, SeriesInvariant, PTL
=============================================================================

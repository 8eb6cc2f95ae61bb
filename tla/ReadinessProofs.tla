-------------------------- MODULE ReadinessProofs --------------------------
(***************************************************************************)
(* Proofs about Readiness, for every lease period and every bound on the   *)
(* calls, waits and scans that ReadinessAssumption admits: the types, what *)
(* an active worker proves, when a worker is active, and when the sampler  *)
(* may report a failure.                                                   *)
(***************************************************************************)
EXTENDS Readiness, TLAPS

(* The constants as numbers. ToCleaning is the longest way from an answer, or from
   a failure, to the top of the loop. *)
ToCleaning == Longer(Renewal + 3 * Call + Linger, Wait) + Call

LEMMA Bounds ==
  /\ Lease \in Nat \ {0} /\ Call \in Nat \ {0} /\ Wait \in Nat \ {0}
  /\ Linger \in Nat \ {0} /\ Grace \in Nat \ {0} /\ Period \in Nat \ {0}
  /\ Renewal \in Nat \ {0} /\ Limit \in Nat /\ Recovery \in Nat /\ ToCleaning \in Nat
  /\ Renewal + 5 * Call + Linger + 1 <= Limit
  /\ Renewal + 4 * Call + Linger <= ToCleaning /\ Wait + Call <= ToCleaning
  /\ Recovery = ToCleaning + 5 * Call + Wait
  /\ Call < Grace
BY ReadinessAssumption DEF Renewal, Limit, Recovery, ToCleaning, Longer

(* How long the loop may stay at a point. *)
LEMMA Stays ==
  /\ Longest["bootwait"] = Wait /\ Longest["wait"] = Wait
  /\ Longest["scan"] = Renewal
  /\ Longest["cancelled"] = Linger
  /\ \A p \in Points \ {"bootwait", "wait", "scan", "cancelled"} : Longest[p] = Call
  /\ \A p \in Points : Longest[p] \in Nat
BY Bounds DEF Longest, Points, Calls, NeedGroup

-----------------------------------------------------------------------------
(* Steps of the loop. *)

(* What the loop does on its own, apart from the answers of Redis. *)
LoopStep ==
  \/ Boot \/ Retry \/ Clean \/ Claim \/ Read \/ ReadFails \/ Recreate \/ Lock
  \/ StartRenewal \/ Renew \/ LoseLease \/ ScanEnds \/ CancelledScanEnds \/ Release \/ Leave

(* It goes from one point to another, and may start the heartbeat again. *)
LEMMA LoopGoesOn ==
  ASSUME LoopStep
  PROVE  /\ \E point \in Points : GoTo(point)
         /\ beat' \in {beat, 0, 1}
         /\ UNCHANGED <<backend, stopped, sampler, history>>
<1> USE DEF Points, Calls, NeedGroup
<1>1. CASE Boot
  BY <1>1 DEF Boot
<1>2. CASE Retry
  BY <1>2 DEF Retry, GoToTop
<1>3. CASE Clean \/ Recreate \/ StartRenewal \/ LoseLease \/ ScanEnds \/ CancelledScanEnds \/ Leave
  BY <1>3 DEF Clean, Recreate, StartRenewal, LoseLease, ScanEnds, CancelledScanEnds, Leave
<1>4. CASE Claim
  BY <1>4 DEF Claim, BeatOfRead, BeatOfClaim, Beat
<1>5. CASE Read
  BY <1>5 DEF Read, BeatOfRead, BeatOfClaim, Beat, GoToTop
<1>6. CASE ReadFails
  BY <1>6 DEF ReadFails, BeatOfRead, BeatOfClaim, NoBeat, AfterFailure
<1>7. CASE Lock \/ Release
  BY <1>7 DEF Lock, Release, GoToTop
<1>8. CASE Renew
  BY <1>8 DEF Renew, RenewalProves, Beat
<1> QED
  BY <1>1, <1>2, <1>3, <1>4, <1>5, <1>6, <1>7, <1>8 DEF LoopStep

(* Next, by what a step may change. *)
LEMMA Steps ==
  ASSUME [Next]_vars
  PROVE  \/ LoopStep \/ Serve \/ Break \/ SamplerStep
         \/ RedisLost \/ RedisBack \/ GroupLost \/ GroupMade \/ Stop \/ Tick
         \/ UNCHANGED vars
BY DEF Next, WorkerStep, LoopStep

(* The sampler only looks on. *)
LEMMA SamplerLooksOn ==
  ASSUME SamplerStep
  PROVE  UNCHANGED <<backend, stopped, worker, history>>
BY DEF SamplerStep, StartSample, Query, Report, LeaveSampler

-----------------------------------------------------------------------------
(* Types. *)

LEMMA TypesStep ==
  ASSUME TypeOK, [Next]_vars
  PROVE  TypeOK'
<1> USE Bounds
<1>a. Longest' = Longest
  BY DEF Longest
<1>1. CASE LoopStep
  <2>1. PICK point \in Points : GoTo(point)
    BY <1>1, LoopGoesOn
  <2>2. at' \in Points /\ timer' \in 0..Longest'[at'] /\ reply' = "none"
    BY <2>1, <1>a, Stays DEF GoTo
  <2>3. beat' \in {beat, 0, 1} /\ UNCHANGED <<backend, stopped, sampler, history>>
    BY <1>1, LoopGoesOn
  <2>4. grouped' \in BOOLEAN
    <3>1. CASE Boot
      BY <3>1 DEF Boot
    <3>2. CASE ~Boot
      BY <1>1, <3>2 DEF LoopStep, Retry, Clean, Claim, Read, ReadFails, Recreate, Lock, StartRenewal,
         Renew, LoseLease, ScanEnds, CancelledScanEnds, Release, Leave, TypeOK
    <3> QED
      BY <3>1, <3>2
  <2> QED
    BY <2>2, <2>3, <2>4 DEF backend, sampler, history, TypeOK
<1>2. CASE Serve
  <2>1. group' \in BOOLEAN /\ reply' \in {"none", "ok", "nogroup", "error"}
    BY <1>2 DEF Serve, TypeOK
  <2>2. away' \in 0..(Limit + Call + 1)
    BY <1>2 DEF Serve, Sighted, TypeOK
  <2> QED
    BY <1>2, <1>a, <2>1, <2>2 DEF Serve, sampler, TypeOK
<1>3. CASE Break
  BY <1>3, <1>a DEF Break, sampler, backend, history, TypeOK
<1>4. CASE StartSample
  <2>1. monitor' \in Queries
    BY <1>4 DEF StartSample, Queries
  <2>2. clock' \in 0..(Grace + Period)
    BY <1>4 DEF StartSample
  <2>3. failure' \in BOOLEAN
    BY <1>4 DEF StartSample
  <2> QED
    BY <1>4, <1>a, <2>1, <2>2, <2>3 DEF StartSample, worker, backend, history, TypeOK
<1>5. ASSUME NEW q \in Queries, Query(q)
      PROVE  TypeOK'
  <2>1. NextQuery[q] \in Queries /\ q # "oldest"
    BY <1>5 DEF Query, NextQuery, Queries
  <2>2. Measured(q) \in BOOLEAN
    BY DEF Measured
  <2>3. shown' \subseteq Queries \ {"group"}
    BY <1>5 DEF Query, Queries, TypeOK
  <2> QED
    BY <1>5, <1>a, <2>1, <2>2, <2>3 DEF Query, worker, backend, history, TypeOK
<1>6. CASE Report
  <2>1. shown' \subseteq Queries \ {"group"}
    BY <1>6 DEF Report, Queries, TypeOK
  <2>2. gauge' \in {"unset", "ok", "failed"}
    BY <1>6 DEF Report, TypeOK
  <2> QED
    BY <1>6, <1>a, <2>1, <2>2 DEF Report, worker, backend, history, TypeOK
<1>7. CASE LeaveSampler
  <2>1. monitor' \in {"grace", "pause", "done"}
    BY <1>7 DEF LeaveSampler
  <2> QED
    BY <1>7, <1>a, <2>1 DEF LeaveSampler, worker, backend, history, TypeOK
<1>8. CASE RedisLost \/ RedisBack \/ GroupLost
  <2>1. redis' \in BOOLEAN /\ group' \in BOOLEAN
    BY <1>8 DEF RedisLost, RedisBack, GroupLost, TypeOK
  <2>2. trouble' = TRUE /\ calm' = 0 /\ UNCHANGED <<stopped, worker, sampler>>
    BY <1>8 DEF RedisLost, RedisBack, GroupLost, Upset
  <2>3. away' \in 0..(Limit + Call + 1)
    BY <1>8 DEF RedisLost, RedisBack, GroupLost, Sighted, TypeOK
  <2> QED
    BY <1>a, <2>1, <2>2, <2>3 DEF worker, sampler, TypeOK
<1>9. CASE GroupMade \/ Stop
  <2>1. redis' \in BOOLEAN /\ group' \in BOOLEAN /\ stopped' \in BOOLEAN
    BY <1>9 DEF GroupMade, Stop, backend, TypeOK
  <2>2. away' \in 0..(Limit + Call + 1)
    BY <1>9 DEF GroupMade, Stop, Sighted, history, TypeOK
  <2>3. UNCHANGED <<worker, sampler, trouble, calm>>
    BY <1>9 DEF GroupMade, Stop, history
  <2> QED
    BY <1>a, <2>1, <2>2, <2>3 DEF worker, sampler, TypeOK
<1>10. CASE Tick
  <2>1. timer' \in 0..Longest[at]
    BY <1>10, Stays DEF Tick, TypeOK
  <2>2. clock' \in 0..(Grace + Period)
    BY <1>10 DEF Tick, TypeOK, Queries
  <2>3. beat' \in 0..(Limit + 1) /\ away' \in 0..(Limit + Call + 1)
    BY <1>10 DEF Tick, Older, TypeOK
  <2>4. calm' \in 0..(Recovery + 1)
    BY <1>10 DEF Tick, Older, TypeOK
  <2> QED
    BY <1>10, <1>a, <2>1, <2>2, <2>3, <2>4 DEF Tick, backend, TypeOK
<1>11. CASE UNCHANGED vars
  BY <1>11, <1>a DEF vars, worker, sampler, backend, history, TypeOK
<1> QED
  BY <1>1, <1>2, <1>3, <1>4, <1>5, <1>6, <1>7, <1>8, <1>9, <1>10, <1>11, Steps DEF SamplerStep

LEMMA TypesInitially == Init => TypeOK
<1> SUFFICES ASSUME Init PROVE TypeOK
  OBVIOUS
<1>1. at \in Points /\ timer \in 0..Longest[at]
  BY Bounds, Stays DEF Init, Points, Calls
<1>2. beat \in 0..(Limit + 1) /\ away \in 0..(Limit + Call + 1) /\ calm \in 0..(Recovery + 1)
  BY Bounds DEF Init
<1>3. clock \in 0..(Grace + Period)
  BY Bounds DEF Init
<1>4. trouble \in BOOLEAN
  <2>1. trouble = ~redis
    BY DEF Init
  <2> QED
    BY <2>1, Zenon
<1>5. /\ monitor \in {"grace", "pause", "done"} /\ gauge \in {"unset", "ok", "failed"}
      /\ shown = {} /\ reply = "none"
  BY DEF Init
<1> QED
  BY <1>1, <1>2, <1>3, <1>4, <1>5 DEF Init, TypeOK

(* TypeOK holds in every reachable state, in particular no step of the loop
   takes longer than the bound of its kind. *)
THEOREM TypeCorrect == Spec => []TypeOK
BY TypesInitially, TypesStep, PTL DEF Spec

-----------------------------------------------------------------------------
(* What an active worker proves. *)

(* Whatever lets the heartbeat start again is an answer of Redis, which had the group
   when it gave it, and that came while the worker waited for it. *)
AnswersAreNew ==
  /\ beat <= Limit => away <= beat + Call
  /\ reply = "ok" /\ at \in NeedGroup => away <= timer

LEMMA AnswersStep ==
  ASSUME TypeOK, AnswersAreNew, [Next]_vars
  PROVE  AnswersAreNew'
<1>a. Call \in Nat /\ Limit \in Nat
  BY Bounds
<1>1. CASE LoopStep
  <2>1. reply' = "none" /\ away' = away
    BY <1>1, LoopGoesOn DEF GoTo, history
  <2>2. CASE beat' = beat
    BY <2>1, <2>2 DEF AnswersAreNew
  <2>3. CASE beat' # beat
    <3>1. reply = "ok" /\ at \in NeedGroup /\ beat' \in {0, 1}
      BY <1>1, <2>3 DEF LoopStep, Boot, Retry, Clean, Claim, Read, ReadFails, Recreate, Lock, StartRenewal,
         Renew, LoseLease, ScanEnds, CancelledScanEnds, Release, Leave, BeatOfRead, BeatOfClaim, Beat,
         NoBeat, RenewalProves, NeedGroup
    <3>2. away <= timer /\ timer <= Call /\ away \in Nat /\ timer \in Nat
      BY <3>1, Stays DEF AnswersAreNew, TypeOK, Points, Calls, NeedGroup
    <3>3. away <= Call
      BY <1>a, <3>2
    <3>4. beat' = 0 => AnswersAreNew'
      BY <1>a, <2>1, <3>2, <3>3 DEF AnswersAreNew
    <3>5. beat' = 1 => AnswersAreNew'
      BY <1>a, <2>1, <3>2, <3>3 DEF AnswersAreNew
    <3> QED
      BY <3>1, <3>4, <3>5
  <2> QED
    BY <2>2, <2>3
<1>2. CASE Serve
  <2>1. UNCHANGED <<at, timer, beat>> /\ (group => away' = 0)
    BY <1>2 DEF Serve, Sighted
  <2>2. reply' = "ok" /\ at \in NeedGroup => group
    BY <1>2 DEF Serve
  <2>3. away' = 0 \/ away' = away
    BY <1>2 DEF Serve, Sighted
  <2>4. timer \in Nat /\ beat \in Nat
    BY Stays DEF TypeOK
  <2> QED
    BY <1>a, <2>1, <2>2, <2>3, <2>4 DEF AnswersAreNew
<1>3. CASE Break
  BY <1>3 DEF Break, history, AnswersAreNew
<1>4. CASE Tick
  <2>1. /\ beat' = Older(beat, Limit) /\ away' \in {0, Older(away, Limit + Call)}
        /\ reply' = reply /\ at' = at
    BY <1>4 DEF Tick
  <2>2. beat \in Nat /\ away \in Nat /\ timer \in Nat
    BY Stays DEF TypeOK
  <2>3. at \in NeedGroup => timer' = timer + 1
    BY <1>4 DEF Tick, NeedGroup
  <2>4. beat' <= Limit => away' <= beat' + Call
    BY <1>a, <2>1, <2>2 DEF Older, AnswersAreNew
  <2>5. away' <= away + 1
    BY <1>a, <2>1, <2>2 DEF Older
  <2>6. reply' = "ok" /\ at' \in NeedGroup => away' <= timer'
    BY <2>1, <2>2, <2>3, <2>5 DEF AnswersAreNew, Older
  <2> QED
    BY <2>4, <2>6 DEF AnswersAreNew
<1>5. CASE UNCHANGED worker /\ away' \in {0, away}
  <2>1. timer \in Nat /\ beat \in Nat
    BY Stays DEF TypeOK
  <2> QED
    BY <1>a, <1>5, <2>1 DEF worker, AnswersAreNew
<1>6. RedisLost \/ RedisBack \/ GroupLost \/ GroupMade \/ Stop => UNCHANGED worker /\ away' \in {0, away}
  BY DEF RedisLost, RedisBack, GroupLost, GroupMade, Stop, Sighted, history
<1>7. SamplerStep \/ UNCHANGED vars => UNCHANGED worker /\ away' = away
  BY SamplerLooksOn DEF vars, history
<1> QED
  BY <1>1, <1>2, <1>3, <1>4, <1>5, <1>6, <1>7, Steps

(* ActiveWasReached: the backend of a worker that counts as active was there, with
   its group, within three lease periods and the time of a call, whatever failed
   since. *)
THEOREM ActivityIsProof == Spec => []ActiveWasReached
<1>1. Init => AnswersAreNew
  BY Bounds DEF Init, AnswersAreNew
<1>2. TypeOK /\ AnswersAreNew => ActiveWasReached
  BY Bounds DEF TypeOK, AnswersAreNew, ActiveWasReached, Active
<1> QED
  BY <1>1, <1>2, AnswersStep, TypeCorrect, PTL DEF Spec
-----------------------------------------------------------------------------
(* When a worker is active. *)

(* Only what needs the group can miss it. *)
RepliesFit == reply = "nogroup" => at \in NeedGroup

(* For how long Redis can have been well when a worker comes to a point, if it has
   not got to know yet that the group is missing, or that Redis is back: the way
   began with the answer, or the failure, of an earlier call. *)
EarlyBound ==
  CASE at \in {"bootwait", "wait", "lock", "read"} -> Call
    [] at = "boot"      -> Call + Wait
    [] at = "scan"      -> 2 * Call
    [] at = "renew"     -> Renewal + 2 * Call
    [] at = "cancelled" -> Renewal + 3 * Call
    [] at = "release"   -> Renewal + 3 * Call + Linger
    [] at = "clean"     -> ToCleaning
    [] at = "claim"     -> ToCleaning + Call
    [] OTHER            -> ToCleaning + 2 * Call
Early == calm <= EarlyBound + timer

(* And if it may have got to know: it has gone once through the recreation and the
   wait since. *)
LateBound ==
  CASE at = "wait"  -> ToCleaning + 3 * Call
    [] at = "clean" -> ToCleaning + 3 * Call + Wait
    [] at = "claim" -> ToCleaning + 4 * Call + Wait
    [] OTHER        -> EarlyBound
Late == calm <= LateBound + timer

(* How old the heartbeat was at most when the worker came to a point, if no read
   failed since the last answer. *)
FreshBound ==
  CASE at = "scan"      -> Call
    [] at = "renew"     -> Renewal + Call
    [] at = "cancelled" -> Renewal + 2 * Call
    [] at = "release"   -> Renewal + 2 * Call + Linger
    [] at = "clean"     -> Renewal + 3 * Call + Linger
    [] at = "claim"     -> Renewal + 4 * Call + Linger
    [] OTHER            -> 0
Fresh ==
  /\ at \in {"lock", "read", "scan", "renew", "cancelled", "release", "clean", "claim"}
  /\ beat <= FreshBound + 1 + timer

(* A call that Redis has executed found the group, or made it. *)
Executed == reply = "ok" /\ at \in NeedGroup \cup {"boot", "recreate"}

(* The worker is on its way to the answer that it has not had since a trouble,
   or had it recently. As long as the group is missing, the failure that tells it
   so is still to come. *)
OnItsWay ==
  ~stopped =>
    /\ at # "done"
    /\ ~redis => calm = 0
    /\ reply = "error" \/ (Executed /\ ~group) => calm <= timer
    /\ ~group \/ reply = "nogroup" => Early
    /\ Late \/ Fresh

LEMMA RepliesFitStep ==
  ASSUME RepliesFit, [Next]_vars
  PROVE  RepliesFit'
<1>1. CASE LoopStep
  BY <1>1, LoopGoesOn DEF GoTo, RepliesFit
<1>2. CASE Serve \/ Break \/ Tick
  BY <1>2 DEF Serve, Break, Tick, RepliesFit
<1>3. CASE UNCHANGED worker
  BY <1>3 DEF worker, RepliesFit
<1>4. RedisLost \/ RedisBack \/ GroupLost \/ GroupMade \/ Stop \/ UNCHANGED vars => UNCHANGED worker
  BY DEF RedisLost, RedisBack, GroupLost, GroupMade, Stop, vars
<1> QED
  BY <1>1, <1>2, <1>3, <1>4, SamplerLooksOn, Steps

(* The bounds as numbers, and the worker's times. *)
LEMMA Times ==
  ASSUME TypeOK
  PROVE  /\ timer \in Nat /\ timer <= Longest[at] /\ Longest[at] \in Nat
         /\ beat \in Nat /\ calm \in Nat
         /\ EarlyBound \in Nat /\ LateBound \in Nat /\ FreshBound \in Nat
         /\ Early => Late
<1> USE Bounds
<1>1. timer \in Nat /\ timer <= Longest[at] /\ Longest[at] \in Nat /\ beat \in Nat /\ calm \in Nat
  BY Stays DEF TypeOK
<1>2. EarlyBound \in Nat /\ FreshBound \in Nat
  BY DEF EarlyBound, FreshBound
<1>3. LateBound \in Nat /\ EarlyBound <= LateBound
  BY <1>2 DEF LateBound, EarlyBound
<1>4. Early => Late
  BY <1>1, <1>2, <1>3 DEF Early, Late
<1> QED
  BY <1>1, <1>2, <1>3, <1>4

(* A step of the loop that answers nothing leads from a bound to the next one. *)
Ways ==
  {<<"bootwait", "boot">>, <<"wait", "clean">>, <<"wait", "claim">>, <<"clean", "claim">>,
   <<"lock", "scan">>, <<"lock", "clean">>, <<"lock", "claim">>, <<"scan", "renew">>,
   <<"scan", "release">>, <<"renew", "cancelled">>, <<"cancelled", "release">>,
   <<"release", "clean">>, <<"release", "claim">>}

LEMMA MovesOn ==
  ASSUME TypeOK, OnItsWay, UNCHANGED <<backend, stopped, beat, calm>>, NEW to, GoTo(to),
         <<at, to>> \in Ways
  PROVE  OnItsWay'
<1> USE Bounds, Stays
<1> SUFFICES ASSUME ~stopped PROVE OnItsWay'
  BY DEF OnItsWay
<1>1. at' = to /\ timer' = 0 /\ reply' = "none" /\ UNCHANGED <<redis, group, beat, calm>>
  BY DEF GoTo, backend
<1>2. timer <= Longest[at] /\ timer \in Nat /\ beat \in Nat /\ calm \in Nat
  BY Times
<1>3. to # "done" /\ to # "wait"
  BY DEF Ways
<1>4. ASSUME Early PROVE Early'
  BY <1>1, <1>2, <1>4 DEF Early, EarlyBound, Ways, Points, Calls, NeedGroup
<1>5. ASSUME Late PROVE Late'
  BY <1>1, <1>2, <1>5 DEF Late, LateBound, EarlyBound, Ways, Points, Calls, NeedGroup
<1>6. ASSUME Fresh PROVE Fresh'
  BY <1>1, <1>2, <1>6 DEF Fresh, FreshBound, Ways, Points, Calls, NeedGroup
<1> QED
  BY <1>1, <1>3, <1>4, <1>5, <1>6 DEF OnItsWay, Executed

(* An answered read or renewal starts the heartbeat again. *)
LEMMA AnswerIsFresh ==
  ASSUME TypeOK, OnItsWay, UNCHANGED <<backend, stopped, calm>>, beat' \in {0, 1},
         reply = "ok", at \in NeedGroup,
         NEW to \in {"lock", "read", "scan", "clean", "claim"}, GoTo(to)
  PROVE  OnItsWay'
<1> USE Bounds, Stays
<1> SUFFICES ASSUME ~stopped PROVE OnItsWay'
  BY DEF OnItsWay
<1>1. at' = to /\ timer' = 0 /\ reply' = "none" /\ UNCHANGED <<redis, group, calm>>
  BY DEF GoTo, backend
<1>2. timer <= Call /\ timer \in Nat /\ calm \in Nat
  BY Times DEF NeedGroup, Points, Calls
<1>3. Fresh'
  BY <1>1 DEF Fresh, FreshBound
<1>4. ASSUME ~group PROVE Early'
  <2>1. calm <= Call
    BY <1>2, <1>4 DEF OnItsWay, Executed
  <2> QED
    BY <1>1, <1>2, <2>1 DEF Early, EarlyBound
<1> QED
  BY <1>1, <1>3, <1>4 DEF OnItsWay, Executed

(* A failure, which ends the first part of the way, or an answer at startup. *)
LEMMA FailureTells ==
  ASSUME TypeOK, RepliesFit, OnItsWay, Boot \/ ReadFails \/ Recreate
  PROVE  OnItsWay'
<1> USE Bounds, Stays
<1>0. UNCHANGED stopped
  BY DEF Boot, ReadFails, Recreate
<1> SUFFICES ASSUME ~stopped PROVE OnItsWay'
  BY <1>0 DEF OnItsWay
<1>1. timer' = 0 /\ reply' = "none" /\ UNCHANGED <<redis, group, stopped, beat, calm>>
  BY DEF Boot, ReadFails, Recreate, GoTo, BeatOfRead, BeatOfClaim, NoBeat, backend, history
<1>2. timer <= Call /\ timer \in Nat /\ calm \in Nat
  BY Times DEF Boot, ReadFails, Recreate, Points, Calls, NeedGroup
<1>3. SUFFICES at' # "done" /\ (~group => Early') /\ Late'
  BY <1>1 DEF OnItsWay, Executed
<1>4. CASE Boot
  <2>1. at = "boot" /\ at' = IF reply = "ok" THEN "clean" ELSE "bootwait"
    BY <1>4 DEF Boot, GoTo
  <2>2. reply \in {"ok", "error"}
    BY <1>4, <2>1 DEF Boot, RepliesFit, NeedGroup, TypeOK
  <2>3. reply = "error" \/ ~group => calm <= Call
    BY <1>2, <2>1, <2>2 DEF OnItsWay, Executed
  <2>4. calm <= 2 * Call + Wait
    BY <1>2, <2>1 DEF OnItsWay, Late, LateBound, EarlyBound, Fresh
  <2> QED
    BY <1>1, <1>2, <2>1, <2>2, <2>3, <2>4 DEF Early, EarlyBound, Late, LateBound
<1>5. CASE ReadFails
  <2>1. at \in {"claim", "read"} /\ at' = AfterFailure(reply) /\ reply \in {"nogroup", "error"}
    BY <1>5 DEF ReadFails, GoTo
  <2>2. CASE reply = "error"
    <3>1. calm <= Call /\ at' = "wait"
      BY <1>2, <2>1, <2>2 DEF OnItsWay, AfterFailure
    <3> QED
      BY <1>1, <1>2, <3>1 DEF Early, EarlyBound, Late, LateBound
  <2>3. CASE reply = "nogroup"
    <3>1. at' = "recreate"
      BY <2>1, <2>3 DEF AfterFailure
    <3>2. calm <= ToCleaning + 2 * Call
      BY <1>2, <2>1, <2>3 DEF OnItsWay, Early, EarlyBound
    <3> QED
      BY <1>1, <1>2, <3>1, <3>2 DEF Early, EarlyBound, Late, LateBound
  <2> QED
    BY <2>1, <2>2, <2>3
<1>6. CASE Recreate
  <2>1. at = "recreate" /\ at' = "wait"
    BY <1>6 DEF Recreate, GoTo
  <2>2. reply \in {"ok", "error"}
    BY <1>6, <2>1 DEF Recreate, RepliesFit, NeedGroup, TypeOK
  <2>3. ~group => calm <= Call
    BY <1>2, <2>1, <2>2 DEF OnItsWay, Executed
  <2>4. calm <= ToCleaning + 3 * Call
    BY <1>2, <2>1 DEF OnItsWay, Late, LateBound, EarlyBound, Fresh
  <2> QED
    BY <1>1, <1>2, <2>1, <2>3, <2>4 DEF Early, EarlyBound, Late, LateBound
<1> QED
  BY <1>4, <1>5, <1>6

(* When Redis goes, comes back or loses the group, the way starts anew. *)
LEMMA TroubleStartsTheWay ==
  ASSUME TypeOK, OnItsWay, calm' = 0, UNCHANGED <<stopped, worker>>
  PROVE  OnItsWay'
<1>1. EarlyBound' = EarlyBound /\ LateBound' = LateBound /\ timer' = timer /\ at' = at
  BY DEF EarlyBound, LateBound, worker
<1>2. Early' /\ Late' /\ calm' <= timer'
  BY <1>1, Times DEF Early, Late
<1> QED
  BY <1>1, <1>2 DEF OnItsWay

LEMMA OnItsWayStep ==
  ASSUME TypeOK, RepliesFit, OnItsWay, [Next]_vars
  PROVE  OnItsWay'
<1>0. CASE stopped'
  BY <1>0 DEF OnItsWay
<1> SUFFICES ASSUME ~stopped' PROVE OnItsWay'
  BY <1>0
<1>1. CASE Boot \/ ReadFails \/ Recreate
  BY <1>1, FailureTells
<1>2. CASE Claim \/ Read \/ Renew
  <2>1. reply = "ok" /\ at \in NeedGroup /\ beat' \in {0, 1} /\ UNCHANGED <<backend, stopped, calm>>
    BY <1>2 DEF Claim, Read, Renew, BeatOfRead, BeatOfClaim, Beat, RenewalProves, NeedGroup, history
  <2>2. \E to \in {"lock", "read", "scan", "clean", "claim"} : GoTo(to)
    BY <1>2 DEF Claim, Read, Renew, GoToTop
  <2> QED
    BY <2>1, <2>2, AnswerIsFresh
<1>3. CASE Retry \/ Clean \/ Lock \/ StartRenewal \/ LoseLease \/ ScanEnds \/ CancelledScanEnds \/ Release
  <2>1. UNCHANGED <<backend, stopped, beat, calm>>
    BY <1>3 DEF Retry, Clean, Lock, StartRenewal, LoseLease, ScanEnds, CancelledScanEnds, Release, history
  <2>2. \E to \in Points : GoTo(to) /\ <<at, to>> \in Ways
    BY <1>3 DEF Retry, Clean, Lock, StartRenewal, LoseLease, ScanEnds, CancelledScanEnds, Release,
       GoToTop, Ways, Points, Calls, NeedGroup
  <2> QED
    BY <2>1, <2>2, MovesOn
<1>4. CASE Leave
  BY <1>4 DEF Leave
<1>5. CASE Serve
  <2>1. /\ redis /\ at \in Calls /\ at \notin {"done"}
        /\ UNCHANGED <<redis, stopped, at, timer, beat, calm>>
    BY <1>5 DEF Serve, Calls, NeedGroup
  <2>2. /\ reply' \in {"ok", "nogroup"} /\ (reply' = "nogroup" => ~group)
        /\ (Executed' => group') /\ (~group' => ~group)
    BY <1>5, <2>1 DEF Serve, Executed
  <2>3. (Early => Early') /\ (Late => Late') /\ (Fresh => Fresh')
    BY <2>1 DEF Early, EarlyBound, Late, LateBound, Fresh, FreshBound
  <2> QED
    BY <2>1, <2>2, <2>3 DEF OnItsWay
<1>6. CASE Break
  <2>1. ~redis /\ reply' = "error" /\ UNCHANGED <<redis, group, stopped, at, timer, beat, calm>>
    BY <1>6 DEF Break, backend, history
  <2>2. (Early => Early') /\ (Late => Late') /\ (Fresh => Fresh')
    BY <2>1 DEF Early, EarlyBound, Late, LateBound, Fresh, FreshBound
  <2> QED
    BY <2>1, <2>2, Times DEF OnItsWay
<1>7. CASE SamplerStep \/ UNCHANGED vars
  <2>1. UNCHANGED <<backend, stopped, worker, calm>>
    BY <1>7, SamplerLooksOn DEF vars, history
  <2> QED
    BY <2>1 DEF OnItsWay, Executed, Early, EarlyBound, Late, LateBound, Fresh, FreshBound, backend, worker
<1>8. CASE RedisLost \/ RedisBack \/ GroupLost
  BY <1>8, TroubleStartsTheWay DEF RedisLost, RedisBack, GroupLost, Upset
<1>9. CASE GroupMade
  BY <1>9 DEF GroupMade, worker, OnItsWay, Executed, Early, EarlyBound, Late, LateBound, Fresh, FreshBound
<1>10. CASE Stop
  BY <1>10 DEF Stop
<1>11. CASE Tick
  <2>1. UNCHANGED <<redis, group, stopped, at, reply>> /\ at # "done"
    BY <1>11 DEF Tick, OnItsWay, backend
  <2>2. timer' = timer + 1 /\ timer \in Nat
    BY <1>11, <2>1, Times DEF Tick
  <2>3. beat' <= beat + 1 /\ beat \in Nat /\ beat' \in Nat
    BY <1>11, Times, Bounds DEF Tick, Older
  <2>4. calm' <= calm + 1 /\ calm \in Nat /\ calm' \in Nat /\ (~redis => calm' = 0)
    BY <1>11, Times, Bounds DEF Tick, Older
  <2>5. EarlyBound' = EarlyBound /\ LateBound' = LateBound /\ FreshBound' = FreshBound
    BY <2>1 DEF EarlyBound, LateBound, FreshBound
  <2>6. EarlyBound \in Nat /\ LateBound \in Nat /\ FreshBound \in Nat
    BY Times
  <2>7. (Early => Early') /\ (Late => Late')
    BY <2>2, <2>4, <2>5, <2>6 DEF Early, Late
  <2>8. Fresh => Fresh'
    BY <2>1, <2>2, <2>3, <2>5, <2>6 DEF Fresh
  <2>9. calm <= timer => calm' <= timer'
    BY <2>2, <2>4
  <2> QED
    BY <2>1, <2>4, <2>7, <2>8, <2>9 DEF OnItsWay, Executed
<1> QED
  BY <1>1, <1>2, <1>3, <1>4, <1>5, <1>6, <1>7, <1>8, <1>9, <1>10, <1>11, Steps DEF LoopStep

(* The bounds on the way of a worker add up to Recovery, and those on the age of
   its heartbeat to Limit, if a lease period is as long as ReadinessAssumption
   demands. *)
LEMMA InTime ==
  ASSUME TypeOK, OnItsWay
  PROVE  WorkingIsActive
<1> USE Bounds, Stays
<1> SUFFICES ASSUME ~stopped, calm > Recovery PROVE beat <= Limit
  BY DEF WorkingIsActive, Active
<1>1. /\ timer \in Nat /\ timer <= Longest[at] /\ calm \in Nat /\ beat \in Nat
      /\ at \in Points \ {"done"}
  BY Times DEF TypeOK, OnItsWay
<1>2. ~Late
  <2> SUFFICES LateBound + Longest[at] <= Recovery
    BY <1>1, Times DEF Late
  <2> QED
    BY <1>1 DEF LateBound, EarlyBound, Points, Calls, NeedGroup
<1>3. Fresh
  BY <1>2 DEF OnItsWay
<1>4. FreshBound + 1 + Longest[at] <= Limit
  BY <1>1, <1>3 DEF Fresh, FreshBound, Points, Calls, NeedGroup
<1> QED
  BY <1>1, <1>3, <1>4, Times DEF Fresh

(* WorkingIsActive: a worker whose backend is well for longer than Recovery is
   active, whatever it does, for every bound that fits into the lease. *)
THEOREM WorkersStayActive == Spec => []WorkingIsActive
<1>1. Init => OnItsWay /\ RepliesFit
  <2> SUFFICES ASSUME Init PROVE OnItsWay /\ RepliesFit
    OBVIOUS
  <2>1. Early
    BY Bounds DEF Init, Early, EarlyBound
  <2>2. TypeOK
    BY TypesInitially
  <2>3. Late
    BY <2>1, <2>2, Times
  <2> QED
    BY <2>1, <2>3 DEF Init, OnItsWay, Executed, RepliesFit
<1> QED
  BY <1>1, OnItsWayStep, RepliesFitStep, InTime, TypeCorrect, PTL DEF Spec
-----------------------------------------------------------------------------
(* What the sampler reports. *)

(* Without a trouble the group is there once the worker has started, which it
   does before the sampler has waited for long. *)
QuietStart ==
  ~trouble =>
    /\ redis /\ reply # "error"
    /\ grouped \/ (at = "boot" /\ reply = "ok") => group
    /\ grouped \/ stopped \/ (at = "boot" /\ monitor = "grace" /\ clock = timer)
    /\ monitor \in Queries /\ failure => stopped
    /\ gauge # "failed"

LEMMA QuietStep ==
  ASSUME TypeOK, RepliesFit, QuietStart, [Next]_vars
  PROVE  QuietStart'
<1>0. CASE trouble'
  BY <1>0 DEF QuietStart
<1> SUFFICES ASSUME ~trouble' PROVE QuietStart'
  BY <1>0
<1>1. CASE Boot
  <2>1. UNCHANGED <<backend, stopped, sampler, trouble>> /\ at = "boot" /\ reply' = "none"
    BY <1>1 DEF Boot, GoTo, history
  <2>2. reply = "ok" /\ group
    BY <1>1, <2>1 DEF Boot, QuietStart, RepliesFit, NeedGroup, TypeOK
  <2>3. grouped'
    BY <1>1, <2>2 DEF Boot
  <2> QED
    BY <2>1, <2>2, <2>3 DEF QuietStart, backend, sampler
<1>2. CASE LoopStep /\ ~Boot
  <2>1. UNCHANGED <<backend, stopped, sampler, trouble>> /\ reply' = "none"
    BY <1>2, LoopGoesOn DEF GoTo, history
  <2>2. grouped' = grouped
    BY <1>2 DEF LoopStep, Retry, Clean, Claim, Read, ReadFails, Recreate, Lock, StartRenewal,
       Renew, LoseLease, ScanEnds, CancelledScanEnds, Release, Leave
  <2>3. at # "boot" \/ stopped \/ grouped
    BY <1>2 DEF LoopStep, Retry, Clean, Claim, Read, ReadFails, Recreate, Lock, StartRenewal,
       Renew, LoseLease, ScanEnds, CancelledScanEnds, Release, Leave
  <2> QED
    BY <2>1, <2>2, <2>3 DEF QuietStart, backend, sampler
<1>3. CASE Serve
  <2>1. /\ UNCHANGED <<redis, stopped, at, timer, grouped, sampler, trouble>>
        /\ reply' \in {"ok", "nogroup"}
        /\ group' = (group \/ at \in {"boot", "recreate"})
    BY <1>3 DEF Serve
  <2> QED
    BY <2>1 DEF QuietStart, sampler
<1>4. CASE Break
  BY <1>4 DEF Break, QuietStart, history
<1>5. CASE StartSample
  <2>1. UNCHANGED <<backend, stopped, worker, gauge, trouble>> /\ failure' = FALSE
    BY <1>5 DEF StartSample, history
  <2>2. grouped \/ stopped
    <3>1. at = "boot" => timer <= Call /\ timer \in Nat
      BY Stays, Bounds DEF TypeOK, Points, Calls
    <3>2. monitor = "grace" /\ ~grouped => clock = Grace
      BY <1>5 DEF StartSample, GraceOver
    <3> QED
      BY <2>1, <1>5, <3>1, <3>2, Bounds DEF StartSample, QuietStart
  <2> QED
    BY <2>1, <2>2 DEF QuietStart, backend, worker
<1>6. ASSUME NEW q \in Queries, Query(q)
      PROVE  QuietStart'
  <2>1. UNCHANGED <<backend, stopped, worker, gauge, trouble>> /\ monitor = q
    BY <1>6 DEF Query, history
  <2>2. grouped \/ stopped
    BY <2>1 DEF QuietStart, Queries
  <2>3. Measured(q) \/ stopped
    BY <2>1, <2>2 DEF Measured, QuietStart
  <2>4. failure' => failure \/ stopped
    BY <1>6, <2>3 DEF Query
  <2> QED
    BY <2>1, <2>2, <2>4 DEF QuietStart, backend, worker
<1>7. CASE Report
  <2>1. UNCHANGED <<backend, stopped, worker, trouble>> /\ monitor = "oldest" /\ monitor' = "pause"
    BY <1>7 DEF Report, history
  <2>2. grouped \/ stopped
    BY <2>1 DEF QuietStart
  <2>3. ~stopped => Measured("oldest") /\ ~failure
    BY <2>1 DEF Measured, QuietStart, Queries
  <2>4. gauge' # "failed"
    BY <1>7, <2>1, <2>3 DEF Report, MayReport, QuietStart
  <2> QED
    BY <2>1, <2>2, <2>4 DEF QuietStart, Queries, backend, worker
<1>8. CASE LeaveSampler
  BY <1>8 DEF LeaveSampler, QuietStart, Queries, backend, worker, history
<1>9. CASE RedisLost \/ RedisBack \/ GroupLost
  BY <1>9 DEF RedisLost, RedisBack, GroupLost, Upset
<1>10. CASE GroupMade \/ Stop
  BY <1>10 DEF GroupMade, Stop, QuietStart, backend, worker, sampler, history
<1>11. CASE Tick
  <2>1. UNCHANGED <<backend, stopped, at, reply, grouped, monitor, failure, gauge, trouble>>
    BY <1>11 DEF Tick
  <2>2. at = "boot" /\ monitor = "grace" /\ clock = timer => clock' = timer'
    BY <1>11 DEF Tick
  <2> QED
    BY <2>1, <2>2 DEF QuietStart, backend
<1>12. CASE UNCHANGED vars
  BY <1>12 DEF vars, worker, sampler, backend, history, QuietStart
<1> QED
  BY <1>1, <1>2, <1>3, <1>4, <1>5, <1>6, <1>7, <1>8, <1>9, <1>10, <1>11, <1>12, Steps
  DEF SamplerStep

(* NoFalseAlarm: without an outage the sampler never reports a failure, also
   while the pod starts without the group, or stops. *)
THEOREM AlarmsAreTrue == Spec => []NoFalseAlarm
<1>1. Init => QuietStart /\ RepliesFit
  BY DEF Init, QuietStart, Queries, RepliesFit
<1>2. QuietStart => NoFalseAlarm
  BY DEF QuietStart, NoFalseAlarm
<1> QED
  BY <1>1, <1>2, QuietStep, RepliesFitStep, TypeCorrect, PTL DEF Spec
=============================================================================

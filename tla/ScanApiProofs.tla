--------------------------- MODULE ScanApiProofs ---------------------------
(***************************************************************************)
(* Proofs about ScanApi.  A poll reads the job and the report in two calls *)
(* while workers write: what it may rely on in between is StoreStep of     *)
(* DeliveryProofs, so the API is first shown to be a use of Delivery.      *)
(***************************************************************************)
EXTENDS ScanApi, DeliveryProofs

(* What the API knows of a request: a key it no longer has to enqueue was
   stored, and 202 leaves none. *)
Enqueued(r) ==
  /\ request[r] = "accepted" => todo[r] = {}
  /\ \A k \in KeysOf[r] \ todo[r] : jobs[k].status # "New"

(* What a poll has read is still so, or lost: the job between the two reads, and
   the verdict it answered with. *)
Answered(k) ==
  LET p == poll[k]
      reading(s) == p.stage = "report" => p.job.status = s
  IN
  /\ p.answer = "not_found" => jobs[k].status = "Gone" /\ p.stage = "idle"
  /\ p.answer = "ok" => /\ jobs[k].status \in {"Finished", "Gone"}
                        /\ jobs[k].status = "Finished" => p.report = jobs[k].attempts
                        /\ reading("Finished")
  /\ p.answer = "failed" => jobs[k].status \in {"Failed", "Gone"} /\ reading("Failed")
  /\ p.stage = "report" /\ p.job.status \in Terminal =>
       jobs[k] = p.job \/ jobs[k].status = "Gone"
  /\ p.stage = "report" /\ p.job.status = "Finished" => reports[k] \in {0, p.job.attempts}

ApiInv ==
  /\ ApiTypeOK
  /\ \A r \in Requests : Enqueued(r)
  /\ \A k \in Keys : Answered(k)

-----------------------------------------------------------------------------
(* To Delivery, the API is a user that enqueues. *)
LEMMA ApiStepIsDeliveryStep ==
  ASSUME [ApiNext]_<<vars, apiVars>>
  PROVE  [Next]_vars
<1>1. ASSUME NEW r \in Requests, Open(r) \/ Accept(r)
      PROVE  UNCHANGED vars
  BY <1>1 DEF Open, Accept
<1>2. ASSUME NEW r \in Requests, NEW k \in Keys, EnqueueKey(r, k) \/ Refuse(r, k)
      PROVE  UNCHANGED vars \/ Enqueue(k)
  BY <1>2 DEF EnqueueKey, Refuse
<1>3. ASSUME NEW k \in Keys, PollJob(k) \/ PollReport(k) \/ PollFails(k)
      PROVE  UNCHANGED vars
  BY <1>3 DEF PollJob, PollReport, PollFails
<1> QED
  BY <1>1, <1>2, <1>3 DEF ApiNext, ApiStep, Next

(* Behaviours of the composition are behaviours of Delivery: everything proved
   of the queue and the store holds behind the API. *)
THEOREM ApiServesDelivery == ApiSpec => Spec
<1>1. ApiInit => Init
  BY DEF ApiInit
<1>2. [ApiNext]_<<vars, apiVars>> => [Next]_vars
  BY ApiStepIsDeliveryStep
<1> QED
  BY <1>1, <1>2, PTL DEF ApiSpec, Spec

(* So the jobs of accepted requests live the life ScanJob promises. *)
THEOREM ApiServesScanJobs == ApiSpec => ImplementsScanJob
  BY ApiServesDelivery, Refinement, PTL

(* Delivery's inductive invariant holds behind the API. *)
LEMMA Behind == ApiSpec => []IInv
  BY ApiServesDelivery, Invariant, PTL

-----------------------------------------------------------------------------
(* A key is enqueued while its request still has it to do. *)
LEMMA EnqueuedStep ==
  ASSUME IInv, IInv', ApiInv, [ApiNext]_<<vars, apiVars>>, NEW q \in Requests
  PROVE  Enqueued(q)'
<1> USE ApiAssumption DEF ApiInv, ApiTypeOK, Enqueued
<1>a. \A k \in Keys : jobs[k].status # "New" => jobs'[k].status # "New"
  <2>1. CASE Next
    BY <2>1, StoreStep DEF StoreMovesForward
  <2>2. CASE UNCHANGED vars
    BY <2>2 DEF vars, storeVars
  <2> QED
    BY <2>1, <2>2, ApiStepIsDeliveryStep
<1>b. ASSUME UNCHANGED <<request, todo>> PROVE Enqueued(q)'
  BY <1>a, <1>b
<1>1. ASSUME NEW r \in Requests, Open(r)
      PROVE  Enqueued(q)'
  BY <1>1, <1>a DEF Open
<1>2. ASSUME NEW r \in Requests, Accept(r)
      PROVE  Enqueued(q)'
  BY <1>2, <1>a DEF Accept, AllEnqueued
<1>3. ASSUME NEW r \in Requests, NEW k \in Keys, EnqueueKey(r, k)
      PROVE  Enqueued(q)'
  <2>1. jobs'[k].status # "New"
    BY <1>3 DEF EnqueueKey, Enqueue, EnqueueScript, IInv, TypeOK
  <2> QED
    BY <1>3, <1>a, <2>1 DEF EnqueueKey
<1>4. ASSUME NEW r \in Requests, NEW k \in Keys, Refuse(r, k)
      PROVE  Enqueued(q)'
  BY <1>4, <1>a DEF Refuse
<1>5. ASSUME NEW k \in Keys, PollJob(k) \/ PollReport(k) \/ PollFails(k)
      PROVE  Enqueued(q)'
  BY <1>5, <1>b DEF PollJob, PollReport, PollFails
<1>6. ASSUME UNCHANGED apiVars PROVE Enqueued(q)'
  BY <1>6, <1>b DEF apiVars
<1> QED
  BY <1>1, <1>2, <1>3, <1>4, <1>5, <1>6 DEF ApiNext, ApiStep

(* A job that is found missing after its 202 is gone. *)
LEMMA AcceptedWasStored ==
  ASSUME ApiInv, NEW k \in Keys, Pollable(k)
  PROVE  jobs[k].status # "New"
  BY DEF ApiInv, Enqueued, Pollable

(* The poll of one key while the store moves. *)
LEMMA AnsweredWhileStoreMoves ==
  ASSUME NEW k \in Keys, Answered(k), StoreMovesForward(k), poll'[k] = poll[k]
  PROVE  Answered(k)'
  BY DEF Answered, StoreMovesForward, Terminal

LEMMA AnsweredStep ==
  ASSUME IInv, IInv', ApiInv, [ApiNext]_<<vars, apiVars>>, NEW key \in Keys
  PROVE  Answered(key)'
<1>a. Answered(key) /\ poll \in [Keys -> Polled]
  BY DEF ApiInv, ApiTypeOK
<1>b. ASSUME poll'[key] = poll[key], Next
      PROVE  Answered(key)'
  BY <1>a, <1>b, StoreStep, AnsweredWhileStoreMoves
<1>c. ASSUME poll'[key] = poll[key], UNCHANGED vars
      PROVE  Answered(key)'
  BY <1>a, <1>c DEF Answered, vars, storeVars
<1>d. ASSUME poll'[key] = poll[key]
      PROVE  Answered(key)'
  BY <1>b, <1>c, <1>d, ApiStepIsDeliveryStep
<1>1. ASSUME NEW r \in Requests, Open(r) \/ Accept(r)
      PROVE  Answered(key)'
  BY <1>1, <1>d DEF Open, Accept
<1>2. ASSUME NEW r \in Requests, NEW k \in Keys, EnqueueKey(r, k) \/ Refuse(r, k)
      PROVE  Answered(key)'
  BY <1>2, <1>d DEF EnqueueKey, Refuse
<1>3. ASSUME NEW k \in Keys, k # key, PollJob(k) \/ PollReport(k) \/ PollFails(k)
      PROVE  Answered(key)'
  BY <1>3, <1>a, <1>d DEF PollJob, PollReport, PollFails
<1>4. ASSUME PollJob(key)
      PROVE  Answered(key)'
  <2>1. UNCHANGED <<jobs, reports>> /\ jobs[key] \in Job
    BY <1>4 DEF PollJob, vars, storeVars, IInv, TypeOK
  <2>2. CASE Exists(key)
    <3>1. poll'[key] = [poll[key] EXCEPT !.stage = "report", !.job = jobs[key]]
      BY <1>4, <1>a, <2>2 DEF PollJob
    <3>2. poll'[key].stage = "report" /\ poll'[key].job = jobs[key]
          /\ poll'[key].answer = poll[key].answer /\ poll'[key].report = poll[key].report
      BY <1>a, <3>1 DEF Polled
    <3>3. jobs[key].status = "Finished" => reports[key] = jobs[key].attempts
      BY DEF IInv, FinishedHasItsReport
    <3> QED
      BY <1>a, <2>1, <2>2, <3>2, <3>3 DEF Answered, Exists
  <2>3. CASE ~Exists(key)
    <3>1. poll'[key] = [poll[key] EXCEPT !.answer = "not_found", !.report = 0]
      BY <1>4, <1>a, <2>3 DEF PollJob
    <3>2. poll'[key].stage = "idle" /\ poll'[key].answer = "not_found"
      BY <1>4, <1>a, <3>1 DEF PollJob, Polled
    <3>3. jobs[key].status = "Gone"
      BY <1>4, <2>3, AcceptedWasStored DEF PollJob, Exists
    <3> QED
      BY <2>1, <3>2, <3>3 DEF Answered
  <2> QED
    BY <2>2, <2>3
<1>5. ASSUME PollReport(key)
      PROVE  Answered(key)'
  <2> DEFINE j == poll[key].job
             answer == Answer(j, reports[key])
  <2>1. UNCHANGED <<jobs, reports>>
    BY <1>5 DEF PollReport, vars, storeVars
  <2>2. poll'[key] = [stage |-> "idle", job |-> Blank, answer |-> answer,
                      report |-> IF answer = "ok" THEN reports[key] ELSE 0]
    BY <1>5, <1>a DEF PollReport
  <2>3. answer \in {"ok", "failed", "pending"}
        /\ (answer = "ok" <=> j.status = "Finished") /\ (answer = "failed" <=> j.status = "Failed")
    BY DEF Answer
  <2>4. j.status \in Terminal => jobs[key] = j \/ jobs[key].status = "Gone"
    BY <1>5, <1>a DEF PollReport, Answered
  <2>5. jobs[key].status = "Finished" => reports[key] = jobs[key].attempts
    BY DEF IInv, FinishedHasItsReport
  <2> HIDE DEF j, answer
  <2> QED
    BY <2>1, <2>2, <2>3, <2>4, <2>5 DEF Answered, Terminal
<1>6. ASSUME PollFails(key)
      PROVE  Answered(key)'
  <2>1. UNCHANGED <<jobs, reports>>
    BY <1>6 DEF PollFails, vars, storeVars
  <2>2. poll'[key].stage = "idle" /\ poll'[key].answer = poll[key].answer
        /\ poll'[key].report = poll[key].report
    BY <1>6, <1>a DEF PollFails, Polled
  <2> QED
    BY <1>a, <2>1, <2>2 DEF Answered
<1>7. ASSUME UNCHANGED apiVars PROVE Answered(key)'
  BY <1>7, <1>d DEF apiVars
<1> QED
  BY <1>1, <1>2, <1>3, <1>4, <1>5, <1>6, <1>7 DEF ApiNext, ApiStep

(* Requests and polls stay typed. *)
LEMMA ApiTypesStep ==
  ASSUME IInv, ApiInv, [ApiNext]_<<vars, apiVars>>
  PROVE  ApiTypeOK'
<1>a. ApiTypeOK /\ jobs \in [Keys -> Job] /\ reports \in [Keys -> Nat]
  BY DEF ApiInv, IInv, TypeOK
<1> USE <1>a DEF ApiTypeOK
<1>1. ASSUME NEW r \in Requests, Open(r) \/ Accept(r)
      PROVE  ApiTypeOK'
  BY <1>1 DEF Open, Accept
<1>2. ASSUME NEW r \in Requests, NEW k \in Keys, EnqueueKey(r, k)
      PROVE  ApiTypeOK'
  BY <1>2 DEF EnqueueKey
<1>3. ASSUME NEW r \in Requests, NEW k \in Keys, Refuse(r, k)
      PROVE  ApiTypeOK'
  BY <1>3 DEF Refuse
<1>4. ASSUME NEW k \in Keys, PollJob(k)
      PROVE  ApiTypeOK'
  <2>1. [poll[k] EXCEPT !.stage = "report", !.job = jobs[k]] \in Polled
    BY DEF Polled
  <2>2. [poll[k] EXCEPT !.answer = "not_found", !.report = 0] \in Polled
    BY DEF Polled, Answers
  <2>3. poll' \in [Keys -> Polled]
    BY <1>4, <2>1, <2>2 DEF PollJob
  <2> QED
    BY <1>4, <2>3 DEF PollJob
<1>5. ASSUME NEW k \in Keys, PollReport(k)
      PROVE  ApiTypeOK'
  <2> DEFINE answer == Answer(poll[k].job, reports[k])
  <2>1. answer \in Answers /\ Blank \in Job
    BY DEF Answer, Answers, Blank, Job, Statuses
  <2>2. [stage |-> "idle", job |-> Blank, answer |-> answer,
         report |-> IF answer = "ok" THEN reports[k] ELSE 0] \in Polled
    BY <2>1 DEF Polled
  <2>3. poll' \in [Keys -> Polled]
    BY <1>5, <2>2 DEF PollReport
  <2> QED
    BY <1>5, <2>3 DEF PollReport
<1>6. ASSUME NEW k \in Keys, PollFails(k)
      PROVE  ApiTypeOK'
  <2>1. [[poll[k] EXCEPT !.stage = "idle"] EXCEPT !.job = Blank] \in Polled
    BY DEF Polled, Blank, Job, Statuses
  <2> QED
    BY <1>6, <2>1 DEF PollFails
<1>7. ASSUME UNCHANGED apiVars PROVE ApiTypeOK'
  BY <1>7 DEF apiVars
<1> QED
  BY <1>1, <1>2, <1>3, <1>4, <1>5, <1>6, <1>7 DEF ApiNext, ApiStep

-----------------------------------------------------------------------------
LEMMA ApiInitial == ApiInit => ApiInv
<1> SUFFICES ASSUME ApiInit PROVE ApiInv
  OBVIOUS
<1>1. Blank \in Job /\ Blank.status = "New"
  BY DEF Blank, Job, Statuses
<1>2. [stage |-> "idle", job |-> Blank, answer |-> "none", report |-> 0] \in Polled
  BY <1>1 DEF Polled, Answers
<1>3. ApiTypeOK
  BY <1>2, ApiAssumption DEF ApiInit, ApiTypeOK
<1>4. \A r \in Requests : Enqueued(r)
  BY DEF ApiInit, Enqueued
<1>5. \A k \in Keys : Answered(k)
  BY DEF ApiInit, Answered
<1> QED
  BY <1>3, <1>4, <1>5 DEF ApiInv

(* ApiInv holds throughout. *)
THEOREM ApiInvariant == ApiSpec => []ApiInv
<1>1. ApiInit => ApiInv
  BY ApiInitial
<1>2. IInv /\ IInv' /\ ApiInv /\ [ApiNext]_<<vars, apiVars>> => ApiInv'
  BY ApiTypesStep, EnqueuedStep, AnsweredStep DEF ApiInv
<1> QED
  BY <1>1, <1>2, Behind, PTL DEF ApiSpec

(* Type correctness. *)
THEOREM ApiTypeCorrect == ApiSpec => []ApiTypeOK
<1>1. ApiInv => ApiTypeOK
  BY DEF ApiInv
<1> QED
  BY <1>1, ApiInvariant, PTL

(* 404 after 202 is the end of the job: every key of the request was stored before
   the 202, and a stored job only goes for good. *)
THEOREM UnknownJobsAreGone == ApiSpec => []NotFoundIsGone
<1>1. ApiInv => NotFoundIsGone
  BY DEF ApiInv, Answered, NotFoundIsGone
<1> QED
  BY <1>1, ApiInvariant, PTL

(* A 200 answer carries the report of its verdict, although the two were read in
   separate calls between which workers wrote. *)
THEOREM ReportFitsItsAnswer == ApiSpec => []ServedReportIsTheVerdicts
<1>1. ApiInv => ServedReportIsTheVerdicts
  BY DEF ApiInv, Answered, ServedReportIsTheVerdicts
<1> QED
  BY <1>1, ApiInvariant, PTL

(* The second read of a poll is not behind the first. *)
THEOREM ReadsGoForward == ApiSpec => []PollReadsForward
<1>1. ApiInv => PollReadsForward
  BY DEF ApiInv, Answered, PollReadsForward
<1> QED
  BY <1>1, ApiInvariant, PTL

(* The answer of one poll to the next: only PollJob and PollReport give one. *)
LEMMA AnswerStep ==
  ASSUME IInv, ApiInv, [ApiNext]_<<vars, apiVars>>, NEW key \in Keys
  PROVE  LET old == poll[key].answer  new == poll'[key].answer IN
         \/ new = old
         \/ old = "none"
         \/ old = "pending" /\ new \in {"ok", "failed", "not_found"}
         \/ old \in {"ok", "failed"} /\ new = "not_found"
<1> DEFINE Goal == LET old == poll[key].answer  new == poll'[key].answer IN
         \/ new = old
         \/ old = "none"
         \/ old = "pending" /\ new \in {"ok", "failed", "not_found"}
         \/ old \in {"ok", "failed"} /\ new = "not_found"
<1> SUFFICES Goal
  OBVIOUS
<1>a. Answered(key) /\ poll \in [Keys -> Polled]
  BY DEF ApiInv, ApiTypeOK
<1>b. poll[key].answer \in Answers
  BY <1>a DEF Polled
<1>1. CASE poll'[key].answer = poll[key].answer
  BY <1>1
<1>2. CASE PollJob(key)
  <2>1. CASE Exists(key)
    <3>1. poll'[key].answer = poll[key].answer
      BY <1>2, <1>a, <2>1 DEF PollJob, Polled
    <3> QED
      BY <3>1
  <2>2. CASE ~Exists(key)
    <3>1. poll'[key].answer = "not_found"
      BY <1>2, <1>a, <2>2 DEF PollJob, Polled
    <3> QED
      BY <1>b, <3>1 DEF Answers
  <2> QED
    BY <2>1, <2>2
<1>3. CASE PollReport(key)
  <2> DEFINE j == poll[key].job
             answer == Answer(j, reports[key])
  <2>1. poll'[key].answer = answer
    BY <1>3, <1>a DEF PollReport
  <2>2. answer \in {"ok", "failed", "pending"}
        /\ (answer = "ok" <=> j.status = "Finished") /\ (answer = "failed" <=> j.status = "Failed")
    BY DEF Answer
  <2>3. /\ poll[key].answer # "not_found"
        /\ poll[key].answer = "ok" => j.status = "Finished"
        /\ poll[key].answer = "failed" => j.status = "Failed"
    BY <1>3, <1>a DEF PollReport, Answered
  <2> HIDE DEF j, answer
  <2> QED
    BY <1>b, <2>1, <2>2, <2>3 DEF Answers
<1>4. ASSUME NEW k \in Keys, PollFails(k)
      PROVE  poll'[key].answer = poll[key].answer
  BY <1>4, <1>a DEF PollFails, Polled
<1>5. ASSUME NEW k \in Keys, k # key, PollJob(k) \/ PollReport(k)
      PROVE  poll'[key].answer = poll[key].answer
  BY <1>5, <1>a DEF PollJob, PollReport
<1>6. ASSUME NEW r \in Requests, Open(r) \/ Accept(r)
      PROVE  UNCHANGED poll
  BY <1>6 DEF Open, Accept
<1>7. ASSUME NEW r \in Requests, NEW k \in Keys, EnqueueKey(r, k) \/ Refuse(r, k)
      PROVE  UNCHANGED poll
  BY <1>7 DEF EnqueueKey, Refuse
<1>8. ASSUME UNCHANGED apiVars
      PROVE  UNCHANGED poll
  BY <1>8 DEF apiVars
<1> HIDE DEF Goal
<1> QED
  BY <1>1, <1>2, <1>3, <1>4, <1>5, <1>6, <1>7, <1>8 DEF ApiNext, ApiStep

(* No poll takes back what an earlier one told Harbor. *)
THEOREM NoAnswerIsTakenBack == ApiSpec => AnswersMoveForward
<1>1. IInv /\ ApiInv /\ [ApiNext]_<<vars, apiVars>>
        => [\A k \in Keys :
              LET old == poll[k].answer  new == poll'[k].answer IN
              \/ new = old
              \/ old = "none"
              \/ old = "pending" /\ new \in {"ok", "failed", "not_found"}
              \/ old \in {"ok", "failed"} /\ new = "not_found"]_<<vars, apiVars>>
  BY AnswerStep
<1> QED
  BY <1>1, Behind, ApiInvariant, PTL DEF ApiSpec, AnswersMoveForward
=============================================================================

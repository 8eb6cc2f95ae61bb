------------------------------ MODULE ScanApi ------------------------------
(***************************************************************************)
(* The adapter's API on top of Delivery (pkg/http/api/v1/handler.go,       *)
(* pkg/queue/enqueuer.go): POST /scan enqueues every key of a request, one *)
(* script each, before it answers 202; GET /scan/{id}/report reads the job *)
(* and then the report, in two calls, and answers from what it read.       *)
(*                                                                         *)
(* Harbor polls one report at a time and polls read only, so one poller    *)
(* per key stands for all of them.                                         *)
(***************************************************************************)
EXTENDS Delivery

CONSTANTS
  Requests,  \* scan requests
  KeysOf     \* request -> its scan job keys, one per MIME and media type

ASSUME ApiAssumption ==
  /\ KeysOf \in [Requests -> SUBSET Keys]
  /\ \A r, q \in Requests : r # q => KeysOf[r] \cap KeysOf[q] = {}

VARIABLES
  request,  \* "new", "open" in AcceptScanRequest, "accepted" (202) or "refused"
  todo,     \* the keys an open request has yet to enqueue
  poll      \* per key: the stage of the poll in progress, the job it has read,
            \* the last answer other than an error and the report served with it

apiVars == <<request, todo, poll>>

Answers == {"none", "pending", "ok", "failed", "not_found"}
Polled  == [stage : {"idle", "report"}, job : Job, answer : Answers, report : Nat]

ApiTypeOK ==
  /\ request \in [Requests -> {"new", "open", "accepted", "refused"}]
  /\ todo \in [Requests -> SUBSET Keys]
  /\ poll \in [Keys -> Polled]

ApiInit ==
  /\ Init
  /\ request = [r \in Requests |-> "new"]
  /\ todo = KeysOf
  /\ poll = [k \in Keys |-> [stage |-> "idle", job |-> Blank, answer |-> "none", report |-> 0]]

-----------------------------------------------------------------------------
(* AcceptScanRequest: 400 and 422 leave nothing behind. *)

Open(r) ==
  /\ request[r] = "new"
  /\ \E verdict \in {"open", "refused"} : request' = [request EXCEPT ![r] = verdict]
  /\ UNCHANGED <<vars, todo, poll>>

EnqueueKey(r, k) ==
  /\ request[r] = "open" /\ k \in todo[r]
  /\ Enqueue(k)
  /\ todo' = [todo EXCEPT ![r] = @ \ {k}]
  /\ UNCHANGED <<request, poll>>

AllEnqueuedUnchecked(r) == TRUE   \* mutant: 202 once the first key is stored
AllEnqueued(r) == todo[r] = {}
Accept(r) ==
  /\ request[r] = "open" /\ AllEnqueued(r)
  /\ request' = [request EXCEPT ![r] = "accepted"]
  /\ UNCHANGED <<vars, todo, poll>>

(* An error answers 500: the keys enqueued so far stay, and with a lost    *)
(* reply the one that failed was enqueued as well.                         *)
Refuse(r, k) ==
  /\ request[r] = "open" /\ k \in todo[r]
  /\ Enqueue(k) \/ UNCHANGED vars
  /\ request' = [request EXCEPT ![r] = "refused"]
  /\ UNCHANGED <<todo, poll>>

-----------------------------------------------------------------------------
(* GetScanReport and the two reads of store.Get. *)

Pollable(k) == \E r \in Requests : k \in KeysOf[r] /\ request[r] = "accepted"

PollJob(k) ==
  /\ poll[k].stage = "idle" /\ Pollable(k)
  /\ poll' = [poll EXCEPT ![k] =
                IF Exists(k) THEN [@ EXCEPT !.stage = "report", !.job = jobs[k]]
                             ELSE [@ EXCEPT !.answer = "not_found", !.report = 0]]
  /\ UNCHANGED <<vars, request, todo>>

AnswerFromReport(j, report) ==   \* mutant: a stored report is taken for a verdict
  IF report # 0 THEN "ok" ELSE IF j.status = "Failed" THEN "failed" ELSE "pending"
Answer(j, report) ==
  CASE j.status = "Finished" -> "ok"
    [] j.status = "Failed"   -> "failed"
    [] OTHER                 -> "pending"

PollReport(k) ==
  /\ poll[k].stage = "report"
  /\ LET answer == Answer(poll[k].job, reports[k]) IN
     poll' = [poll EXCEPT ![k] =
                [stage |-> "idle", job |-> Blank, answer |-> answer,
                 report |-> IF answer = "ok" THEN reports[k] ELSE 0]]
  /\ UNCHANGED <<vars, request, todo>>

(* Either read fails, or the client leaves. *)
PollFails(k) ==
  /\ poll[k].stage = "report"
  /\ poll' = [poll EXCEPT ![k].stage = "idle", ![k].job = Blank]
  /\ UNCHANGED <<vars, request, todo>>

-----------------------------------------------------------------------------
ApiStep ==
  \/ \E r \in Requests : \/ Open(r) \/ Accept(r)
                         \/ \E k \in Keys : EnqueueKey(r, k) \/ Refuse(r, k)
  \/ \E k \in Keys : PollJob(k) \/ PollReport(k) \/ PollFails(k)

ApiNext == ApiStep \/ (Serve /\ UNCHANGED apiVars)

ApiSpec == ApiInit /\ [][ApiNext]_<<vars, apiVars>>

-----------------------------------------------------------------------------
(* A poller is told that a job is unknown only if the job is gone for good:
   the handler answers 202 after the last key of the request was stored. *)
NotFoundIsGone == \A k \in Keys : poll[k].answer = "not_found" => jobs[k].status = "Gone"

(* The report of a 200 answer is the one its verdict belongs to, although
   store.Get reads the job and the report in two calls and workers write
   between them: a report without its verdict, of an earlier or of an abandoned
   attempt, is never served.  Only once the job is gone may it be missing. *)
ServedReportIsTheVerdicts ==
  \A k \in Keys : poll[k].answer = "ok" =>
    /\ jobs[k].status \in {"Finished", "Gone"}
    /\ jobs[k].status = "Finished" => poll[k].report = jobs[k].attempts

(* What the second read finds is not older than what the first one found:
   a poll that read Finished reads the report of that attempt or none. *)
PollReadsForward ==
  \A k \in Keys : poll[k].stage = "report" /\ poll[k].job.status = "Finished" =>
    reports[k] \in {0, poll[k].job.attempts}

(* Answers move forward: once Harbor was told a verdict no poll tells it another
   one, or that the scan is still running. *)
AnswersMoveForward ==
  [][\A k \in Keys :
       LET old == poll[k].answer  new == poll'[k].answer IN
       \/ new = old
       \/ old = "none"
       \/ old = "pending" /\ new \in {"ok", "failed", "not_found"}
       \/ old \in {"ok", "failed"} /\ new = "not_found"]_<<vars, apiVars>>

(* Comment in store.Get: without a report key "either the scan has not
   finished yet, or the value predates the key split", that is, the Finished
   job whose report key is missing carries its report inline. *)
FinishedAnswerHasReport ==
  \A k \in Keys : poll[k].answer = "ok" => poll[k].report # 0

-----------------------------------------------------------------------------
(* Harbor keeps polling and in the end Redis answers both reads. *)
ApiFairness ==
  /\ Fairness
  /\ \A k \in Keys : /\ WF_<<vars, apiVars>>(PollJob(k))
                     /\ SF_<<vars, apiVars>>(PollReport(k))

FairApiSpec == ApiSpec /\ ApiFairness

(* Whoever got a 202 is told how the scan ended, or that it is gone. *)
AcceptedIsAnswered ==
  \A k \in Keys : Pollable(k) ~> poll[k].answer \in {"ok", "failed", "not_found"}
=============================================================================

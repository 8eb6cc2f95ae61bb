------------------------------ MODULE Delivery ------------------------------
(***************************************************************************)
(* Scan delivery: the Redis stream and its consumer group, the job and     *)
(* report keys, the per-delivery leases, and the stream workers of every   *)
(* adapter process that share them (pkg/queue/stream.go, quarantine.go,    *)
(* pkg/persistence/redis/store.go, pkg/scan/controller.go).                *)
(*                                                                         *)
(* One Redis call or Lua script is one step.  A worker is one process      *)
(* incarnation: a restarted pod is another member of Workers, with a       *)
(* consumer name of its own.  Time is not measured: a lease may lapse and  *)
(* a pending entry may have idled long enough whenever that is possible.   *)
(***************************************************************************)
EXTENDS Naturals, FiniteSets

CONSTANTS
  Keys,         \* scan job keys; each has one delivery, named by the key
  Foreign,      \* entries another version left in the stream, undecodable
  Workers,      \* process incarnations, each with its own consumer name
  MaxAttempts,  \* started attempts a job is granted (3 in stream.go)
  Retention,    \* whether ScanJobTTL is positive
  FaultKinds,   \* the kinds of fault the environment may inject
  MaxFaults     \* how many faults of those kinds a behaviour may have

Deliveries == Keys \cup Foreign

AllFaults == {"error", "reply", "lapse", "crash", "stop", "group", "evict", "flush"}

ASSUME DeliveryAssumption ==
  /\ Keys \cap Foreign = {}
  /\ Workers \cap {"free", "stale", "absent", "unread", "stored"} = {}
  /\ "none" \notin Deliveries
  /\ MaxAttempts \in Nat \ {0}
  /\ MaxFaults \in Nat
  /\ Retention \in BOOLEAN
  /\ FaultKinds \subseteq AllFaults

VARIABLES
  jobs,       \* job key -> status and attempts; "New" and "Gone" have no key
  reports,    \* report key -> the attempt that wrote it, 0 when there is none
  ttl,        \* whether the retention of the job and report keys is running
  entry,      \* stream entry -> "absent", "stored" (the group has no record of
              \* it), "unread" (past last-delivered-id) or the pending consumer
  group,      \* whether the consumer group exists
  consumers,  \* the consumers the group knows
  quarantine, \* entries in the quarantine hash
  lease,      \* lease key -> "free", the worker whose current token it holds,
              \* or "stale": a token that no process() call carries any more
  pc, msg, seen, goal, ctx,  \* per worker, see TypeOK
  faults,     \* faults injected so far
  started,    \* history: scans started per job
  retired     \* history: deliveries acknowledged

storeVars == <<jobs, reports, ttl>>
queueVars == <<entry, group, consumers, quarantine>>
workVars  == <<pc, msg, seen, goal, ctx>>
vars == <<storeVars, queueVars, lease, workVars, faults, started, retired>>

Terminal == {"Finished", "Failed"}
Statuses == {"New", "Queued", "Pending", "Finished", "Failed", "Gone"}
Job      == [status : Statuses, attempts : Nat]
Blank    == [status |-> "New", attempts |-> 0]

(* The points of run() and process() between two Redis calls. *)
Holding == {"get", "read", "write", "scan", "report", "ackread", "ack", "missing", "release"}
Calling == {"lease", "undecodable", "get", "read", "write", "report", "ackread", "ack", "missing"}
Points  == {"boot", "loop", "scan", "release", "exit", "gone"} \cup Calling

TypeOK ==
  /\ jobs \in [Keys -> Job]
  /\ reports \in [Keys -> Nat]
  /\ ttl \in [Keys -> BOOLEAN]
  /\ entry \in [Deliveries -> Workers \cup {"absent", "unread", "stored"}]
  /\ group \in BOOLEAN
  /\ consumers \subseteq Workers
  /\ quarantine \subseteq Deliveries
  /\ lease \in [Keys -> Workers \cup {"free", "stale"}]
  /\ pc \in [Workers -> Points]
  /\ msg \in [Workers -> Deliveries \cup {"none"}]    \* the delivery in process()
  /\ seen \in [Workers -> Job]                        \* UpdateStatus's scanJob
  /\ goal \in [Workers -> Statuses]                   \* UpdateStatus's newStatus
  /\ ctx \in [Workers -> {"live", "cancelled", "stopping"}]
  /\ faults \in 0 .. MaxFaults
  /\ started \in [Keys -> Nat]
  /\ retired \subseteq Deliveries

Init ==
  /\ jobs = [k \in Keys |-> Blank]
  /\ reports = [k \in Keys |-> 0]
  /\ ttl = [k \in Keys |-> FALSE]
  /\ entry = [d \in Deliveries |-> IF d \in Foreign THEN "stored" ELSE "absent"]
  /\ group = FALSE
  /\ consumers = {}
  /\ quarantine = {}
  /\ lease = [k \in Keys |-> "free"]
  /\ pc = [w \in Workers |-> "boot"]
  /\ msg = [w \in Workers |-> "none"]
  /\ seen = [w \in Workers |-> Blank]
  /\ goal = [w \in Workers |-> "New"]
  /\ ctx = [w \in Workers |-> "live"]
  /\ faults = 0
  /\ started = [k \in Keys |-> 0]
  /\ retired = {}

Exists(k) == jobs[k].status \notin {"New", "Gone"}
Owns(w)   == lease[msg[w]] = w
Fault(kind) == /\ kind \in FaultKinds
               /\ faults < MaxFaults
               /\ faults' = faults + 1

Goto(w, p) == pc' = [pc EXCEPT ![w] = p]

-----------------------------------------------------------------------------
(* The Redis scripts, as effects on the keys they touch. *)

(* enqueueScript: the entry and the Queued job appear together. *)
EnqueueScript(k) ==
  /\ jobs' = [jobs EXCEPT ![k] = [status |-> "Queued", attempts |-> 0]]
  /\ entry' = [entry EXCEPT ![k] = IF group THEN "unread" ELSE "stored"]

(* updateJobScript: applied only under the caller's lease, to a job that   *)
(* exists; SET drops the job's expiry and PERSIST the report's.            *)
MayUpdateUnfenced(w) == Exists(msg[w])   \* mutant: the lease is not checked
MayUpdate(w) == Owns(w) /\ Exists(msg[w])
UpdateJobScriptWithExpiry(k, j) ==       \* mutant: every write starts the retention
  /\ jobs' = [jobs EXCEPT ![k] = j]
  /\ ttl' = [ttl EXCEPT ![k] = Retention]
UpdateJobScript(k, j) ==
  /\ jobs' = [jobs EXCEPT ![k] = j]
  /\ ttl' = [ttl EXCEPT ![k] = FALSE]

UpdateReportScript(k, attempt) ==
  /\ reports' = [reports EXCEPT ![k] = attempt]
  /\ ttl' = [ttl EXCEPT ![k] = FALSE]

(* acknowledgeScript: XACK and XDEL the entry, start the retention and     *)
(* delete the lease.                                                       *)
MayAcknowledge(w) == Owns(w) /\ Exists(msg[w])
AcknowledgeScript(k) ==
  /\ entry' = [entry EXCEPT ![k] = "absent"]
  /\ ttl' = [ttl EXCEPT ![k] = Retention]
  /\ lease' = [lease EXCEPT ![k] = "free"]
  /\ retired' = retired \cup {k}

(* quarantineDelivery: nothing unless the entry is still in the stream.    *)
QuarantineScriptBlind(d) ==   \* mutant: stores without looking for the entry
  /\ quarantine' = quarantine \cup {d}
  /\ entry' = [entry EXCEPT ![d] = "absent"]
QuarantineScript(d) ==
  /\ quarantine' = IF entry[d] = "absent" THEN quarantine ELSE quarantine \cup {d}
  /\ entry' = [entry EXCEPT ![d] = "absent"]

(* XGROUP CREATE ... MKSTREAM from "0": BUSYGROUP leaves all as it is, a   *)
(* group it creates has every entry of the stream still to read.           *)
EnsureGroupAtEnd ==   \* mutant: XGROUP CREATE from "$"
  /\ group' = TRUE
  /\ entry' = entry
EnsureGroup ==
  /\ group' = TRUE
  /\ entry' = IF group THEN entry
              ELSE [d \in Deliveries |->
                      IF entry[d] = "absent" THEN "absent" ELSE "unread"]

(* XGROUP DELCONSUMER discards the pending records of the consumer. *)
DeleteConsumer(c) ==
  /\ consumers' = consumers \ {c}
  /\ entry' = [d \in Deliveries |-> IF entry[d] = c THEN "stored" ELSE entry[d]]
NothingPendingUnchecked(c) == TRUE   \* mutant: idleness alone is enough
NothingPending(c) == \A d \in Deliveries : entry[d] # c

-----------------------------------------------------------------------------
(* store.Enqueue.  A job ID is random: a key is enqueued once at most. *)

Enqueue(k) ==
  /\ jobs[k].status = "New"
  /\ EnqueueScript(k)
  /\ UNCHANGED <<reports, ttl, group, consumers, quarantine, lease, workVars, faults, started, retired>>

-----------------------------------------------------------------------------
(* run(): the read loop. *)

Boot(w) ==
  /\ pc[w] = "boot" /\ ctx[w] = "live"
  /\ EnsureGroup
  /\ Goto(w, "loop")
  /\ UNCHANGED <<storeVars, consumers, quarantine, lease, msg, seen, goal, ctx, faults, started, retired>>

(* recoverMissingGroup, on the NOGROUP answer of XAUTOCLAIM or XREADGROUP. *)
RecoverGroup(w) ==
  /\ pc[w] = "loop" /\ ctx[w] = "live" /\ ~group
  /\ EnsureGroup
  /\ UNCHANGED <<storeVars, consumers, quarantine, lease, workVars, faults, started, retired>>

Receive(w, d) ==
  /\ entry' = [entry EXCEPT ![d] = w]
  /\ consumers' = consumers \cup {w}

CanClaim(w, d) == /\ pc[w] = "loop" /\ ctx[w] = "live" /\ group
                  /\ entry[d] \in Workers
CanRead(w, d)  == /\ pc[w] = "loop" /\ ctx[w] = "live" /\ group
                  /\ entry[d] = "unread"

Begin(w, d) ==
  /\ Receive(w, d)
  /\ msg' = [msg EXCEPT ![w] = d]
  /\ Goto(w, IF d \in Foreign THEN "undecodable" ELSE "lease")
  /\ UNCHANGED <<storeVars, group, quarantine, lease, seen, goal, ctx, faults, started, retired>>

(* XAUTOCLAIM returns a pending entry that has idled for a lease period,   *)
(* whoever it is pending with; XREADGROUP one the group has not delivered. *)
ClaimIdle(w, d) == CanClaim(w, d) /\ Begin(w, d)
ReadNew(w, d)   == CanRead(w, d) /\ Begin(w, d)

(* XREADGROUP blocks for a second and answers nil. *)
PollEmpty(w) ==
  /\ pc[w] = "loop" /\ ctx[w] = "live" /\ group
  /\ \A d \in Deliveries : entry[d] # "unread"
  /\ UNCHANGED vars

(* cleanConsumers, every ten seconds: a consumer long idle, and without    *)
(* pending deliveries.                                                     *)
CleanIdle(w, c) ==
  /\ pc[w] = "loop" /\ ctx[w] = "live" /\ group
  /\ c \in consumers /\ NothingPending(c)
  /\ DeleteConsumer(c)
  /\ UNCHANGED <<storeVars, group, quarantine, lease, workVars, faults, started, retired>>

(* The loop ends once its context is cancelled, and run's defer removes    *)
(* the process's own consumer unless it still has pending deliveries.      *)
LeaveLoop(w) ==
  /\ pc[w] \in {"boot", "loop"} /\ ctx[w] = "stopping"
  /\ Goto(w, "exit")
  /\ UNCHANGED <<storeVars, queueVars, lease, msg, seen, goal, ctx, faults, started, retired>>

Exit(w) ==
  /\ pc[w] = "exit"
  /\ Goto(w, "gone")
  /\ IF group /\ w \in consumers /\ NothingPending(w)
       THEN DeleteConsumer(w) ELSE UNCHANGED <<consumers, entry>>
  /\ UNCHANGED <<storeVars, group, quarantine, lease, msg, seen, goal, ctx, faults, started, retired>>

-----------------------------------------------------------------------------
(* process(): its locals end with it, its cancelled context too. *)

Return(w) ==
  /\ Goto(w, "loop")
  /\ msg' = [msg EXCEPT ![w] = "none"]
  /\ seen' = [seen EXCEPT ![w] = Blank]
  /\ goal' = [goal EXCEPT ![w] = "New"]
  /\ ctx' = [ctx EXCEPT ![w] = IF @ = "stopping" THEN @ ELSE "live"]

(* An error return: past the lease the deferred release comes first. *)
Abandon(w) ==
  IF pc[w] \in {"lease", "undecodable"}
  THEN Return(w)
  ELSE Goto(w, "release") /\ UNCHANGED <<msg, seen, goal, ctx>>

At(w, p) == pc[w] = p /\ ctx[w] = "live"

QuarantineUndecodable(w) ==
  /\ At(w, "undecodable")
  /\ QuarantineScript(msg[w])
  /\ Return(w)
  /\ UNCHANGED <<storeVars, group, consumers, lease, faults, started, retired>>

(* SETNX of a fresh token. *)
AcquireLease(w) ==
  /\ At(w, "lease") /\ lease[msg[w]] = "free"
  /\ lease' = [lease EXCEPT ![msg[w]] = w]
  /\ Goto(w, "get")
  /\ UNCHANGED <<storeVars, queueVars, msg, seen, goal, ctx, faults, started, retired>>

LeaseBusy(w) ==
  /\ At(w, "lease") /\ lease[msg[w]] # "free"
  /\ Return(w)
  /\ UNCHANGED <<storeVars, queueVars, lease, faults, started, retired>>

(* What process() decides on the job that store.Get returns. *)
NextGoalLate(j) == IF j.attempts > MaxAttempts THEN "Failed" ELSE "Pending"   \* mutant
NextGoal(j) == IF j.attempts >= MaxAttempts THEN "Failed" ELSE "Pending"

GetJob(w) ==
  /\ At(w, "get")
  /\ LET j == jobs[msg[w]] IN
       \/ /\ ~Exists(msg[w])
          /\ Goto(w, "missing") /\ UNCHANGED goal
       \/ /\ j.status \in Terminal
          /\ Goto(w, "ackread") /\ UNCHANGED goal
       \/ /\ Exists(msg[w]) /\ j.status \notin Terminal
          /\ Goto(w, "read")
          /\ goal' = [goal EXCEPT ![w] = NextGoal(j)]
  /\ UNCHANGED <<storeVars, queueVars, lease, msg, seen, ctx, faults, started, retired>>

QuarantineMissing(w) ==
  /\ At(w, "missing")
  /\ QuarantineScript(msg[w])
  /\ Goto(w, "release")
  /\ UNCHANGED <<storeVars, group, consumers, lease, msg, seen, goal, ctx, faults, started, retired>>

-----------------------------------------------------------------------------
(* store.UpdateStatus: a read of the job, and a write of what it computed  *)
(* from it under the lease.                                                *)

WithStatusCountingDown(j, s) ==   \* mutant: attempts left instead of started
  [status |-> s, attempts |-> IF s = "Pending" THEN j.attempts - 1 ELSE j.attempts]

WithStatusUncounted(j, s) ==      \* mutant: the attempt is not counted
  [status |-> s, attempts |-> j.attempts]

WithStatus(j, s) ==
  [status |-> s, attempts |-> IF s = "Pending" THEN j.attempts + 1 ELSE j.attempts]

ReadJob(w) ==
  /\ At(w, "read")
  /\ IF Exists(msg[w])
       THEN /\ seen' = [seen EXCEPT ![w] = jobs[msg[w]]]
            /\ Goto(w, "write")
       ELSE Goto(w, "release") /\ UNCHANGED seen
  /\ UNCHANGED <<storeVars, queueVars, lease, msg, goal, ctx, faults, started, retired>>

WriteJob(w) ==
  /\ At(w, "write")
  /\ MayUpdate(w)
  /\ LET j == WithStatus(seen[w], goal[w]) IN
       /\ UpdateJobScript(msg[w], j)
       /\ seen' = [seen EXCEPT ![w] = j]
  /\ IF goal[w] = "Pending"
       THEN /\ started' = [started EXCEPT ![msg[w]] = @ + 1]
            /\ Goto(w, "scan")
       ELSE Goto(w, "ackread") /\ UNCHANGED started
  /\ UNCHANGED <<reports, queueVars, lease, msg, goal, ctx, faults, retired>>

-----------------------------------------------------------------------------
(* controller.Scan once the job is Pending. *)

ScanReports(w) ==
  /\ pc[w] = "scan"
  /\ Goto(w, "report")
  /\ UNCHANGED <<storeVars, queueVars, lease, msg, seen, goal, ctx, faults, started, retired>>

(* An error that is neither retryable nor the context's own: the job fails. *)
ScanFails(w) ==
  /\ At(w, "scan")
  /\ goal' = [goal EXCEPT ![w] = "Failed"]
  /\ Goto(w, "read")
  /\ UNCHANGED <<storeVars, queueVars, lease, msg, seen, ctx, faults, started, retired>>

(* A retryable error, or any error under a cancelled context. *)
ScanInterrupted(w) ==
  /\ pc[w] = "scan"
  /\ Goto(w, "release")
  /\ UNCHANGED <<storeVars, queueVars, lease, msg, seen, goal, ctx, faults, started, retired>>

WriteReport(w) ==
  /\ At(w, "report")
  /\ MayUpdate(w)
  /\ UpdateReportScript(msg[w], seen[w].attempts)
  /\ goal' = [goal EXCEPT ![w] = "Finished"]
  /\ Goto(w, "read")
  /\ UNCHANGED <<jobs, queueVars, lease, msg, seen, ctx, faults, started, retired>>

-----------------------------------------------------------------------------
(* store.Acknowledge: a read that insists on a terminal job, the script. *)

AckRead(w) ==
  /\ At(w, "ackread")
  /\ Goto(w, IF jobs[msg[w]].status \in Terminal THEN "ack" ELSE "release")
  /\ UNCHANGED <<storeVars, queueVars, lease, msg, seen, goal, ctx, faults, started, retired>>

Acknowledge(w) ==
  /\ At(w, "ack")
  /\ MayAcknowledge(w)
  /\ AcknowledgeScript(msg[w])
  /\ Goto(w, "release")
  /\ UNCHANGED <<jobs, reports, group, consumers, quarantine, msg, seen, goal, ctx, faults, started>>

(* A script that finds the lease lost or the job gone changes nothing. *)
Refused(w) ==
  /\ \/ pc[w] \in {"write", "report"} /\ ~MayUpdate(w)
     \/ pc[w] = "ack" /\ ~MayAcknowledge(w)
  /\ ctx[w] = "live"
  /\ Abandon(w)
  /\ UNCHANGED <<storeVars, queueVars, lease, faults, started, retired>>

(* A call under a cancelled context fails before it is sent. *)
ContextDone(w) ==
  /\ pc[w] \in Calling /\ ctx[w] # "live"
  /\ Abandon(w)
  /\ UNCHANGED <<storeVars, queueVars, lease, faults, started, retired>>

(* The deferred release, under a context of its own. *)
ReleaseLease(w) ==
  /\ pc[w] = "release"
  /\ lease' = IF Owns(w) THEN [lease EXCEPT ![msg[w]] = "free"] ELSE lease
  /\ Return(w)
  /\ UNCHANGED <<storeVars, queueVars, faults, started, retired>>

-----------------------------------------------------------------------------
(* The heartbeat goroutine of process(). *)

InProcess(w) == pc[w] \in Holding \ {"release"}

(* renewLease: XCLAIM makes the worker the entry's consumer again. *)
Renew(w) ==
  /\ InProcess(w) /\ ctx[w] = "live" /\ Owns(w) /\ group
  /\ entry[msg[w]] \in Workers \ {w}
  /\ Receive(w, msg[w])
  /\ UNCHANGED <<storeVars, group, quarantine, lease, workVars, faults, started, retired>>

(* The token is gone, or XCLAIM answers NOGROUP: the scan is cancelled. *)
LoseLease(w) ==
  /\ InProcess(w) /\ ctx[w] = "live"
  /\ ~Owns(w) \/ ~group
  /\ ctx' = [ctx EXCEPT ![w] = "cancelled"]
  /\ UNCHANGED <<storeVars, queueVars, lease, pc, msg, seen, goal, faults, started, retired>>

-----------------------------------------------------------------------------
(* Time. *)

(* A lease that nobody renews any more. *)
StaleNeverExpires(k) == FALSE /\ UNCHANGED vars   \* mutant: a lease without expiry
StaleExpires(k) ==
  /\ lease[k] = "stale"
  /\ lease' = [lease EXCEPT ![k] = "free"]
  /\ UNCHANGED <<storeVars, queueVars, workVars, faults, started, retired>>

RetentionExpires(k) ==
  /\ ttl[k]
  /\ jobs' = [jobs EXCEPT ![k] = [status |-> "Gone", attempts |-> 0]]
  /\ reports' = [reports EXCEPT ![k] = 0]
  /\ ttl' = [ttl EXCEPT ![k] = FALSE]
  /\ UNCHANGED <<queueVars, lease, workVars, faults, started, retired>>

-----------------------------------------------------------------------------
(* Faults. *)

Orphaned(w) == [k \in Keys |-> IF lease[k] = w THEN "stale" ELSE lease[k]]

(* A call that fails without taking effect; the release leaves its lease. *)
CallFails(w) ==
  /\ Fault("error")
  /\ \/ /\ pc[w] \in Calling /\ ctx[w] = "live"
        /\ Abandon(w)
        /\ UNCHANGED lease
     \/ /\ pc[w] = "release" /\ Owns(w)
        /\ lease' = Orphaned(w)
        /\ Return(w)
     \/ /\ InProcess(w) /\ ctx[w] = "live"          \* the renewal
        /\ ctx' = [ctx EXCEPT ![w] = "cancelled"]
        /\ UNCHANGED <<pc, msg, seen, goal, lease>>
  /\ UNCHANGED <<storeVars, queueVars, started, retired>>

(* A call that takes effect and whose answer is lost. *)
ReplyLostReading(w, d) ==
  /\ Fault("reply")
  /\ CanClaim(w, d) \/ CanRead(w, d)
  /\ Receive(w, d)
  /\ UNCHANGED <<storeVars, group, quarantine, lease, workVars, started, retired>>

ReplyLostLeasing(w) ==
  /\ Fault("reply")
  /\ At(w, "lease") /\ lease[msg[w]] = "free"
  /\ lease' = [lease EXCEPT ![msg[w]] = "stale"]
  /\ Return(w)
  /\ UNCHANGED <<storeVars, queueVars, started, retired>>

ReplyLostWriting(w) ==
  /\ Fault("reply")
  /\ pc[w] \in {"write", "report"} /\ MayUpdate(w)
  /\ \/ /\ At(w, "write")
        /\ UpdateJobScript(msg[w], WithStatus(seen[w], goal[w]))
        /\ UNCHANGED reports
     \/ /\ At(w, "report")
        /\ UpdateReportScript(msg[w], seen[w].attempts)
        /\ UNCHANGED jobs
  /\ Goto(w, "release")
  /\ UNCHANGED <<queueVars, lease, msg, seen, goal, ctx, started, retired>>

ReplyLostRetiring(w) ==
  /\ Fault("reply")
  /\ \/ /\ At(w, "ack") /\ MayAcknowledge(w)
        /\ AcknowledgeScript(msg[w])
        /\ UNCHANGED quarantine
     \/ /\ At(w, "missing")
        /\ QuarantineScript(msg[w])
        /\ UNCHANGED <<ttl, lease, retired>>
  /\ Goto(w, "release")
  /\ UNCHANGED <<jobs, reports, group, consumers, msg, seen, goal, ctx, started>>

(* A holder paused or cut off for a whole lease period. *)
LeaseLapses(k) ==
  /\ Fault("lapse")
  /\ lease[k] \in Workers
  /\ lease' = [lease EXCEPT ![k] = "free"]
  /\ UNCHANGED <<storeVars, queueVars, workVars, started, retired>>

Crash(w) ==
  /\ Fault("crash")
  /\ pc[w] # "gone"
  /\ Goto(w, "gone")
  /\ msg' = [msg EXCEPT ![w] = "none"]
  /\ seen' = [seen EXCEPT ![w] = Blank]
  /\ goal' = [goal EXCEPT ![w] = "New"]
  /\ lease' = Orphaned(w)
  /\ UNCHANGED <<storeVars, queueVars, ctx, started, retired>>

(* SIGTERM: the worker's context is cancelled. *)
Stop(w) ==
  /\ Fault("stop")
  /\ pc[w] # "gone" /\ ctx[w] # "stopping"
  /\ ctx' = [ctx EXCEPT ![w] = "stopping"]
  /\ UNCHANGED <<storeVars, queueVars, lease, pc, msg, seen, goal, started, retired>>

(* The backend loses the consumer group and with it every delivery record. *)
GroupLost ==
  /\ Fault("group")
  /\ group
  /\ group' = FALSE
  /\ consumers' = {}
  /\ entry' = [d \in Deliveries |-> IF entry[d] = "absent" THEN "absent" ELSE "stored"]
  /\ UNCHANGED <<storeVars, quarantine, lease, workVars, started, retired>>

(* A job key is deleted by an eviction policy or by hand; its report is not. *)
JobEvicted(k) ==
  /\ Fault("evict")
  /\ Exists(k)
  /\ jobs' = [jobs EXCEPT ![k] = [status |-> "Gone", attempts |-> 0]]
  /\ ttl' = [ttl EXCEPT ![k] = FALSE]
  /\ UNCHANGED <<reports, queueVars, lease, workVars, started, retired>>

(* A job Redis without persistence restarts: every key is lost. *)
BackendFlushed ==
  /\ Fault("flush")
  /\ jobs' = [k \in Keys |-> IF Exists(k) THEN [status |-> "Gone", attempts |-> 0] ELSE jobs[k]]
  /\ reports' = [k \in Keys |-> 0]
  /\ ttl' = [k \in Keys |-> FALSE]
  /\ entry' = [d \in Deliveries |-> "absent"]
  /\ group' = FALSE
  /\ consumers' = {}
  /\ quarantine' = {}
  /\ lease' = [k \in Keys |-> "free"]
  /\ UNCHANGED <<workVars, started, retired>>

-----------------------------------------------------------------------------
WorkerStep(w) ==
  \/ Boot(w) \/ RecoverGroup(w) \/ LeaveLoop(w) \/ Exit(w)
  \/ QuarantineUndecodable(w) \/ AcquireLease(w) \/ LeaseBusy(w)
  \/ GetJob(w) \/ QuarantineMissing(w) \/ ReadJob(w) \/ WriteJob(w)
  \/ ScanReports(w) \/ ScanFails(w) \/ ScanInterrupted(w) \/ WriteReport(w)
  \/ AckRead(w) \/ Acknowledge(w) \/ Refused(w) \/ ContextDone(w) \/ ReleaseLease(w)

Heartbeat(w) == Renew(w) \/ LoseLease(w)

Environment ==
  \/ \E k \in Keys : \/ StaleExpires(k) \/ RetentionExpires(k)
                     \/ LeaseLapses(k) \/ JobEvicted(k)
  \/ \E w \in Workers : \/ CallFails(w) \/ ReplyLostLeasing(w) \/ ReplyLostWriting(w)
                        \/ ReplyLostRetiring(w) \/ Crash(w) \/ Stop(w)
                        \/ \E d \in Deliveries : ReplyLostReading(w, d)
  \/ GroupLost \/ BackendFlushed

(* All steps but those of the API, which enqueues. *)
Serve ==
  \/ \E w \in Workers : \/ WorkerStep(w) \/ Heartbeat(w) \/ PollEmpty(w)
                        \/ \E d \in Deliveries : ClaimIdle(w, d) \/ ReadNew(w, d)
                        \/ \E c \in Workers : CleanIdle(w, c)
  \/ Environment

Next == Serve \/ \E k \in Keys : Enqueue(k)

Spec == Init /\ [][Next]_vars
-----------------------------------------------------------------------------
(* Properties. *)

(* An accepted job that has not reached a verdict still has its delivery in
   the stream: enqueueScript writes both, and only a terminal or a missing
   job lets acknowledgement or quarantine remove the entry. *)
NoLostJob ==
  \A k \in Keys : jobs[k].status \in {"Queued", "Pending"} => entry[k] # "absent"

(* Every entry of the stream is unread or pending with a consumer, so that
   XREADGROUP or XAUTOCLAIM can still return it: the group is created from
   "0" and cleanConsumers spares consumers with pending deliveries. *)
NoOrphanEntry == group => \A d \in Deliveries : entry[d] # "stored"

(* No job starts more scans than it is granted, however its workers crash,
   lose leases or lose answers: process() counts an attempt before the scan. *)
AttemptsBounded ==
  \A k \in Keys : started[k] <= MaxAttempts /\ jobs[k].attempts <= MaxAttempts

(* The report of a finished job is the one its last attempt wrote, never that
   of a worker that had lost the job: UpdateReport and UpdateStatus are
   separate writes, each fenced by the lease. *)
FinishedHasItsReport ==
  \A k \in Keys : jobs[k].status = "Finished" => reports[k] = jobs[k].attempts

(* An acknowledged delivery is out of the stream for good and its job has a
   verdict for as long as the job is kept. *)
RetiredIsSettled ==
  \A k \in retired : entry[k] = "absent" /\ jobs[k].status \in Terminal \cup {"Gone"}

(* Retention never runs before acknowledgement: a completion record cannot
   expire while a recovered delivery could still repeat its scan. *)
RetentionAfterRetirement == \A k \in Keys : ttl[k] => k \in retired

(* Quarantine holds what could not be executed, never a delivery that was
   acknowledged and never one whose job is still there: a worker that read
   the job before another one retired it quarantines nothing. *)
QuarantineIsUnexecutable ==
  /\ quarantine \cap retired = {}
  /\ \A k \in quarantine \cap Keys : jobs[k].status = "Gone"

(* A worker that scans under a lease it still owns works on the newest
   attempt of the job; older attempts that still run have lost theirs. *)
OwnerHasNewestAttempt ==
  \A w \in Workers : pc[w] \in {"scan", "report"} /\ MayUpdate(w) => seen[w] = jobs[msg[w]]

(* docs/OPERATIONS.md, "Queue recovery": a terminally failed scan is
   acknowledged "with no report". *)
FailedHasNoReport == \A k \in Keys : jobs[k].status = "Failed" => reports[k] = 0

(* A verdict is final: no later or slower worker changes it, it only expires
   or is lost with its key. *)
VerdictIsFinal ==
  [][\A k \in Keys : jobs[k].status \in Terminal
       => jobs'[k] = jobs[k] \/ jobs'[k].status = "Gone"]_vars

-----------------------------------------------------------------------------
(* The inductive invariant behind the properties above. *)

(* A token belongs to the process() call it was made for. *)
LeaseHolderHolds ==
  \A k \in Keys, w \in Workers : lease[k] = w => pc[w] \in Holding /\ msg[w] = k

(* What a worker between two calls knows of its job for certain, and what it
   knows as long as it owns the lease: nobody else has written since. *)
Coherent(w) ==
  LET j == jobs[msg[w]] IN
  /\ pc[w] \in Holding \cup {"lease"} => msg[w] \in Keys /\ j.status # "New"
  /\ pc[w] = "undecodable" => msg[w] \in Foreign
  /\ pc[w] \in {"read", "write"} => goal[w] \in {"Pending", "Finished", "Failed"}
  /\ pc[w] = "missing" => j.status = "Gone"
  /\ pc[w] = "ack" => j.status \in Terminal \cup {"Gone"}
  /\ pc[w] \in Holding /\ MayUpdate(w) =>
       /\ pc[w] \in {"write", "scan", "report"} => seen[w] = j
       /\ pc[w] \in {"scan", "report"} => j.status = "Pending"
       /\ pc[w] = "ackread" => j.status \in Terminal
       /\ pc[w] \in {"read", "write"} =>
            IF goal[w] = "Pending"
            THEN j.status \notin Terminal /\ j.attempts < MaxAttempts
            ELSE j.status = "Pending" /\ (goal[w] = "Finished" => reports[msg[w]] = j.attempts)

(* How the keys of one job relate. *)
JobConsistent(k) ==
  /\ jobs[k].status = "New" => entry[k] = "absent" /\ started[k] = 0 /\ k \notin retired
  /\ jobs[k].status \in {"New", "Queued", "Gone"} => jobs[k].attempts = 0
  /\ started[k] <= MaxAttempts
  /\ Exists(k) => started[k] <= jobs[k].attempts
  /\ jobs[k].attempts <= MaxAttempts

IInv ==
  /\ TypeOK
  /\ retired \subseteq Keys
  /\ LeaseHolderHolds
  /\ \A w \in Workers : Coherent(w)
  /\ \A k \in Keys : JobConsistent(k)
  /\ NoLostJob /\ NoOrphanEntry /\ FinishedHasItsReport
  /\ RetiredIsSettled /\ RetentionAfterRetirement /\ QuarantineIsUnexecutable

-----------------------------------------------------------------------------
(* Seen from outside, jobs live the life ScanJob promises: the report a worker
   stores ahead of the Finished status is not visible before that status. *)
Shown(k) == [status |-> jobs[k].status, attempts |-> jobs[k].attempts,
             report |-> IF jobs[k].status = "Finished" THEN reports[k] ELSE 0]
Lifecycle == INSTANCE ScanJob WITH
  job <- [k \in Keys |-> Shown(k)], settled <- retired \cap Keys
ImplementsScanJob == Lifecycle!Spec

-----------------------------------------------------------------------------
(* Liveness.  A worker that runs takes its next step (WF): its Redis calls
   time out and a scan has a deadline.  An entry that can be returned again
   and again is returned at last (SF): XREADGROUP goes through the unread
   entries in order and XAUTOCLAIM through the pending ones with a cursor.
   Redis expires the key of a lease that nobody renews.  Faults are finite. *)
Fairness ==
  /\ \A w \in Workers : WF_vars(WorkerStep(w))
  /\ \A d \in Deliveries : /\ SF_vars(\E w \in Workers : ClaimIdle(w, d))
                           /\ SF_vars(\E w \in Workers : ReadNew(w, d))
  /\ \A k \in Keys : WF_vars(StaleExpires(k))

FairSpec == Spec /\ Fairness

(* Every delivery leaves the stream, acknowledged or quarantined, as long as
   one worker survives: whoever crashed, lost its lease or lost an answer
   while it held the delivery does not block it for ever. *)
DeliveriesAreServed ==
  \A d \in Deliveries : entry[d] # "absent" ~> entry[d] = "absent"
=============================================================================

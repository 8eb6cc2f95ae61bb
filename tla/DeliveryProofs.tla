--------------------------- MODULE DeliveryProofs ---------------------------
(***************************************************************************)
(* Proofs about Delivery, for every set of keys and workers, every attempt *)
(* limit and every sequence of faults.  IInv is inductive: one lemma per   *)
(* group of its conjuncts, with one step per action, and one per group of  *)
(* variables for its typing.  The theorems are at the end.                 *)
(***************************************************************************)
EXTENDS Delivery, TLAPS

(* The three parts of TypeOK: a worker's locals, the keys of the store, the
   stream, its group and the leases. *)
WorkTypeOK ==
  /\ pc \in [Workers -> Points]
  /\ msg \in [Workers -> Deliveries \cup {"none"}]
  /\ seen \in [Workers -> Job]
  /\ goal \in [Workers -> Statuses]
  /\ ctx \in [Workers -> {"live", "cancelled", "stopping"}]

StoreTypeOK ==
  /\ jobs \in [Keys -> Job]
  /\ reports \in [Keys -> Nat]
  /\ ttl \in [Keys -> BOOLEAN]
  /\ started \in [Keys -> Nat]
  /\ faults \in 0 .. MaxFaults

QueueTypeOK ==
  /\ entry \in [Deliveries -> Workers \cup {"absent", "unread", "stored"}]
  /\ group \in BOOLEAN
  /\ consumers \subseteq Workers
  /\ quarantine \subseteq Deliveries
  /\ lease \in [Keys -> Workers \cup {"free", "stale"}]
  /\ retired \subseteq Keys

(* A return from process() resets its locals. *)
LEMMA ReturnTypes ==
  ASSUME WorkTypeOK, NEW w \in Workers, Return(w)
  PROVE  WorkTypeOK'
<1>1. "loop" \in Points /\ Blank \in Job /\ "New" \in Statuses
  BY DEF Points, Blank, Job, Statuses
<1>2. pc' \in [Workers -> Points] /\ msg' \in [Workers -> Deliveries \cup {"none"}]
  BY <1>1 DEF WorkTypeOK, Return, Goto
<1>3. seen' \in [Workers -> Job] /\ goal' \in [Workers -> Statuses]
  BY <1>1 DEF WorkTypeOK, Return
<1>4. ctx' \in [Workers -> {"live", "cancelled", "stopping"}]
  BY DEF WorkTypeOK, Return
<1> QED
  BY <1>2, <1>3, <1>4 DEF WorkTypeOK

(* An error return does, or leads to the deferred release. *)
LEMMA AbandonTypes ==
  ASSUME WorkTypeOK, NEW w \in Workers, Abandon(w)
  PROVE  WorkTypeOK'
<1>1. CASE Return(w)
  BY <1>1, ReturnTypes
<1>2. CASE Goto(w, "release") /\ UNCHANGED <<msg, seen, goal, ctx>>
  BY <1>2 DEF WorkTypeOK, Goto, Points
<1> QED
  BY <1>1, <1>2 DEF Abandon

(* Every step keeps the workers' locals typed. *)
LEMMA WorkTypesStep ==
  ASSUME IInv, Next
  PROVE  WorkTypeOK'
<1>a. WorkTypeOK
  BY DEF IInv, TypeOK, WorkTypeOK
<1>b. jobs \in [Keys -> Job]
  BY DEF IInv, TypeOK
<1>c. \A w \in Workers : pc[w] \in Holding => msg[w] \in Keys
  BY DEF IInv, Coherent
<1> USE <1>a
<1>1. ASSUME NEW w \in Workers, Boot(w)
      PROVE  WorkTypeOK'
  BY <1>1 DEF Boot, Goto, WorkTypeOK, Points, Calling
<1>2. ASSUME NEW w \in Workers, RecoverGroup(w)
      PROVE  WorkTypeOK'
  BY <1>2 DEF RecoverGroup, WorkTypeOK, workVars
<1>3. ASSUME NEW w \in Workers, LeaveLoop(w)
      PROVE  WorkTypeOK'
  BY <1>3 DEF LeaveLoop, Goto, WorkTypeOK, Points, Calling
<1>4. ASSUME NEW w \in Workers, Exit(w)
      PROVE  WorkTypeOK'
  BY <1>4 DEF Exit, Goto, WorkTypeOK, Points, Calling
<1>5. ASSUME NEW w \in Workers, QuarantineUndecodable(w)
      PROVE  WorkTypeOK'
  BY <1>5, ReturnTypes DEF QuarantineUndecodable
<1>6. ASSUME NEW w \in Workers, AcquireLease(w)
      PROVE  WorkTypeOK'
  BY <1>6 DEF AcquireLease, Goto, WorkTypeOK, Points, Calling
<1>7. ASSUME NEW w \in Workers, LeaseBusy(w)
      PROVE  WorkTypeOK'
  BY <1>7, ReturnTypes DEF LeaseBusy
<1>8. ASSUME NEW w \in Workers, GetJob(w)
      PROVE  WorkTypeOK'
  <2>1. pc' \in [Workers -> Points]
    BY <1>8 DEF GetJob, Goto, WorkTypeOK, Points, Calling
  <2>2. goal' \in [Workers -> Statuses]
    BY <1>8 DEF GetJob, NextGoal, WorkTypeOK, Statuses
  <2> QED
    BY <1>8, <2>1, <2>2 DEF GetJob, WorkTypeOK
<1>9. ASSUME NEW w \in Workers, QuarantineMissing(w)
      PROVE  WorkTypeOK'
  BY <1>9 DEF QuarantineMissing, Goto, WorkTypeOK, Points, Calling
<1>10. ASSUME NEW w \in Workers, ReadJob(w)
      PROVE  WorkTypeOK'
  <2>1. msg[w] \in Keys
    BY <1>10, <1>c DEF ReadJob, At, Holding
  <2>2. seen' \in [Workers -> Job]
    BY <1>10, <2>1, <1>b DEF ReadJob, WorkTypeOK
  <2>3. pc' \in [Workers -> Points]
    BY <1>10 DEF ReadJob, Goto, WorkTypeOK, Points, Calling
  <2> QED
    BY <1>10, <2>2, <2>3 DEF ReadJob, WorkTypeOK
<1>11. ASSUME NEW w \in Workers, WriteJob(w)
      PROVE  WorkTypeOK'
  <2>1. WithStatus(seen[w], goal[w]) \in Job
    BY DEF WithStatus, WorkTypeOK, Job, Statuses
  <2>2. seen' \in [Workers -> Job]
    BY <1>11, <2>1 DEF WriteJob, WorkTypeOK
  <2>3. pc' \in [Workers -> Points]
    BY <1>11 DEF WriteJob, Goto, WorkTypeOK, Points, Calling
  <2> QED
    BY <1>11, <2>2, <2>3 DEF WriteJob, WorkTypeOK
<1>12. ASSUME NEW w \in Workers, ScanReports(w)
      PROVE  WorkTypeOK'
  BY <1>12 DEF ScanReports, Goto, WorkTypeOK, Points, Calling
<1>13. ASSUME NEW w \in Workers, ScanFails(w)
      PROVE  WorkTypeOK'
  BY <1>13 DEF ScanFails, Goto, NextGoal, WorkTypeOK, Points, Calling, Statuses
<1>14. ASSUME NEW w \in Workers, ScanInterrupted(w)
      PROVE  WorkTypeOK'
  BY <1>14 DEF ScanInterrupted, Goto, WorkTypeOK, Points, Calling
<1>15. ASSUME NEW w \in Workers, WriteReport(w)
      PROVE  WorkTypeOK'
  BY <1>15 DEF WriteReport, Goto, NextGoal, WorkTypeOK, Points, Calling, Statuses
<1>16. ASSUME NEW w \in Workers, AckRead(w)
      PROVE  WorkTypeOK'
  BY <1>16 DEF AckRead, Goto, WorkTypeOK, Points, Calling
<1>17. ASSUME NEW w \in Workers, Acknowledge(w)
      PROVE  WorkTypeOK'
  BY <1>17 DEF Acknowledge, Goto, WorkTypeOK, Points, Calling
<1>18. ASSUME NEW w \in Workers, Refused(w)
      PROVE  WorkTypeOK'
  BY <1>18, AbandonTypes DEF Refused
<1>19. ASSUME NEW w \in Workers, ContextDone(w)
      PROVE  WorkTypeOK'
  BY <1>19, AbandonTypes DEF ContextDone
<1>20. ASSUME NEW w \in Workers, ReleaseLease(w)
      PROVE  WorkTypeOK'
  BY <1>20, ReturnTypes DEF ReleaseLease
<1>21. ASSUME NEW w \in Workers, Renew(w)
      PROVE  WorkTypeOK'
  BY <1>21 DEF Renew, WorkTypeOK, workVars
<1>22. ASSUME NEW w \in Workers, LoseLease(w)
      PROVE  WorkTypeOK'
  BY <1>22 DEF LoseLease, WorkTypeOK
<1>23. ASSUME NEW w \in Workers, CallFails(w)
      PROVE  WorkTypeOK'
  <2>1. CASE Abandon(w)
    BY <2>1, AbandonTypes
  <2>2. CASE Return(w)
    BY <2>2, ReturnTypes
  <2>3. CASE ctx' = [ctx EXCEPT ![w] = "cancelled"] /\ UNCHANGED <<pc, msg, seen, goal, lease>>
    BY <2>3 DEF WorkTypeOK
  <2> QED
    BY <1>23, <2>1, <2>2, <2>3 DEF CallFails
<1>24. ASSUME NEW w \in Workers, ReplyLostLeasing(w)
      PROVE  WorkTypeOK'
  BY <1>24, ReturnTypes DEF ReplyLostLeasing
<1>25. ASSUME NEW w \in Workers, ReplyLostWriting(w)
      PROVE  WorkTypeOK'
  BY <1>25 DEF ReplyLostWriting, Goto, WorkTypeOK, Points, Calling
<1>26. ASSUME NEW w \in Workers, ReplyLostRetiring(w)
      PROVE  WorkTypeOK'
  BY <1>26 DEF ReplyLostRetiring, Goto, WorkTypeOK, Points, Calling
<1>27. ASSUME NEW w \in Workers, Crash(w)
      PROVE  WorkTypeOK'
  BY <1>27 DEF Crash, Goto, WorkTypeOK, Points, Blank, Job, Statuses
<1>28. ASSUME NEW w \in Workers, Stop(w)
      PROVE  WorkTypeOK'
  BY <1>28 DEF Stop, WorkTypeOK
<1>29. ASSUME NEW w \in Workers, PollEmpty(w)
      PROVE  WorkTypeOK'
  BY <1>29 DEF PollEmpty, WorkTypeOK, vars, workVars
<1>30. ASSUME NEW w \in Workers, NEW d \in Deliveries, ClaimIdle(w, d)
      PROVE  WorkTypeOK'
  BY <1>30 DEF ClaimIdle, Begin, Goto, WorkTypeOK, Points, Calling
<1>31. ASSUME NEW w \in Workers, NEW d \in Deliveries, ReadNew(w, d)
      PROVE  WorkTypeOK'
  BY <1>31 DEF ReadNew, Begin, Goto, WorkTypeOK, Points, Calling
<1>32. ASSUME NEW w \in Workers, NEW d \in Deliveries, ReplyLostReading(w, d)
      PROVE  WorkTypeOK'
  BY <1>32 DEF ReplyLostReading, WorkTypeOK, workVars
<1>33. ASSUME NEW w \in Workers, NEW c \in Workers, CleanIdle(w, c)
      PROVE  WorkTypeOK'
  BY <1>33 DEF CleanIdle, WorkTypeOK, workVars
<1>34. ASSUME NEW k \in Keys, Enqueue(k)
      PROVE  WorkTypeOK'
  BY <1>34 DEF Enqueue, WorkTypeOK, workVars
<1>35. ASSUME NEW k \in Keys, StaleExpires(k)
      PROVE  WorkTypeOK'
  BY <1>35 DEF StaleExpires, WorkTypeOK, workVars
<1>36. ASSUME NEW k \in Keys, RetentionExpires(k)
      PROVE  WorkTypeOK'
  BY <1>36 DEF RetentionExpires, WorkTypeOK, workVars
<1>37. ASSUME NEW k \in Keys, LeaseLapses(k)
      PROVE  WorkTypeOK'
  BY <1>37 DEF LeaseLapses, WorkTypeOK, workVars
<1>38. ASSUME NEW k \in Keys, JobEvicted(k)
      PROVE  WorkTypeOK'
  BY <1>38 DEF JobEvicted, WorkTypeOK, workVars
<1>39. ASSUME GroupLost
      PROVE  WorkTypeOK'
  BY <1>39 DEF GroupLost, WorkTypeOK, workVars
<1>40. ASSUME BackendFlushed
      PROVE  WorkTypeOK'
  BY <1>40 DEF BackendFlushed, WorkTypeOK, workVars
<1> QED
  BY <1>1, <1>2, <1>3, <1>4, <1>5, <1>6, <1>7, <1>8, <1>9, <1>10, <1>11, <1>12, <1>13, <1>14, <1>15, <1>16, <1>17, <1>18, <1>19, <1>20, <1>21, <1>22, <1>23, <1>24, <1>25, <1>26, <1>27, <1>28, <1>29, <1>30, <1>31, <1>32, <1>33, <1>34, <1>35, <1>36, <1>37, <1>38, <1>39, <1>40
  DEF Next, Serve, WorkerStep, Heartbeat, Environment

(* Every step keeps the job and report keys typed. *)
LEMMA StoreTypesStep ==
  ASSUME IInv, Next
  PROVE  StoreTypeOK'
<1>a. StoreTypeOK /\ DeliveryAssumption
  BY DeliveryAssumption DEF IInv, TypeOK, StoreTypeOK
<1>b. seen \in [Workers -> Job] /\ goal \in [Workers -> Statuses]
  BY DEF IInv, TypeOK
<1> USE <1>a DEF StoreTypeOK, storeVars
<1>1. ASSUME NEW w \in Workers, Boot(w)
      PROVE  StoreTypeOK'
  BY <1>1 DEF Boot
<1>2. ASSUME NEW w \in Workers, RecoverGroup(w)
      PROVE  StoreTypeOK'
  BY <1>2 DEF RecoverGroup
<1>3. ASSUME NEW w \in Workers, LeaveLoop(w)
      PROVE  StoreTypeOK'
  BY <1>3 DEF LeaveLoop
<1>4. ASSUME NEW w \in Workers, Exit(w)
      PROVE  StoreTypeOK'
  BY <1>4 DEF Exit
<1>5. ASSUME NEW w \in Workers, QuarantineUndecodable(w)
      PROVE  StoreTypeOK'
  BY <1>5 DEF QuarantineUndecodable
<1>6. ASSUME NEW w \in Workers, AcquireLease(w)
      PROVE  StoreTypeOK'
  BY <1>6 DEF AcquireLease
<1>7. ASSUME NEW w \in Workers, LeaseBusy(w)
      PROVE  StoreTypeOK'
  BY <1>7 DEF LeaseBusy
<1>8. ASSUME NEW w \in Workers, GetJob(w)
      PROVE  StoreTypeOK'
  BY <1>8 DEF GetJob
<1>9. ASSUME NEW w \in Workers, QuarantineMissing(w)
      PROVE  StoreTypeOK'
  BY <1>9 DEF QuarantineMissing
<1>10. ASSUME NEW w \in Workers, ReadJob(w)
      PROVE  StoreTypeOK'
  BY <1>10 DEF ReadJob
<1>11. ASSUME NEW w \in Workers, WriteJob(w)
      PROVE  StoreTypeOK'
  <2>1. WithStatus(seen[w], goal[w]) \in Job /\ seen[w].attempts \in Nat
    BY <1>b DEF WithStatus, Job, Statuses
  <2>2. jobs' \in [Keys -> Job] /\ ttl' \in [Keys -> BOOLEAN]
    BY <1>11, <2>1 DEF WriteJob, UpdateJobScript
  <2>3. started' \in [Keys -> Nat]
    BY <1>11 DEF WriteJob
  <2> QED
    BY <1>11, <2>2, <2>3 DEF WriteJob
<1>12. ASSUME NEW w \in Workers, ScanReports(w)
      PROVE  StoreTypeOK'
  BY <1>12 DEF ScanReports
<1>13. ASSUME NEW w \in Workers, ScanFails(w)
      PROVE  StoreTypeOK'
  BY <1>13 DEF ScanFails
<1>14. ASSUME NEW w \in Workers, ScanInterrupted(w)
      PROVE  StoreTypeOK'
  BY <1>14 DEF ScanInterrupted
<1>15. ASSUME NEW w \in Workers, WriteReport(w)
      PROVE  StoreTypeOK'
  <2>1. WithStatus(seen[w], goal[w]) \in Job /\ seen[w].attempts \in Nat
    BY <1>b DEF WithStatus, Job, Statuses
  <2> QED
    BY <1>15, <2>1 DEF WriteReport, UpdateReportScript
<1>16. ASSUME NEW w \in Workers, AckRead(w)
      PROVE  StoreTypeOK'
  BY <1>16 DEF AckRead
<1>17. ASSUME NEW w \in Workers, Acknowledge(w)
      PROVE  StoreTypeOK'
  BY <1>17, DeliveryAssumption DEF Acknowledge, AcknowledgeScript
<1>18. ASSUME NEW w \in Workers, Refused(w)
      PROVE  StoreTypeOK'
  BY <1>18 DEF Refused
<1>19. ASSUME NEW w \in Workers, ContextDone(w)
      PROVE  StoreTypeOK'
  BY <1>19 DEF ContextDone
<1>20. ASSUME NEW w \in Workers, ReleaseLease(w)
      PROVE  StoreTypeOK'
  BY <1>20 DEF ReleaseLease
<1>21. ASSUME NEW w \in Workers, Renew(w)
      PROVE  StoreTypeOK'
  BY <1>21 DEF Renew
<1>22. ASSUME NEW w \in Workers, LoseLease(w)
      PROVE  StoreTypeOK'
  BY <1>22 DEF LoseLease
<1>23. ASSUME NEW w \in Workers, CallFails(w)
      PROVE  StoreTypeOK'
  BY <1>23, DeliveryAssumption DEF CallFails, Fault
<1>24. ASSUME NEW w \in Workers, ReplyLostLeasing(w)
      PROVE  StoreTypeOK'
  BY <1>24, DeliveryAssumption DEF ReplyLostLeasing, Fault
<1>25. ASSUME NEW w \in Workers, ReplyLostWriting(w)
      PROVE  StoreTypeOK'
  <2>1. WithStatus(seen[w], goal[w]) \in Job /\ seen[w].attempts \in Nat
    BY <1>b DEF WithStatus, Job, Statuses
  <2>2. ASSUME UpdateJobScript(msg[w], WithStatus(seen[w], goal[w])), UNCHANGED reports
        PROVE  jobs' \in [Keys -> Job] /\ ttl' \in [Keys -> BOOLEAN] /\ reports' \in [Keys -> Nat]
    BY <2>1, <2>2 DEF UpdateJobScript
  <2>3. ASSUME UpdateReportScript(msg[w], seen[w].attempts), UNCHANGED jobs
        PROVE  jobs' \in [Keys -> Job] /\ ttl' \in [Keys -> BOOLEAN] /\ reports' \in [Keys -> Nat]
    BY <2>1, <2>3 DEF UpdateReportScript
  <2>4. faults' \in 0 .. MaxFaults /\ UNCHANGED started
    BY <1>25, DeliveryAssumption DEF ReplyLostWriting, Fault
  <2> QED
    BY <1>25, <2>2, <2>3, <2>4 DEF ReplyLostWriting
<1>26. ASSUME NEW w \in Workers, ReplyLostRetiring(w)
      PROVE  StoreTypeOK'
  BY <1>26, DeliveryAssumption DEF ReplyLostRetiring, Fault, AcknowledgeScript
<1>27. ASSUME NEW w \in Workers, Crash(w)
      PROVE  StoreTypeOK'
  BY <1>27, DeliveryAssumption DEF Crash, Fault
<1>28. ASSUME NEW w \in Workers, Stop(w)
      PROVE  StoreTypeOK'
  BY <1>28, DeliveryAssumption DEF Stop, Fault
<1>29. ASSUME NEW w \in Workers, PollEmpty(w)
      PROVE  StoreTypeOK'
  BY <1>29 DEF PollEmpty, vars
<1>30. ASSUME NEW w \in Workers, NEW d \in Deliveries, ClaimIdle(w, d)
      PROVE  StoreTypeOK'
  BY <1>30 DEF ClaimIdle, Begin
<1>31. ASSUME NEW w \in Workers, NEW d \in Deliveries, ReadNew(w, d)
      PROVE  StoreTypeOK'
  BY <1>31 DEF ReadNew, Begin
<1>32. ASSUME NEW w \in Workers, NEW d \in Deliveries, ReplyLostReading(w, d)
      PROVE  StoreTypeOK'
  BY <1>32, DeliveryAssumption DEF ReplyLostReading, Fault
<1>33. ASSUME NEW w \in Workers, NEW c \in Workers, CleanIdle(w, c)
      PROVE  StoreTypeOK'
  BY <1>33 DEF CleanIdle
<1>34. ASSUME NEW k \in Keys, Enqueue(k)
      PROVE  StoreTypeOK'
  BY <1>34 DEF Enqueue, EnqueueScript, Job, Statuses
<1>35. ASSUME NEW k \in Keys, StaleExpires(k)
      PROVE  StoreTypeOK'
  BY <1>35 DEF StaleExpires
<1>36. ASSUME NEW k \in Keys, RetentionExpires(k)
      PROVE  StoreTypeOK'
  BY <1>36 DEF RetentionExpires, Job, Statuses
<1>37. ASSUME NEW k \in Keys, LeaseLapses(k)
      PROVE  StoreTypeOK'
  BY <1>37, DeliveryAssumption DEF LeaseLapses, Fault
<1>38. ASSUME NEW k \in Keys, JobEvicted(k)
      PROVE  StoreTypeOK'
  BY <1>38, DeliveryAssumption DEF JobEvicted, Fault, Job, Statuses
<1>39. ASSUME GroupLost
      PROVE  StoreTypeOK'
  BY <1>39, DeliveryAssumption DEF GroupLost, Fault
<1>40. ASSUME BackendFlushed
      PROVE  StoreTypeOK'
  <2>1. [status |-> "Gone", attempts |-> 0] \in Job
    BY DEF Job, Statuses
  <2> QED
    BY <1>40, <2>1, DeliveryAssumption DEF BackendFlushed, Fault
<1> QED
  BY <1>1, <1>2, <1>3, <1>4, <1>5, <1>6, <1>7, <1>8, <1>9, <1>10, <1>11, <1>12, <1>13, <1>14, <1>15, <1>16, <1>17, <1>18, <1>19, <1>20, <1>21, <1>22, <1>23, <1>24, <1>25, <1>26, <1>27, <1>28, <1>29, <1>30, <1>31, <1>32, <1>33, <1>34, <1>35, <1>36, <1>37, <1>38, <1>39, <1>40
  DEF Next, Serve, WorkerStep, Heartbeat, Environment

(* Every step keeps the stream, the group and the leases typed. *)
LEMMA QueueTypesStep ==
  ASSUME IInv, Next
  PROVE  QueueTypeOK'
<1>a. QueueTypeOK
  BY DEF IInv, TypeOK, QueueTypeOK
<1>b. \A w \in Workers : pc[w] \in Holding \cup {"lease"} => msg[w] \in Keys
  BY DEF IInv, Coherent
<1>c. \A w \in Workers : pc[w] = "undecodable" => msg[w] \in Deliveries
  BY DEF IInv, Coherent, Deliveries
<1>d. Keys \subseteq Deliveries
  BY DEF Deliveries
<1> USE <1>a DEF QueueTypeOK, queueVars
<1>1. ASSUME NEW w \in Workers, Boot(w)
      PROVE  QueueTypeOK'
  BY <1>1 DEF Boot, EnsureGroup
<1>2. ASSUME NEW w \in Workers, RecoverGroup(w)
      PROVE  QueueTypeOK'
  BY <1>2 DEF RecoverGroup, EnsureGroup
<1>3. ASSUME NEW w \in Workers, LeaveLoop(w)
      PROVE  QueueTypeOK'
  BY <1>3 DEF LeaveLoop
<1>4. ASSUME NEW w \in Workers, Exit(w)
      PROVE  QueueTypeOK'
  BY <1>4 DEF Exit, DeleteConsumer
<1>5. ASSUME NEW w \in Workers, QuarantineUndecodable(w)
      PROVE  QueueTypeOK'
  BY <1>5, <1>c DEF QuarantineUndecodable, At, QuarantineScript
<1>6. ASSUME NEW w \in Workers, AcquireLease(w)
      PROVE  QueueTypeOK'
  BY <1>6 DEF AcquireLease
<1>7. ASSUME NEW w \in Workers, LeaseBusy(w)
      PROVE  QueueTypeOK'
  BY <1>7 DEF LeaseBusy
<1>8. ASSUME NEW w \in Workers, GetJob(w)
      PROVE  QueueTypeOK'
  BY <1>8 DEF GetJob
<1>9. ASSUME NEW w \in Workers, QuarantineMissing(w)
      PROVE  QueueTypeOK'
  BY <1>9, <1>b, <1>d DEF QuarantineMissing, At, QuarantineScript, Holding
<1>10. ASSUME NEW w \in Workers, ReadJob(w)
      PROVE  QueueTypeOK'
  BY <1>10 DEF ReadJob
<1>11. ASSUME NEW w \in Workers, WriteJob(w)
      PROVE  QueueTypeOK'
  BY <1>11 DEF WriteJob
<1>12. ASSUME NEW w \in Workers, ScanReports(w)
      PROVE  QueueTypeOK'
  BY <1>12 DEF ScanReports
<1>13. ASSUME NEW w \in Workers, ScanFails(w)
      PROVE  QueueTypeOK'
  BY <1>13 DEF ScanFails
<1>14. ASSUME NEW w \in Workers, ScanInterrupted(w)
      PROVE  QueueTypeOK'
  BY <1>14 DEF ScanInterrupted
<1>15. ASSUME NEW w \in Workers, WriteReport(w)
      PROVE  QueueTypeOK'
  BY <1>15 DEF WriteReport
<1>16. ASSUME NEW w \in Workers, AckRead(w)
      PROVE  QueueTypeOK'
  BY <1>16 DEF AckRead
<1>17. ASSUME NEW w \in Workers, Acknowledge(w)
      PROVE  QueueTypeOK'
  BY <1>17, <1>b DEF Acknowledge, At, AcknowledgeScript, Holding
<1>18. ASSUME NEW w \in Workers, Refused(w)
      PROVE  QueueTypeOK'
  BY <1>18 DEF Refused
<1>19. ASSUME NEW w \in Workers, ContextDone(w)
      PROVE  QueueTypeOK'
  BY <1>19 DEF ContextDone
<1>20. ASSUME NEW w \in Workers, ReleaseLease(w)
      PROVE  QueueTypeOK'
  BY <1>20 DEF ReleaseLease
<1>21. ASSUME NEW w \in Workers, Renew(w)
      PROVE  QueueTypeOK'
  BY <1>21 DEF Renew, Receive
<1>22. ASSUME NEW w \in Workers, LoseLease(w)
      PROVE  QueueTypeOK'
  BY <1>22 DEF LoseLease
<1>23. ASSUME NEW w \in Workers, CallFails(w)
      PROVE  QueueTypeOK'
  BY <1>23 DEF CallFails, Orphaned
<1>24. ASSUME NEW w \in Workers, ReplyLostLeasing(w)
      PROVE  QueueTypeOK'
  BY <1>24 DEF ReplyLostLeasing
<1>25. ASSUME NEW w \in Workers, ReplyLostWriting(w)
      PROVE  QueueTypeOK'
  BY <1>25 DEF ReplyLostWriting
<1>26. ASSUME NEW w \in Workers, ReplyLostRetiring(w)
      PROVE  QueueTypeOK'
  BY <1>26, <1>b, <1>d DEF ReplyLostRetiring, At, AcknowledgeScript, QuarantineScript, Holding
<1>27. ASSUME NEW w \in Workers, Crash(w)
      PROVE  QueueTypeOK'
  BY <1>27 DEF Crash, Orphaned
<1>28. ASSUME NEW w \in Workers, Stop(w)
      PROVE  QueueTypeOK'
  BY <1>28 DEF Stop
<1>29. ASSUME NEW w \in Workers, PollEmpty(w)
      PROVE  QueueTypeOK'
  BY <1>29 DEF PollEmpty, vars
<1>30. ASSUME NEW w \in Workers, NEW d \in Deliveries, ClaimIdle(w, d)
      PROVE  QueueTypeOK'
  BY <1>30 DEF ClaimIdle, Begin, Receive
<1>31. ASSUME NEW w \in Workers, NEW d \in Deliveries, ReadNew(w, d)
      PROVE  QueueTypeOK'
  BY <1>31 DEF ReadNew, Begin, Receive
<1>32. ASSUME NEW w \in Workers, NEW d \in Deliveries, ReplyLostReading(w, d)
      PROVE  QueueTypeOK'
  BY <1>32 DEF ReplyLostReading, Receive
<1>33. ASSUME NEW w \in Workers, NEW c \in Workers, CleanIdle(w, c)
      PROVE  QueueTypeOK'
  BY <1>33 DEF CleanIdle, DeleteConsumer
<1>34. ASSUME NEW k \in Keys, Enqueue(k)
      PROVE  QueueTypeOK'
  BY <1>34, <1>d DEF Enqueue, EnqueueScript
<1>35. ASSUME NEW k \in Keys, StaleExpires(k)
      PROVE  QueueTypeOK'
  BY <1>35 DEF StaleExpires
<1>36. ASSUME NEW k \in Keys, RetentionExpires(k)
      PROVE  QueueTypeOK'
  BY <1>36 DEF RetentionExpires
<1>37. ASSUME NEW k \in Keys, LeaseLapses(k)
      PROVE  QueueTypeOK'
  BY <1>37 DEF LeaseLapses
<1>38. ASSUME NEW k \in Keys, JobEvicted(k)
      PROVE  QueueTypeOK'
  BY <1>38 DEF JobEvicted
<1>39. ASSUME GroupLost
      PROVE  QueueTypeOK'
  BY <1>39 DEF GroupLost
<1>40. ASSUME BackendFlushed
      PROVE  QueueTypeOK'
  BY <1>40 DEF BackendFlushed
<1> QED
  BY <1>1, <1>2, <1>3, <1>4, <1>5, <1>6, <1>7, <1>8, <1>9, <1>10, <1>11, <1>12, <1>13, <1>14, <1>15, <1>16, <1>17, <1>18, <1>19, <1>20, <1>21, <1>22, <1>23, <1>24, <1>25, <1>26, <1>27, <1>28, <1>29, <1>30, <1>31, <1>32, <1>33, <1>34, <1>35, <1>36, <1>37, <1>38, <1>39, <1>40
  DEF Next, Serve, WorkerStep, Heartbeat, Environment


(* A worker whose status write will be applied writes from what is stored: nobody
   else wrote since it read the job, because it has owned the lease all along. *)
LEMMA WriterKnows ==
  ASSUME IInv, NEW w \in Workers, pc[w] = "write", MayUpdate(w)
  PROVE  /\ msg[w] \in Keys /\ jobs[msg[w]] \in Job
         /\ seen[w] = jobs[msg[w]]
         /\ jobs[msg[w]].status \in {"Queued", "Pending"}
         /\ \/ goal[w] = "Pending" /\ jobs[msg[w]].attempts < MaxAttempts
            \/ /\ goal[w] \in Terminal /\ jobs[msg[w]].status = "Pending"
               /\ goal[w] = "Finished" => reports[msg[w]] = jobs[msg[w]].attempts
<1>1. Coherent(w) /\ pc[w] \in Holding /\ jobs \in [Keys -> Job]
  BY DEF IInv, TypeOK, Holding
<1>2. msg[w] \in Keys /\ jobs[msg[w]] \in Job
  BY <1>1 DEF Coherent
<1>3. seen[w] = jobs[msg[w]] /\ goal[w] \in {"Pending", "Finished", "Failed"}
  BY <1>1 DEF Coherent
<1>4. IF goal[w] = "Pending"
      THEN jobs[msg[w]].status \notin Terminal /\ jobs[msg[w]].attempts < MaxAttempts
      ELSE /\ jobs[msg[w]].status = "Pending"
           /\ goal[w] = "Finished" => reports[msg[w]] = jobs[msg[w]].attempts
  BY <1>1 DEF Coherent
<1> QED
  BY <1>2, <1>3, <1>4 DEF MayUpdate, Exists, Job, Statuses, Terminal

(* A worker whose report will be stored is still the attempt that is Pending. *)
LEMMA ReporterKnows ==
  ASSUME IInv, NEW w \in Workers, pc[w] = "report", MayUpdate(w)
  PROVE  /\ msg[w] \in Keys /\ seen[w] = jobs[msg[w]]
         /\ jobs[msg[w]].status = "Pending"
  BY DEF IInv, Coherent, Holding

(* A worker whose acknowledgement will be applied retires a job with a verdict. *)
LEMMA RetirerKnows ==
  ASSUME IInv, NEW w \in Workers, pc[w] = "ack", MayAcknowledge(w)
  PROVE  msg[w] \in Keys /\ jobs[msg[w]].status \in Terminal
  BY DEF IInv, Coherent, Holding, MayAcknowledge, Exists

(* A token stays with the process() call it was made for. *)
LEMMA LeaseStep ==
  ASSUME IInv, Next
  PROVE  LeaseHolderHolds'
<1>a. LeaseHolderHolds /\ WorkTypeOK /\ QueueTypeOK
  BY DEF IInv, TypeOK, WorkTypeOK, QueueTypeOK
<1>b. \A w \in Workers : pc[w] \in Holding \cup {"lease"} => msg[w] \in Keys
  BY DEF IInv, Coherent
<1>c. Workers \cap {"free", "stale"} = {}
  BY DeliveryAssumption
<1> SUFFICES ASSUME NEW key \in Keys, NEW holder \in Workers, lease'[key] = holder
             PROVE  pc'[holder] \in Holding /\ msg'[holder] = key
  BY DEF LeaseHolderHolds
<1> USE <1>a, <1>b, <1>c DEF LeaseHolderHolds, WorkTypeOK, QueueTypeOK
<1>1. ASSUME NEW w \in Workers, Boot(w)
      PROVE  pc'[holder] \in Holding /\ msg'[holder] = key
  BY <1>1 DEF Boot, At, Goto, Holding
<1>2. ASSUME NEW w \in Workers, RecoverGroup(w)
      PROVE  pc'[holder] \in Holding /\ msg'[holder] = key
  BY <1>2 DEF RecoverGroup, workVars
<1>3. ASSUME NEW w \in Workers, LeaveLoop(w)
      PROVE  pc'[holder] \in Holding /\ msg'[holder] = key
  BY <1>3 DEF LeaveLoop, At, Goto, Holding
<1>4. ASSUME NEW w \in Workers, Exit(w)
      PROVE  pc'[holder] \in Holding /\ msg'[holder] = key
  BY <1>4 DEF Exit, At, Goto, Holding
<1>5. ASSUME NEW w \in Workers, QuarantineUndecodable(w)
      PROVE  pc'[holder] \in Holding /\ msg'[holder] = key
  BY <1>5 DEF QuarantineUndecodable, At, Return, Goto, Holding
<1>6. ASSUME NEW w \in Workers, AcquireLease(w)
      PROVE  pc'[holder] \in Holding /\ msg'[holder] = key
  BY <1>6 DEF AcquireLease, At, Goto, Holding
<1>7. ASSUME NEW w \in Workers, LeaseBusy(w)
      PROVE  pc'[holder] \in Holding /\ msg'[holder] = key
  BY <1>7 DEF LeaseBusy, At, Return, Goto, Holding
<1>8. ASSUME NEW w \in Workers, GetJob(w)
      PROVE  pc'[holder] \in Holding /\ msg'[holder] = key
  BY <1>8 DEF GetJob, At, Goto, Holding
<1>9. ASSUME NEW w \in Workers, QuarantineMissing(w)
      PROVE  pc'[holder] \in Holding /\ msg'[holder] = key
  BY <1>9 DEF QuarantineMissing, At, Goto, Holding
<1>10. ASSUME NEW w \in Workers, ReadJob(w)
      PROVE  pc'[holder] \in Holding /\ msg'[holder] = key
  BY <1>10 DEF ReadJob, At, Goto, Holding
<1>11. ASSUME NEW w \in Workers, WriteJob(w)
      PROVE  pc'[holder] \in Holding /\ msg'[holder] = key
  BY <1>11 DEF WriteJob, At, Goto, Holding
<1>12. ASSUME NEW w \in Workers, ScanReports(w)
      PROVE  pc'[holder] \in Holding /\ msg'[holder] = key
  BY <1>12 DEF ScanReports, At, Goto, Holding
<1>13. ASSUME NEW w \in Workers, ScanFails(w)
      PROVE  pc'[holder] \in Holding /\ msg'[holder] = key
  BY <1>13 DEF ScanFails, At, Goto, Holding
<1>14. ASSUME NEW w \in Workers, ScanInterrupted(w)
      PROVE  pc'[holder] \in Holding /\ msg'[holder] = key
  BY <1>14 DEF ScanInterrupted, At, Goto, Holding
<1>15. ASSUME NEW w \in Workers, WriteReport(w)
      PROVE  pc'[holder] \in Holding /\ msg'[holder] = key
  BY <1>15 DEF WriteReport, At, Goto, Holding
<1>16. ASSUME NEW w \in Workers, AckRead(w)
      PROVE  pc'[holder] \in Holding /\ msg'[holder] = key
  BY <1>16 DEF AckRead, At, Goto, Holding
<1>17. ASSUME NEW w \in Workers, Acknowledge(w)
      PROVE  pc'[holder] \in Holding /\ msg'[holder] = key
  BY <1>17 DEF Acknowledge, At, AcknowledgeScript, Goto, Holding
<1>18. ASSUME NEW w \in Workers, Refused(w)
      PROVE  pc'[holder] \in Holding /\ msg'[holder] = key
  BY <1>18 DEF Refused, Abandon, Return, Goto, Holding, Calling
<1>19. ASSUME NEW w \in Workers, ContextDone(w)
      PROVE  pc'[holder] \in Holding /\ msg'[holder] = key
  BY <1>19 DEF ContextDone, Abandon, Return, Goto, Holding, Calling
<1>20. ASSUME NEW w \in Workers, ReleaseLease(w)
      PROVE  pc'[holder] \in Holding /\ msg'[holder] = key
  BY <1>20 DEF ReleaseLease, Owns, Return, Goto, Holding
<1>21. ASSUME NEW w \in Workers, Renew(w)
      PROVE  pc'[holder] \in Holding /\ msg'[holder] = key
  BY <1>21 DEF Renew, workVars
<1>22. ASSUME NEW w \in Workers, LoseLease(w)
      PROVE  pc'[holder] \in Holding /\ msg'[holder] = key
  BY <1>22 DEF LoseLease, workVars
<1>23. ASSUME NEW w \in Workers, CallFails(w)
      PROVE  pc'[holder] \in Holding /\ msg'[holder] = key
  <2>1. CASE pc[w] \in Calling /\ Abandon(w) /\ UNCHANGED lease
    BY <2>1 DEF Abandon, Return, Goto, Calling, Holding
  <2>2. CASE lease' = Orphaned(w) /\ Return(w)
    BY <2>2 DEF Orphaned, Return, Goto
  <2>3. CASE UNCHANGED <<pc, msg, seen, goal, lease>>
    BY <2>3
  <2> QED
    BY <1>23, <2>1, <2>2, <2>3 DEF CallFails
<1>24. ASSUME NEW w \in Workers, ReplyLostLeasing(w)
      PROVE  pc'[holder] \in Holding /\ msg'[holder] = key
  BY <1>24 DEF ReplyLostLeasing, At, Return, Goto, Holding
<1>25. ASSUME NEW w \in Workers, ReplyLostWriting(w)
      PROVE  pc'[holder] \in Holding /\ msg'[holder] = key
  BY <1>25 DEF ReplyLostWriting, At, Goto, Holding
<1>26. ASSUME NEW w \in Workers, ReplyLostRetiring(w)
      PROVE  pc'[holder] \in Holding /\ msg'[holder] = key
  BY <1>26 DEF ReplyLostRetiring, At, AcknowledgeScript, Goto, Holding
<1>27. ASSUME NEW w \in Workers, Crash(w)
      PROVE  pc'[holder] \in Holding /\ msg'[holder] = key
  <2>1. holder # w /\ lease[key] = holder
    BY <1>27 DEF Crash, Orphaned
  <2> QED
    BY <1>27, <2>1 DEF Crash, Goto
<1>28. ASSUME NEW w \in Workers, Stop(w)
      PROVE  pc'[holder] \in Holding /\ msg'[holder] = key
  BY <1>28 DEF Stop, workVars
<1>29. ASSUME NEW w \in Workers, PollEmpty(w)
      PROVE  pc'[holder] \in Holding /\ msg'[holder] = key
  BY <1>29 DEF PollEmpty, vars, workVars
<1>30. ASSUME NEW w \in Workers, NEW d \in Deliveries, ClaimIdle(w, d)
      PROVE  pc'[holder] \in Holding /\ msg'[holder] = key
  BY <1>30 DEF ClaimIdle, CanClaim, CanRead, Begin, Goto, Holding
<1>31. ASSUME NEW w \in Workers, NEW d \in Deliveries, ReadNew(w, d)
      PROVE  pc'[holder] \in Holding /\ msg'[holder] = key
  BY <1>31 DEF ReadNew, CanClaim, CanRead, Begin, Goto, Holding
<1>32. ASSUME NEW w \in Workers, NEW d \in Deliveries, ReplyLostReading(w, d)
      PROVE  pc'[holder] \in Holding /\ msg'[holder] = key
  BY <1>32 DEF ReplyLostReading, workVars
<1>33. ASSUME NEW w \in Workers, NEW c \in Workers, CleanIdle(w, c)
      PROVE  pc'[holder] \in Holding /\ msg'[holder] = key
  BY <1>33 DEF CleanIdle, workVars
<1>34. ASSUME NEW k \in Keys, Enqueue(k)
      PROVE  pc'[holder] \in Holding /\ msg'[holder] = key
  BY <1>34 DEF Enqueue, workVars
<1>35. ASSUME NEW k \in Keys, StaleExpires(k)
      PROVE  pc'[holder] \in Holding /\ msg'[holder] = key
  BY <1>35 DEF StaleExpires, workVars
<1>36. ASSUME NEW k \in Keys, RetentionExpires(k)
      PROVE  pc'[holder] \in Holding /\ msg'[holder] = key
  BY <1>36 DEF RetentionExpires, workVars
<1>37. ASSUME NEW k \in Keys, LeaseLapses(k)
      PROVE  pc'[holder] \in Holding /\ msg'[holder] = key
  BY <1>37 DEF LeaseLapses, workVars
<1>38. ASSUME NEW k \in Keys, JobEvicted(k)
      PROVE  pc'[holder] \in Holding /\ msg'[holder] = key
  BY <1>38 DEF JobEvicted, workVars
<1>39. ASSUME GroupLost
      PROVE  pc'[holder] \in Holding /\ msg'[holder] = key
  BY <1>39 DEF GroupLost, workVars
<1>40. ASSUME BackendFlushed
      PROVE  pc'[holder] \in Holding /\ msg'[holder] = key
  BY <1>40 DEF BackendFlushed, workVars
<1> QED
  BY <1>1, <1>2, <1>3, <1>4, <1>5, <1>6, <1>7, <1>8, <1>9, <1>10, <1>11, <1>12, <1>13, <1>14, <1>15, <1>16, <1>17, <1>18, <1>19, <1>20, <1>21, <1>22, <1>23, <1>24, <1>25, <1>26, <1>27, <1>28, <1>29, <1>30, <1>31, <1>32, <1>33, <1>34, <1>35, <1>36, <1>37, <1>38, <1>39, <1>40
  DEF Next, Serve, WorkerStep, Heartbeat, Environment


(* A step that leaves a worker, and what it knows of its job, alone. *)
LEMMA CoherentFrame ==
  ASSUME NEW v \in Workers, Coherent(v),
         pc'[v] = pc[v], msg'[v] = msg[v], seen'[v] = seen[v], goal'[v] = goal[v],
         jobs'[msg[v]] = jobs[msg[v]], reports'[msg[v]] = reports[msg[v]],
         lease'[msg[v]] = v => lease[msg[v]] = v
  PROVE  Coherent(v)'
  BY DEF Coherent, MayUpdate, Owns, Exists

(* A step of others on the job of a worker that does not own it. *)
LEMMA CoherentOutsider ==
  ASSUME NEW v \in Workers, Coherent(v),
         pc'[v] = pc[v], msg'[v] = msg[v], seen'[v] = seen[v], goal'[v] = goal[v],
         \/ pc[v] \notin Holding
         \/ lease'[msg[v]] # v
         \/ jobs'[msg[v]].status \in {"New", "Gone"},
         jobs'[msg[v]].status # "New" \/ jobs[msg[v]].status = "New",
         jobs[msg[v]].status = "Gone" => jobs'[msg[v]].status = "Gone",
         jobs[msg[v]].status \in Terminal => jobs'[msg[v]].status \in Terminal \cup {"Gone"}
  PROVE  Coherent(v)'
  BY DEF Coherent, MayUpdate, Owns, Exists

(* A worker between two deliveries knows nothing. *)
LEMMA CoherentIdle ==
  ASSUME NEW v \in Workers, pc'[v] \in {"boot", "loop", "exit", "gone"}
  PROVE  Coherent(v)'
  BY DEF Coherent, Holding

LEMMA CoherentRelease ==
  ASSUME NEW v \in Workers, pc'[v] = "release",
         msg'[v] \in Keys, jobs'[msg'[v]].status # "New"
  PROVE  Coherent(v)'
  BY DEF Coherent, Holding

(* What the workers know of their jobs stays true, whatever the others do. *)
LEMMA CoherentStep ==
  ASSUME IInv, Next
  PROVE  \A w \in Workers : Coherent(w)'
<1>a. LeaseHolderHolds /\ WorkTypeOK /\ QueueTypeOK /\ StoreTypeOK
  BY DEF IInv, TypeOK, WorkTypeOK, QueueTypeOK, StoreTypeOK
<1>b. \A w \in Workers : pc[w] \in Holding \cup {"lease"} =>
        msg[w] \in Keys /\ jobs[msg[w]].status # "New"
  BY DEF IInv, Coherent
<1>c. Workers \cap {"free", "stale"} = {} /\ MaxAttempts \in Nat \ {0}
  BY DeliveryAssumption
<1>d. \A k \in Keys : jobs[k].status = "New" => entry[k] = "absent"
  BY DEF IInv, JobConsistent
<1>e. \A k \in Keys : jobs[k].status = "Queued" => jobs[k].attempts = 0
  BY DEF IInv, JobConsistent
<1> SUFFICES ASSUME NEW v \in Workers
             PROVE  Coherent(v)'
  OBVIOUS
<1>f. Coherent(v)
  BY DEF IInv
<1> USE <1>a, <1>f DEF WorkTypeOK, storeVars, queueVars, workVars
<1>1. ASSUME NEW w \in Workers, Boot(w)
      PROVE  Coherent(v)'
  <2>1. CASE v = w
    BY <1>1, <2>1, CoherentIdle DEF Boot, Goto
  <2>2. CASE v # w
    BY <1>1, <2>2, CoherentFrame DEF Boot, Goto
  <2> QED
    BY <2>1, <2>2
<1>2. ASSUME NEW w \in Workers, RecoverGroup(w)
      PROVE  Coherent(v)'
  BY <1>2, <1>c, CoherentFrame DEF RecoverGroup, QueueTypeOK
<1>3. ASSUME NEW w \in Workers, LeaveLoop(w)
      PROVE  Coherent(v)'
  <2>1. CASE v = w
    BY <1>3, <2>1, CoherentIdle DEF LeaveLoop, Goto
  <2>2. CASE v # w
    BY <1>3, <2>2, CoherentFrame DEF LeaveLoop, Goto
  <2> QED
    BY <2>1, <2>2
<1>4. ASSUME NEW w \in Workers, Exit(w)
      PROVE  Coherent(v)'
  <2>1. CASE v = w
    BY <1>4, <2>1, CoherentIdle DEF Exit, Goto
  <2>2. CASE v # w
    BY <1>4, <2>2, CoherentFrame DEF Exit, Goto
  <2> QED
    BY <2>1, <2>2
<1>5. ASSUME NEW w \in Workers, QuarantineUndecodable(w)
      PROVE  Coherent(v)'
  <2>1. CASE v = w
    BY <1>5, <2>1, CoherentIdle DEF QuarantineUndecodable, Return, Goto
  <2>2. CASE v # w
    BY <1>5, <2>2, CoherentFrame DEF QuarantineUndecodable, Return, Goto
  <2> QED
    BY <2>1, <2>2
<1>6. ASSUME NEW w \in Workers, AcquireLease(w)
      PROVE  Coherent(v)'
  <2>1. CASE v = w
    BY <1>6, <2>1, <1>b DEF AcquireLease, At, Goto, Holding, Coherent
  <2>2. CASE v # w
    BY <1>6, <2>2, <1>b, CoherentFrame DEF AcquireLease, At, Goto, QueueTypeOK, Holding
  <2> QED
    BY <2>1, <2>2
<1>7. ASSUME NEW w \in Workers, LeaseBusy(w)
      PROVE  Coherent(v)'
  <2>1. CASE v = w
    BY <1>7, <2>1, CoherentIdle DEF LeaseBusy, Return, Goto
  <2>2. CASE v # w
    BY <1>7, <2>2, CoherentFrame DEF LeaseBusy, Return, Goto
  <2> QED
    BY <2>1, <2>2
<1>8. ASSUME NEW w \in Workers, GetJob(w)
      PROVE  Coherent(v)'
  <2>1. CASE v = w
    <3>1. msg[w] \in Keys /\ jobs[msg[w]] \in Job
      BY <1>8, <1>b DEF GetJob, At, Holding, StoreTypeOK
    <3>2. CASE pc'[w] = "missing"
      BY <1>8, <2>1, <3>1, <3>2, <1>b DEF GetJob, Goto, At, Holding, Coherent, Exists
    <3>3. CASE pc'[w] = "ackread"
      BY <1>8, <2>1, <3>1, <3>3 DEF GetJob, Goto, At, Holding, Coherent, Terminal
    <3>4. CASE pc'[w] = "read"
      <4>1. jobs[msg[w]].status \in {"Queued", "Pending"} /\ jobs[msg[w]].attempts \in Nat
        BY <1>8, <3>1, <3>4 DEF GetJob, Goto, Exists, Terminal, Job, Statuses
      <4>2. goal'[w] = NextGoal(jobs[msg[w]])
        BY <1>8, <3>4 DEF GetJob, Goto
      <4>3. jobs[msg[w]].attempts >= MaxAttempts => jobs[msg[w]].status = "Pending"
        BY <4>1, <3>1, <1>c, <1>e
      <4> QED
        BY <1>8, <2>1, <3>1, <3>4, <4>1, <4>2, <4>3, <1>b, <1>c
        DEF GetJob, Goto, At, Holding, Coherent, NextGoal, Terminal
    <3> QED
      BY <1>8, <3>2, <3>3, <3>4 DEF GetJob, Goto
  <2>2. CASE v # w
    BY <1>8, <2>2, CoherentFrame DEF GetJob, Goto
  <2> QED
    BY <2>1, <2>2
<1>9. ASSUME NEW w \in Workers, QuarantineMissing(w)
      PROVE  Coherent(v)'
  <2>1. CASE v = w
    BY <1>9, <2>1, <1>b, CoherentRelease DEF QuarantineMissing, At, Goto, Holding
  <2>2. CASE v # w
    BY <1>9, <2>2, CoherentFrame DEF QuarantineMissing, Goto
  <2> QED
    BY <2>1, <2>2
<1>10. ASSUME NEW w \in Workers, ReadJob(w)
      PROVE  Coherent(v)'
  <2>1. CASE v = w
    BY <1>10, <2>1, <1>b DEF ReadJob, At, Goto, Holding, Coherent, MayUpdate, Owns, Exists
  <2>2. CASE v # w
    BY <1>10, <2>2, CoherentFrame DEF ReadJob, Goto
  <2> QED
    BY <2>1, <2>2
<1>11. ASSUME NEW w \in Workers, WriteJob(w)
      PROVE  Coherent(v)'
  <2>1. CASE v = w
    <3>1. /\ msg[w] \in Keys /\ seen'[w] = jobs'[msg[w]] /\ UNCHANGED <<msg, goal, lease, reports>>
          /\ jobs'[msg[w]] = WithStatus(jobs[msg[w]], goal[w])
      BY <1>11, WriterKnows DEF WriteJob, At, UpdateJobScript, StoreTypeOK
    <3>2. CASE goal[w] = "Pending"
      BY <1>11, <2>1, <3>1, <3>2 DEF WriteJob, Goto, WithStatus, Holding, Coherent
    <3>3. CASE goal[w] # "Pending"
      BY <1>11, <2>1, <3>1, <3>3, WriterKnows DEF WriteJob, At, Goto, WithStatus, Holding, Coherent, Terminal
    <3> QED
      BY <3>2, <3>3
  <2>2. CASE v # w
    <3>1. CASE msg[v] = msg[w]
      <4>1. msg[w] \in Keys /\ jobs'[msg[w]].status = goal[w] /\ goal[w] # "New"
        BY <1>11, WriterKnows DEF WriteJob, At, UpdateJobScript, StoreTypeOK, WithStatus, Terminal
      <4>2. jobs[msg[w]].status \notin Terminal \cup {"New", "Gone"}
        BY <1>11, WriterKnows DEF WriteJob, At, Terminal
      <4>3. lease'[msg[v]] # v
        BY <1>11, <2>2, <3>1 DEF WriteJob, MayUpdate, Owns
      <4> QED
        BY <1>11, <2>2, <3>1, <4>1, <4>2, <4>3, CoherentOutsider DEF WriteJob, Goto
    <3>2. CASE msg[v] # msg[w]
      BY <1>11, <2>2, <3>2, CoherentFrame DEF WriteJob, UpdateJobScript, Goto, StoreTypeOK
    <3> QED
      BY <3>1, <3>2
  <2> QED
    BY <2>1, <2>2
<1>12. ASSUME NEW w \in Workers, ScanReports(w)
      PROVE  Coherent(v)'
  <2>1. CASE v = w
    BY <1>12, <2>1, <1>b DEF ScanReports, At, Goto, Holding, Coherent, MayUpdate, Owns, Exists
  <2>2. CASE v # w
    BY <1>12, <2>2, CoherentFrame DEF ScanReports, Goto
  <2> QED
    BY <2>1, <2>2
<1>13. ASSUME NEW w \in Workers, ScanFails(w)
      PROVE  Coherent(v)'
  <2>1. CASE v = w
    BY <1>13, <2>1, <1>b DEF ScanFails, At, Goto, Holding, Coherent, MayUpdate, Owns, Exists
  <2>2. CASE v # w
    BY <1>13, <2>2, CoherentFrame DEF ScanFails, Goto
  <2> QED
    BY <2>1, <2>2
<1>14. ASSUME NEW w \in Workers, ScanInterrupted(w)
      PROVE  Coherent(v)'
  <2>1. CASE v = w
    BY <1>14, <2>1, <1>b, CoherentRelease DEF ScanInterrupted, At, Goto, Holding
  <2>2. CASE v # w
    BY <1>14, <2>2, CoherentFrame DEF ScanInterrupted, Goto
  <2> QED
    BY <2>1, <2>2
<1>15. ASSUME NEW w \in Workers, WriteReport(w)
      PROVE  Coherent(v)'
  <2>1. CASE v = w
    BY <1>15, <2>1, ReporterKnows DEF WriteReport, At, UpdateReportScript, StoreTypeOK, Goto, Holding, Coherent, MayUpdate, Owns, Exists, Terminal
  <2>2. CASE v # w
    <3>1. CASE msg[v] = msg[w]
      BY <1>15, <2>2, <3>1, CoherentOutsider DEF WriteReport, MayUpdate, Owns, Goto
    <3>2. CASE msg[v] # msg[w]
      BY <1>15, <2>2, <3>2, CoherentFrame DEF WriteReport, UpdateReportScript, Goto, StoreTypeOK
    <3> QED
      BY <3>1, <3>2
  <2> QED
    BY <2>1, <2>2
<1>16. ASSUME NEW w \in Workers, AckRead(w)
      PROVE  Coherent(v)'
  <2>1. CASE v = w
    BY <1>16, <2>1, <1>b DEF AckRead, At, Goto, Holding, Coherent, MayUpdate, Owns, Exists
  <2>2. CASE v # w
    BY <1>16, <2>2, CoherentFrame DEF AckRead, Goto
  <2> QED
    BY <2>1, <2>2
<1>17. ASSUME NEW w \in Workers, Acknowledge(w)
      PROVE  Coherent(v)'
  <2>1. CASE v = w
    BY <1>17, <2>1, <1>b, CoherentRelease DEF Acknowledge, At, Goto, Holding
  <2>2. CASE v # w
    BY <1>17, <2>2, <1>c, RetirerKnows, CoherentFrame DEF Acknowledge, At, AcknowledgeScript, Goto, QueueTypeOK, Coherent
  <2> QED
    BY <2>1, <2>2
<1>18. ASSUME NEW w \in Workers, Refused(w)
      PROVE  Coherent(v)'
  <2>1. CASE v = w
    BY <1>18, <2>1, <1>b, CoherentIdle, CoherentRelease DEF Refused, Abandon, Return, Goto, Calling, Holding
  <2>2. CASE v # w
    BY <1>18, <2>2, CoherentFrame DEF Refused, Abandon, Return, Goto
  <2> QED
    BY <2>1, <2>2
<1>19. ASSUME NEW w \in Workers, ContextDone(w)
      PROVE  Coherent(v)'
  <2>1. CASE v = w
    BY <1>19, <2>1, <1>b, CoherentIdle, CoherentRelease DEF ContextDone, Abandon, Return, Goto, Calling, Holding
  <2>2. CASE v # w
    BY <1>19, <2>2, CoherentFrame DEF ContextDone, Abandon, Return, Goto
  <2> QED
    BY <2>1, <2>2
<1>20. ASSUME NEW w \in Workers, ReleaseLease(w)
      PROVE  Coherent(v)'
  <2>1. CASE v = w
    BY <1>20, <2>1, CoherentIdle DEF ReleaseLease, Return, Goto
  <2>2. CASE v # w
    BY <1>20, <2>2, <1>b, <1>c, CoherentFrame DEF ReleaseLease, Return, Goto, Owns, QueueTypeOK, Holding
  <2> QED
    BY <2>1, <2>2
<1>21. ASSUME NEW w \in Workers, Renew(w)
      PROVE  Coherent(v)'
  BY <1>21, <1>c, CoherentFrame DEF Renew, QueueTypeOK
<1>22. ASSUME NEW w \in Workers, LoseLease(w)
      PROVE  Coherent(v)'
  BY <1>22, <1>c, CoherentFrame DEF LoseLease, QueueTypeOK
<1>23. ASSUME NEW w \in Workers, CallFails(w)
      PROVE  Coherent(v)'
  <2>1. CASE v = w
    <3>1. CASE pc[w] \in Calling /\ Abandon(w)
      BY <1>23, <2>1, <3>1, <1>b, CoherentIdle, CoherentRelease DEF CallFails, Abandon, Return, Goto, Calling, Holding
    <3>2. CASE Return(w)
      BY <2>1, <3>2, CoherentIdle DEF Return, Goto
    <3>3. CASE UNCHANGED <<pc, msg, seen, goal, lease>>
      BY <1>23, <3>3, CoherentFrame DEF CallFails
    <3> QED
      BY <1>23, <3>1, <3>2, <3>3 DEF CallFails
  <2>2. CASE v # w
    <3>1. pc'[v] = pc[v] /\ msg'[v] = msg[v] /\ seen'[v] = seen[v] /\ goal'[v] = goal[v]
      BY <1>23, <2>2 DEF CallFails, Abandon, Return, Goto
    <3>2. Coherent(v) /\ (pc[v] \in Holding => (lease'[msg[v]] = v => lease[msg[v]] = v))
      BY <1>23, <1>b, <1>c DEF CallFails, Orphaned, QueueTypeOK
    <3> QED
      BY <1>23, <3>1, <3>2 DEF CallFails, Coherent, MayUpdate, Owns, Exists
  <2> QED
    BY <2>1, <2>2
<1>24. ASSUME NEW w \in Workers, ReplyLostLeasing(w)
      PROVE  Coherent(v)'
  <2>1. CASE v = w
    BY <1>24, <2>1, CoherentIdle DEF ReplyLostLeasing, Return, Goto
  <2>2. CASE v # w
    BY <1>24, <2>2, <1>b, <1>c, CoherentFrame DEF ReplyLostLeasing, At, Return, Goto, QueueTypeOK, Holding
  <2> QED
    BY <2>1, <2>2
<1>25. ASSUME NEW w \in Workers, ReplyLostWriting(w)
      PROVE  Coherent(v)'
  <2>1. CASE v = w
    <3>1. msg[w] \in Keys /\ jobs'[msg[w]].status # "New"
      BY <1>25, WriterKnows, ReporterKnows
      DEF ReplyLostWriting, At, UpdateJobScript, UpdateReportScript, WithStatus, StoreTypeOK, Terminal
    <3> QED
      BY <1>25, <2>1, <3>1, CoherentRelease DEF ReplyLostWriting, Goto
  <2>2. CASE v # w
    <3>1. CASE msg[v] = msg[w] /\ pc[w] = "write"
      <4>1. msg[w] \in Keys /\ jobs'[msg[w]].status = goal[w] /\ goal[w] # "New"
        BY <1>25, <3>1, WriterKnows DEF ReplyLostWriting, At, UpdateJobScript, StoreTypeOK, WithStatus, Terminal
      <4>2. jobs[msg[w]].status \notin Terminal \cup {"New", "Gone"}
        BY <1>25, <3>1, WriterKnows DEF ReplyLostWriting, Terminal
      <4>3. lease'[msg[v]] # v
        BY <1>25, <2>2, <3>1 DEF ReplyLostWriting, MayUpdate, Owns
      <4> QED
        BY <1>25, <2>2, <3>1, <4>1, <4>2, <4>3, CoherentOutsider DEF ReplyLostWriting, Goto
    <3>2. CASE msg[v] = msg[w] /\ pc[w] = "report"
      BY <1>25, <2>2, <3>2, CoherentOutsider DEF ReplyLostWriting, At, MayUpdate, Owns, Goto
    <3>3. CASE msg[v] # msg[w]
      <4>1. CASE UpdateJobScript(msg[w], WithStatus(seen[w], goal[w])) /\ UNCHANGED reports
        BY <1>25, <2>2, <3>3, <4>1, CoherentFrame DEF ReplyLostWriting, UpdateJobScript, Goto, StoreTypeOK
      <4>2. CASE UpdateReportScript(msg[w], seen[w].attempts) /\ UNCHANGED jobs
        BY <1>25, <2>2, <3>3, <4>2, CoherentFrame DEF ReplyLostWriting, UpdateReportScript, Goto, StoreTypeOK
      <4> QED
        BY <1>25, <4>1, <4>2 DEF ReplyLostWriting
    <3> QED
      BY <1>25, <3>1, <3>2, <3>3 DEF ReplyLostWriting
  <2> QED
    BY <2>1, <2>2
<1>26. ASSUME NEW w \in Workers, ReplyLostRetiring(w)
      PROVE  Coherent(v)'
  <2>1. CASE v = w
    BY <1>26, <2>1, <1>b, CoherentRelease DEF ReplyLostRetiring, At, Goto, Holding
  <2>2. CASE v # w
    <3>1. CASE At(w, "ack") /\ MayAcknowledge(w) /\ AcknowledgeScript(msg[w])
      BY <1>26, <2>2, <3>1, <1>c, RetirerKnows, CoherentFrame
      DEF ReplyLostRetiring, At, AcknowledgeScript, Goto, QueueTypeOK, Coherent
    <3>2. CASE UNCHANGED <<ttl, lease, retired>>
      BY <1>26, <2>2, <3>2, CoherentFrame DEF ReplyLostRetiring, Goto
    <3> QED
      BY <1>26, <3>1, <3>2 DEF ReplyLostRetiring
  <2> QED
    BY <2>1, <2>2
<1>27. ASSUME NEW w \in Workers, Crash(w)
      PROVE  Coherent(v)'
  <2>1. CASE v = w
    BY <1>27, <2>1, CoherentIdle DEF Crash, Goto
  <2>2. CASE v # w
    BY <1>27, <2>2, <1>c, CoherentFrame DEF Crash, Goto, Orphaned, QueueTypeOK, Coherent, MayUpdate, Owns
  <2> QED
    BY <2>1, <2>2
<1>28. ASSUME NEW w \in Workers, Stop(w)
      PROVE  Coherent(v)'
  BY <1>28, <1>c, CoherentFrame DEF Stop, QueueTypeOK
<1>29. ASSUME NEW w \in Workers, PollEmpty(w)
      PROVE  Coherent(v)'
  BY <1>29, CoherentFrame DEF PollEmpty, vars
<1>30. ASSUME NEW w \in Workers, NEW d \in Deliveries, ClaimIdle(w, d)
      PROVE  Coherent(v)'
  <2>1. CASE v = w
    <3>1. d \in Keys => jobs[d].status # "New"
      BY <1>30, <1>d, DeliveryAssumption DEF ClaimIdle, CanClaim, CanRead
    <3> QED
      BY <1>30, <2>1, <3>1 DEF ClaimIdle, Begin, Goto, Holding, Coherent, Deliveries
  <2>2. CASE v # w
    BY <1>30, <2>2, CoherentFrame DEF ClaimIdle, Begin, Goto
  <2> QED
    BY <2>1, <2>2
<1>31. ASSUME NEW w \in Workers, NEW d \in Deliveries, ReadNew(w, d)
      PROVE  Coherent(v)'
  <2>1. CASE v = w
    <3>1. d \in Keys => jobs[d].status # "New"
      BY <1>31, <1>d, DeliveryAssumption DEF ReadNew, CanClaim, CanRead
    <3> QED
      BY <1>31, <2>1, <3>1 DEF ReadNew, Begin, Goto, Holding, Coherent, Deliveries
  <2>2. CASE v # w
    BY <1>31, <2>2, CoherentFrame DEF ReadNew, Begin, Goto
  <2> QED
    BY <2>1, <2>2
<1>32. ASSUME NEW w \in Workers, NEW d \in Deliveries, ReplyLostReading(w, d)
      PROVE  Coherent(v)'
  BY <1>32, <1>c, CoherentFrame DEF ReplyLostReading, QueueTypeOK
<1>33. ASSUME NEW w \in Workers, NEW c \in Workers, CleanIdle(w, c)
      PROVE  Coherent(v)'
  BY <1>33, <1>c, CoherentFrame DEF CleanIdle, QueueTypeOK
<1>34. ASSUME NEW k \in Keys, Enqueue(k)
      PROVE  Coherent(v)'
  <2>1. CASE pc[v] \in Holding \cup {"lease"}
    BY <1>34, <2>1, <1>b, CoherentFrame DEF Enqueue, EnqueueScript, StoreTypeOK
  <2>2. CASE pc[v] \notin Holding \cup {"lease"}
    BY <1>34, <2>2 DEF Enqueue, Coherent, Holding
  <2> QED
    BY <2>1, <2>2
<1>35. ASSUME NEW k \in Keys, StaleExpires(k)
      PROVE  Coherent(v)'
  BY <1>35, <1>c, CoherentFrame DEF StaleExpires, QueueTypeOK
<1>36. ASSUME NEW k \in Keys, RetentionExpires(k)
      PROVE  Coherent(v)'
  <2>1. CASE msg[v] = k
    BY <1>36, <2>1, CoherentOutsider DEF RetentionExpires, StoreTypeOK
  <2>2. CASE msg[v] # k
    BY <1>36, <2>2, CoherentFrame DEF RetentionExpires, StoreTypeOK
  <2> QED
    BY <2>1, <2>2
<1>37. ASSUME NEW k \in Keys, LeaseLapses(k)
      PROVE  Coherent(v)'
  BY <1>37, <1>c, CoherentFrame DEF LeaseLapses, QueueTypeOK
<1>38. ASSUME NEW k \in Keys, JobEvicted(k)
      PROVE  Coherent(v)'
  <2>1. CASE msg[v] = k
    BY <1>38, <2>1, CoherentOutsider DEF JobEvicted, StoreTypeOK
  <2>2. CASE msg[v] # k
    BY <1>38, <2>2, CoherentFrame DEF JobEvicted, StoreTypeOK
  <2> QED
    BY <2>1, <2>2
<1>39. ASSUME GroupLost
      PROVE  Coherent(v)'
  BY <1>39, <1>c, CoherentFrame DEF GroupLost, QueueTypeOK
<1>40. ASSUME BackendFlushed
      PROVE  Coherent(v)'
  <2>1. CASE pc[v] \in Holding \cup {"lease"}
    BY <1>40, <2>1, <1>b, CoherentOutsider DEF BackendFlushed, Exists, Terminal
  <2>2. CASE pc[v] \notin Holding \cup {"lease"}
    BY <1>40, <2>2 DEF BackendFlushed, Coherent, Holding
  <2> QED
    BY <2>1, <2>2
<1> QED
  BY <1>1, <1>2, <1>3, <1>4, <1>5, <1>6, <1>7, <1>8, <1>9, <1>10, <1>11, <1>12, <1>13, <1>14, <1>15, <1>16, <1>17, <1>18, <1>19, <1>20, <1>21, <1>22, <1>23, <1>24, <1>25, <1>26, <1>27, <1>28, <1>29, <1>30, <1>31, <1>32, <1>33, <1>34, <1>35, <1>36, <1>37, <1>38, <1>39, <1>40
  DEF Next, Serve, WorkerStep, Heartbeat, Environment

(* Attempts are counted before they start and no further than the limit. *)
LEMMA JobStep ==
  ASSUME IInv, Next
  PROVE  \A k \in Keys : JobConsistent(k)'
<1>a. WorkTypeOK /\ QueueTypeOK /\ StoreTypeOK
  BY DEF IInv, TypeOK, WorkTypeOK, QueueTypeOK, StoreTypeOK
<1>b. MaxAttempts \in Nat \ {0} /\ Keys \cap Foreign = {} /\ Keys \subseteq Deliveries
      /\ Workers \cap {"absent", "unread", "stored"} = {}
  BY DeliveryAssumption DEF Deliveries
<1> SUFFICES ASSUME NEW key \in Keys
             PROVE  JobConsistent(key)'
  OBVIOUS
<1>c. JobConsistent(key)
  BY DEF IInv
<1> USE <1>a, <1>b, <1>c DEF JobConsistent, Exists, StoreTypeOK, storeVars, queueVars
<1>1. ASSUME NEW w \in Workers, Boot(w)
      PROVE  JobConsistent(key)'
  BY <1>1 DEF Boot, EnsureGroup
<1>2. ASSUME NEW w \in Workers, RecoverGroup(w)
      PROVE  JobConsistent(key)'
  BY <1>2 DEF RecoverGroup, EnsureGroup
<1>3. ASSUME NEW w \in Workers, LeaveLoop(w)
      PROVE  JobConsistent(key)'
  BY <1>3 DEF LeaveLoop
<1>4. ASSUME NEW w \in Workers, Exit(w)
      PROVE  JobConsistent(key)'
  BY <1>4 DEF Exit, DeleteConsumer
<1>5. ASSUME NEW w \in Workers, QuarantineUndecodable(w)
      PROVE  JobConsistent(key)'
  BY <1>5 DEF QuarantineUndecodable, QuarantineScript, QueueTypeOK
<1>6. ASSUME NEW w \in Workers, AcquireLease(w)
      PROVE  JobConsistent(key)'
  BY <1>6 DEF AcquireLease
<1>7. ASSUME NEW w \in Workers, LeaseBusy(w)
      PROVE  JobConsistent(key)'
  BY <1>7 DEF LeaseBusy
<1>8. ASSUME NEW w \in Workers, GetJob(w)
      PROVE  JobConsistent(key)'
  BY <1>8 DEF GetJob
<1>9. ASSUME NEW w \in Workers, QuarantineMissing(w)
      PROVE  JobConsistent(key)'
  BY <1>9 DEF QuarantineMissing, QuarantineScript, QueueTypeOK
<1>10. ASSUME NEW w \in Workers, ReadJob(w)
      PROVE  JobConsistent(key)'
  BY <1>10 DEF ReadJob
<1>11. ASSUME NEW w \in Workers, WriteJob(w)
      PROVE  JobConsistent(key)'
  <2>1. /\ msg[w] \in Keys /\ UNCHANGED <<entry, retired>>
        /\ jobs' = [jobs EXCEPT ![msg[w]] = WithStatus(jobs[msg[w]], goal[w])]
        /\ goal[w] \in {"Pending", "Finished", "Failed"}
        /\ jobs[msg[w]].status \in {"Queued", "Pending"}
        /\ goal[w] = "Pending" => jobs[msg[w]].attempts < MaxAttempts
    BY <1>11, WriterKnows DEF WriteJob, At, UpdateJobScript, Terminal
  <2>2. CASE key # msg[w]
    BY <1>11, <2>1, <2>2 DEF WriteJob
  <2>3. CASE key = msg[w] /\ goal[w] = "Pending"
    <3>1. jobs'[key].status = "Pending" /\ jobs'[key].attempts = jobs[key].attempts + 1
          /\ started'[key] = started[key] + 1
      BY <1>11, <2>1, <2>3 DEF WriteJob, WithStatus
    <3> QED
      BY <2>1, <2>3, <3>1 DEF Job
  <2>4. CASE key = msg[w] /\ goal[w] # "Pending"
    <3>1. jobs'[key].status = goal[w] /\ jobs'[key].attempts = jobs[key].attempts
          /\ started'[key] = started[key]
      BY <1>11, <2>1, <2>4 DEF WriteJob, WithStatus
    <3> QED
      BY <2>1, <2>4, <3>1 DEF Job
  <2> QED
    BY <2>2, <2>3, <2>4
<1>12. ASSUME NEW w \in Workers, ScanReports(w)
      PROVE  JobConsistent(key)'
  BY <1>12 DEF ScanReports
<1>13. ASSUME NEW w \in Workers, ScanFails(w)
      PROVE  JobConsistent(key)'
  BY <1>13 DEF ScanFails
<1>14. ASSUME NEW w \in Workers, ScanInterrupted(w)
      PROVE  JobConsistent(key)'
  BY <1>14 DEF ScanInterrupted
<1>15. ASSUME NEW w \in Workers, WriteReport(w)
      PROVE  JobConsistent(key)'
  BY <1>15 DEF WriteReport, UpdateReportScript
<1>16. ASSUME NEW w \in Workers, AckRead(w)
      PROVE  JobConsistent(key)'
  BY <1>16 DEF AckRead
<1>17. ASSUME NEW w \in Workers, Acknowledge(w)
      PROVE  JobConsistent(key)'
  BY <1>17, RetirerKnows DEF Acknowledge, At, AcknowledgeScript, QueueTypeOK, Terminal
<1>18. ASSUME NEW w \in Workers, Refused(w)
      PROVE  JobConsistent(key)'
  BY <1>18 DEF Refused
<1>19. ASSUME NEW w \in Workers, ContextDone(w)
      PROVE  JobConsistent(key)'
  BY <1>19 DEF ContextDone
<1>20. ASSUME NEW w \in Workers, ReleaseLease(w)
      PROVE  JobConsistent(key)'
  BY <1>20 DEF ReleaseLease
<1>21. ASSUME NEW w \in Workers, Renew(w)
      PROVE  JobConsistent(key)'
  BY <1>21 DEF Renew, Receive, QueueTypeOK
<1>22. ASSUME NEW w \in Workers, LoseLease(w)
      PROVE  JobConsistent(key)'
  BY <1>22 DEF LoseLease
<1>23. ASSUME NEW w \in Workers, CallFails(w)
      PROVE  JobConsistent(key)'
  BY <1>23 DEF CallFails
<1>24. ASSUME NEW w \in Workers, ReplyLostLeasing(w)
      PROVE  JobConsistent(key)'
  BY <1>24 DEF ReplyLostLeasing
<1>25. ASSUME NEW w \in Workers, ReplyLostWriting(w)
      PROVE  JobConsistent(key)'
  <2>1. CASE At(w, "report")
    BY <1>25, <2>1 DEF ReplyLostWriting, UpdateReportScript, At
  <2>2. CASE At(w, "write") /\ key # msg[w]
    BY <1>25, <2>2 DEF ReplyLostWriting, UpdateJobScript, At
  <2>3. CASE At(w, "write") /\ key = msg[w]
    <3>1. /\ goal[w] \in {"Pending", "Finished", "Failed"} /\ UNCHANGED <<entry, retired, started>>
          /\ jobs'[key] = WithStatus(jobs[key], goal[w])
          /\ jobs[key].status \in {"Queued", "Pending"}
          /\ goal[w] = "Pending" => jobs[key].attempts < MaxAttempts
      BY <1>25, <2>3, WriterKnows DEF ReplyLostWriting, At, UpdateJobScript, Terminal
    <3>2. jobs[key].attempts \in Nat /\ started[key] \in Nat
      BY DEF Job
    <3> QED
      BY <3>1, <3>2 DEF WithStatus
  <2> QED
    BY <1>25, <2>1, <2>2, <2>3 DEF ReplyLostWriting
<1>26. ASSUME NEW w \in Workers, ReplyLostRetiring(w)
      PROVE  JobConsistent(key)'
  <2>1. CASE At(w, "ack") /\ MayAcknowledge(w) /\ AcknowledgeScript(msg[w])
    BY <1>26, <2>1, RetirerKnows DEF ReplyLostRetiring, At, AcknowledgeScript, QueueTypeOK, Terminal
  <2>2. CASE QuarantineScript(msg[w]) /\ UNCHANGED <<ttl, lease, retired>>
    BY <1>26, <2>2 DEF ReplyLostRetiring, QuarantineScript, QueueTypeOK
  <2> QED
    BY <1>26, <2>1, <2>2 DEF ReplyLostRetiring
<1>27. ASSUME NEW w \in Workers, Crash(w)
      PROVE  JobConsistent(key)'
  BY <1>27 DEF Crash
<1>28. ASSUME NEW w \in Workers, Stop(w)
      PROVE  JobConsistent(key)'
  BY <1>28 DEF Stop
<1>29. ASSUME NEW w \in Workers, PollEmpty(w)
      PROVE  JobConsistent(key)'
  BY <1>29 DEF PollEmpty, vars
<1>30. ASSUME NEW w \in Workers, NEW d \in Deliveries, ClaimIdle(w, d)
      PROVE  JobConsistent(key)'
  BY <1>30 DEF ClaimIdle, CanClaim, CanRead, Begin, Receive, QueueTypeOK
<1>31. ASSUME NEW w \in Workers, NEW d \in Deliveries, ReadNew(w, d)
      PROVE  JobConsistent(key)'
  BY <1>31 DEF ReadNew, CanClaim, CanRead, Begin, Receive, QueueTypeOK
<1>32. ASSUME NEW w \in Workers, NEW d \in Deliveries, ReplyLostReading(w, d)
      PROVE  JobConsistent(key)'
  BY <1>32 DEF ReplyLostReading, CanClaim, CanRead, Receive, QueueTypeOK
<1>33. ASSUME NEW w \in Workers, NEW c \in Workers, CleanIdle(w, c)
      PROVE  JobConsistent(key)'
  BY <1>33 DEF CleanIdle, DeleteConsumer
<1>34. ASSUME NEW k \in Keys, Enqueue(k)
      PROVE  JobConsistent(key)'
  BY <1>34 DEF Enqueue, EnqueueScript
<1>35. ASSUME NEW k \in Keys, StaleExpires(k)
      PROVE  JobConsistent(key)'
  BY <1>35 DEF StaleExpires
<1>36. ASSUME NEW k \in Keys, RetentionExpires(k)
      PROVE  JobConsistent(key)'
  BY <1>36 DEF RetentionExpires
<1>37. ASSUME NEW k \in Keys, LeaseLapses(k)
      PROVE  JobConsistent(key)'
  BY <1>37 DEF LeaseLapses
<1>38. ASSUME NEW k \in Keys, JobEvicted(k)
      PROVE  JobConsistent(key)'
  BY <1>38 DEF JobEvicted
<1>39. ASSUME GroupLost
      PROVE  JobConsistent(key)'
  BY <1>39 DEF GroupLost
<1>40. ASSUME BackendFlushed
      PROVE  JobConsistent(key)'
  BY <1>40 DEF BackendFlushed
<1> QED
  BY <1>1, <1>2, <1>3, <1>4, <1>5, <1>6, <1>7, <1>8, <1>9, <1>10, <1>11, <1>12, <1>13, <1>14, <1>15, <1>16, <1>17, <1>18, <1>19, <1>20, <1>21, <1>22, <1>23, <1>24, <1>25, <1>26, <1>27, <1>28, <1>29, <1>30, <1>31, <1>32, <1>33, <1>34, <1>35, <1>36, <1>37, <1>38, <1>39, <1>40
  DEF Next, Serve, WorkerStep, Heartbeat, Environment

(* No step loses a job without verdict or detaches a report from its attempt. *)
LEMMA ReportStep ==
  ASSUME IInv, Next
  PROVE  NoLostJob' /\ FinishedHasItsReport'
<1>a. WorkTypeOK /\ QueueTypeOK /\ StoreTypeOK
  BY DEF IInv, TypeOK, WorkTypeOK, QueueTypeOK, StoreTypeOK
<1>b. MaxAttempts \in Nat \ {0} /\ Keys \cap Foreign = {} /\ Keys \subseteq Deliveries
      /\ Workers \cap {"absent", "unread", "stored"} = {}
  BY DeliveryAssumption DEF Deliveries
<1> SUFFICES ASSUME NEW key \in Keys
             PROVE  /\ jobs'[key].status \in {"Queued", "Pending"} => entry'[key] # "absent"
                    /\ jobs'[key].status = "Finished" => reports'[key] = jobs'[key].attempts
  BY DEF NoLostJob, FinishedHasItsReport
<1>c. /\ jobs[key].status \in {"Queued", "Pending"} => entry[key] # "absent"
      /\ jobs[key].status = "Finished" => reports[key] = jobs[key].attempts
  BY DEF IInv, NoLostJob, FinishedHasItsReport
<1> USE <1>a, <1>b, <1>c DEF StoreTypeOK, QueueTypeOK, storeVars, queueVars
<1>1. ASSUME NEW w \in Workers, Boot(w)
      PROVE  /\ jobs'[key].status \in {"Queued", "Pending"} => entry'[key] # "absent"
             /\ jobs'[key].status = "Finished" => reports'[key] = jobs'[key].attempts
  BY <1>1 DEF Boot, EnsureGroup
<1>2. ASSUME NEW w \in Workers, RecoverGroup(w)
      PROVE  /\ jobs'[key].status \in {"Queued", "Pending"} => entry'[key] # "absent"
             /\ jobs'[key].status = "Finished" => reports'[key] = jobs'[key].attempts
  BY <1>2 DEF RecoverGroup, EnsureGroup
<1>3. ASSUME NEW w \in Workers, LeaveLoop(w)
      PROVE  /\ jobs'[key].status \in {"Queued", "Pending"} => entry'[key] # "absent"
             /\ jobs'[key].status = "Finished" => reports'[key] = jobs'[key].attempts
  BY <1>3 DEF LeaveLoop
<1>4. ASSUME NEW w \in Workers, Exit(w)
      PROVE  /\ jobs'[key].status \in {"Queued", "Pending"} => entry'[key] # "absent"
             /\ jobs'[key].status = "Finished" => reports'[key] = jobs'[key].attempts
  BY <1>4 DEF Exit, DeleteConsumer
<1>5. ASSUME NEW w \in Workers, QuarantineUndecodable(w)
      PROVE  /\ jobs'[key].status \in {"Queued", "Pending"} => entry'[key] # "absent"
             /\ jobs'[key].status = "Finished" => reports'[key] = jobs'[key].attempts
  <2>1. msg[w] \in Foreign
    BY <1>5 DEF QuarantineUndecodable, At, IInv, Coherent
  <2> QED
    BY <1>5, <2>1 DEF QuarantineUndecodable, QuarantineScript
<1>6. ASSUME NEW w \in Workers, AcquireLease(w)
      PROVE  /\ jobs'[key].status \in {"Queued", "Pending"} => entry'[key] # "absent"
             /\ jobs'[key].status = "Finished" => reports'[key] = jobs'[key].attempts
  BY <1>6 DEF AcquireLease
<1>7. ASSUME NEW w \in Workers, LeaseBusy(w)
      PROVE  /\ jobs'[key].status \in {"Queued", "Pending"} => entry'[key] # "absent"
             /\ jobs'[key].status = "Finished" => reports'[key] = jobs'[key].attempts
  BY <1>7 DEF LeaseBusy
<1>8. ASSUME NEW w \in Workers, GetJob(w)
      PROVE  /\ jobs'[key].status \in {"Queued", "Pending"} => entry'[key] # "absent"
             /\ jobs'[key].status = "Finished" => reports'[key] = jobs'[key].attempts
  BY <1>8 DEF GetJob
<1>9. ASSUME NEW w \in Workers, QuarantineMissing(w)
      PROVE  /\ jobs'[key].status \in {"Queued", "Pending"} => entry'[key] # "absent"
             /\ jobs'[key].status = "Finished" => reports'[key] = jobs'[key].attempts
  <2>1. jobs[msg[w]].status = "Gone" /\ msg[w] \in Keys
    BY <1>9 DEF QuarantineMissing, At, IInv, Coherent, Holding
  <2> QED
    BY <1>9, <2>1 DEF QuarantineMissing, QuarantineScript
<1>10. ASSUME NEW w \in Workers, ReadJob(w)
      PROVE  /\ jobs'[key].status \in {"Queued", "Pending"} => entry'[key] # "absent"
             /\ jobs'[key].status = "Finished" => reports'[key] = jobs'[key].attempts
  BY <1>10 DEF ReadJob
<1>11. ASSUME NEW w \in Workers, WriteJob(w)
      PROVE  /\ jobs'[key].status \in {"Queued", "Pending"} => entry'[key] # "absent"
             /\ jobs'[key].status = "Finished" => reports'[key] = jobs'[key].attempts
  <2>1. CASE key # msg[w]
    BY <1>11, <2>1 DEF WriteJob, UpdateJobScript
  <2>2. CASE key = msg[w]
    <3>1. /\ jobs'[key] = WithStatus(jobs[key], goal[w]) /\ UNCHANGED <<entry, reports>>
          /\ jobs[key].status \in {"Queued", "Pending"}
          /\ goal[w] = "Finished" => reports[key] = jobs[key].attempts
      BY <1>11, <2>2, WriterKnows DEF WriteJob, At, UpdateJobScript
    <3> QED
      BY <3>1 DEF WithStatus
  <2> QED
    BY <2>1, <2>2
<1>12. ASSUME NEW w \in Workers, ScanReports(w)
      PROVE  /\ jobs'[key].status \in {"Queued", "Pending"} => entry'[key] # "absent"
             /\ jobs'[key].status = "Finished" => reports'[key] = jobs'[key].attempts
  BY <1>12 DEF ScanReports
<1>13. ASSUME NEW w \in Workers, ScanFails(w)
      PROVE  /\ jobs'[key].status \in {"Queued", "Pending"} => entry'[key] # "absent"
             /\ jobs'[key].status = "Finished" => reports'[key] = jobs'[key].attempts
  BY <1>13 DEF ScanFails
<1>14. ASSUME NEW w \in Workers, ScanInterrupted(w)
      PROVE  /\ jobs'[key].status \in {"Queued", "Pending"} => entry'[key] # "absent"
             /\ jobs'[key].status = "Finished" => reports'[key] = jobs'[key].attempts
  BY <1>14 DEF ScanInterrupted
<1>15. ASSUME NEW w \in Workers, WriteReport(w)
      PROVE  /\ jobs'[key].status \in {"Queued", "Pending"} => entry'[key] # "absent"
             /\ jobs'[key].status = "Finished" => reports'[key] = jobs'[key].attempts
  BY <1>15, ReporterKnows DEF WriteReport, At, UpdateReportScript
<1>16. ASSUME NEW w \in Workers, AckRead(w)
      PROVE  /\ jobs'[key].status \in {"Queued", "Pending"} => entry'[key] # "absent"
             /\ jobs'[key].status = "Finished" => reports'[key] = jobs'[key].attempts
  BY <1>16 DEF AckRead
<1>17. ASSUME NEW w \in Workers, Acknowledge(w)
      PROVE  /\ jobs'[key].status \in {"Queued", "Pending"} => entry'[key] # "absent"
             /\ jobs'[key].status = "Finished" => reports'[key] = jobs'[key].attempts
  BY <1>17, RetirerKnows DEF Acknowledge, At, AcknowledgeScript, Terminal
<1>18. ASSUME NEW w \in Workers, Refused(w)
      PROVE  /\ jobs'[key].status \in {"Queued", "Pending"} => entry'[key] # "absent"
             /\ jobs'[key].status = "Finished" => reports'[key] = jobs'[key].attempts
  BY <1>18 DEF Refused
<1>19. ASSUME NEW w \in Workers, ContextDone(w)
      PROVE  /\ jobs'[key].status \in {"Queued", "Pending"} => entry'[key] # "absent"
             /\ jobs'[key].status = "Finished" => reports'[key] = jobs'[key].attempts
  BY <1>19 DEF ContextDone
<1>20. ASSUME NEW w \in Workers, ReleaseLease(w)
      PROVE  /\ jobs'[key].status \in {"Queued", "Pending"} => entry'[key] # "absent"
             /\ jobs'[key].status = "Finished" => reports'[key] = jobs'[key].attempts
  BY <1>20 DEF ReleaseLease
<1>21. ASSUME NEW w \in Workers, Renew(w)
      PROVE  /\ jobs'[key].status \in {"Queued", "Pending"} => entry'[key] # "absent"
             /\ jobs'[key].status = "Finished" => reports'[key] = jobs'[key].attempts
  BY <1>21 DEF Renew, Receive
<1>22. ASSUME NEW w \in Workers, LoseLease(w)
      PROVE  /\ jobs'[key].status \in {"Queued", "Pending"} => entry'[key] # "absent"
             /\ jobs'[key].status = "Finished" => reports'[key] = jobs'[key].attempts
  BY <1>22 DEF LoseLease
<1>23. ASSUME NEW w \in Workers, CallFails(w)
      PROVE  /\ jobs'[key].status \in {"Queued", "Pending"} => entry'[key] # "absent"
             /\ jobs'[key].status = "Finished" => reports'[key] = jobs'[key].attempts
  BY <1>23 DEF CallFails
<1>24. ASSUME NEW w \in Workers, ReplyLostLeasing(w)
      PROVE  /\ jobs'[key].status \in {"Queued", "Pending"} => entry'[key] # "absent"
             /\ jobs'[key].status = "Finished" => reports'[key] = jobs'[key].attempts
  BY <1>24 DEF ReplyLostLeasing
<1>25. ASSUME NEW w \in Workers, ReplyLostWriting(w)
      PROVE  /\ jobs'[key].status \in {"Queued", "Pending"} => entry'[key] # "absent"
             /\ jobs'[key].status = "Finished" => reports'[key] = jobs'[key].attempts
  <2>1. CASE At(w, "report")
    BY <1>25, <2>1, ReporterKnows DEF ReplyLostWriting, UpdateReportScript, At
  <2>2. CASE At(w, "write") /\ key # msg[w]
    BY <1>25, <2>2 DEF ReplyLostWriting, UpdateJobScript, At
  <2>3. CASE At(w, "write") /\ key = msg[w]
    <3>1. /\ jobs'[key] = WithStatus(jobs[key], goal[w]) /\ UNCHANGED <<entry, reports>>
          /\ jobs[key].status \in {"Queued", "Pending"}
          /\ goal[w] = "Finished" => reports[key] = jobs[key].attempts
      BY <1>25, <2>3, WriterKnows DEF ReplyLostWriting, At, UpdateJobScript
    <3> QED
      BY <3>1 DEF WithStatus
  <2> QED
    BY <1>25, <2>1, <2>2, <2>3 DEF ReplyLostWriting
<1>26. ASSUME NEW w \in Workers, ReplyLostRetiring(w)
      PROVE  /\ jobs'[key].status \in {"Queued", "Pending"} => entry'[key] # "absent"
             /\ jobs'[key].status = "Finished" => reports'[key] = jobs'[key].attempts
  <2>1. CASE At(w, "ack") /\ MayAcknowledge(w) /\ AcknowledgeScript(msg[w])
    BY <1>26, <2>1, RetirerKnows DEF ReplyLostRetiring, At, AcknowledgeScript, Terminal
  <2>2. CASE At(w, "missing") /\ QuarantineScript(msg[w]) /\ UNCHANGED <<ttl, lease, retired>>
    <3>1. jobs[msg[w]].status = "Gone" /\ msg[w] \in Keys
      BY <2>2 DEF At, IInv, Coherent, Holding
    <3> QED
      BY <1>26, <2>2, <3>1 DEF ReplyLostRetiring, QuarantineScript
  <2> QED
    BY <1>26, <2>1, <2>2 DEF ReplyLostRetiring
<1>27. ASSUME NEW w \in Workers, Crash(w)
      PROVE  /\ jobs'[key].status \in {"Queued", "Pending"} => entry'[key] # "absent"
             /\ jobs'[key].status = "Finished" => reports'[key] = jobs'[key].attempts
  BY <1>27 DEF Crash
<1>28. ASSUME NEW w \in Workers, Stop(w)
      PROVE  /\ jobs'[key].status \in {"Queued", "Pending"} => entry'[key] # "absent"
             /\ jobs'[key].status = "Finished" => reports'[key] = jobs'[key].attempts
  BY <1>28 DEF Stop
<1>29. ASSUME NEW w \in Workers, PollEmpty(w)
      PROVE  /\ jobs'[key].status \in {"Queued", "Pending"} => entry'[key] # "absent"
             /\ jobs'[key].status = "Finished" => reports'[key] = jobs'[key].attempts
  BY <1>29 DEF PollEmpty, vars
<1>30. ASSUME NEW w \in Workers, NEW d \in Deliveries, ClaimIdle(w, d)
      PROVE  /\ jobs'[key].status \in {"Queued", "Pending"} => entry'[key] # "absent"
             /\ jobs'[key].status = "Finished" => reports'[key] = jobs'[key].attempts
  BY <1>30 DEF ClaimIdle, Begin, Receive
<1>31. ASSUME NEW w \in Workers, NEW d \in Deliveries, ReadNew(w, d)
      PROVE  /\ jobs'[key].status \in {"Queued", "Pending"} => entry'[key] # "absent"
             /\ jobs'[key].status = "Finished" => reports'[key] = jobs'[key].attempts
  BY <1>31 DEF ReadNew, Begin, Receive
<1>32. ASSUME NEW w \in Workers, NEW d \in Deliveries, ReplyLostReading(w, d)
      PROVE  /\ jobs'[key].status \in {"Queued", "Pending"} => entry'[key] # "absent"
             /\ jobs'[key].status = "Finished" => reports'[key] = jobs'[key].attempts
  BY <1>32 DEF ReplyLostReading, Receive
<1>33. ASSUME NEW w \in Workers, NEW c \in Workers, CleanIdle(w, c)
      PROVE  /\ jobs'[key].status \in {"Queued", "Pending"} => entry'[key] # "absent"
             /\ jobs'[key].status = "Finished" => reports'[key] = jobs'[key].attempts
  BY <1>33 DEF CleanIdle, DeleteConsumer
<1>34. ASSUME NEW k \in Keys, Enqueue(k)
      PROVE  /\ jobs'[key].status \in {"Queued", "Pending"} => entry'[key] # "absent"
             /\ jobs'[key].status = "Finished" => reports'[key] = jobs'[key].attempts
  BY <1>34 DEF Enqueue, EnqueueScript
<1>35. ASSUME NEW k \in Keys, StaleExpires(k)
      PROVE  /\ jobs'[key].status \in {"Queued", "Pending"} => entry'[key] # "absent"
             /\ jobs'[key].status = "Finished" => reports'[key] = jobs'[key].attempts
  BY <1>35 DEF StaleExpires
<1>36. ASSUME NEW k \in Keys, RetentionExpires(k)
      PROVE  /\ jobs'[key].status \in {"Queued", "Pending"} => entry'[key] # "absent"
             /\ jobs'[key].status = "Finished" => reports'[key] = jobs'[key].attempts
  BY <1>36 DEF RetentionExpires
<1>37. ASSUME NEW k \in Keys, LeaseLapses(k)
      PROVE  /\ jobs'[key].status \in {"Queued", "Pending"} => entry'[key] # "absent"
             /\ jobs'[key].status = "Finished" => reports'[key] = jobs'[key].attempts
  BY <1>37 DEF LeaseLapses
<1>38. ASSUME NEW k \in Keys, JobEvicted(k)
      PROVE  /\ jobs'[key].status \in {"Queued", "Pending"} => entry'[key] # "absent"
             /\ jobs'[key].status = "Finished" => reports'[key] = jobs'[key].attempts
  BY <1>38 DEF JobEvicted
<1>39. ASSUME GroupLost
      PROVE  /\ jobs'[key].status \in {"Queued", "Pending"} => entry'[key] # "absent"
             /\ jobs'[key].status = "Finished" => reports'[key] = jobs'[key].attempts
  BY <1>39 DEF GroupLost
<1>40. ASSUME BackendFlushed
      PROVE  /\ jobs'[key].status \in {"Queued", "Pending"} => entry'[key] # "absent"
             /\ jobs'[key].status = "Finished" => reports'[key] = jobs'[key].attempts
  BY <1>40 DEF BackendFlushed, Exists
<1> QED
  BY <1>1, <1>2, <1>3, <1>4, <1>5, <1>6, <1>7, <1>8, <1>9, <1>10, <1>11, <1>12, <1>13, <1>14, <1>15, <1>16, <1>17, <1>18, <1>19, <1>20, <1>21, <1>22, <1>23, <1>24, <1>25, <1>26, <1>27, <1>28, <1>29, <1>30, <1>31, <1>32, <1>33, <1>34, <1>35, <1>36, <1>37, <1>38, <1>39, <1>40
  DEF Next, Serve, WorkerStep, Heartbeat, Environment

(* Acknowledged and quarantined deliveries stay settled and apart. *)
LEMMA RetiredStep ==
  ASSUME IInv, Next
  PROVE  (RetiredIsSettled /\ RetentionAfterRetirement /\ QuarantineIsUnexecutable)'
<1>a. WorkTypeOK /\ QueueTypeOK /\ StoreTypeOK
  BY DEF IInv, TypeOK, WorkTypeOK, QueueTypeOK, StoreTypeOK
<1>b. MaxAttempts \in Nat \ {0} /\ Keys \cap Foreign = {} /\ Keys \subseteq Deliveries
      /\ Workers \cap {"absent", "unread", "stored"} = {}
  BY DeliveryAssumption DEF Deliveries
<1>c. RetiredIsSettled /\ RetentionAfterRetirement /\ QuarantineIsUnexecutable
  BY DEF IInv
<1>d. \A k \in Keys : jobs[k].status = "New" => entry[k] = "absent" /\ k \notin retired
  BY DEF IInv, JobConsistent
<1> USE <1>a, <1>b, <1>c DEF RetiredIsSettled, RetentionAfterRetirement,
        QuarantineIsUnexecutable, StoreTypeOK, QueueTypeOK, storeVars, queueVars
<1>1. ASSUME NEW w \in Workers, Boot(w)
      PROVE  (RetiredIsSettled /\ RetentionAfterRetirement /\ QuarantineIsUnexecutable)'
  BY <1>1 DEF Boot, EnsureGroup
<1>2. ASSUME NEW w \in Workers, RecoverGroup(w)
      PROVE  (RetiredIsSettled /\ RetentionAfterRetirement /\ QuarantineIsUnexecutable)'
  BY <1>2 DEF RecoverGroup, EnsureGroup
<1>3. ASSUME NEW w \in Workers, LeaveLoop(w)
      PROVE  (RetiredIsSettled /\ RetentionAfterRetirement /\ QuarantineIsUnexecutable)'
  BY <1>3 DEF LeaveLoop
<1>4. ASSUME NEW w \in Workers, Exit(w)
      PROVE  (RetiredIsSettled /\ RetentionAfterRetirement /\ QuarantineIsUnexecutable)'
  BY <1>4 DEF Exit, DeleteConsumer
<1>5. ASSUME NEW w \in Workers, QuarantineUndecodable(w)
      PROVE  (RetiredIsSettled /\ RetentionAfterRetirement /\ QuarantineIsUnexecutable)'
  <2>1. msg[w] \in Foreign
    BY <1>5 DEF QuarantineUndecodable, At, IInv, Coherent
  <2> QED
    BY <1>5, <2>1 DEF QuarantineUndecodable, QuarantineScript
<1>6. ASSUME NEW w \in Workers, AcquireLease(w)
      PROVE  (RetiredIsSettled /\ RetentionAfterRetirement /\ QuarantineIsUnexecutable)'
  BY <1>6 DEF AcquireLease
<1>7. ASSUME NEW w \in Workers, LeaseBusy(w)
      PROVE  (RetiredIsSettled /\ RetentionAfterRetirement /\ QuarantineIsUnexecutable)'
  BY <1>7 DEF LeaseBusy
<1>8. ASSUME NEW w \in Workers, GetJob(w)
      PROVE  (RetiredIsSettled /\ RetentionAfterRetirement /\ QuarantineIsUnexecutable)'
  BY <1>8 DEF GetJob
<1>9. ASSUME NEW w \in Workers, QuarantineMissing(w)
      PROVE  (RetiredIsSettled /\ RetentionAfterRetirement /\ QuarantineIsUnexecutable)'
  <2>1. jobs[msg[w]].status = "Gone" /\ msg[w] \in Keys
    BY <1>9 DEF QuarantineMissing, At, IInv, Coherent, Holding
  <2> QED
    BY <1>9, <2>1 DEF QuarantineMissing, QuarantineScript
<1>10. ASSUME NEW w \in Workers, ReadJob(w)
      PROVE  (RetiredIsSettled /\ RetentionAfterRetirement /\ QuarantineIsUnexecutable)'
  BY <1>10 DEF ReadJob
<1>11. ASSUME NEW w \in Workers, WriteJob(w)
      PROVE  (RetiredIsSettled /\ RetentionAfterRetirement /\ QuarantineIsUnexecutable)'
  <2>1. /\ msg[w] \in Keys /\ UNCHANGED <<entry, quarantine, retired>>
        /\ jobs' = [jobs EXCEPT ![msg[w]] = WithStatus(jobs[msg[w]], goal[w])]
        /\ ttl' = [ttl EXCEPT ![msg[w]] = FALSE]
        /\ jobs[msg[w]].status \in {"Queued", "Pending"}
    BY <1>11, WriterKnows DEF WriteJob, At, UpdateJobScript
  <2> QED
    BY <2>1 DEF Terminal
<1>12. ASSUME NEW w \in Workers, ScanReports(w)
      PROVE  (RetiredIsSettled /\ RetentionAfterRetirement /\ QuarantineIsUnexecutable)'
  BY <1>12 DEF ScanReports
<1>13. ASSUME NEW w \in Workers, ScanFails(w)
      PROVE  (RetiredIsSettled /\ RetentionAfterRetirement /\ QuarantineIsUnexecutable)'
  BY <1>13 DEF ScanFails
<1>14. ASSUME NEW w \in Workers, ScanInterrupted(w)
      PROVE  (RetiredIsSettled /\ RetentionAfterRetirement /\ QuarantineIsUnexecutable)'
  BY <1>14 DEF ScanInterrupted
<1>15. ASSUME NEW w \in Workers, WriteReport(w)
      PROVE  (RetiredIsSettled /\ RetentionAfterRetirement /\ QuarantineIsUnexecutable)'
  BY <1>15, ReporterKnows DEF WriteReport, At, UpdateReportScript, Terminal
<1>16. ASSUME NEW w \in Workers, AckRead(w)
      PROVE  (RetiredIsSettled /\ RetentionAfterRetirement /\ QuarantineIsUnexecutable)'
  BY <1>16 DEF AckRead
<1>17. ASSUME NEW w \in Workers, Acknowledge(w)
      PROVE  (RetiredIsSettled /\ RetentionAfterRetirement /\ QuarantineIsUnexecutable)'
  BY <1>17, RetirerKnows DEF Acknowledge, At, AcknowledgeScript, Terminal
<1>18. ASSUME NEW w \in Workers, Refused(w)
      PROVE  (RetiredIsSettled /\ RetentionAfterRetirement /\ QuarantineIsUnexecutable)'
  BY <1>18 DEF Refused
<1>19. ASSUME NEW w \in Workers, ContextDone(w)
      PROVE  (RetiredIsSettled /\ RetentionAfterRetirement /\ QuarantineIsUnexecutable)'
  BY <1>19 DEF ContextDone
<1>20. ASSUME NEW w \in Workers, ReleaseLease(w)
      PROVE  (RetiredIsSettled /\ RetentionAfterRetirement /\ QuarantineIsUnexecutable)'
  BY <1>20 DEF ReleaseLease
<1>21. ASSUME NEW w \in Workers, Renew(w)
      PROVE  (RetiredIsSettled /\ RetentionAfterRetirement /\ QuarantineIsUnexecutable)'
  BY <1>21 DEF Renew, Receive
<1>22. ASSUME NEW w \in Workers, LoseLease(w)
      PROVE  (RetiredIsSettled /\ RetentionAfterRetirement /\ QuarantineIsUnexecutable)'
  BY <1>22 DEF LoseLease
<1>23. ASSUME NEW w \in Workers, CallFails(w)
      PROVE  (RetiredIsSettled /\ RetentionAfterRetirement /\ QuarantineIsUnexecutable)'
  BY <1>23 DEF CallFails
<1>24. ASSUME NEW w \in Workers, ReplyLostLeasing(w)
      PROVE  (RetiredIsSettled /\ RetentionAfterRetirement /\ QuarantineIsUnexecutable)'
  BY <1>24 DEF ReplyLostLeasing
<1>25. ASSUME NEW w \in Workers, ReplyLostWriting(w)
      PROVE  (RetiredIsSettled /\ RetentionAfterRetirement /\ QuarantineIsUnexecutable)'
  <2>1. CASE At(w, "report")
    BY <1>25, <2>1 DEF ReplyLostWriting, UpdateReportScript, At
  <2>2. CASE At(w, "write")
    <3>1. /\ msg[w] \in Keys /\ UNCHANGED <<entry, quarantine, retired>>
          /\ jobs' = [jobs EXCEPT ![msg[w]] = WithStatus(jobs[msg[w]], goal[w])]
          /\ ttl' = [ttl EXCEPT ![msg[w]] = FALSE]
          /\ jobs[msg[w]].status \in {"Queued", "Pending"}
      BY <1>25, <2>2, WriterKnows DEF ReplyLostWriting, At, UpdateJobScript
    <3> QED
      BY <3>1 DEF Terminal
  <2> QED
    BY <1>25, <2>1, <2>2 DEF ReplyLostWriting
<1>26. ASSUME NEW w \in Workers, ReplyLostRetiring(w)
      PROVE  (RetiredIsSettled /\ RetentionAfterRetirement /\ QuarantineIsUnexecutable)'
  <2>1. CASE At(w, "ack") /\ MayAcknowledge(w) /\ AcknowledgeScript(msg[w])
    BY <1>26, <2>1, RetirerKnows DEF ReplyLostRetiring, At, AcknowledgeScript, Terminal
  <2>2. CASE At(w, "missing") /\ QuarantineScript(msg[w]) /\ UNCHANGED <<ttl, lease, retired>>
    <3>1. jobs[msg[w]].status = "Gone" /\ msg[w] \in Keys
      BY <2>2 DEF At, IInv, Coherent, Holding
    <3> QED
      BY <1>26, <2>2, <3>1 DEF ReplyLostRetiring, QuarantineScript
  <2> QED
    BY <1>26, <2>1, <2>2 DEF ReplyLostRetiring
<1>27. ASSUME NEW w \in Workers, Crash(w)
      PROVE  (RetiredIsSettled /\ RetentionAfterRetirement /\ QuarantineIsUnexecutable)'
  BY <1>27 DEF Crash
<1>28. ASSUME NEW w \in Workers, Stop(w)
      PROVE  (RetiredIsSettled /\ RetentionAfterRetirement /\ QuarantineIsUnexecutable)'
  BY <1>28 DEF Stop
<1>29. ASSUME NEW w \in Workers, PollEmpty(w)
      PROVE  (RetiredIsSettled /\ RetentionAfterRetirement /\ QuarantineIsUnexecutable)'
  BY <1>29 DEF PollEmpty, vars
<1>30. ASSUME NEW w \in Workers, NEW d \in Deliveries, ClaimIdle(w, d)
      PROVE  (RetiredIsSettled /\ RetentionAfterRetirement /\ QuarantineIsUnexecutable)'
  BY <1>30 DEF ClaimIdle, CanClaim, CanRead, Begin, Receive
<1>31. ASSUME NEW w \in Workers, NEW d \in Deliveries, ReadNew(w, d)
      PROVE  (RetiredIsSettled /\ RetentionAfterRetirement /\ QuarantineIsUnexecutable)'
  BY <1>31 DEF ReadNew, CanClaim, CanRead, Begin, Receive
<1>32. ASSUME NEW w \in Workers, NEW d \in Deliveries, ReplyLostReading(w, d)
      PROVE  (RetiredIsSettled /\ RetentionAfterRetirement /\ QuarantineIsUnexecutable)'
  BY <1>32 DEF ReplyLostReading, CanClaim, CanRead, Receive
<1>33. ASSUME NEW w \in Workers, NEW c \in Workers, CleanIdle(w, c)
      PROVE  (RetiredIsSettled /\ RetentionAfterRetirement /\ QuarantineIsUnexecutable)'
  BY <1>33 DEF CleanIdle, DeleteConsumer
<1>34. ASSUME NEW k \in Keys, Enqueue(k)
      PROVE  (RetiredIsSettled /\ RetentionAfterRetirement /\ QuarantineIsUnexecutable)'
  BY <1>34, <1>d DEF Enqueue, EnqueueScript, Terminal
<1>35. ASSUME NEW k \in Keys, StaleExpires(k)
      PROVE  (RetiredIsSettled /\ RetentionAfterRetirement /\ QuarantineIsUnexecutable)'
  BY <1>35 DEF StaleExpires
<1>36. ASSUME NEW k \in Keys, RetentionExpires(k)
      PROVE  (RetiredIsSettled /\ RetentionAfterRetirement /\ QuarantineIsUnexecutable)'
  BY <1>36 DEF RetentionExpires
<1>37. ASSUME NEW k \in Keys, LeaseLapses(k)
      PROVE  (RetiredIsSettled /\ RetentionAfterRetirement /\ QuarantineIsUnexecutable)'
  BY <1>37 DEF LeaseLapses
<1>38. ASSUME NEW k \in Keys, JobEvicted(k)
      PROVE  (RetiredIsSettled /\ RetentionAfterRetirement /\ QuarantineIsUnexecutable)'
  BY <1>38 DEF JobEvicted
<1>39. ASSUME GroupLost
      PROVE  (RetiredIsSettled /\ RetentionAfterRetirement /\ QuarantineIsUnexecutable)'
  BY <1>39 DEF GroupLost
<1>40. ASSUME BackendFlushed
      PROVE  (RetiredIsSettled /\ RetentionAfterRetirement /\ QuarantineIsUnexecutable)'
  BY <1>40 DEF BackendFlushed
<1> QED
  BY <1>1, <1>2, <1>3, <1>4, <1>5, <1>6, <1>7, <1>8, <1>9, <1>10, <1>11, <1>12, <1>13, <1>14, <1>15, <1>16, <1>17, <1>18, <1>19, <1>20, <1>21, <1>22, <1>23, <1>24, <1>25, <1>26, <1>27, <1>28, <1>29, <1>30, <1>31, <1>32, <1>33, <1>34, <1>35, <1>36, <1>37, <1>38, <1>39, <1>40
  DEF Next, Serve, WorkerStep, Heartbeat, Environment

(* No step leaves an entry outside the records of an existing group. *)
LEMMA OrphanStep ==
  ASSUME IInv, Next
  PROVE  NoOrphanEntry'
<1>a. WorkTypeOK /\ QueueTypeOK /\ StoreTypeOK
  BY DEF IInv, TypeOK, WorkTypeOK, QueueTypeOK, StoreTypeOK
<1>b. MaxAttempts \in Nat \ {0} /\ Keys \cap Foreign = {} /\ Keys \subseteq Deliveries
      /\ Workers \cap {"absent", "unread", "stored"} = {}
  BY DeliveryAssumption DEF Deliveries
<1>c. NoOrphanEntry
  BY DEF IInv
<1>d. \A w \in Workers : pc[w] \in Holding => msg[w] \in Keys
  BY DEF IInv, Coherent
<1> USE <1>a, <1>b, <1>c DEF NoOrphanEntry, QueueTypeOK, queueVars
<1>1. ASSUME NEW w \in Workers, Boot(w)
      PROVE  NoOrphanEntry'
  BY <1>1 DEF Boot, EnsureGroup
<1>2. ASSUME NEW w \in Workers, RecoverGroup(w)
      PROVE  NoOrphanEntry'
  BY <1>2 DEF RecoverGroup, EnsureGroup
<1>3. ASSUME NEW w \in Workers, LeaveLoop(w)
      PROVE  NoOrphanEntry'
  BY <1>3 DEF LeaveLoop
<1>4. ASSUME NEW w \in Workers, Exit(w)
      PROVE  NoOrphanEntry'
  BY <1>4 DEF Exit, DeleteConsumer, NothingPending
<1>5. ASSUME NEW w \in Workers, QuarantineUndecodable(w)
      PROVE  NoOrphanEntry'
  BY <1>5 DEF QuarantineUndecodable, QuarantineScript
<1>6. ASSUME NEW w \in Workers, AcquireLease(w)
      PROVE  NoOrphanEntry'
  BY <1>6 DEF AcquireLease
<1>7. ASSUME NEW w \in Workers, LeaseBusy(w)
      PROVE  NoOrphanEntry'
  BY <1>7 DEF LeaseBusy
<1>8. ASSUME NEW w \in Workers, GetJob(w)
      PROVE  NoOrphanEntry'
  BY <1>8 DEF GetJob
<1>9. ASSUME NEW w \in Workers, QuarantineMissing(w)
      PROVE  NoOrphanEntry'
  BY <1>9 DEF QuarantineMissing, QuarantineScript
<1>10. ASSUME NEW w \in Workers, ReadJob(w)
      PROVE  NoOrphanEntry'
  BY <1>10 DEF ReadJob
<1>11. ASSUME NEW w \in Workers, WriteJob(w)
      PROVE  NoOrphanEntry'
  BY <1>11 DEF WriteJob
<1>12. ASSUME NEW w \in Workers, ScanReports(w)
      PROVE  NoOrphanEntry'
  BY <1>12 DEF ScanReports
<1>13. ASSUME NEW w \in Workers, ScanFails(w)
      PROVE  NoOrphanEntry'
  BY <1>13 DEF ScanFails
<1>14. ASSUME NEW w \in Workers, ScanInterrupted(w)
      PROVE  NoOrphanEntry'
  BY <1>14 DEF ScanInterrupted
<1>15. ASSUME NEW w \in Workers, WriteReport(w)
      PROVE  NoOrphanEntry'
  BY <1>15 DEF WriteReport
<1>16. ASSUME NEW w \in Workers, AckRead(w)
      PROVE  NoOrphanEntry'
  BY <1>16 DEF AckRead
<1>17. ASSUME NEW w \in Workers, Acknowledge(w)
      PROVE  NoOrphanEntry'
  BY <1>17 DEF Acknowledge, AcknowledgeScript
<1>18. ASSUME NEW w \in Workers, Refused(w)
      PROVE  NoOrphanEntry'
  BY <1>18 DEF Refused
<1>19. ASSUME NEW w \in Workers, ContextDone(w)
      PROVE  NoOrphanEntry'
  BY <1>19 DEF ContextDone
<1>20. ASSUME NEW w \in Workers, ReleaseLease(w)
      PROVE  NoOrphanEntry'
  BY <1>20 DEF ReleaseLease
<1>21. ASSUME NEW w \in Workers, Renew(w)
      PROVE  NoOrphanEntry'
  BY <1>21 DEF Renew, Receive
<1>22. ASSUME NEW w \in Workers, LoseLease(w)
      PROVE  NoOrphanEntry'
  BY <1>22 DEF LoseLease
<1>23. ASSUME NEW w \in Workers, CallFails(w)
      PROVE  NoOrphanEntry'
  BY <1>23 DEF CallFails
<1>24. ASSUME NEW w \in Workers, ReplyLostLeasing(w)
      PROVE  NoOrphanEntry'
  BY <1>24 DEF ReplyLostLeasing
<1>25. ASSUME NEW w \in Workers, ReplyLostWriting(w)
      PROVE  NoOrphanEntry'
  BY <1>25 DEF ReplyLostWriting
<1>26. ASSUME NEW w \in Workers, ReplyLostRetiring(w)
      PROVE  NoOrphanEntry'
  BY <1>26 DEF ReplyLostRetiring, AcknowledgeScript, QuarantineScript
<1>27. ASSUME NEW w \in Workers, Crash(w)
      PROVE  NoOrphanEntry'
  BY <1>27 DEF Crash
<1>28. ASSUME NEW w \in Workers, Stop(w)
      PROVE  NoOrphanEntry'
  BY <1>28 DEF Stop
<1>29. ASSUME NEW w \in Workers, PollEmpty(w)
      PROVE  NoOrphanEntry'
  BY <1>29 DEF PollEmpty, vars
<1>30. ASSUME NEW w \in Workers, NEW d \in Deliveries, ClaimIdle(w, d)
      PROVE  NoOrphanEntry'
  BY <1>30 DEF ClaimIdle, Begin, Receive
<1>31. ASSUME NEW w \in Workers, NEW d \in Deliveries, ReadNew(w, d)
      PROVE  NoOrphanEntry'
  BY <1>31 DEF ReadNew, Begin, Receive
<1>32. ASSUME NEW w \in Workers, NEW d \in Deliveries, ReplyLostReading(w, d)
      PROVE  NoOrphanEntry'
  BY <1>32 DEF ReplyLostReading, Receive
<1>33. ASSUME NEW w \in Workers, NEW c \in Workers, CleanIdle(w, c)
      PROVE  NoOrphanEntry'
  BY <1>33 DEF CleanIdle, DeleteConsumer, NothingPending
<1>34. ASSUME NEW k \in Keys, Enqueue(k)
      PROVE  NoOrphanEntry'
  BY <1>34 DEF Enqueue, EnqueueScript
<1>35. ASSUME NEW k \in Keys, StaleExpires(k)
      PROVE  NoOrphanEntry'
  BY <1>35 DEF StaleExpires
<1>36. ASSUME NEW k \in Keys, RetentionExpires(k)
      PROVE  NoOrphanEntry'
  BY <1>36 DEF RetentionExpires
<1>37. ASSUME NEW k \in Keys, LeaseLapses(k)
      PROVE  NoOrphanEntry'
  BY <1>37 DEF LeaseLapses
<1>38. ASSUME NEW k \in Keys, JobEvicted(k)
      PROVE  NoOrphanEntry'
  BY <1>38 DEF JobEvicted
<1>39. ASSUME GroupLost
      PROVE  NoOrphanEntry'
  BY <1>39 DEF GroupLost
<1>40. ASSUME BackendFlushed
      PROVE  NoOrphanEntry'
  BY <1>40 DEF BackendFlushed
<1> QED
  BY <1>1, <1>2, <1>3, <1>4, <1>5, <1>6, <1>7, <1>8, <1>9, <1>10, <1>11, <1>12, <1>13, <1>14, <1>15, <1>16, <1>17, <1>18, <1>19, <1>20, <1>21, <1>22, <1>23, <1>24, <1>25, <1>26, <1>27, <1>28, <1>29, <1>30, <1>31, <1>32, <1>33, <1>34, <1>35, <1>36, <1>37, <1>38, <1>39, <1>40
  DEF Next, Serve, WorkerStep, Heartbeat, Environment

(* The steps that change a job or a report. *)
LEMMA StoreWriters ==
  ASSUME Next
  PROVE  \/ UNCHANGED <<jobs, reports>>
         \/ \E w \in Workers : WriteJob(w) \/ WriteReport(w) \/ ReplyLostWriting(w)
         \/ \E k \in Keys : Enqueue(k) \/ RetentionExpires(k) \/ JobEvicted(k)
         \/ BackendFlushed
<1> USE DEF storeVars
<1>1. ASSUME NEW w \in Workers, WorkerStep(w)
      PROVE  UNCHANGED <<jobs, reports>> \/ WriteJob(w) \/ WriteReport(w)
  BY <1>1 DEF WorkerStep, Boot, RecoverGroup, LeaveLoop, Exit, QuarantineUndecodable,
    AcquireLease, LeaseBusy, GetJob, QuarantineMissing, ReadJob, ScanReports, ScanFails,
    ScanInterrupted, AckRead, Acknowledge, Refused, ContextDone, ReleaseLease
<1>2. ASSUME NEW w \in Workers, Heartbeat(w) \/ PollEmpty(w)
      PROVE  UNCHANGED <<jobs, reports>>
  BY <1>2 DEF Heartbeat, Renew, LoseLease, PollEmpty, vars
<1>3. ASSUME NEW w \in Workers, NEW d \in Deliveries,
             ClaimIdle(w, d) \/ ReadNew(w, d) \/ ReplyLostReading(w, d)
      PROVE  UNCHANGED <<jobs, reports>>
  BY <1>3 DEF ClaimIdle, ReadNew, Begin, ReplyLostReading
<1>4. ASSUME NEW w \in Workers, NEW c \in Workers, CleanIdle(w, c)
      PROVE  UNCHANGED <<jobs, reports>>
  BY <1>4 DEF CleanIdle
<1>5. ASSUME NEW w \in Workers,
             CallFails(w) \/ ReplyLostLeasing(w) \/ ReplyLostRetiring(w) \/ Crash(w) \/ Stop(w)
      PROVE  UNCHANGED <<jobs, reports>>
  BY <1>5 DEF CallFails, ReplyLostLeasing, ReplyLostRetiring, Crash, Stop
<1>6. ASSUME NEW k \in Keys, StaleExpires(k) \/ LeaseLapses(k)
      PROVE  UNCHANGED <<jobs, reports>>
  BY <1>6 DEF StaleExpires, LeaseLapses
<1>7. GroupLost => UNCHANGED <<jobs, reports>>
  BY DEF GroupLost
<1> QED
  BY <1>1, <1>2, <1>3, <1>4, <1>5, <1>6, <1>7 DEF Next, Serve, Environment

(* What a reader of the store may rely on from one read to the next: a job that
   was there is not new again, a verdict only gives way to the loss of the job, a
   lost job stays lost, and the report of either only goes. *)
StoreMovesForward(key) ==
  /\ jobs[key].status # "New" => jobs'[key].status # "New"
  /\ jobs[key].status \in Terminal => jobs'[key] = jobs[key] \/ jobs'[key].status = "Gone"
  /\ jobs[key].status = "Gone" => jobs'[key] = jobs[key]
  /\ jobs[key].status \in Terminal \cup {"Gone"} => reports'[key] \in {0, reports[key]}

LEMMA StoreStep ==
  ASSUME IInv, Next, NEW key \in Keys
  PROVE  StoreMovesForward(key)
<1>a. WorkTypeOK /\ StoreTypeOK
  BY DEF IInv, TypeOK, WorkTypeOK, StoreTypeOK
<1>b. jobs[key].status = "Gone" => jobs[key] = [status |-> "Gone", attempts |-> 0]
  BY <1>a DEF IInv, JobConsistent, StoreTypeOK, Job
<1> USE <1>a, <1>b DEF StoreTypeOK, StoreMovesForward, Terminal
<1>1. CASE UNCHANGED <<jobs, reports>>
  BY <1>1
<1>2. ASSUME NEW w \in Workers, pc[w] = "write", MayUpdate(w), UNCHANGED reports,
             UpdateJobScript(msg[w], WithStatus(seen[w], goal[w]))
      PROVE  StoreMovesForward(key)
  BY <1>2, WriterKnows DEF UpdateJobScript, WithStatus
<1>3. ASSUME NEW w \in Workers, pc[w] = "report", MayUpdate(w), UNCHANGED jobs,
             UpdateReportScript(msg[w], seen[w].attempts)
      PROVE  StoreMovesForward(key)
  BY <1>3, ReporterKnows DEF UpdateReportScript
<1>4. ASSUME NEW w \in Workers, WriteJob(w) \/ WriteReport(w) \/ ReplyLostWriting(w)
      PROVE  StoreMovesForward(key)
  BY <1>2, <1>3, <1>4 DEF WriteJob, WriteReport, ReplyLostWriting, At
<1>5. ASSUME NEW k \in Keys, Enqueue(k)
      PROVE  StoreMovesForward(key)
  BY <1>5 DEF Enqueue, EnqueueScript
<1>6. ASSUME NEW k \in Keys, RetentionExpires(k) \/ JobEvicted(k)
      PROVE  StoreMovesForward(key)
  BY <1>6 DEF RetentionExpires, JobEvicted
<1>7. CASE BackendFlushed
  BY <1>7 DEF BackendFlushed, Exists
<1> QED
  BY <1>1, <1>4, <1>5, <1>6, <1>7, StoreWriters

(* What every step preserves. *)
LEMMA Inductive ==
  ASSUME IInv, [Next]_vars
  PROVE  IInv'
<1>1. CASE Next
  <2>1. TypeOK' /\ retired' \subseteq Keys
    <3>1. WorkTypeOK' /\ StoreTypeOK' /\ QueueTypeOK'
      BY <1>1, WorkTypesStep, StoreTypesStep, QueueTypesStep
    <3> QED
      BY <3>1 DEF TypeOK, WorkTypeOK, StoreTypeOK, QueueTypeOK, Deliveries
  <2>2. LeaseHolderHolds' /\ (\A w \in Workers : Coherent(w)')
    BY <1>1, LeaseStep, CoherentStep
  <2>3. (\A k \in Keys : JobConsistent(k)') /\ NoLostJob' /\ FinishedHasItsReport'
    BY <1>1, JobStep, ReportStep
  <2>4. NoOrphanEntry' /\ RetiredIsSettled' /\ RetentionAfterRetirement' /\ QuarantineIsUnexecutable'
    BY <1>1, OrphanStep, RetiredStep
  <2> QED
    BY <2>1, <2>2, <2>3, <2>4 DEF IInv
<1>2. CASE UNCHANGED vars
  BY <1>2 DEF vars, storeVars, queueVars, workVars, IInv, TypeOK, LeaseHolderHolds, Coherent,
    JobConsistent, NoLostJob, NoOrphanEntry, FinishedHasItsReport, RetiredIsSettled,
    RetentionAfterRetirement, QuarantineIsUnexecutable, MayUpdate, Owns, Exists
<1> QED
  BY <1>1, <1>2

(* A fresh backend, with at most undecodable entries in its stream. *)
LEMMA Initial == Init => IInv
<1> SUFFICES ASSUME Init PROVE IInv
  OBVIOUS
<1> USE DeliveryAssumption DEF Init, Blank, Job, Statuses, Deliveries
<1>1. TypeOK
  <2>1. Blank \in Job /\ 0 \in Nat /\ 0 \in 0 .. MaxFaults
    OBVIOUS
  <2>2. jobs \in [Keys -> Job] /\ seen \in [Workers -> Job]
    BY <2>1
  <2>3. reports \in [Keys -> Nat] /\ ttl \in [Keys -> BOOLEAN] /\ started \in [Keys -> Nat]
    BY <2>1
  <2>4. entry \in [Deliveries -> Workers \cup {"absent", "unread", "stored"}]
    OBVIOUS
  <2>5. lease \in [Keys -> Workers \cup {"free", "stale"}]
    OBVIOUS
  <2>6. pc \in [Workers -> Points] /\ goal \in [Workers -> Statuses]
    BY DEF Points
  <2>7. msg \in [Workers -> Deliveries \cup {"none"}]
    OBVIOUS
  <2>8. ctx \in [Workers -> {"live", "cancelled", "stopping"}]
    OBVIOUS
  <2>9. group \in BOOLEAN /\ consumers \subseteq Workers /\ quarantine \subseteq Deliveries
          /\ retired \subseteq Deliveries /\ faults \in 0 .. MaxFaults
    BY <2>1
  <2> QED
    BY <2>2, <2>3, <2>4, <2>5, <2>6, <2>7, <2>8, <2>9 DEF TypeOK
<1>2. LeaseHolderHolds
  BY DEF LeaseHolderHolds
<1>3. \A w \in Workers : Coherent(w)
  BY DEF Coherent, Holding
<1>4. \A k \in Keys : JobConsistent(k)
  BY DEF JobConsistent, Exists
<1>5. NoLostJob /\ NoOrphanEntry /\ FinishedHasItsReport
  BY DEF NoLostJob, NoOrphanEntry, FinishedHasItsReport
<1>6. RetiredIsSettled /\ RetentionAfterRetirement /\ QuarantineIsUnexecutable
  BY DEF RetiredIsSettled, RetentionAfterRetirement, QuarantineIsUnexecutable, Terminal
<1> QED
  BY <1>1, <1>2, <1>3, <1>4, <1>5, <1>6 DEF IInv

(* IInv holds throughout. *)
THEOREM Invariant == Spec => []IInv
<1>1. Init => IInv
  BY Initial
<1>2. IInv /\ [Next]_vars => IInv'
  BY Inductive
<1> QED
  BY <1>1, <1>2, PTL DEF Spec

(* Type correctness. *)
THEOREM TypeCorrect == Spec => []TypeOK
<1>1. IInv => TypeOK
  BY DEF IInv
<1> QED
  BY <1>1, Invariant, PTL

(* enqueueScript, acknowledgement and quarantine together lose no open job. *)
THEOREM OpenJobsKeepTheirDelivery == Spec => []NoLostJob
<1>1. IInv => NoLostJob
  BY DEF IInv
<1> QED
  BY <1>1, Invariant, PTL

(* Recreating the group and cleaning consumers leave no entry unreachable. *)
THEOREM EntriesStayReachable == Spec => []NoOrphanEntry
<1>1. IInv => NoOrphanEntry
  BY DEF IInv
<1> QED
  BY <1>1, Invariant, PTL

(* A job starts at most MaxAttempts scans. *)
THEOREM AttemptLimit == Spec => []AttemptsBounded
<1>1. IInv => AttemptsBounded
  BY DEF IInv, JobConsistent, AttemptsBounded
<1> QED
  BY <1>1, Invariant, PTL

(* The lease keeps a stale worker's report out of a finished job. *)
THEOREM ReportBelongsToVerdict == Spec => []FinishedHasItsReport
<1>1. IInv => FinishedHasItsReport
  BY DEF IInv
<1> QED
  BY <1>1, Invariant, PTL

(* What acknowledgement takes out of the stream stays settled. *)
THEOREM SettledDeliveries == Spec => []RetiredIsSettled
<1>1. IInv => RetiredIsSettled
  BY DEF IInv
<1> QED
  BY <1>1, Invariant, PTL

(* No write, late or in time, leaves a retention running on a job whose delivery
   can still be executed. *)
THEOREM RetentionComesLast == Spec => []RetentionAfterRetirement
<1>1. IInv => RetentionAfterRetirement
  BY DEF IInv
<1> QED
  BY <1>1, Invariant, PTL

(* A worker that found no job, and quarantines the delivery later, quarantines
   none that was acknowledged and none whose job is there. *)
THEOREM QuarantineIsJustified == Spec => []QuarantineIsUnexecutable
<1>1. IInv => QuarantineIsUnexecutable
  BY DEF IInv
<1> QED
  BY <1>1, Invariant, PTL

(* A scan under a lease that is still owned is the newest attempt. *)
THEOREM NewestAttemptOwns == Spec => []OwnerHasNewestAttempt
<1>1. IInv => OwnerHasNewestAttempt
  BY DEF IInv, Coherent, OwnerHasNewestAttempt, Holding
<1> QED
  BY <1>1, Invariant, PTL

(* No step of a late or slow worker changes a verdict. *)
THEOREM Verdicts == Spec => VerdictIsFinal
<1>1. IInv /\ [Next]_vars
        => [\A k \in Keys : jobs[k].status \in Terminal
              => jobs'[k] = jobs[k] \/ jobs'[k].status = "Gone"]_vars
  BY StoreStep DEF StoreMovesForward, vars, storeVars
<1> QED
  BY <1>1, Invariant, PTL DEF Spec, VerdictIsFinal

(* The abstract state, key by key. *)
LEMMA ShownAs ==
  ASSUME IInv, NEW key \in Keys, NEW j,
         j = [status |-> jobs'[key].status, attempts |-> jobs'[key].attempts,
              report |-> IF jobs'[key].status = "Finished" THEN reports'[key] ELSE 0],
         \A k \in Keys \ {key} : jobs'[k] = jobs[k] /\ reports'[k] = reports[k]
  PROVE  [k \in Keys |-> Shown(k)]' = [[k \in Keys |-> Shown(k)] EXCEPT ![key] = j]
<1>1. Shown(key)' = j
  BY DEF Shown
<1>2. \A k \in Keys \ {key} : Shown(k)' = Shown(k)
  BY DEF Shown
<1> QED
  BY <1>1, <1>2

(* A status write under the lease starts an attempt or gives the verdict. *)
LEMMA WriteRefines ==
  ASSUME IInv, NEW w \in Workers, pc[w] = "write", MayUpdate(w),
         jobs' = [jobs EXCEPT ![msg[w]] = WithStatus(seen[w], goal[w])],
         UNCHANGED <<reports, retired>>
  PROVE  Lifecycle!Next
<1> DEFINE key == msg[w]
<1>1. /\ key \in Keys /\ jobs \in [Keys -> Job] /\ jobs[key] \in Job
      /\ jobs'[key] = WithStatus(jobs[key], goal[w])
      /\ \A k \in Keys \ {key} : jobs'[k] = jobs[k] /\ reports'[k] = reports[k]
  BY WriterKnows DEF IInv, TypeOK
<1>2. /\ jobs[key].status \in {"Queued", "Pending"}
      /\ \/ goal[w] = "Pending" /\ jobs[key].attempts < MaxAttempts
         \/ /\ goal[w] \in {"Finished", "Failed"} /\ jobs[key].status = "Pending"
            /\ goal[w] = "Finished" => reports[key] = jobs[key].attempts
  BY WriterKnows DEF Terminal
<1>3. Shown(key) = [status |-> jobs[key].status, attempts |-> jobs[key].attempts, report |-> 0]
  BY <1>1, <1>2 DEF Shown
<1>4. CASE goal[w] = "Pending"
  <2>1. [k \in Keys |-> Shown(k)]' =
          [[k \in Keys |-> Shown(k)] EXCEPT ![key] = [status |-> "Pending", attempts |-> jobs[key].attempts + 1, report |-> 0]]
    BY <1>1, <1>4, ShownAs DEF WithStatus
  <2>2. Lifecycle!Attempt(key)
    <3>1. /\ Shown(key).status \in {"Queued", "Pending"}
          /\ Shown(key).attempts = jobs[key].attempts /\ jobs[key].attempts < MaxAttempts
      BY <1>2, <1>3, <1>4
    <3>2. key \in Keys
      BY <1>1
    <3>3. UNCHANGED (retired \cap Keys)
      OBVIOUS
    <3>4. [k \in Keys |-> Shown(k)]' =
          [[k \in Keys |-> Shown(k)] EXCEPT ![key] =
             [status |-> "Pending", attempts |-> [k \in Keys |-> Shown(k)][key].attempts + 1,
              report |-> 0]]
      BY <2>1, <3>1, <3>2
    <3> QED
      BY <3>1, <3>2, <3>3, <3>4 DEF Lifecycle!Shows, Lifecycle!Attempt, Lifecycle!Open
  <2> QED
    BY <1>1, <2>2 DEF Lifecycle!Next
<1>5. CASE goal[w] = "Finished"
  <2>1. [k \in Keys |-> Shown(k)]' =
          [[k \in Keys |-> Shown(k)] EXCEPT ![key] = [status |-> "Finished", attempts |-> jobs[key].attempts, report |-> jobs[key].attempts]]
    BY <1>1, <1>2, <1>5, ShownAs DEF WithStatus
  <2>2. Lifecycle!Finish(key)
    <3>1. Shown(key).status = "Pending" /\ Shown(key).attempts = jobs[key].attempts
      BY <1>2, <1>3, <1>5
    <3>2. key \in Keys
      BY <1>1
    <3>3. UNCHANGED (retired \cap Keys)
      OBVIOUS
    <3>4. [k \in Keys |-> Shown(k)]' =
          [[k \in Keys |-> Shown(k)] EXCEPT ![key] =
             [status |-> "Finished", attempts |-> [k \in Keys |-> Shown(k)][key].attempts,
              report |-> [k \in Keys |-> Shown(k)][key].attempts]]
      BY <2>1, <3>1, <3>2
    <3> QED
      BY <3>1, <3>2, <3>3, <3>4 DEF Lifecycle!Shows, Lifecycle!Finish
  <2> QED
    BY <1>1, <2>2 DEF Lifecycle!Next
<1>6. CASE goal[w] = "Failed"
  <2>1. [k \in Keys |-> Shown(k)]' =
          [[k \in Keys |-> Shown(k)] EXCEPT ![key] = [status |-> "Failed", attempts |-> jobs[key].attempts, report |-> 0]]
    BY <1>1, <1>6, ShownAs DEF WithStatus
  <2>2. Lifecycle!Fail(key)
    <3>1. Shown(key).status = "Pending" /\ Shown(key).attempts = jobs[key].attempts
      BY <1>2, <1>3, <1>6
    <3>2. key \in Keys
      BY <1>1
    <3>3. UNCHANGED (retired \cap Keys)
      OBVIOUS
    <3>4. [k \in Keys |-> Shown(k)]' =
          [[k \in Keys |-> Shown(k)] EXCEPT ![key] = [status |-> "Failed", attempts |-> [k \in Keys |-> Shown(k)][key].attempts, report |-> 0]]
      BY <2>1, <3>1, <3>2
    <3> QED
      BY <3>1, <3>2, <3>3, <3>4 DEF Lifecycle!Shows, Lifecycle!Fail
  <2> QED
    BY <1>1, <2>2 DEF Lifecycle!Next
<1> QED
  BY <1>2, <1>4, <1>5, <1>6

(* A report stored ahead of its verdict is not shown. *)
LEMMA ReportRefines ==
  ASSUME IInv, NEW w \in Workers, pc[w] = "report", MayUpdate(w),
         UpdateReportScript(msg[w], seen[w].attempts), UNCHANGED <<jobs, retired>>
  PROVE  UNCHANGED Lifecycle!vars
<1>1. reports \in [Keys -> Nat] /\ msg[w] \in Keys /\ jobs[msg[w]].status = "Pending"
  BY ReporterKnows DEF IInv, TypeOK
<1>2. \A k \in Keys : Shown(k)' = Shown(k)
  BY <1>1 DEF Shown, UpdateReportScript
<1> QED
  BY <1>2 DEF Lifecycle!vars

(* An acknowledgement retires the job. *)
LEMMA AcknowledgeRefines ==
  ASSUME IInv, NEW w \in Workers, pc[w] = "ack", MayAcknowledge(w),
         AcknowledgeScript(msg[w]), UNCHANGED <<jobs, reports>>
  PROVE  Lifecycle!Next
<1>1. msg[w] \in Keys /\ jobs[msg[w]].status \in {"Finished", "Failed"}
  BY RetirerKnows DEF Terminal
<1>2. [k \in Keys |-> Shown(k)]' = [k \in Keys |-> Shown(k)]
  BY DEF Shown
<1>3. (retired \cap Keys)' = (retired \cap Keys) \cup {msg[w]}
  BY <1>1 DEF AcknowledgeScript
<1>4. Lifecycle!Retire(msg[w])
  BY <1>1, <1>2, <1>3 DEF Lifecycle!Retire, Lifecycle!Decided, Shown
<1> QED
  BY <1>1, <1>4 DEF Lifecycle!Next

(* Lost keys: the abstract job is gone with them. *)
LEMMA LossRefines ==
  ASSUME IInv, NEW S \in SUBSET Keys, \A k \in S : Exists(k),
         \A k \in Keys : /\ k \in S => jobs'[k] = [status |-> "Gone", attempts |-> 0]
                         /\ k \notin S => jobs'[k] = jobs[k] /\ (reports'[k] = reports[k] \/ ~Exists(k)),
         UNCHANGED retired
  PROVE  Lifecycle!Next
<1>1. \A k \in S : jobs[k].status \in {"Queued", "Pending", "Finished", "Failed"}
  BY DEF IInv, TypeOK, Exists, Job, Statuses
<1>2. \A k \in Keys : Shown(k)' = IF k \in S THEN [status |-> "Gone", attempts |-> 0, report |-> 0]
                                  ELSE Shown(k)
  BY DEF Shown, Exists
<1>3. [k \in Keys |-> Shown(k)]' =
        [k \in Keys |-> IF k \in S THEN [status |-> "Gone", attempts |-> 0, report |-> 0]
                       ELSE [x \in Keys |-> Shown(x)][k]]
  BY <1>2
<1>4. Lifecycle!Lose(S)
  BY <1>1, <1>3 DEF Lifecycle!Lose, Lifecycle!Open, Lifecycle!Decided, Lifecycle!Gone, Lifecycle!Shows, Shown
<1> QED
  BY <1>4 DEF Lifecycle!Next

(* Every step is one of ScanJob or leaves what is shown alone. *)
LEMMA RefinementStep ==
  ASSUME IInv, Next
  PROVE  Lifecycle!Next \/ UNCHANGED Lifecycle!vars
<1>a. ASSUME UNCHANGED <<jobs, reports, retired>> PROVE UNCHANGED Lifecycle!vars
  BY <1>a DEF Lifecycle!vars, Shown
<1>b. WorkTypeOK /\ StoreTypeOK
  BY DEF IInv, TypeOK, WorkTypeOK, StoreTypeOK
<1>1. ASSUME NEW w \in Workers, Boot(w)
      PROVE  Lifecycle!Next \/ UNCHANGED Lifecycle!vars
  BY <1>1, <1>a DEF Boot, storeVars
<1>2. ASSUME NEW w \in Workers, RecoverGroup(w)
      PROVE  Lifecycle!Next \/ UNCHANGED Lifecycle!vars
  BY <1>2, <1>a DEF RecoverGroup, storeVars
<1>3. ASSUME NEW w \in Workers, LeaveLoop(w)
      PROVE  Lifecycle!Next \/ UNCHANGED Lifecycle!vars
  BY <1>3, <1>a DEF LeaveLoop, storeVars
<1>4. ASSUME NEW w \in Workers, Exit(w)
      PROVE  Lifecycle!Next \/ UNCHANGED Lifecycle!vars
  BY <1>4, <1>a DEF Exit, storeVars
<1>5. ASSUME NEW w \in Workers, QuarantineUndecodable(w)
      PROVE  Lifecycle!Next \/ UNCHANGED Lifecycle!vars
  BY <1>5, <1>a DEF QuarantineUndecodable, storeVars
<1>6. ASSUME NEW w \in Workers, AcquireLease(w)
      PROVE  Lifecycle!Next \/ UNCHANGED Lifecycle!vars
  BY <1>6, <1>a DEF AcquireLease, storeVars
<1>7. ASSUME NEW w \in Workers, LeaseBusy(w)
      PROVE  Lifecycle!Next \/ UNCHANGED Lifecycle!vars
  BY <1>7, <1>a DEF LeaseBusy, storeVars
<1>8. ASSUME NEW w \in Workers, GetJob(w)
      PROVE  Lifecycle!Next \/ UNCHANGED Lifecycle!vars
  BY <1>8, <1>a DEF GetJob, storeVars
<1>9. ASSUME NEW w \in Workers, QuarantineMissing(w)
      PROVE  Lifecycle!Next \/ UNCHANGED Lifecycle!vars
  BY <1>9, <1>a DEF QuarantineMissing, storeVars
<1>10. ASSUME NEW w \in Workers, ReadJob(w)
      PROVE  Lifecycle!Next \/ UNCHANGED Lifecycle!vars
  BY <1>10, <1>a DEF ReadJob, storeVars
<1>11. ASSUME NEW w \in Workers, WriteJob(w)
      PROVE  Lifecycle!Next \/ UNCHANGED Lifecycle!vars
  <2>1. jobs' = [jobs EXCEPT ![msg[w]] = WithStatus(seen[w], goal[w])]
        /\ pc[w] = "write" /\ MayUpdate(w) /\ UNCHANGED <<reports, retired>>
    BY <1>11 DEF WriteJob, At, UpdateJobScript
  <2> QED
    BY <2>1, WriteRefines
<1>12. ASSUME NEW w \in Workers, ScanReports(w)
      PROVE  Lifecycle!Next \/ UNCHANGED Lifecycle!vars
  BY <1>12, <1>a DEF ScanReports, storeVars
<1>13. ASSUME NEW w \in Workers, ScanFails(w)
      PROVE  Lifecycle!Next \/ UNCHANGED Lifecycle!vars
  BY <1>13, <1>a DEF ScanFails, storeVars
<1>14. ASSUME NEW w \in Workers, ScanInterrupted(w)
      PROVE  Lifecycle!Next \/ UNCHANGED Lifecycle!vars
  BY <1>14, <1>a DEF ScanInterrupted, storeVars
<1>15. ASSUME NEW w \in Workers, WriteReport(w)
      PROVE  Lifecycle!Next \/ UNCHANGED Lifecycle!vars
  BY <1>15, ReportRefines DEF WriteReport, At
<1>16. ASSUME NEW w \in Workers, AckRead(w)
      PROVE  Lifecycle!Next \/ UNCHANGED Lifecycle!vars
  BY <1>16, <1>a DEF AckRead, storeVars
<1>17. ASSUME NEW w \in Workers, Acknowledge(w)
      PROVE  Lifecycle!Next \/ UNCHANGED Lifecycle!vars
  BY <1>17, AcknowledgeRefines DEF Acknowledge, At
<1>18. ASSUME NEW w \in Workers, Refused(w)
      PROVE  Lifecycle!Next \/ UNCHANGED Lifecycle!vars
  BY <1>18, <1>a DEF Refused, storeVars
<1>19. ASSUME NEW w \in Workers, ContextDone(w)
      PROVE  Lifecycle!Next \/ UNCHANGED Lifecycle!vars
  BY <1>19, <1>a DEF ContextDone, storeVars
<1>20. ASSUME NEW w \in Workers, ReleaseLease(w)
      PROVE  Lifecycle!Next \/ UNCHANGED Lifecycle!vars
  BY <1>20, <1>a DEF ReleaseLease, storeVars
<1>21. ASSUME NEW w \in Workers, Renew(w)
      PROVE  Lifecycle!Next \/ UNCHANGED Lifecycle!vars
  BY <1>21, <1>a DEF Renew, storeVars
<1>22. ASSUME NEW w \in Workers, LoseLease(w)
      PROVE  Lifecycle!Next \/ UNCHANGED Lifecycle!vars
  BY <1>22, <1>a DEF LoseLease, storeVars
<1>23. ASSUME NEW w \in Workers, CallFails(w)
      PROVE  Lifecycle!Next \/ UNCHANGED Lifecycle!vars
  BY <1>23, <1>a DEF CallFails, storeVars
<1>24. ASSUME NEW w \in Workers, ReplyLostLeasing(w)
      PROVE  Lifecycle!Next \/ UNCHANGED Lifecycle!vars
  BY <1>24, <1>a DEF ReplyLostLeasing, storeVars
<1>25. ASSUME NEW w \in Workers, ReplyLostWriting(w)
      PROVE  Lifecycle!Next \/ UNCHANGED Lifecycle!vars
  <2>1. CASE At(w, "write")
    <3>1. jobs' = [jobs EXCEPT ![msg[w]] = WithStatus(seen[w], goal[w])]
          /\ pc[w] = "write" /\ MayUpdate(w) /\ UNCHANGED <<reports, retired>>
      BY <1>25, <2>1 DEF ReplyLostWriting, At, UpdateJobScript
    <3> QED
      BY <3>1, WriteRefines
  <2>2. CASE At(w, "report")
    BY <1>25, <2>2, ReportRefines DEF ReplyLostWriting, At
  <2> QED
    BY <1>25, <2>1, <2>2 DEF ReplyLostWriting
<1>26. ASSUME NEW w \in Workers, ReplyLostRetiring(w)
      PROVE  Lifecycle!Next \/ UNCHANGED Lifecycle!vars
  <2>1. CASE At(w, "ack") /\ MayAcknowledge(w) /\ AcknowledgeScript(msg[w])
    BY <1>26, <2>1, AcknowledgeRefines DEF ReplyLostRetiring, At
  <2>2. CASE UNCHANGED retired
    BY <1>26, <1>a, <2>2 DEF ReplyLostRetiring
  <2> QED
    BY <1>26, <2>1, <2>2 DEF ReplyLostRetiring
<1>27. ASSUME NEW w \in Workers, Crash(w)
      PROVE  Lifecycle!Next \/ UNCHANGED Lifecycle!vars
  BY <1>27, <1>a DEF Crash, storeVars
<1>28. ASSUME NEW w \in Workers, Stop(w)
      PROVE  Lifecycle!Next \/ UNCHANGED Lifecycle!vars
  BY <1>28, <1>a DEF Stop, storeVars
<1>29. ASSUME NEW w \in Workers, PollEmpty(w)
      PROVE  Lifecycle!Next \/ UNCHANGED Lifecycle!vars
  BY <1>29, <1>a DEF PollEmpty, vars, storeVars
<1>30. ASSUME NEW w \in Workers, NEW d \in Deliveries, ClaimIdle(w, d)
      PROVE  Lifecycle!Next \/ UNCHANGED Lifecycle!vars
  BY <1>30, <1>a DEF ClaimIdle, Begin, storeVars
<1>31. ASSUME NEW w \in Workers, NEW d \in Deliveries, ReadNew(w, d)
      PROVE  Lifecycle!Next \/ UNCHANGED Lifecycle!vars
  BY <1>31, <1>a DEF ReadNew, Begin, storeVars
<1>32. ASSUME NEW w \in Workers, NEW d \in Deliveries, ReplyLostReading(w, d)
      PROVE  Lifecycle!Next \/ UNCHANGED Lifecycle!vars
  BY <1>32, <1>a DEF ReplyLostReading, storeVars
<1>33. ASSUME NEW w \in Workers, NEW c \in Workers, CleanIdle(w, c)
      PROVE  Lifecycle!Next \/ UNCHANGED Lifecycle!vars
  BY <1>33, <1>a DEF CleanIdle, storeVars
<1>34. ASSUME NEW k \in Keys, Enqueue(k)
      PROVE  Lifecycle!Next \/ UNCHANGED Lifecycle!vars
  <2>1. /\ jobs[k] = [status |-> "New", attempts |-> 0]
        /\ jobs' = [jobs EXCEPT ![k] = [status |-> "Queued", attempts |-> 0]]
        /\ UNCHANGED <<reports, retired>>
    <3>1. jobs[k] \in Job /\ jobs[k].status = "New" /\ jobs[k].attempts = 0
      BY <1>34, <1>b DEF StoreTypeOK, IInv, JobConsistent, Enqueue
    <3> QED
      BY <1>34, <3>1 DEF Job, Enqueue, EnqueueScript
  <2>2. [x \in Keys |-> Shown(x)]' =
          [[x \in Keys |-> Shown(x)] EXCEPT ![k] = [status |-> "Queued", attempts |-> 0, report |-> 0]]
    BY <1>b, <2>1, ShownAs DEF StoreTypeOK
  <2>3. Shown(k) = [status |-> "New", attempts |-> 0, report |-> 0]
    BY <2>1 DEF Shown
  <2>4. Lifecycle!Accept(k)
    BY <2>1, <2>2, <2>3 DEF Lifecycle!Accept, Lifecycle!New, Lifecycle!Shows, Lifecycle!Queued
  <2> QED
    BY <2>4 DEF Lifecycle!Next
<1>35. ASSUME NEW k \in Keys, StaleExpires(k)
      PROVE  Lifecycle!Next \/ UNCHANGED Lifecycle!vars
  BY <1>35, <1>a DEF StaleExpires, storeVars
<1>36. ASSUME NEW k \in Keys, RetentionExpires(k)
      PROVE  Lifecycle!Next \/ UNCHANGED Lifecycle!vars
  <2>1. k \in retired /\ jobs[k].status \in {"Finished", "Failed", "Gone"}
    BY <1>36 DEF RetentionExpires, IInv, RetentionAfterRetirement, RetiredIsSettled, Terminal
  <2>2. [x \in Keys |-> Shown(x)]' =
          [[x \in Keys |-> Shown(x)] EXCEPT ![k] = [status |-> "Gone", attempts |-> 0, report |-> 0]]
    BY <1>36, <1>b, ShownAs DEF RetentionExpires, StoreTypeOK
  <2>3. CASE jobs[k].status = "Gone"
    <3>1. Shown(k) = [status |-> "Gone", attempts |-> 0, report |-> 0]
      BY <2>3 DEF IInv, JobConsistent, Shown
    <3> QED
      BY <1>36, <2>2, <3>1 DEF RetentionExpires, Lifecycle!vars
  <2>4. CASE jobs[k].status \in {"Finished", "Failed"}
    <3>1. Lifecycle!Expire(k)
      BY <1>36, <2>1, <2>2, <2>4 DEF RetentionExpires, Lifecycle!Expire, Lifecycle!Decided, Lifecycle!Gone, Lifecycle!Shows, Shown
    <3> QED
      BY <3>1 DEF Lifecycle!Next
  <2> QED
    BY <2>1, <2>3, <2>4
<1>37. ASSUME NEW k \in Keys, LeaseLapses(k)
      PROVE  Lifecycle!Next \/ UNCHANGED Lifecycle!vars
  BY <1>37, <1>a DEF LeaseLapses, storeVars
<1>38. ASSUME NEW k \in Keys, JobEvicted(k)
      PROVE  Lifecycle!Next \/ UNCHANGED Lifecycle!vars
  <2>1. /\ {k} \in SUBSET Keys /\ Exists(k) /\ UNCHANGED <<reports, retired>>
        /\ \A x \in Keys : jobs'[x] = IF x = k THEN [status |-> "Gone", attempts |-> 0] ELSE jobs[x]
    BY <1>38, <1>b DEF JobEvicted, StoreTypeOK
  <2> QED
    BY <2>1, LossRefines
<1>39. ASSUME GroupLost
      PROVE  Lifecycle!Next \/ UNCHANGED Lifecycle!vars
  BY <1>39, <1>a DEF GroupLost, storeVars
<1>40. ASSUME BackendFlushed
      PROVE  Lifecycle!Next \/ UNCHANGED Lifecycle!vars
  <2> DEFINE S == {x \in Keys : Exists(x)}
  <2>1. /\ S \in SUBSET Keys /\ UNCHANGED retired
        /\ \A x \in Keys : jobs'[x] = IF x \in S THEN [status |-> "Gone", attempts |-> 0] ELSE jobs[x]
    BY <1>40 DEF BackendFlushed
  <2> QED
    BY <2>1, LossRefines
<1> QED
  BY <1>1, <1>2, <1>3, <1>4, <1>5, <1>6, <1>7, <1>8, <1>9, <1>10, <1>11, <1>12, <1>13, <1>14, <1>15, <1>16, <1>17, <1>18, <1>19, <1>20, <1>21, <1>22, <1>23, <1>24, <1>25, <1>26, <1>27, <1>28, <1>29, <1>30, <1>31, <1>32, <1>33, <1>34, <1>35, <1>36, <1>37, <1>38, <1>39, <1>40
  DEF Next, Serve, WorkerStep, Heartbeat, Environment

(* Jobs live the life ScanJob promises. *)
THEOREM Refinement == Spec => ImplementsScanJob
<1>1. Init => Lifecycle!Init
  <2> SUFFICES ASSUME Init PROVE Lifecycle!Init
    OBVIOUS
  <2>1. \A k \in Keys : Shown(k) = [status |-> "New", attempts |-> 0, report |-> 0]
    BY DEF Init, Blank, Shown
  <2> QED
    BY <2>1 DEF Init, Lifecycle!Init, Lifecycle!New, Lifecycle!Shows
<1>2. IInv /\ [Next]_vars => [Lifecycle!Next]_(Lifecycle!vars)
  <2>1. ASSUME UNCHANGED vars PROVE UNCHANGED Lifecycle!vars
    BY <2>1 DEF vars, storeVars, Lifecycle!vars, Shown
  <2> QED
    BY <2>1, RefinementStep
<1> QED
  BY <1>1, <1>2, Invariant, PTL DEF Spec, Lifecycle!Spec, ImplementsScanJob
=============================================================================

------------------------------ MODULE ScanJob ------------------------------
(***************************************************************************)
(* What the adapter promises of one accepted scan job, without streams,    *)
(* leases or workers (docs/SCALING.md, "Delivery and recovery"): a bounded *)
(* number of attempts, one verdict, a report that appears together with    *)
(* the Finished verdict and belongs to the attempt that earned it, and     *)
(* retention only after the verdict was retired.                           *)
(***************************************************************************)
EXTENDS Naturals

CONSTANTS Keys, MaxAttempts

VARIABLES
  job,     \* key -> status, attempts and the attempt whose report is served
  settled  \* keys whose delivery was retired

vars == <<job, settled>>

Shows(s, attempts, report) == [status |-> s, attempts |-> attempts, report |-> report]
New    == Shows("New", 0, 0)
Queued == Shows("Queued", 0, 0)
Gone   == Shows("Gone", 0, 0)

Open(k)    == job[k].status \in {"Queued", "Pending"}
Decided(k) == job[k].status \in {"Finished", "Failed"}

Init == /\ job = [k \in Keys |-> New]
        /\ settled = {}

Accept(k) == /\ job[k] = New
             /\ job' = [job EXCEPT ![k] = Queued]
             /\ UNCHANGED settled

Attempt(k) == /\ Open(k) /\ job[k].attempts < MaxAttempts
              /\ job' = [job EXCEPT ![k] = Shows("Pending", @.attempts + 1, 0)]
              /\ UNCHANGED settled

Finish(k) == /\ job[k].status = "Pending"
             /\ job' = [job EXCEPT ![k] = Shows("Finished", @.attempts, @.attempts)]
             /\ UNCHANGED settled

Fail(k) == /\ job[k].status = "Pending"
           /\ job' = [job EXCEPT ![k] = Shows("Failed", @.attempts, 0)]
           /\ UNCHANGED settled

Retire(k) == /\ Decided(k)
             /\ settled' = settled \cup {k}
             /\ UNCHANGED job

(* Retention ends: only a retired job disappears. *)
Expire(k) == /\ k \in settled /\ Decided(k)
             /\ job' = [job EXCEPT ![k] = Gone]
             /\ UNCHANGED settled

(* The storage may lose jobs, never bring back or alter one. *)
Lose(S) == /\ \A k \in S : Open(k) \/ Decided(k)
           /\ job' = [k \in Keys |-> IF k \in S THEN Gone ELSE job[k]]
           /\ UNCHANGED settled

Next == \/ \E k \in Keys : \/ Accept(k) \/ Attempt(k) \/ Finish(k)
                           \/ Fail(k) \/ Retire(k) \/ Expire(k)
        \/ \E S \in SUBSET Keys : Lose(S)

Spec == Init /\ [][Next]_vars
=============================================================================

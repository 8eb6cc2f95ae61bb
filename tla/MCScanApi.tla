----------------------------- MODULE MCScanApi -----------------------------
(* ScanApi with requests for all the keys. *)
EXTENDS ScanApi, TLC

AllKeys == [r \in Requests |-> Keys]
WorkerSymmetry == Permutations(Workers)
KeyAndWorkerSymmetry == Permutations(Workers) \cup Permutations(Keys)
=============================================================================

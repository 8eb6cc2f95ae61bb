----------------------------- MODULE MCDelivery -----------------------------
(* Delivery on small sets of keys and workers. *)
EXTENDS Delivery, TLC

WorkerSymmetry == Permutations(Workers)
KeyAndWorkerSymmetry == Permutations(Workers) \cup Permutations(Keys)
=============================================================================

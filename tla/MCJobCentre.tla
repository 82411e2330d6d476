---------------------------- MODULE MCJobCentre ----------------------------
(* Small instances of JobCentre. *)
EXTENDS JobCentre, TLC

ClientSymmetry == Permutations(Clients)
ClientQueueSymmetry == Permutations(Clients) \cup Permutations(Queues)
=============================================================================

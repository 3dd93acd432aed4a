----------------------------- MODULE MCJobQueue -----------------------------
(***************************************************************************)
(* Instances of JobQueue for TLC: two loops of one replica, which share a  *)
(* lease owner, over jobs of which two compete for one deduplication key.  *)
(***************************************************************************)
EXTENDS JobQueue

CONSTANTS j1, j2, w1, w2, k

MCKeyOf == [j \in JobIds |-> k]
MCOwnerOf == [w \in Workers |-> "replica"]
MCOwners == {"replica"}
MCDelays == {0, 1}
=============================================================================

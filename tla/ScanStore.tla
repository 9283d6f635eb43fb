------------------------------ MODULE ScanStore ------------------------------
(***************************************************************************)
(* What fragdb promises of its database, without transactions and locks:   *)
(* a scan replaces the results of the scan before as a whole or leaves     *)
(* them as they are, and its exit status says which of the two it did.     *)
(***************************************************************************)
CONSTANTS
  Procs,  \* runs of fragdb
  Walks   \* results a scan may come to, each a set of rows

VARIABLES
  results,  \* what a report would list
  fate      \* what has become of each scan

storeVars == <<results, fate>>

Init ==
  /\ results \in Walks
  /\ fate = [p \in Procs |-> "running"]

Becomes(p, from, to) ==
  /\ fate[p] = from
  /\ fate' = [fate EXCEPT ![p] = to]

Store(p) == Becomes(p, "running", "stored") /\ results' \in Walks

Succeed(p) == Becomes(p, "stored", "succeeded") /\ UNCHANGED results

Fail(p) == Becomes(p, "running", "failed") /\ UNCHANGED results

Next == \E p \in Procs : Store(p) \/ Succeed(p) \/ Fail(p)

Spec == Init /\ [][Next]_storeVars
=============================================================================

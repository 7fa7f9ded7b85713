--------------------------- MODULE MCLockManager ---------------------------
(* Finite instances of LockManager. *)
EXTENDS LockManager, TLC

(* One request of any mode on any resource. *)
MCSingles == {{<<r, m>>} : r \in Resource, m \in Mode}

(* Single requests, two groups that share both resources in different      *)
(* modes, and one that names a resource twice.                             *)
MCRequests ==
    MCSingles \cup {{<<2, "EXCLUSIVE">>, <<1, "EXCLUSIVE">>},
                    {<<1, "SHARED">>, <<2, "EXCLUSIVE">>},
                    {<<1, "SHARED">>, <<1, "EXCLUSIVE">>}}

MCSymmetry == Permutations(Txn)
============================================================================

---------------------------- MODULE MCThreadPool ----------------------------
(* TLC instances of ThreadPool. *)
EXTENDS ThreadPool, TLC

(* Threads and jobs are interchangeable (safety runs only).                *)
Symmetry ==
    Permutations(Workers) \cup Permutations(Jobs) \cup Permutations(Clients)
=============================================================================

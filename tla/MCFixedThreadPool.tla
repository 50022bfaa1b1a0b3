--------------------------- MODULE MCFixedThreadPool ---------------------------
(* TLC instances of FixedThreadPool. *)
EXTENDS FixedThreadPool, TLC

(* A small pool with an unbounded queue, and one that is large enough to   *)
(* do without local queues, with room for one job.                         *)
SmallOrBounded == {<<TRUE, Unbounded>>, <<FALSE, 1>>}

(* Threads and jobs are interchangeable.                                   *)
Symmetry ==
    Permutations(Workers) \cup Permutations(Jobs) \cup Permutations(Clients)
=============================================================================

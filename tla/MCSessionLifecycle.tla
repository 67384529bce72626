------------------------- MODULE MCSessionLifecycle -------------------------
(* Instances of SessionLifecycle for TLC.                                  *)
EXTENDS SessionLifecycle, TLC

MCSymmetry == Permutations(Requests) \cup Permutations(Sessions)

\* A request that is done uses none of its variables again.
MCView == <<memoryVars, durableVars, historyVars,
            [r \in Requests |->
               IF pc[r] = "done" THEN "done"
               ELSE <<pc[r], op[r], on[r], stage[r], seen[r], snap[r], turn[r]>>]>>

=============================================================================

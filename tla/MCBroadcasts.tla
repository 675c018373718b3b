------------------------------- MODULE MCBroadcasts -------------------------------
(* Instances of Broadcasts for TLC. *)
EXTENDS Broadcasts, TLC
CONSTANTS b1, t1, t2, all, some, p1, p2, ann, c1, c2, r1, r2

Symmetry == Permutations({t1, t2}) \cup Permutations({all, some}) \cup Permutations({p1, p2})
              \cup Permutations({c1, c2}) \cup Permutations({r1, r2})
===================================================================================

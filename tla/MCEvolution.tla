---------------------------- MODULE MCEvolution ----------------------------
(* Two callers, three candidate versions and none at the start, a window of two
   sessions and evidence for each branch of the verdict. *)
EXTENDS Evolution, TLC
CONSTANTS v1, v2, v3, c1, c2
MCVersions == {v1, v2, v3}
MCEvidence == { [n |-> 0, ev |-> 0, base |-> 0, fuse |-> FALSE, viol |-> FALSE],
                [n |-> 2, ev |-> -3, base |-> 0, fuse |-> FALSE, viol |-> FALSE],
                [n |-> 2, ev |-> -1, base |-> 0, fuse |-> FALSE, viol |-> FALSE],
                [n |-> 2, ev |-> -1, base |-> -1, fuse |-> FALSE, viol |-> FALSE],
                [n |-> 0, ev |-> 0, base |-> 0, fuse |-> TRUE, viol |-> FALSE],
                [n |-> 2, ev |-> 5, base |-> 9, fuse |-> FALSE, viol |-> TRUE] }
Symmetry == Permutations({v1, v2, v3}) \cup Permutations({c1, c2})
=============================================================================

----------------------------- MODULE MCApproval -----------------------------
(* Two requests, of two exemptions and a capability, two threads of each
   kind, a quota of one and a day as the unit of time. *)
EXTENDS Approval, TLC
CONSTANTS r1, r2, s1, s2, d1, d2
MCPayloads == { [type |-> "exemption", value |-> "ST"], [type |-> "exemption", value |-> "new"],
                [type |-> "capability", value |-> "k"] }
Symmetry == Permutations({r1, r2}) \cup Permutations({s1, s2}) \cup Permutations({d1, d2})
=============================================================================

---------------------------- MODULE MCKnowledge ----------------------------
(* One row, one positive entry and a tag that may be merged into it.        *)
EXTENDS Knowledge
CONSTANTS named, free
MCName == [e \in Entries |-> named]
=============================================================================

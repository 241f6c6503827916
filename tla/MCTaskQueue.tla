---------------------------- MODULE MCTaskQueue ----------------------------
(* Three tasks, two of them heavy, two claimed at a time by two threads. *)
EXTENDS TaskQueue, TLC
CONSTANTS a, b, c
MCTasks == {a, b, c}
MCHeavy == {a, b}
MCPriority == a :> 4 @@ b :> 6 @@ c :> 7
=============================================================================

SPECIFICATION Spec
CONSTANTS
    a = a
    b = b
    c = c
    None = None
    Tasks <- MCTasks
    Heavy <- MCHeavy
    Asking = {a}
    Priority <- MCPriority
    Limit = 2
    Threads = {"tick", "route"}
    MaxTime = 2
INVARIANTS
    OneRunner
    NoOrphan
 

SPECIFICATION Spec
CONSTANTS
  Rows = {r1}
  named = named
  free = free
  Keys = {named, free}
  NoKey = nokey
  N = 2
  MaxDay = 3
  MaxStarts = 2
  Entries = {e1}
  Name <- MCName
  Pitfalls = {}
  Clients = {u1}
  MaxCards = 1
  NoEntry = noentry
INVARIANTS
    WindowIsForward
    DispatchIsKept
    EvidenceIsReal
CHECK_DEADLOCK FALSE

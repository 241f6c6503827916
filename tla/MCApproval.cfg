SPECIFICATION Spec
CONSTANTS
    r1 = r1
    r2 = r2
    s1 = s1
    s2 = s2
    d1 = d1
    d2 = d2
    NoPayload = NoPayload
    Requests = {r1, r2}
    Payloads <- MCPayloads
    Capabilities = {"k"}
    Submitters = {s1, s2}
    Deciders = {d1, d2}
    PendingLimit = 1
    Cooldown = 1
    Expiry = 0
    MaxTime = 1
INVARIANTS
    NothingGrantedIsLost
    QuotaOverrun
PROPERTIES
    ImplementsAccountConfig
SYMMETRY Symmetry

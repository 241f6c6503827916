SPECIFICATION ReplaySpec
CONSTANTS
    NSamples = 3
    Fee <- MCFee
    Cases <- MCCases
INVARIANTS
    ReplayMatchesRules
CHECK_DEADLOCK FALSE

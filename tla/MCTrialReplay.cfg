SPECIFICATION TrialSpec
CONSTANTS
  Agents = {a1, a2}
  Nobody = nobody
  Window = 2
  FirstDay = 3
  LastDay = 4
  MaxRestarts = 2
INVARIANTS
    SessionsAreHonest
    LaunchStandsOnEvidence
    PreviewTellsTheGate
PROPERTIES
    ReplayCompletes
CHECK_DEADLOCK FALSE

SPECIFICATION Spec
CONSTANTS
  Symbols = {s1}
  Sources = {t1, t2}
  None = none
  MaxDay = 2
  MaxRestarts = 1
  LastAsked = 1
  MaxPeeks = 1
INVARIANTS
    OneSourceADay
    GapsAreMarked
    OfficialUnlessPeeked
CHECK_DEADLOCK FALSE
SYMMETRY Symmetry

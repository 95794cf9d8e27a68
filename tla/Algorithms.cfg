SPECIFICATION Spec
CONSTANTS
  Bad = Bad
  Absent = Absent
  MaxHistory = 3
  MaxLogLines = 3
  MaxRecords = 4
  MaxEntries = 2
  MaxRuns = 2
  MaxChanges = 2
  MaxComposites = 2
INVARIANTS
  
  UnionIsSound
  GainIsExact
  
  ReadsAreFaithful
  ReviewIsTruthful
  ComparisonIsHonest
  CompositeIsSound
CHECK_DEADLOCK FALSE

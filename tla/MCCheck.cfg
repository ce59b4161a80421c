SPECIFICATION CheckSpec
CONSTANTS
  m1 = m1
  m2 = m2
  m3 = m3
  w1 = w1
  w2 = w2
  Nobody = Nobody
  Jobs <- ThreeJobs
  Workers <- TwoWorkers
CHECK_DEADLOCK FALSE
INVARIANTS
  LogMatchesRuns
  RunsAttended
PROPERTIES
  Ends

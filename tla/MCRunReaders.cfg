SPECIFICATION ReadersSpec
CONSTANTS
  r1 = r1  r2 = r2  q1 = q1  o1 = o1  o2 = o2
  Runs = {r1, r2}
  Readers = {q1}
  PageSize = 1
  Times = {1, 2}
  MaxNumber = 2
  GraphKinds = {"node"}
  WatchedRuns = {r1, r2}
  Clients = {o1, o2}
  MaxMishaps = 1
  MaxQuestions = 2
  MaxSteps = 5
SYMMETRY MCSymmetry
CHECK_DEADLOCK FALSE
INVARIANTS ReadersTypeOK DetailTellsOutcome ReplayMissesNothing PagesMissOnlyTied StatisticsAddUp
  NoEmptyEntry NoGhosts AnnouncedIsRegistered

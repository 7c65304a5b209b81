SPECIFICATION Spec
CONSTANTS
  p1 = p1
  p2 = p2
  c1 = c1
  c2 = c2
  c3 = c3
  v1 = v1
  v2 = v2
  Normal = Normal
  Farm = Farm
  Ring = Ring
  k1 = k1
  k2 = k2
  k3 = k3
  k4 = k4
  u = u
  w = w
  s1 = s1
  s2 = s2
  None = None
  Nothing = Nothing
  NoRing = NoRing
  NoCut = NoCut
  NoTask = NoTask
  NoPolicy = NoPolicy
  Pending = Pending
  Invocations = {p1, p2}
  Configs = {c1, c2, c3}
  VersionOf <- MCVersionOf
  Drawn <- MCDrawn
  Expected <- MCExpected
  Tolerance = 1
  MaxFaults = 2
  Launches <- MCLaunches
  TrainShare = 60
  ValidationShare = 20
  AbuseScenarios = {Farm, Ring}
  Trainings = {1, 2, 3}
  MaxDeaths = 1
  Jobs <- MCJobs
  Codes = {s1, s2}
  MaxScore = 6
  Tasks <- MCTasks
INVARIANTS RunsTellTheTruth SelectionsAreBest ReadingsExplained PolicyOptimal
CHECK_DEADLOCK FALSE

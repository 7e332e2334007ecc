CONSTANTS
  j1 = j1  j2 = j2  j3 = j3
  b1 = b1  b2 = b2
  t1 = t1  t2 = t2  t3 = t3
  Jobs = {j1, j2}
  ProcOf <- TwoProcesses
  Bases = {b1}
  MaxIndex = 2
  MaxVolumes = 2
  Tokens = {t1, t2}
  StagingAttempts = 1
  UserNames <- Nowhere
  InitialNames <- Nowhere
  NoToken = NoToken
  User = User
  Nobody = Nobody
SPECIFICATION Spec
SYMMETRY TokenSymmetry
PROPERTY ExistingKept
CHECK_DEADLOCK FALSE

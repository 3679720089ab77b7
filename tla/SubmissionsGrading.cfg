SPECIFICATION GradingSpec
CONSTANTS
  ann = ann
  bob = bob
  eve = eve
  red = red
  blue = blue
  warmup = warmup
  final = final
  k1 = k1
  k2 = k2
  right = right
  wrong = wrong
  r1 = r1
  r2 = r2
  r3 = r3
  NoTeam = NoTeam
  Users <- MCUsers
  Teams <- MCTeams
  Challenges = {warmup, final}
  Keys = {k1, k2}
  Flags = {right, wrong}
  Requests <- MCRequests
  Calls <- GradingCalls
  Settings <- GradingSettings
  RegexChallenges = {warmup}
  MaxChallengeAttempts = 2
  MaxTeamEventAttempts = 2
CONSTRAINT GradingArrivals
SYMMETRY Symmetry
INVARIANTS
  BackstopsUnused
  GradedOnce
  NoCircularWait
PROPERTIES
  LedgerImplemented
CHECK_DEADLOCK FALSE

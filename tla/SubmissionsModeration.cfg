SPECIFICATION ModerationSpec
CONSTANTS
  ann = ann
  bob = bob
  eve = eve
  red = red
  blue = blue
  warmup = warmup
  final = final
  k1 = k1
  k2 = k2
  right = right
  wrong = wrong
  r1 = r1
  r2 = r2
  r3 = r3
  NoTeam = NoTeam
  Users = {ann}
  Teams = {red}
  Challenges = {warmup, final}
  Keys = {k1}
  Flags = {right, wrong}
  Requests <- MC2Requests
  Calls <- ModerationCalls
  Settings <- ModerationSettings
  RegexChallenges = {}
  MaxChallengeAttempts = 2
  MaxTeamEventAttempts = 2
SYMMETRY Symmetry
INVARIANTS
  TypeOK
PROPERTIES
  LedgerImplemented
  StoredByTheEntitled
CHECK_DEADLOCK FALSE

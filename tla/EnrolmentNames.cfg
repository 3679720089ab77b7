SPECIFICATION Spec
CONSTANTS
  red = red
  c1 = c1
  x = x
  NoTeam = NoTeam
  NoCode = NoCode
  Users = {3, 4}
  Admins = {}
  Codes = {c1}
  Names = {x}
  Requests = {1, 2}
  Calls <- TwoCreations
  FirstTeams = {red}
  Worlds <- TwoAlone
  Submitted = {}
  MaxUses <- MCMaxUses
  MaxMembers = 2
  MaxChanges = 2
  MaxParticipants = 4
CHECK_DEADLOCK FALSE
INVARIANT
  IndexesAreBackstops

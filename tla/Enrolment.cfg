SPECIFICATION MCSpec
CONSTANTS
  red = red
  c1 = c1
  x = x
  NoTeam = NoTeam
  NoCode = NoCode
  Users <- MCUsers
  Admins = {}
  Codes = {c1}
  Names = {x}
  Requests <- MCRequests
  Calls <- Call
  FirstTeams = {red}
  Worlds <- MCWorlds
  Submitted = {}
  MaxUses <- MCMaxUses
  MaxMembers = 2
  MaxChanges = 2
  MaxParticipants = 4
CONSTRAINT FewInterventions
CHECK_DEADLOCK FALSE
INVARIANTS
  TypeOK
  SeatsAndUsesCapped
  IndividualsAlone
  RemovedStayOut
  ChangesCapped
  NobodyStuck
  NoCircularWait
PROPERTIES
  RosterImplemented
  EnrolledByTheEntitled

SPECIFICATION Spec
CONSTANTS
  ann = ann
  old = old
  new = new
  c1 = c1
  c2 = c2
  r1 = r1
  r2 = r2
  r3 = r3
  Users <- MCUsers
  Words = {old, new}
  Requests <- MCRequests
  Calls <- MCCalls
  Opened <- MCOpened
  FirstWord <- MCFirstWord
  MaxSessions = 2
  MaxTries = 2
SYMMETRY Symmetry
CHECK_DEADLOCK FALSE
INVARIANTS
  TypeOK
  NoWithdrawnPassword
  NoSessionOfTheSuspended
  SessionsCapped
  LoggedOut
  JournalCounts
PROPERTY NoPasswordRestored

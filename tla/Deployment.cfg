SPECIFICATION Spec
CONSTANTS
  Local = {backend}
  Pinned = {postgres}
  Jobs = {j1, j2}
  NoJob = NoJob
  None = None
  LastSource = 1
  MaxDisturbances = 3
SYMMETRY JobSymmetry
INVARIANTS
  TypeOK
  ApprovalStands
  NothingUnapprovedLeftRunning
PROPERTIES
  PublishedIsOfOneSource
  SuccessIsExact
CHECK_DEADLOCK FALSE

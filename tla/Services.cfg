SPECIFICATION MCSpec
CONSTANTS
  u1 = u1
  u2 = u2
  c1 = c1
  c2 = c2
  k1 = k1
  Users = {u1, u2}
  NoUser = NoUser
  Askers <- MCAskers
  MaxRequests = 2
  MaxRestarts = 1
  DiskErrors = TRUE
  Calls = {1, 2, 3}
  p1 = p1
  p2 = p2
  v1 = v1
  Pausers = {p1, p2}
  Viewers = {v1}
  MaxPrompts = 4
  MaxPauses = 2
  MaxUploads = 0
  Edits = {TRUE, FALSE}
  Batch = 2
  Haste = {"slow_start", "quick_next", "late_answer", "deadline"}
  Faults = {"interrupt", "exit", "reject"}
INVARIANTS AnswerHonoured Serialized 
PROPERTIES ApprovedByOwner  ServicesEnd
CHECK_DEADLOCK FALSE

SPECIFICATION LiveSpec
CONSTANTS
  c1 = c1
  c2 = c2
  m1 = m1
  Chats = {c1, c2}
  MaxJobs = 2
  Batch = 1
  Commands = {"pause", "resume"}
  MaxCommands = 3
  Preemptions = {}
  MaxPreempts = 0
  Failures = {}
  Messages = {m1}
PROPERTY MessageHandled
CHECK_DEADLOCK FALSE

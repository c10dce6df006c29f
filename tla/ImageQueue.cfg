SPECIFICATION LiveSpec
CONSTANTS
  c1 = c1
  c2 = c2
  m1 = m1
  Chats = {c1, c2}
  MaxJobs = 2
  Batch = 2
  Commands = {"pause", "resume", "cancel"}
  MaxCommands = 2
  Preemptions = {"poll"}
  MaxPreempts = 1
  Failures = {"image", "release"}
  Messages = {m1}
 
PROPERTIES  ImagesEnd
CHECK_DEADLOCK FALSE

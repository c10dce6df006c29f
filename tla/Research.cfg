SPECIFICATION MCSpec
CONSTANTS
  ExpertChats = {c1, c2}
  MidloopQuestions = TRUE
  MaxSessions = 2
  MaxResearches = 2
  SessionRounds = 1
  Pages = {p1}
  SourceLimit = 1
  Rounds = 2
  MaxDebates = 1
  MaxRevisions = 1
  MaxFailures = 1
INVARIANTS ResearchSound DebateSound
PROPERTIES ResearchEnds DebateEnds
CHECK_DEADLOCK FALSE

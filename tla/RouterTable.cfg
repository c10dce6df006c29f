SPECIFICATION Spec
CONSTANTS
    Clients = {h1, h2}
    MaxJobs = 2
    MaxAttempts = 2
    MaxChunks = 0
    MaxCrashes = 1
    portal_interactive = portal_interactive
    emerychat_content = emerychat_content
    Callers = {portal_interactive, emerychat_content}
    InteractiveType = {portal_interactive}
    Interactive = {portal_interactive}
    Policy <- MCPolicy
    Keys = {k}
    NoKey = NoKey
    Modes = {"async"}
    ImageBroker = TRUE
    Faults = {"refused", "answer_lost"}
    Free = Free
SYMMETRY Symmetry
INVARIANTS WorkerOwnsRunning
    CancelHonoured 
PROPERTY JobPromise
CHECK_DEADLOCK FALSE

SPECIFICATION FairSpec
CONSTANTS
    Clients = {h1}
    MaxJobs = 2
    MaxAttempts = 2
    MaxChunks = 1
    MaxCrashes = 1
    portal_interactive = portal_interactive
    emerychat_content = emerychat_content
    Callers = {portal_interactive, emerychat_content}
    InteractiveType = {portal_interactive}
    Interactive = {portal_interactive}
    Policy <- MCPolicy
    Keys = {}
    NoKey = NoKey
    Modes = {"async", "stream", "sync"}
    ImageBroker = TRUE
    Faults = {"refused"}
    Free = Free
PROPERTIES JobEnds HoldReleased
CHECK_DEADLOCK FALSE

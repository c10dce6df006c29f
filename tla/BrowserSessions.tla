--------------------------- MODULE BrowserSessions ---------------------------
(***************************************************************************)
(* Logical browser sessions and the Chromium process behind each one       *)
(* (emery/browser_sessions.py, IsolatedChromium and its adapter in         *)
(* emery/browser_control.py): calls of the owner, the reaper of expired    *)
(* sessions, and close_browser, which closes all of them.                  *)
(*                                                                         *)
(* A Chromium is the number of its launch, which also stands for its       *)
(* port; the tabs of one Chromium are not told apart.  The profile is      *)
(* unique by construction and left out, as is the durable binding.         *)
(***************************************************************************)
EXTENDS Naturals, Sequences, FiniteSets, SequencesExt

CONSTANTS
    Browsers,       \* ids of sessions
    MaxBrowsers,    \* max_sessions
    MaxLaunches     \* bound: Chromium processes launched for each session

ASSUME BrowserAssumption == MaxBrowsers \in Nat \ {0} /\ MaxLaunches \in [Browsers -> Nat]

VARIABLES
    browser,    \* a BrowserSession: its state, whether its time is over, tabs
    chrome,     \* IsolatedChromium: the process and endpoint it knows, 0 for none
    launches,   \* the session each Chromium was launched for
    alive,      \* Chromium processes that run
    isolated,   \* _isolated_endpoints
    targets,    \* _isolated_target_endpoints
    owned,      \* _isolated_target_owners
    ownerCall,       \* the owner's call of a session
    shut,       \* close_session of a session
    reaper,     \* the sessions the reaper found expired, and whether it runs
    raced       \* sessions that were closed while a call ran, or whose closing was cut short

browserVars == <<browser, chrome, launches, alive, isolated, targets, owned, ownerCall, shut, reaper, raced>>

NoCall == [at |-> "idle", kind |-> "list", endpoint |-> 0]
NoShut == [at |-> "none", endpoint |-> 0]

BrowserInit ==
    /\ browser = [s \in Browsers |-> [state |-> "none", over |-> "no", tabs |-> {}]]
    /\ chrome = [s \in Browsers |-> [process |-> 0, endpoint |-> 0]]
    /\ launches = <<>> /\ alive = {} /\ isolated = {} /\ targets = {} /\ owned = {} /\ raced = {}
    /\ ownerCall = [s \in Browsers |-> NoCall] /\ shut = [s \in Browsers |-> NoShut]
    /\ reaper = [runs |-> FALSE, found |-> <<>>, closes |-> FALSE]

Live(s) == browser[s].state = "live"

-----------------------------------------------------------------------------
(* Sessions and time *)

StartBrowser(s) ==
    /\ browser[s].state = "none" /\ Cardinality({x \in Browsers : Live(x)}) < MaxBrowsers
    /\ browser' = [browser EXCEPT ![s].state = "live"]
    /\ reaper' = [reaper EXCEPT !.runs = TRUE]    \* start_cleanup, unless it runs
    /\ UNCHANGED <<chrome, launches, alive, isolated, targets, owned, ownerCall, shut, raced>>

\* Idle time runs out, or the lease.
TimeRunsOut(s) ==
    /\ Live(s)
    /\ \E over \in {"idle", "lease"} : browser[s].over \notin {over, "lease"} /\ browser' = [browser EXCEPT ![s].over = over]
    /\ UNCHANGED <<chrome, launches, alive, isolated, targets, owned, ownerCall, shut, reaper, raced>>

\* touch() renews the idle time, not the lease.
Touched(b) == IF b.over = "idle" THEN [b EXCEPT !.over = "no"] ELSE b

-----------------------------------------------------------------------------
(* IsolatedChromium.close: the endpoint is read, its websockets are closed, the
   process is ended, and at last both are forgotten *)

Purged(endpoint) ==
    /\ targets' = targets \ {endpoint}
    /\ owned' = owned \ (targets \cap {endpoint})

ChromeEnds(s, endpoint) ==
    /\ Purged(endpoint)
    /\ alive' = alive \ {chrome[s].process}
    /\ UNCHANGED <<chrome, isolated>>

ChromeForgotten(s, endpoint) ==
    /\ Purged(endpoint)
    /\ chrome' = [chrome EXCEPT ![s] = [process |-> 0, endpoint |-> 0]]
    /\ isolated' = isolated \ {endpoint}
    /\ UNCHANGED alive

-----------------------------------------------------------------------------
(* A call of the owner: open a tab, or look at the tabs (status, list) *)

At(s, place) == ownerCall[s].at = place
CallGoes(s, place, endpoint) == ownerCall' = [ownerCall EXCEPT ![s].at = place, ![s].endpoint = endpoint]

\* Seeded fault: a Chromium that does not answer is replaced without being closed.
NeedsClosing_Never(s) == FALSE

NeedsClosing(s) == chrome[s].process # 0

\* The end of ensure() under its lock, with the endpoint that was closed for it: a process is
\* launched, unless there is no binary or it cannot start.
Launches(s, kind, closed) ==
    \E n \in {0} \cup (IF Cardinality({e \in DOMAIN launches : launches[e] = s}) < MaxLaunches[s]
                     THEN {Len(launches) + 1} ELSE {}) :
        /\ launches' = IF n = 0 THEN launches ELSE Append(launches, s)
        /\ alive' = alive \cup ({n} \ {0})
        /\ chrome' = [chrome EXCEPT ![s] = [process |-> n, endpoint |-> n]]
        /\ isolated' = (isolated \ {closed}) \cup ({n} \ {0})
        /\ ownerCall' = [ownerCall EXCEPT ![s] = IF n = 0 THEN NoCall ELSE [at |-> "wait", kind |-> kind, endpoint |-> n]]

\* A process that runs is asked for its version first.
CallBegins(s) ==
    /\ Live(s) /\ browser[s].over = "no" /\ At(s, "idle")
    /\ \E kind \in {"open", "list"} :
        IF chrome[s].process \in alive \/ NeedsClosing(s)
        THEN /\ ownerCall' = [ownerCall EXCEPT ![s] = [at |-> IF chrome[s].process \in alive THEN "version" ELSE "reclose",
                                            kind |-> kind, endpoint |-> chrome[s].endpoint]]
             /\ UNCHANGED <<chrome, launches, alive, isolated>>
        ELSE Launches(s, kind, 0)
    /\ UNCHANGED <<browser, targets, owned, shut, reaper, raced>>

\* The answer may be missing although Chromium runs; if there is one, the request goes to the
\* endpoint known now.
VersionAnswers(s) ==
    /\ At(s, "version")
    /\ \/ /\ ownerCall[s].endpoint \in alive /\ CallGoes(s, "asked", chrome[s].endpoint)
          /\ UNCHANGED <<chrome, launches, alive, isolated>>
       \/ NeedsClosing(s) /\ CallGoes(s, "reclose", chrome[s].endpoint) /\ UNCHANGED <<chrome, launches, alive, isolated>>
       \/ ~NeedsClosing(s) /\ Launches(s, ownerCall[s].kind, 0)
    /\ UNCHANGED <<browser, targets, owned, shut, reaper, raced>>

\* close() inside ensure(), then the launch.
Recloses(s) ==
    /\ \/ At(s, "reclose") /\ ChromeEnds(s, ownerCall[s].endpoint) /\ CallGoes(s, "reclosed", ownerCall[s].endpoint) /\ UNCHANGED launches
       \/ At(s, "reclosed") /\ Purged(ownerCall[s].endpoint) /\ Launches(s, ownerCall[s].kind, ownerCall[s].endpoint)
    /\ UNCHANGED <<browser, shut, reaper, raced>>

LaunchWaited(s) ==
    /\ At(s, "wait")
    /\ \/ ownerCall[s].endpoint \in alive /\ CallGoes(s, "asked", chrome[s].endpoint)
       \/ CallGoes(s, "unready", chrome[s].endpoint)
    /\ UNCHANGED <<browser, chrome, launches, alive, isolated, targets, owned, shut, reaper, raced>>

\* close() after a launch that never answered.
GivesUp(s) ==
    /\ \/ At(s, "unready") /\ ChromeEnds(s, ownerCall[s].endpoint) /\ CallGoes(s, "unreadied", ownerCall[s].endpoint)
       \/ At(s, "unreadied") /\ ChromeForgotten(s, ownerCall[s].endpoint) /\ CallGoes(s, "idle", 0)
    /\ UNCHANGED <<browser, launches, shut, reaper, raced>>

\* Seeded fault: a tab is attached to the session the call began with, open or not.
MayAttach_Began(s) == TRUE

\* attach_tab looks the session up again.
MayAttach(s) == Live(s) /\ browser[s].over = "no"

Attached(b, e) == [Touched(b) EXCEPT !.tabs = b.tabs \cup {e}]

\* The tab is known by its endpoint, attached, and then it has an owner.
PageAnswers(s) ==
    LET e == ownerCall[s].endpoint  opens == ownerCall[s].kind = "open"
        known == e \in isolated /\ (opens \/ e \in browser[s].tabs) IN
    /\ At(s, "asked") /\ e # 0
    /\ targets' = IF known THEN targets \cup {e} ELSE targets
    /\ IF opens /\ MayAttach(s)
       THEN owned' = owned \cup {e} /\ browser' = [browser EXCEPT ![s] = Attached(@, e)]
       ELSE UNCHANGED owned /\ browser' = IF opens THEN browser ELSE [browser EXCEPT ![s] = Touched(@)]
    /\ CallGoes(s, "idle", 0)
    /\ UNCHANGED <<chrome, launches, alive, isolated, shut, reaper, raced>>

RequestFails(s) ==
    /\ At(s, "asked") /\ CallGoes(s, "idle", 0)
    /\ UNCHANGED <<browser, chrome, launches, alive, isolated, targets, owned, shut, reaper, raced>>

\* One of the tabs is closed by its owner.
CloseTab(s) ==
    /\ Live(s) /\ At(s, "idle") /\ browser[s].tabs \cap targets # {}
    /\ \E e \in browser[s].tabs \cap targets : targets' = targets \ {e} /\ owned' = owned \ {e}
    /\ UNCHANGED <<browser, chrome, launches, alive, isolated, ownerCall, shut, reaper, raced>>

-----------------------------------------------------------------------------
(* close_session: nothing is awaited before the session leaves the table *)

ShutBegins(s) ==
    /\ browser' = [browser EXCEPT ![s].state = "closed"]
    /\ shut' = [shut EXCEPT ![s] = [at |-> "tabs", endpoint |-> 0]]
    /\ raced' = IF At(s, "idle") THEN raced ELSE raced \cup {s}

OwnerCloses(s) ==
    /\ Live(s) /\ browser[s].over = "no" /\ At(s, "idle") /\ ShutBegins(s)
    /\ UNCHANGED <<chrome, launches, alive, isolated, targets, owned, ownerCall, reaper>>

TabsShut(s) ==
    /\ shut[s].at = "tabs"
    /\ IF chrome[s].endpoint # 0 THEN targets' = targets \ browser[s].tabs /\ owned' = owned \ browser[s].tabs
       ELSE UNCHANGED <<targets, owned>>
    /\ shut' = [shut EXCEPT ![s] = [at |-> "sockets", endpoint |-> chrome[s].endpoint]]
    /\ UNCHANGED <<browser, chrome, launches, alive, isolated, ownerCall, reaper, raced>>

ProcessShut(s) ==
    /\ \/ shut[s].at = "sockets" /\ ChromeEnds(s, shut[s].endpoint) /\ shut' = [shut EXCEPT ![s].at = "process"]
       \/ shut[s].at = "process" /\ ChromeForgotten(s, shut[s].endpoint) /\ shut' = [shut EXCEPT ![s] = NoShut]
    /\ UNCHANGED <<browser, launches, ownerCall, reaper, raced>>

-----------------------------------------------------------------------------
(* The reaper: a round closes what was expired when it began, one after the other *)

TimedOut == {s \in Browsers : Live(s) /\ browser[s].over # "no"}

ReaperScans ==
    /\ reaper.runs /\ reaper.found = <<>> /\ TimedOut # {}
    /\ reaper' = [reaper EXCEPT !.found = SetToSeq(TimedOut)]
    /\ UNCHANGED <<browser, chrome, launches, alive, isolated, targets, owned, ownerCall, shut, raced>>

\* Seeded fault: a session that somebody else closed ends the reaper.
ReaperGoesOn_Dies == IF reaper.closes THEN [reaper EXCEPT !.found = Tail(@), !.closes = FALSE]
                     ELSE [reaper EXCEPT !.runs = FALSE, !.found = <<>>]

ReaperGoesOn == [reaper EXCEPT !.found = Tail(@), !.closes = FALSE]

\* It does not ask again whether the time is over, and waits for each closing to end.
ReaperCloses ==
    /\ reaper.found # <<>>
    /\ LET s == Head(reaper.found) IN
       \/ /\ Live(s) /\ ShutBegins(s)
          /\ reaper' = [reaper EXCEPT !.closes = TRUE]
       \/ /\ ~Live(s) /\ (reaper.closes => shut[s].at = "none")
          /\ reaper' = ReaperGoesOn
          /\ UNCHANGED <<browser, shut, raced>>
    /\ UNCHANGED <<chrome, launches, alive, isolated, targets, owned, ownerCall>>

\* browser_session_cleanup does a round of its own, in any chat.
ToolReaps(s) ==
    /\ s \in TimedOut /\ ShutBegins(s)
    /\ UNCHANGED <<chrome, launches, alive, isolated, targets, owned, ownerCall, reaper>>

\* close_browser: websockets and the maps of targets go first, the reaper is cancelled in
\* whatever it does, and every session is closed.
CloseBrowser ==
    LET cut == IF reaper.closes THEN {s \in {Head(reaper.found)} : shut[s].at # "none"} ELSE {} IN
    /\ \E s \in Browsers : Live(s)
    /\ targets' = {} /\ owned' = {}
    /\ reaper' = [reaper EXCEPT !.runs = FALSE, !.found = <<>>, !.closes = FALSE]
    /\ browser' = [s \in Browsers |-> IF Live(s) THEN [browser[s] EXCEPT !.state = "closed"] ELSE browser[s]]
    /\ shut' = [s \in Browsers |-> IF Live(s) THEN [at |-> "tabs", endpoint |-> 0] ELSE IF s \in cut THEN NoShut ELSE shut[s]]
    /\ raced' = raced \cup cut \cup {s \in Browsers : Live(s) /\ ~At(s, "idle")}
    /\ UNCHANGED <<chrome, launches, alive, isolated, ownerCall>>

-----------------------------------------------------------------------------

CallStep(s) ==
    VersionAnswers(s) \/ Recloses(s) \/ LaunchWaited(s) \/ GivesUp(s) \/ PageAnswers(s) \/ RequestFails(s)
ShutStep(s) == TabsShut(s) \/ ProcessShut(s)

BrowserNext ==
    \/ \E s \in Browsers :
        StartBrowser(s) \/ TimeRunsOut(s) \/ CallBegins(s) \/ CallStep(s) \/ CloseTab(s) \/ OwnerCloses(s) \/ ShutStep(s) \/ ToolReaps(s)
    \/ ReaperScans \/ ReaperCloses \/ CloseBrowser

\* The reaper wakes up every minute, and every await has a timeout.
BrowserFairness ==
    /\ WF_browserVars(ReaperScans) /\ WF_browserVars(ReaperCloses)
    /\ \A s \in Browsers : WF_browserVars(CallStep(s)) /\ WF_browserVars(ShutStep(s))

BrowserSpec == BrowserInit /\ [][BrowserNext]_browserVars /\ BrowserFairness

-----------------------------------------------------------------------------
(* Properties *)

\* A tab the browser tools accept belongs to a session that is open or still being closed:
\* answers that come after the end open no way back into it.
DrivableIsLive ==
    \A e \in targets \cap owned \cap isolated : Live(launches[e]) \/ shut[launches[e]].at # "none"

\* One Chromium per session at most, and none once it is closed, unless the closing met a call
\* of the session or was cut short: then a Chromium may be left that nobody ends.
ChromiumIsKnown ==
    \A s \in Browsers \ raced :
        LET mine == {e \in alive : launches[e] = s} IN
        mine \subseteq {chrome[s].process} /\ (browser[s].state = "closed" /\ shut[s].at = "none" => mine = {})

\* The tabs that can be driven and the Chromiums that run are those of the sessions.
BrowserSound == DrivableIsLive /\ ChromiumIsKnown

\* A session whose lease is over is closed.
LeasesEnd == \A s \in Browsers : (Live(s) /\ browser[s].over = "lease") ~> ~Live(s)
=============================================================================

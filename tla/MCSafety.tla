------------------------------- MODULE MCSafety -------------------------------
(* Safety of components that share no state, side by side: every behaviour   *)
(* is one of a single component, chosen by its first state.                  *)
EXTENDS Router, TerminalSessions, ScheduledJobs, AgentBridge, ExpertAgenda, BrowserSessions, StatusStack, SkillStore, MemoryStore, ChatHistory, CommandRun, ToolTurn, ModelStream, CameraAlerts, Heartbeat, TLC

CONSTANTS portal_interactive, emerychat_content, b1, b2, text1, text2, t1

\* A portal chat that preempts image generation, and a content job.
MCPolicy == portal_interactive :> 0 @@ emerychat_content :> 10

\* Three terminal calls in two chats.
MCChatOf == <<"g1", "g2", "g1">>

\* A date, a duration, and a recurring job of the legacy file.
MCKindOf == "dated" :> "at" @@ "delayed" :> "after" @@ "routine" :> "every"

\* Two core questions and a supporting one.
MCPriorityOf == "a" :> "core" @@ "b" :> "supporting" @@ "c" :> "core"

\* One browser session may launch a Chromium twice, the other finds none to launch.
MCLaunches == b1 :> 2 @@ b2 :> 0

\* A fact of one user, and one of the cameras.
MCFactScope == text1 :> "private" @@ text2 :> "system"

Asked(fn, of, key) == [fn |-> fn, of |-> of, key |-> key]

\* What the model may call at once: a search, a page that both fetch tools know, images of it,
\* and tools that are or are not behind the bridge.
MCBatches ==
    LET search == Asked("web_search", "none", "q")
        fetch(page) == Asked("fetch_web_content", "none", page)
        image(use) == Asked("use_research_image", "u", use)
    IN  t1 :> {<<search>>, <<fetch("u"), image("inspect")>>, <<fetch("u"), Asked("extract_document_with_docling", "none", "u")>>,
               <<fetch("v"), image("attach"), image("attach")>>,
               <<image("send"), image("send"), Asked("tool_call", "web_search", "q")>>,
               <<Asked("tool_call", "generate_image", "q"), Asked("generate_image", "none", "q")>>}

VARIABLE component

MCVars == <<component, vars, terminalVars, scheduledVars, bridgeVars, agendaVars, browserVars, statusVars, skillVars, memoryVars, historyVars, commandVars, toolVars, streamVars, cameraVars, heartbeatVars>>

MCInit ==
    /\ Init /\ TerminalInit /\ ScheduledInit /\ BridgeInit /\ AgendaInit /\ BrowserInit /\ StatusInit /\ SkillInit /\ MemoryInit /\ HistoryInit /\ CommandInit /\ ToolInit /\ StreamInit /\ CameraInit /\ HeartbeatInit
    /\ component \in {"stream", "terminal", "jobs", "bridge", "agenda", "browser", "status", "skills", "memory", "history", "commands", "tools", "model", "cameras", "heartbeat"}
    /\ component # "commands" => commandBackend = "local"   \* one initial state of what is not looked at

MCNext ==
    /\ UNCHANGED component
    /\ \/ component = "stream" /\ Next
       \/ UNCHANGED vars /\ component # "stream"
    /\ \/ component = "terminal" /\ TerminalNext
       \/ UNCHANGED terminalVars /\ component # "terminal"
    /\ \/ component = "jobs" /\ ScheduledNext
       \/ UNCHANGED scheduledVars /\ component # "jobs"
    /\ \/ component = "bridge" /\ BridgeNext
       \/ UNCHANGED bridgeVars /\ component # "bridge"
    /\ \/ component = "agenda" /\ AgendaNext
       \/ UNCHANGED agendaVars /\ component # "agenda"
    /\ \/ component = "browser" /\ BrowserNext
       \/ UNCHANGED browserVars /\ component # "browser"
    /\ \/ component = "status" /\ StatusNext
       \/ UNCHANGED statusVars /\ component # "status"
    /\ \/ component = "skills" /\ SkillNext
       \/ UNCHANGED skillVars /\ component # "skills"
    /\ \/ component = "memory" /\ MemoryNext
       \/ UNCHANGED memoryVars /\ component # "memory"
    /\ \/ component = "history" /\ HistoryNext
       \/ UNCHANGED historyVars /\ component # "history"
    /\ \/ component = "commands" /\ CommandNext
       \/ UNCHANGED commandVars /\ component # "commands"
    /\ \/ component = "tools" /\ ToolNext
       \/ UNCHANGED toolVars /\ component # "tools"
    /\ \/ component = "model" /\ StreamNext
       \/ UNCHANGED streamVars /\ component # "model"
    /\ \/ component = "cameras" /\ CameraNext
       \/ UNCHANGED cameraVars /\ component # "cameras"
    /\ \/ component = "heartbeat" /\ HeartbeatNext
       \/ UNCHANGED heartbeatVars /\ component # "heartbeat"

MCSpec == MCInit /\ [][MCNext]_MCVars

Symmetry == Permutations(Clients)
===============================================================================

----------------------------- MODULE AgentBridge -----------------------------
(***************************************************************************)
(* Requests between Emery and a peer bot (emery/inter_agent_bridge.py and  *)
(* send_inter_agent_message in emery/tools.py), as Emery sees them.        *)
(*                                                                         *)
(* The two bots talk through Telegram messages, which the peer may send    *)
(* late, never or again.  Emery's updates are handled one after the other, *)
(* each to its end; only the tool, which runs in the task of a turn, asks  *)
(* and waits beside the handler.                                           *)
(***************************************************************************)
EXTENDS Naturals, Sequences

CONSTANTS
    Ours,            \* requests that Emery sends
    Theirs,          \* requests that the peer sends
    Relayed,         \* those of them that were relayed once already (hops = 1)
    PeerLimit,       \* PEER_RATE_LIMIT_REQUESTS
    MaxPeerSends,    \* bound: messages the peer sends
    MaxBridgeStops   \* bound: restarts of Emery

ASSUME BridgeAssumption ==
    /\ Relayed \subseteq Theirs /\ Ours \cap Theirs = {}
    /\ PeerLimit \in Nat \ {0} /\ MaxPeerSends \in Nat /\ MaxBridgeStops \in Nat

VARIABLES
    outgoing,   \* the requests Emery sends, as their callers see them
    route,      \* _pending
    updates,    \* messages that wait for Emery
    handling,   \* the update being handled
    completed,  \* _completed
    inflight,   \* _inflight
    recent,     \* requests of the peer within the rate limit's window
    ran,        \* times a request of the peer was given to the engine
    forgotten,  \* times Emery forgot that it has run one
    peerSends, bridgeStops

bridgeVars == <<outgoing, route, updates, handling, completed, inflight, recent, ran,
                forgotten, peerSends, bridgeStops>>

\* tool: asked by the tool and not by /bridge; done: the future has its result.
AskedRequest == [at: {"new", "typed", "sending", "waiting", "answered", "timed_out", "failed", "lost"},
                 tool: BOOLEAN, done: BOOLEAN]
Update == [type: {"ask", "response"}, id: Ours] \cup [type: {"request"}, id: Theirs]

NoHandler == [at |-> "idle"]
HandlerState == {NoHandler} \cup [at: {"ask", "show"}, id: Ours]
                \cup [at: {"engine", "reply", "replay"}, id: Theirs]

\* Entries younger and older than PENDING_TTL_SECONDS.
Ages == {"none", "young", "old"}

BridgeInit ==
    /\ outgoing = [i \in Ours |-> [at |-> "new", tool |-> FALSE, done |-> FALSE]]
    /\ route = [i \in Ours |-> "none"] /\ completed = [p \in Theirs |-> "none"]
    /\ updates = <<>> /\ handling = NoHandler
    /\ inflight = {} /\ recent = 0
    /\ ran = [p \in Theirs |-> 0] /\ forgotten = [p \in Theirs |-> 0]
    /\ peerSends = 0 /\ bridgeStops = 0

-----------------------------------------------------------------------------
(* Pruning and sending *)

\* _prune_state.  A caller whose route has grown old has given up waiting:
\* BRIDGE_RESPONSE_TIMEOUT_SECONDS is shorter than PENDING_TTL_SECONDS.
PrunedRoutes == [i \in Ours |-> IF route[i] = "old" THEN "none" ELSE route[i]]
Prunes ==
    /\ completed' = [p \in Theirs |-> IF completed[p] = "old" THEN "none" ELSE completed[p]]
    /\ forgotten' = [p \in Theirs |-> IF completed[p] = "old" THEN forgotten[p] + 1 ELSE forgotten[p]]

\* Seeded fault: the request is registered once it has been sent.
Registered_Late(i) == PrunedRoutes
\* send_request up to the await of the message: the route is there before the
\* peer can answer.
Registered(i) == [PrunedRoutes EXCEPT ![i] = "young"]
SendsRequest(i, tool) ==
    /\ Prunes
    /\ route' = Registered(i)
    /\ outgoing' = [outgoing EXCEPT ![i] = [at |-> "sending", tool |-> tool, done |-> FALSE]]

\* What comes of the message: the peer may have it although sending failed.
SendEnds(i) ==
    /\ outgoing[i].at = "sending"
    /\ \/ /\ outgoing' = [outgoing EXCEPT ![i].at = IF outgoing[i].done THEN "answered" ELSE "waiting"]
          /\ UNCHANGED route
       \/ /\ outgoing' = [outgoing EXCEPT ![i].at = "failed"]
          /\ route' = [route EXCEPT ![i] = "none"]

-----------------------------------------------------------------------------
(* The tool *)

\* A turn of a chat asks; one that answers the peer is refused and changes nothing.
ToolAsks(i) ==
    /\ outgoing[i].at = "new"
    /\ SendsRequest(i, TRUE)
    /\ UNCHANGED <<updates, handling, inflight, recent, ran, peerSends, bridgeStops>>

ToolSent(i) ==
    /\ outgoing[i].tool /\ SendEnds(i)
    /\ UNCHANGED <<updates, handling, completed, inflight, recent, ran, forgotten,
                   peerSends, bridgeStops>>

\* send_request_and_wait, its finally clause included.
ToolTimesOut(i) ==
    /\ outgoing[i].tool /\ outgoing[i].at = "waiting"
    /\ outgoing' = [outgoing EXCEPT ![i].at = "timed_out"]
    /\ route' = [route EXCEPT ![i] = "none"]
    /\ UNCHANGED <<updates, handling, completed, inflight, recent, ran, forgotten,
                   peerSends, bridgeStops>>

-----------------------------------------------------------------------------
(* The handler *)

Takes(type, id) ==
    /\ handling = NoHandler /\ updates # <<>>
    /\ Head(updates) = [type |-> type, id |-> id]
    /\ updates' = Tail(updates)

HumanAsks(i) ==
    /\ Takes("ask", i)
    /\ SendsRequest(i, FALSE)
    /\ handling' = [at |-> "ask", id |-> i]
    /\ UNCHANGED <<inflight, recent, ran, peerSends, bridgeStops>>

HumanSent(i) ==
    /\ handling = [at |-> "ask", id |-> i] /\ SendEnds(i)
    /\ handling' = NoHandler
    /\ UNCHANGED <<updates, completed, inflight, recent, ran, forgotten, peerSends, bridgeStops>>

IsKnown(p) == completed[p] = "young"

\* _process_request up to the engine.  A relayed request, and one above the
\* rate limit, is refused with an exception: the peer hears nothing.
RequestComes(p) ==
    /\ Takes("request", p)
    /\ Prunes /\ route' = PrunedRoutes
    /\ \/ /\ p \in Relayed
          /\ UNCHANGED <<handling, inflight, recent, ran>>
       \/ /\ p \notin Relayed /\ IsKnown(p)
          /\ handling' = [at |-> "replay", id |-> p]
          /\ UNCHANGED <<inflight, recent, ran>>
       \/ /\ p \notin Relayed /\ ~IsKnown(p) /\ (p \in inflight \/ recent >= PeerLimit)
          /\ UNCHANGED <<handling, inflight, recent, ran>>
       \/ /\ p \notin Relayed /\ ~IsKnown(p) /\ p \notin inflight /\ recent < PeerLimit
          /\ handling' = [at |-> "engine", id |-> p]
          /\ inflight' = inflight \cup {p} /\ recent' = recent + 1
          /\ ran' = [ran EXCEPT ![p] = @ + 1]
    /\ UNCHANGED <<outgoing, peerSends, bridgeStops>>

\* Seeded fault: an answer is not kept for a request that is repeated.
Remembered_Never(p) == completed
Remembered(p) == [completed EXCEPT ![p] = "young"]
\* The engine's answer, or that it failed, is a response to send.
EngineAnswers(p) ==
    /\ handling = [at |-> "engine", id |-> p]
    /\ completed' = Remembered(p)
    /\ handling' = [at |-> "reply", id |-> p]
    /\ UNCHANGED <<outgoing, route, updates, inflight, recent, ran, forgotten, peerSends, bridgeStops>>

\* The message is sent or not; the handler ends with it.
ReplyEnds(p) ==
    /\ \/ handling = [at |-> "reply", id |-> p] /\ inflight' = inflight \ {p}
       \/ handling = [at |-> "replay", id |-> p] /\ UNCHANGED inflight
    /\ handling' = NoHandler
    /\ UNCHANGED <<outgoing, route, updates, completed, recent, ran, forgotten, peerSends, bridgeStops>>

\* _route_response
ResponseComes(i) ==
    /\ Takes("response", i)
    /\ Prunes
    /\ \/ /\ PrunedRoutes[i] = "none"
          /\ route' = PrunedRoutes /\ UNCHANGED <<outgoing, handling>>
       \/ /\ PrunedRoutes[i] # "none" /\ outgoing[i].tool
          /\ route' = [PrunedRoutes EXCEPT ![i] = "none"]
          /\ outgoing' = [outgoing EXCEPT ![i] = [at |-> IF @.at = "waiting" THEN "answered" ELSE @.at,
                                            tool |-> TRUE, done |-> TRUE]]
          /\ UNCHANGED handling
       \/ /\ PrunedRoutes[i] # "none" /\ ~outgoing[i].tool
          /\ route' = PrunedRoutes
          /\ handling' = [at |-> "show", id |-> i] /\ UNCHANGED outgoing
    /\ UNCHANGED <<inflight, recent, ran, peerSends, bridgeStops>>

\* The answer is shown in the chat that asked; if that fails the route stays.
Shown(i) ==
    /\ handling = [at |-> "show", id |-> i]
    /\ \/ /\ outgoing' = [outgoing EXCEPT ![i].at = "answered"]
          /\ route' = [route EXCEPT ![i] = "none"]
       \/ UNCHANGED <<outgoing, route>>
    /\ handling' = NoHandler
    /\ UNCHANGED <<updates, completed, inflight, recent, ran, forgotten, peerSends, bridgeStops>>

-----------------------------------------------------------------------------
(* Users, the peer, time and restarts *)

UserTypes(i) ==
    /\ outgoing[i].at = "new"
    /\ outgoing' = [outgoing EXCEPT ![i].at = "typed"]
    /\ updates' = Append(updates, [type |-> "ask", id |-> i])
    /\ UNCHANGED <<route, handling, completed, inflight, recent, ran, forgotten, peerSends, bridgeStops>>

\* The peer answers what may have reached it, asks, or repeats itself.
PeerSends(u) ==
    /\ peerSends < MaxPeerSends
    /\ u.type # "ask"
    /\ u.type = "response" => outgoing[u.id].at \notin {"new", "typed"}
    /\ updates' = Append(updates, u)
    /\ peerSends' = peerSends + 1
    /\ UNCHANGED <<outgoing, route, handling, completed, inflight, recent, ran, forgotten, bridgeStops>>

\* A route that somebody waits on stays young: see PrunedRoutes.
TimePasses ==
    /\ \E R \in SUBSET {i \in Ours : /\ route[i] = "young"
                                     /\ ~(outgoing[i].tool /\ outgoing[i].at \in {"sending", "waiting"})},
          C \in SUBSET {p \in Theirs : completed[p] = "young"} :
         /\ route' = [i \in Ours |-> IF i \in R THEN "old" ELSE route[i]]
         /\ completed' = [p \in Theirs |-> IF p \in C THEN "old" ELSE completed[p]]
    /\ recent' \in 0..recent
    /\ UNCHANGED <<outgoing, updates, handling, inflight, ran, forgotten, peerSends, bridgeStops>>

\* Telegram gives the updates again that Emery had not confirmed; one that was
\* being handled is among them or not.  A /bridge message handled again asks anew
\* under a new id; that the model gives it the old one only adds answers to it.
BridgeRestarts ==
    /\ bridgeStops < MaxBridgeStops
    /\ bridgeStops' = bridgeStops + 1
    /\ outgoing' = [i \in Ours |-> IF outgoing[i].at \in {"sending", "waiting"}
                                THEN [outgoing[i] EXCEPT !.at = "lost"] ELSE outgoing[i]]
    /\ updates' \in {updates} \cup
         IF handling = NoHandler THEN {}
         ELSE {<<[type |-> IF handling.at = "ask" THEN "ask"
                           ELSE IF handling.at = "show" THEN "response" ELSE "request",
                  id |-> handling.id]>> \o updates}
    /\ route' = [i \in Ours |-> "none"] /\ completed' = [p \in Theirs |-> "none"]
    /\ forgotten' = [p \in Theirs |->
                        IF completed[p] # "none" \/ p \in inflight THEN forgotten[p] + 1 ELSE forgotten[p]]
    /\ handling' = NoHandler /\ inflight' = {} /\ recent' = 0
    /\ UNCHANGED <<ran, peerSends>>

BridgeNext ==
    \/ \E i \in Ours :
        \/ ToolAsks(i) \/ ToolSent(i) \/ ToolTimesOut(i)
        \/ HumanAsks(i) \/ HumanSent(i) \/ ResponseComes(i) \/ Shown(i) \/ UserTypes(i)
    \/ \E p \in Theirs : RequestComes(p) \/ EngineAnswers(p) \/ ReplyEnds(p)
    \/ \E u \in Update : PeerSends(u)
    \/ TimePasses \/ BridgeRestarts

BridgeSpec == BridgeInit /\ [][BridgeNext]_bridgeVars

-----------------------------------------------------------------------------
(* Properties *)

BridgeTypeOK ==
    /\ outgoing \in [Ours -> AskedRequest]
    /\ route \in [Ours -> Ages] /\ completed \in [Theirs -> Ages]
    /\ updates \in Seq(Update) /\ handling \in HandlerState
    /\ inflight \subseteq Theirs /\ recent \in 0..PeerLimit
    /\ ran \in [Theirs -> Nat] /\ forgotten \in [Theirs -> Nat]

\* A request of the peer is run once, however often it arrives and whatever
\* fails when the answer is sent, unless Emery has forgotten it in between: by a
\* restart, or 15 minutes later.
RunsOnce == \A p \in Theirs : ran[p] <= 1 + forgotten[p]

\* A turn that waits for the peer can be answered: the response finds its
\* route even if it comes before the request's own await has returned, and no
\* pruning, no other response and no timeout of another request takes it.
WaitersRouted ==
    \A i \in Ours : outgoing[i].tool /\ outgoing[i].at \in {"sending", "waiting"} /\ ~outgoing[i].done
                    => route[i] = "young"

\* A request of the peer that comes twice is not run again (_process_request), and the
\* answer a turn waits for finds it, however early it comes (_route_response).
BridgeSound == RunsOnce /\ WaitersRouted
=============================================================================

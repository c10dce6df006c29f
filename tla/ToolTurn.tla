------------------------------ MODULE ToolTurn ------------------------------
(* The tool calls of chat turns: the history the turns of a chat share and the *)
(* copy that each sends to the model, the budgets of its calls                 *)
(* (emery/engine.py), the bridge to the tools that are not offered directly    *)
(* (emery/tool_search.py, emery/tool_search_catalog.py, emery/prompt_cache.py) *)
(* and the images that are found on the way (emery/media.py).                  *)
(* Messages that steer a turn and the lock of the model are in TurnSteering.   *)
EXTENDS Naturals, Sequences, FiniteSets, SequencesExt

CONSTANTS
    ToolTurns,        \* turns of threads of one chat
    Handled,          \* the tools with a handler in AVAILABLE_TOOLS
    Eager,            \* _EAGER_DEFAULTS
    Batches,          \* what the model may call in one response to each turn: sequences of calls
    MaxPasses,        \* TOOL_LOOP
    CallsPerTurn, CallsPerPass, SearchesPerPass, FetchesPerPass,  \* MAX_TOOL_CALLS_PER_TURN, ...
    PhotosPerTurn, ViewsPerTurn, ViewsPerPass,                    \* MAX_RESEARCH_IMAGES_PER_TURN, ...
    Context,          \* the context budget, in messages of the usual size
    CacheSize,        \* images that the cache of artifacts holds
    MaxRequests       \* bound: messages of users

FetchTools == {"fetch_web_content", "extract_document_with_docling"}
BridgeTools == {"tool_search", "tool_describe", "tool_call"}

\* A call names a function, the tool it asks of the bridge, and its query, URL or action.
Call == [fn : STRING, of : STRING, key : STRING]

ASSUME ToolTurnAssumption ==
    /\ {"web_search", "use_research_image"} \cup FetchTools \subseteq Eager
    /\ \A t \in ToolTurns : \A b \in Batches[t] : b \in Seq(Call) /\ b # <<>>
    /\ {MaxPasses, CallsPerTurn, CallsPerPass, SearchesPerPass, FetchesPerPass, PhotosPerTurn,
        ViewsPerTurn, ViewsPerPass, CacheSize, MaxRequests} \subseteq Nat /\ Context \in Nat \ {0}

VARIABLES
    chat,      \* the history of the chat
    own,       \* the copy of each turn, with what the turn has added to it
    tools,     \* the locals of emery_engine and the media state of each turn
    ranTools,       \* the handlers each turn has run: the tool, its key, the pass, whether through the bridge
    artifacts, \* the cache of images, the oldest first
    photos,    \* what became of the images each turn queued for the user
    requests   \* messages of users so far

toolVars == <<chat, own, tools, ranTools, artifacts, photos, requests>>

\* ids: of the calls an assistant asks, or of the one a tool answers.
Said(role, ids, size) == [role |-> role, ids |-> ids, size |-> size]

FreshEngine ==
    [at |-> "idle", batch |-> <<>>, ids |-> <<>>, asked |-> 0, pass |-> 0, total |-> 0, inPass |-> 0,
     searches |-> 0, fetches |-> 0, seen |-> {}, forced |-> MaxPasses = 0, tries |-> 0, failed |-> FALSE,
     found |-> {}, views |-> 0, viewsInPass |-> 0, stored |-> 0]

ToolInit ==
    /\ chat = <<>> /\ own = [t \in ToolTurns |-> <<>>]
    /\ tools = [t \in ToolTurns |-> FreshEngine]
    /\ ranTools = [t \in ToolTurns |-> <<>>]
    /\ artifacts = <<>> /\ photos = [t \in ToolTurns |-> <<>>] /\ requests = 0

-----------------------------------------------------------------------------
(* The copy of the history *)

\* The sizes of the newest messages: of none, of the last one, of the last two ...
SizesOf(messages) ==
    LET n == Len(messages)
        sizes[k \in 0..n] == IF k = 0 THEN 0 ELSE sizes[k - 1] + messages[n - k + 1].size
    IN  sizes

\* The most of them that fits says how many are kept.
MostOf(counts) == CHOOSE k \in counts : \A j \in counts : j <= k
Latest(messages, k) == SubSeq(messages, Len(messages) - k + 1, Len(messages))

\* Seeded fault: a last message that does not fit is left out like the others.
Newest_Fitting(messages) == Latest(messages, MostOf({k \in 0..Len(messages) : SizesOf(messages)[k] <= Context}))
\* The newest messages that fit, and the last one in any case.
Newest(messages) ==
    Latest(messages, MostOf({k \in 0..Len(messages) : k <= 1 \/ SizesOf(messages)[k] <= Context}))

\* The results at the head have lost their calls ...
WithoutResults(messages) ==
    LET others == {i \in DOMAIN messages : messages[i].role # "tool"}
    IN  IF others = {} THEN <<>>
        ELSE SubSeq(messages, CHOOSE i \in others : \A j \in others : i <= j, Len(messages))

\* ... and the calls at the head may have lost their results.
Unanswered(messages) ==
    /\ messages # <<>> /\ Head(messages).role = "assistant" /\ Head(messages).ids # <<>>
    /\ ~\E i \in 2..Len(messages) : messages[i].role = "tool" /\ messages[i].ids[1] \in Range(Head(messages).ids)

\* _compact_history_for_model
Compacted(messages) ==
    LET cut == WithoutResults(Newest(messages)) IN IF Unanswered(cut) THEN Tail(cut) ELSE cut

\* _build_ollama_history: what the turn changes in its copy is not changed in the history.
Copied(messages) == Compacted(messages)

\* A user of the chat says something, to this thread or another.
UserAsks ==
    /\ requests < MaxRequests
    /\ requests' = requests + 1
    /\ \E size \in {1, Context + 1} : chat' = Append(chat, Said("user", <<>>, size))
    /\ UNCHANGED <<own, tools, ranTools, artifacts, photos>>

\* emery_engine is entered with the shared history; the media state begins.
EngineEnters(t) ==
    /\ tools[t].at = "idle" /\ chat # <<>>
    /\ own' = [own EXCEPT ![t] = Copied(chat)]
    /\ tools' = [tools EXCEPT ![t].at = "pass"]
    /\ UNCHANGED <<chat, ranTools, artifacts, photos, requests>>

-----------------------------------------------------------------------------
(* A pass of the loop *)

\* What a pass counts afresh, the images for the model among it.
Afresh(r) == [r EXCEPT !.inPass = 0, !.searches = 0, !.fetches = 0, !.viewsInPass = 0]

PassBegins(t) ==
    LET r == tools[t]
    IN  /\ r.at = "pass"
        /\ tools' = [tools EXCEPT ![t] =
             IF r.pass < MaxPasses \/ r.forced THEN [Afresh(r) EXCEPT !.at = "request"]
             ELSE [r EXCEPT !.at = "deliver", !.failed = TRUE]]
        /\ UNCHANGED <<chat, own, ranTools, artifacts, photos, requests>>

\* The catalog takes a tool without a handler for disabled.
Enabled(tool) == tool \in Handled
OfferedAs(tool) == IF ~Enabled(tool) THEN "disabled" ELSE IF tool \in Eager THEN "eager" ELSE "deferred"
\* The schemas that resolve_tooling hands to the engine.
Offered == {tool \in Handled : OfferedAs(tool) = "eager"} \cup BridgeTools

\* A request has the prefix of the prompt, the turn's copy, and the tools unless text is forced.
Payload(t) == [messages |-> own[t], tools |-> IF tools[t].forced THEN {} ELSE Offered]

\* The ids of the calls in a response.
NewIds(t, batch) == [i \in DOMAIN batch |-> <<t, tools[t].asked + i>>]

Appends(t, message) ==
    /\ chat' = Append(chat, message)
    /\ own' = [own EXCEPT ![t] = Append(@, message)]

\* Seeded fault: the usable calls of a response are run and the others left out.
Refuses_Each(batch) == FALSE
\* One call of no tool that is offered, or with arguments that are none, refuses all.
Refuses(batch) == \E i \in DOMAIN batch : batch[i].fn \notin Offered

ModelCalls(t) ==
    /\ tools[t].at = "request" /\ Payload(t).tools # {}
    /\ \E batch \in Batches[t] :
         IF Refuses(batch)
         THEN /\ tools' = [tools EXCEPT ![t].at = "deliver", ![t].failed = TRUE]
              /\ UNCHANGED <<chat, own>>
         ELSE /\ Appends(t, Said("assistant", NewIds(t, batch), 1))
              /\ tools' = [tools EXCEPT ![t].at = "calls", ![t].batch = batch, ![t].ids = NewIds(t, batch),
                                        ![t].asked = @ + Len(batch)]
    /\ UNCHANGED <<ranTools, artifacts, photos, requests>>

\* A request fails, or a stream that had begun.
ModelFails(t) ==
    /\ tools[t].at = "request"
    /\ tools' = [tools EXCEPT ![t].at = "deliver", ![t].failed = TRUE]
    /\ UNCHANGED <<chat, own, ranTools, artifacts, photos, requests>>

\* An answer; without a text there are two more requests at most, without tools.
ModelSays(t) ==
    LET r == tools[t]
    IN  /\ r.at = "request"
        /\ \E empty \in BOOLEAN :
             tools' = [tools EXCEPT ![t] =
               IF empty /\ r.tries = 0 /\ ~r.forced THEN [r EXCEPT !.at = "pass", !.pass = @ + 1, !.forced = TRUE]
               ELSE IF empty /\ r.tries = 0 THEN [r EXCEPT !.at = "pass", !.pass = @ + 1, !.tries = 1]
               ELSE [r EXCEPT !.at = "deliver"]]
        /\ UNCHANGED <<chat, own, ranTools, artifacts, photos, requests>>

-----------------------------------------------------------------------------
(* The calls of a response, one after the other *)

Fetched(r, c) == c.fn \in FetchTools /\ <<"fetch", c.key>> \in r.seen

\* Seeded fault: what one fetch tool has fetched may be fetched by the other.
Affordable_Each(r, c) ==
    /\ r.total < CallsPerTurn /\ r.inPass < CallsPerPass
    /\ c.fn = "web_search" => r.searches < SearchesPerPass /\ <<"search", c.key>> \notin r.seen
    /\ c.fn = "fetch_web_content" => r.fetches < FetchesPerPass /\ ~Fetched(r, c)
\* _tool_budget_error
Affordable(r, c) ==
    /\ r.total < CallsPerTurn /\ r.inPass < CallsPerPass
    /\ c.fn = "web_search" => r.searches < SearchesPerPass /\ <<"search", c.key>> \notin r.seen
    /\ c.fn \in FetchTools => r.fetches < FetchesPerPass /\ ~Fetched(r, c)

\* Another call for a source that is there already, or the last of the turn's budget,
\* ends the use of tools.
EndsTools(r, c) ==
    \/ r.total >= CallsPerTurn
    \/ r.inPass < CallsPerPass /\ r.fetches < FetchesPerPass /\ Fetched(r, c)

\* A call over the budget has an error for its result.
CallRefused(t) ==
    LET r == tools[t]
    IN  /\ r.at = "calls" /\ r.batch # <<>> /\ ~Affordable(r, Head(r.batch))
        /\ Appends(t, Said("tool", <<Head(r.ids)>>, 1))
        /\ tools' = [tools EXCEPT ![t] = [r EXCEPT !.batch = Tail(@), !.ids = Tail(@),
                                                   !.forced = @ \/ EndsTools(r, Head(r.batch))]]
        /\ UNCHANGED <<ranTools, artifacts, photos, requests>>

\* The budgets are charged before the tool runs, whatever becomes of it.
Charged(r, c) ==
    [r EXCEPT !.at = "running", !.total = @ + 1, !.inPass = @ + 1,
              !.searches = IF c.fn = "web_search" THEN @ + 1 ELSE @,
              !.fetches = IF c.fn \in FetchTools THEN @ + 1 ELSE @,
              !.seen = IF c.fn = "web_search" THEN @ \cup {<<"search", c.key>>}
                       ELSE IF c.fn \in FetchTools THEN @ \cup {<<"fetch", c.key>>} ELSE @]

\* Seeded fault: the bridge calls every tool there is a handler for.
Bridged_Any(tool) == tool \in Handled
\* invoke_deferred_tool: enabled, and not one that is offered directly.
Bridged(tool) == OfferedAs(tool) = "deferred"

\* The handler that a call runs, if any: the bridge also validates the arguments.
Handlers(c) ==
    CASE c.fn = "tool_call" -> IF Bridged(c.of) THEN {"none", c.of} ELSE {"none"}
      [] c.fn \in {"tool_search", "tool_describe"} -> {"none"}
      [] OTHER -> {c.fn}

CallStarts(t) ==
    LET r == tools[t]
        c == Head(r.batch)
    IN  /\ r.at = "calls" /\ r.batch # <<>> /\ Affordable(r, c)
        /\ tools' = [tools EXCEPT ![t] = Charged(r, c)]
        /\ \E tool \in Handlers(c) :
             ranTools' = IF tool = "none" THEN ranTools
                    ELSE [ranTools EXCEPT ![t] = Append(@, [tool |-> tool, key |-> c.key, pass |-> r.pass, bridged |-> c.fn = "tool_call"])]
        /\ UNCHANGED <<chat, own, artifacts, photos, requests>>

\* An image enters the cache, which lets go of the oldest.
CachedWith(id) == LET all == Append(artifacts, id)
              IN  IF Len(all) > CacheSize THEN Tail(all) ELSE all

\* The result is appended, and after it an image for the model.
Results(t, view) ==
    LET result == Said("tool", <<Head(tools[t].ids)>>, 1)
    IN  /\ chat' = Append(chat, result)
        /\ own' = [own EXCEPT ![t] = IF view THEN Append(Append(@, result), Said("user", <<>>, 1)) ELSE Append(@, result)]

Onwards(r) == [r EXCEPT !.at = "calls", !.batch = Tail(@), !.ids = Tail(@)]

\* register_research_candidates: the images of a page the turn may ask for.
WithImagesOf(r, page) == r.found \cup {page}

\* A result without more; a page that was fetched may bring images.
CallEnds(t) ==
    LET r == tools[t]
        c == Head(r.batch)
    IN  /\ r.at = "running"
        /\ \E images \in IF c.fn = "fetch_web_content" THEN BOOLEAN ELSE {FALSE} :
             tools' = [tools EXCEPT ![t] = [Onwards(r) EXCEPT !.found = IF images THEN WithImagesOf(r, c.key) ELSE @]]
        /\ Results(t, FALSE)
        /\ UNCHANGED <<ranTools, artifacts, photos, requests>>

\* A handler raises, which through the bridge is a result like others.
CallRaises(t) ==
    /\ tools[t].at = "running" /\ Head(tools[t].batch).fn \notin BridgeTools
    /\ tools' = [tools EXCEPT ![t].at = "deliver", ![t].failed = TRUE]
    /\ UNCHANGED <<chat, own, ranTools, artifacts, photos, requests>>

\* The image is downloaded, made smaller and kept under an id of its own.
Downloaded(t) == <<t, tools[t].stored + 1>>

\* Seeded fault: the images of a pass are not counted.
MayView_Turn(r) == r.views < ViewsPerTurn
\* can_attach_model_image
MayView(r) == r.views < ViewsPerTurn /\ r.viewsInPass < ViewsPerPass

\* queue_model_attachment
Viewed(r) == [r EXCEPT !.views = @ + 1, !.viewsInPass = @ + 1]
\* can_use_research_image
MaySend(t) == Len(photos[t]) < PhotosPerTurn
\* queue_outbound_media
Queued(t, id) == photos' = [photos EXCEPT ![t] = Append(@, [id |-> id, is |-> "queued"])]

\* use_research_image with an image of a page the turn has fetched: look at it, attach it to
\* the model's next request, or queue it for the user.
ImageUsed(t) ==
    LET r == tools[t]
        c == Head(r.batch)
    IN  /\ r.at = "running" /\ c.fn = "use_research_image" /\ c.of \in r.found
        /\ \/ /\ c.key = "inspect"
              /\ tools' = [tools EXCEPT ![t] = [Onwards(r) EXCEPT !.stored = @ + 1]]
              /\ Results(t, FALSE)
              /\ UNCHANGED photos
           \/ /\ c.key = "attach" /\ MayView(r)
              /\ tools' = [tools EXCEPT ![t] = [Viewed(Onwards(r)) EXCEPT !.stored = @ + 1]]
              /\ Results(t, TRUE)
              /\ UNCHANGED photos
           \/ /\ c.key = "send" /\ MaySend(t)
              /\ tools' = [tools EXCEPT ![t] = [Onwards(r) EXCEPT !.stored = @ + 1]]
              /\ Results(t, FALSE)
              /\ Queued(t, Downloaded(t))
        /\ artifacts' = CachedWith(Downloaded(t))
        /\ UNCHANGED <<ranTools, requests>>

\* _prune_artifacts, when an image has been there for its time.
ArtifactExpires ==
    /\ artifacts # <<>>
    /\ artifacts' = Tail(artifacts)
    /\ UNCHANGED <<chat, own, tools, ranTools, photos, requests>>

\* The turn's calls or its passes are used up.
Spent(r) == r.total >= CallsPerTurn \/ r.pass + 1 >= MaxPasses

CallsDone(t) ==
    LET r == tools[t]
    IN  /\ r.at = "calls" /\ r.batch = <<>>
        /\ tools' = [tools EXCEPT ![t] = [r EXCEPT !.at = "pass", !.pass = @ + 1, !.forced = @ \/ Spent(r)]]
        /\ UNCHANGED <<chat, own, ranTools, artifacts, photos, requests>>

-----------------------------------------------------------------------------
(* _deliver_pending_media *)

NextPhoto(t) == {i \in DOMAIN photos[t] : photos[t][i].is = "queued" /\ \A j \in 1..(i - 1) : photos[t][j].is # "queued"}

PhotoDelivered(t) ==
    /\ tools[t].at = "deliver"
    /\ \E i \in NextPhoto(t) :
       \E outcome \in IF photos[t][i].id \in Range(artifacts) THEN {"sent", "refused"} ELSE {"expired"} :
         photos' = [photos EXCEPT ![t][i].is = outcome]
    /\ UNCHANGED <<chat, own, tools, ranTools, artifacts, requests>>

\* The text cannot be sent, and what follows it is left undone.
AnswerRaises(t) ==
    /\ tools[t].at = "deliver" /\ \A i \in DOMAIN photos[t] : photos[t][i].is = "queued"
    /\ tools' = [tools EXCEPT ![t] = [FreshEngine EXCEPT !.at = "lost"]]
    /\ own' = [own EXCEPT ![t] = <<>>]
    /\ UNCHANGED <<chat, ranTools, artifacts, photos, requests>>

\* The answer is in the history and the media state cleared.
TurnOver(t) ==
    /\ tools[t].at = "deliver" /\ NextPhoto(t) = {}
    /\ tools' = [tools EXCEPT ![t] = [FreshEngine EXCEPT !.at = "over", !.failed = tools[t].failed, !.asked = tools[t].asked]]
    /\ chat' = Append(chat, Said("assistant", <<>>, 1))
    /\ own' = [own EXCEPT ![t] = <<>>]
    /\ UNCHANGED <<ranTools, artifacts, photos, requests>>

ToolNext ==
    \/ UserAsks \/ ArtifactExpires
    \/ \E t \in ToolTurns :
         \/ EngineEnters(t) \/ PassBegins(t) \/ ModelCalls(t) \/ ModelFails(t) \/ ModelSays(t)
         \/ CallRefused(t) \/ CallStarts(t) \/ CallEnds(t) \/ CallRaises(t) \/ ImageUsed(t) \/ CallsDone(t)
         \/ PhotoDelivered(t) \/ AnswerRaises(t) \/ TurnOver(t)

ToolSpec == ToolInit /\ [][ToolNext]_toolVars

-----------------------------------------------------------------------------
(* Properties *)

\* Where the id of a call stands: with the assistant that asks it, with the result.
AsksAt(messages, i, id) == messages[i].role = "assistant" /\ \E k \in DOMAIN messages[i].ids : messages[i].ids[k] = id
GivesAt(messages, i, id) == messages[i].role = "tool" /\ messages[i].ids[1] = id

\* Each of a turn's calls was asked once, and the first of them have one result each, after
\* the call and in the order of the calls; there is nothing of others of this turn.
AnsweredUpTo(messages, t, asked, done) ==
    /\ \A k \in 1..asked : \E i \in DOMAIN messages : AsksAt(messages, i, <<t, k>>)
    /\ \A k \in 1..asked : \A i, j \in DOMAIN messages : AsksAt(messages, i, <<t, k>>) /\ AsksAt(messages, j, <<t, k>>) => i = j
    /\ \A k \in 1..done : \E i \in DOMAIN messages : GivesAt(messages, i, <<t, k>>)
    /\ \A k \in 1..done : \A i \in DOMAIN messages :
         GivesAt(messages, i, <<t, k>>) => \E a \in 1..(i - 1) : AsksAt(messages, a, <<t, k>>)
    /\ \A k \in 1..done : \A l \in k..done : \A i, j \in DOMAIN messages :
         GivesAt(messages, i, <<t, k>>) /\ GivesAt(messages, j, <<t, l>>) => IF k = l THEN i = j ELSE i < j
    /\ \A i \in DOMAIN messages : \A n \in DOMAIN messages[i].ids :
         LET id == messages[i].ids[n]
         IN  id[1] = t => (messages[i].role = "tool" /\ id[2] \in 1..done) \/ (messages[i].role = "assistant" /\ id[2] \in 1..asked)

\* The kinds of the runs of a turn in one pass.
InPass(t, pass, kind) == {i \in DOMAIN ranTools[t] : ranTools[t][i].pass = pass /\ ranTools[t][i].tool \in kind}
Passes(t) == {ranTools[t][i].pass : i \in DOMAIN ranTools[t]}
Repeated(t, kind) ==
    \E i, j \in DOMAIN ranTools[t] : i # j /\ ranTools[t][i].tool \in kind /\ ranTools[t][j].tool \in kind /\ ranTools[t][i].key = ranTools[t][j].key

\* What the limits of a turn promise whatever the model asks: the limits of a pass and
\* of the turn hold for the tools that ran, directly or through the bridge, and a tool runs
\* only the way it is offered; no source is fetched and no search made twice; a turn that
\* has used up its calls is not offered tools again.
BudgetsHold ==
    \A t \in ToolTurns :
        /\ Len(ranTools[t]) <= CallsPerTurn
        /\ \A p \in Passes(t) : /\ Cardinality(InPass(t, p, {"web_search"})) <= SearchesPerPass
                                /\ Cardinality(InPass(t, p, FetchTools)) <= FetchesPerPass
        /\ \A i \in DOMAIN ranTools[t] : ranTools[t][i].tool \in Handled /\ (ranTools[t][i].bridged <=> ranTools[t][i].tool \notin Eager)
        /\ tools[t].at = "request" /\ tools[t].pass > 0 /\ tools[t].total >= CallsPerTurn => tools[t].forced
        /\ ~Repeated(t, FetchTools) /\ ~Repeated(t, {"web_search"})
        /\ tools[t].viewsInPass <= ViewsPerPass /\ Len(photos[t]) <= PhotosPerTurn

\* Before the model is asked again every call it made has its result, in the turn's copy and
\* in the history of the chat; only a turn that failed leaves calls behind.
CallsAnswered ==
    \A t \in ToolTurns :
        /\ tools[t].at = "request" => AnsweredUpTo(own[t], t, tools[t].asked, tools[t].asked)
        /\ tools[t].at = "over" /\ ~tools[t].failed => AnsweredUpTo(chat, t, tools[t].asked, tools[t].asked)

\* When a turn has given its answer each photo it queued was sent, or had left the cache, or
\* was refused.
PhotosSettled == \A t \in ToolTurns : tools[t].at = "over" => \A i \in DOMAIN photos[t] : photos[t][i].is # "queued"

\* What a turn that begins now would send is the end of the history, fits the budget if it
\* is more than one message, and holds the question that was asked last.
CopySound ==
    LET copy == Compacted(chat)
    IN  /\ Len(copy) <= Len(chat) /\ copy = Latest(chat, Len(copy))
        /\ Len(copy) > 1 => SizesOf(chat)[Len(copy)] <= Context
        /\ chat # <<>> /\ Last(chat).role = "user" => copy # <<>>

\* The tools of a turn stay within what the configuration grants, its history is one the
\* model can be sent, and its photos are accounted for.
ToolsSound == BudgetsHold /\ CallsAnswered /\ PhotosSettled /\ CopySound
=============================================================================

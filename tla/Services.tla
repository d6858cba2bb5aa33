------------------------------ MODULE Services ------------------------------
(***************************************************************************)
(* Parts of the server that share no state: each behaviour is one of one   *)
(* part, chosen at the start, and the variables of the others are off.     *)
(***************************************************************************)
EXTENDS Integers, Sequences, FiniteSets

CONSTANTS
  Parts,                                            \* those that run: names of parts
  KeepAlive, MaxResults, StreamMaxTime,             \* StreamingResponse
  Configs, SleepPeriod, Horizon,                    \* PeriodicEvents
  Given, MaxWorkers, MaxFailedComponents,           \* ServerStartup
  Workers, Threads, ClientAttempts, ClientTries, MaxRotations,        \* ClientWorker
  Kinds, ObjectIds, Strays, Shapes, MaxLifetime, Grace, PageSize,     \* ObjectStorage
  ObjectAttempts, ObjectMaxTime, MaxFailedCalls,
  MaxActivations, MaxRounds, AgentAttempts,         \* AgentCalls
  FlowTools, UserTexts, Texts, FlowConfigs,         \* MessageFlow
  MaxTurns, MaxThoughts, MaxRuns, MaxRetries,
  Processes, Loads, Networks, Temporary, Hard, MaxFaults, MaxFactChanges,   \* OpenFgaAuthorization
  Names, Authorized, Policies, Requests, Messages,  \* McpTools
  MaxMessages, MaxTableChanges,
  Selecting, Namespaces, OfferedTools, CallIds, Denies,               \* ToolSelection
  MaxCalls, ToolTries, MaxAnswers

VARIABLES
  part,
  handler, beat, lock, client, frames, lastSend, streamTime, streamDone,
  config, interactions, nextFiring, passStart, pass, eventTime, fired, passes,
  args, status, main, workers,
  worker, chain, accepted, session, s3Client, made, calls,
  kind, now, objects, leases, writer, sweep, failures,
  acts, accounting, told, llmCalls, rounds,
  flowConfig, turn, phase, context, history, pending, runs, indices, hopper, said, thoughts, retries,
  stores, models, granted, served, local, asks, faults, changes,
  policy, table, allowed, news, mcpChanges, posts,
  advertised, agents, answers

St == INSTANCE StreamingResponse WITH MaxTime <- StreamMaxTime
Pe == INSTANCE PeriodicEvents
Su == INSTANCE ServerStartup WITH MaxFailures <- MaxFailedComponents
Cl == INSTANCE ClientWorker WITH MaxAttempts <- ClientAttempts, MaxTries <- ClientTries,
  client <- s3Client
Ob == INSTANCE ObjectStorage WITH Ids <- ObjectIds, MaxAttempts <- ObjectAttempts,
  MaxTime <- ObjectMaxTime, MaxFailures <- MaxFailedCalls
Ca == INSTANCE AgentCalls
Mf == INSTANCE MessageFlow WITH Tools <- FlowTools, Configs <- FlowConfigs, config <- flowConfig
Au == INSTANCE OpenFgaAuthorization WITH Agents <- Networks, MaxChanges <- MaxFactChanges
Mc == INSTANCE McpTools WITH MaxChanges <- MaxTableChanges, changes <- mcpChanges
Ts == INSTANCE ToolSelection WITH Agents <- Selecting, Tools <- OfferedTools, Ids <- CallIds,
  MaxTries <- ToolTries

ASSUME PartsAssumption ==
  /\ St!StreamAssumption /\ Pe!HorizonAssumption /\ Su!WorkersAssumption /\ Su!GivenAssumption
  /\ Cl!WorkerAssumption /\ Ob!ObjectAssumption /\ Ca!AgentAssumption /\ Mf!FlowAssumption
  /\ Au!AuthorizationAssumption /\ Mc!McpAssumption /\ Ts!SelectionAssumption

StVars == <<handler, beat, lock, client, frames, lastSend, streamTime, streamDone>>
PeVars == <<config, interactions, nextFiring, passStart, pass, eventTime, fired, passes>>
SuVars == <<args, status, main, workers>>
ClVars == <<worker, chain, accepted, session, s3Client, made, calls>>
ObVars == <<kind, now, objects, leases, writer, sweep, failures>>
CaVars == <<acts, accounting, told, llmCalls, rounds>>
MfVars == <<flowConfig, turn, phase, context, history, pending, runs, indices, hopper, said, thoughts, retries>>
AuVars == <<stores, models, granted, served, local, asks, faults, changes>>
McVars == <<policy, table, allowed, news, mcpChanges, posts>>
TsVars == <<advertised, agents, answers>>
ServiceVars == <<part, StVars, PeVars, SuVars, ClVars, ObVars, CaVars, MfVars, AuVars, McVars, TsVars>>

StOff == handler = "off" /\ beat = "off" /\ lock = "off" /\ client = "off" /\ frames = "off"
  /\ lastSend = "off" /\ streamTime = "off" /\ streamDone = "off"
PeOff == config = "off" /\ interactions = "off" /\ nextFiring = "off" /\ passStart = "off"
  /\ pass = "off" /\ eventTime = "off" /\ fired = "off" /\ passes = "off"
SuOff == args = "off" /\ status = "off" /\ main = "off" /\ workers = "off"
ClOff == worker = "off" /\ chain = "off" /\ accepted = "off" /\ session = "off" /\ s3Client = "off"
  /\ made = "off" /\ calls = "off"
ObOff == kind = "off" /\ now = "off" /\ objects = "off" /\ leases = "off" /\ writer = "off"
  /\ sweep = "off" /\ failures = "off"
CaOff == acts = "off" /\ accounting = "off" /\ told = "off" /\ llmCalls = "off" /\ rounds = "off"
MfOff == flowConfig = "off" /\ turn = "off" /\ phase = "off" /\ context = "off" /\ history = "off"
  /\ pending = "off" /\ runs = "off" /\ indices = "off" /\ hopper = "off" /\ said = "off"
  /\ thoughts = "off" /\ retries = "off"
AuOff == stores = "off" /\ models = "off" /\ granted = "off" /\ served = "off" /\ local = "off"
  /\ asks = "off" /\ faults = "off" /\ changes = "off"
McOff == policy = "off" /\ table = "off" /\ allowed = "off" /\ news = "off" /\ mcpChanges = "off"
  /\ posts = "off"
TsOff == advertised = "off" /\ agents = "off" /\ answers = "off"

Init ==
  /\ part \in Parts
  /\ IF part = "streaming" THEN St!Init ELSE StOff
  /\ IF part = "periodic" THEN Pe!Init ELSE PeOff
  /\ IF part = "startup" THEN Su!Init ELSE SuOff
  /\ IF part = "clients" THEN Cl!Init ELSE ClOff
  /\ IF part = "objects" THEN Ob!Init ELSE ObOff
  /\ IF part = "calls" THEN Ca!Init ELSE CaOff
  /\ IF part = "messages" THEN Mf!Init ELSE MfOff
  /\ IF part = "authorization" THEN Au!Init ELSE AuOff
  /\ IF part = "mcp" THEN Mc!Init ELSE McOff
  /\ IF part = "selection" THEN Ts!Init ELSE TsOff

Next ==
  /\ UNCHANGED part
  /\ \/ part = "streaming" /\ St!Next /\ UNCHANGED <<PeVars, SuVars, ClVars, ObVars, CaVars, MfVars, AuVars, McVars, TsVars>>
     \/ part = "periodic" /\ Pe!Next /\ UNCHANGED <<StVars, SuVars, ClVars, ObVars, CaVars, MfVars, AuVars, McVars, TsVars>>
     \/ part = "startup" /\ Su!Next /\ UNCHANGED <<StVars, PeVars, ClVars, ObVars, CaVars, MfVars, AuVars, McVars, TsVars>>
     \/ part = "clients" /\ Cl!Next /\ UNCHANGED <<StVars, PeVars, SuVars, ObVars, CaVars, MfVars, AuVars, McVars, TsVars>>
     \/ part = "objects" /\ Ob!Next /\ UNCHANGED <<StVars, PeVars, SuVars, ClVars, CaVars, MfVars, AuVars, McVars, TsVars>>
     \/ part = "calls" /\ Ca!Next /\ UNCHANGED <<StVars, PeVars, SuVars, ClVars, ObVars, MfVars, AuVars, McVars, TsVars>>
     \/ part = "messages" /\ Mf!Next /\ UNCHANGED <<StVars, PeVars, SuVars, ClVars, ObVars, CaVars, AuVars, McVars, TsVars>>
     \/ part = "authorization" /\ Au!Next /\ UNCHANGED <<StVars, PeVars, SuVars, ClVars, ObVars, CaVars, MfVars, McVars, TsVars>>
     \/ part = "mcp" /\ Mc!Next /\ UNCHANGED <<StVars, PeVars, SuVars, ClVars, ObVars, CaVars, MfVars, AuVars, TsVars>>
     \/ part = "selection" /\ Ts!Next /\ UNCHANGED <<StVars, PeVars, SuVars, ClVars, ObVars, CaVars, MfVars, AuVars, McVars>>

\* What the server's own schedulers do, sooner or later: its event loops run what
\* is ready, its threads go on, its start-up is not interrupted.  What LLMs, coded
\* tools, clients and the object storage do is not among it, but a call of the
\* authorization server comes back, with an answer or an error, and a tool's chat
\* comes to the end of what its agents say.
Fairness ==
  /\ WF_StVars(part = "streaming" /\ St!Handle) /\ WF_StVars(part = "streaming" /\ St!Beat)
  /\ WF_SuVars(part = "startup" /\ (Su!SetUp \/ Su!Fork))
  /\ \A i \in 1..MaxWorkers : WF_SuVars(part = "startup" /\ i \in DOMAIN workers /\ Su!WorkerStep(i))
  /\ \A t \in Threads : WF_ClVars(part = "clients" /\ Cl!CallStep(t))
  /\ \A n \in 1..MaxActivations : WF_CaVars(part = "calls" /\ n \in DOMAIN acts /\ Ca!Inside(n))
  /\ \A r \in UNION Loads : WF_AuVars(part = "authorization" /\ r \in DOMAIN asks /\ Au!RequestStep(r))
  /\ \A r \in Requests : WF_McVars(part = "mcp" /\ Mc!PostStep(r))

Spec == Init /\ [][Next]_ServiceVars /\ Fairness
-----------------------------------------------------------------------------
(* Properties: those of the parts, whose variables keep their types *)

\* What the heartbeat and the handler write of a response is orderly: lines
\* are written and flushed under the lock, a client that waits hears something
\* in every keep-alive interval, nothing can write to a finished response, an
\* event is not given up when its client leaves, and a chat does not ask for a
\* next result once a flush found its client gone (streaming_chat_handler.py).
ResponsesAreOrderly ==
  [][part = "streaming" =>
       /\ (St!TypeOK)'
       /\ (St!WritersHoldTheLock)'
       /\ (St!NothingWritesLater)'
       /\ (St!NeverQuietTooLong)'
       /\ (St!EventsOutliveClients)'
       /\ St!ChatsEndWithClients]_StVars

\* No periodic event is fired early, or twice for one instant; an instant of a
\* schedule is missed only when a pass began at it, or was late; and after a
\* pass every next firing lies in the future (periodic_event_initiator.py).
EventsFireInTime ==
  part = "periodic" =>
    /\ Pe!TypeOK
    /\ Pe!FiredOnceInTime
    /\ Pe!OnlyLateOnesAreMissed
    /\ Pe!NextIsAhead

\* A worker process that reports to be ready serves; no component runs before
\* the queues it reads exist; one that does not start keeps no other from
\* being started; and at most one worker process expires the shared storage
\* (server_status.py, http_server.py, server_context.py).
WorkersStartInOrder ==
  part = "startup" =>
    /\ Su!TypeOK
    /\ Su!ReadyWorkersServe
    /\ Su!QueuesBeforeComponents
    /\ Su!AllComponentsTried
    /\ Su!OneExpirer

\* The shared S3 client was made from a session with credentials, a new one
\* carries the credentials of the moment, and a client or session is discarded
\* only by a thread that failed on it (aws_sync_client_worker.py,
\* aws_async_client_worker.py).
ClientsAreReplaced ==
  [][part = "clients" =>
       /\ (Cl!TypeOK)'
       /\ (Cl!ClientIsUsable)'
       /\ Cl!NewClientsAreFresh
       /\ Cl!OnlyFailedOnesAreDiscarded]_ClVars

\* What was stored is found with its network as long as its lease lasts, but
\* never in Azure, whose reader looks for another name than its writer's; no
\* expiration pass deletes an object under a lease; and what a pass without
\* failed calls leaves behind expired comes after an object that raises, which
\* ends the pass there, and in Azure before anything is deleted (s3, azure and
\* local reservations storage).
StoredAreKept ==
  [][part = "objects" =>
       /\ (Ob!TypeOK)'
       /\ (Ob!AddedAreFound)'
       /\ (Ob!SweptClean)'
       /\ Ob!LeasedStay]_ObVars

\* The object store and the client it is reached with: both of the above.
ObjectsAreKept == ClientsAreReplaced /\ StoredAreKept

\* However agents call each other in parallel, fail, time out and are
\* cancelled, every LLM call is counted once, the main network's accounting
\* has its own calls only, a clone that ends late does not change the
\* request's time, no agent tries more often than it may, every agent that is
\* not cancelled says one last word after all it called has ended, and
\* everything is closed by the end (langchain_token_counter.py,
\* run_context_runnable.py, calling_activation.py).
CallsAreAccounted ==
  part = "calls" =>
    /\ Ca!TypeOK
    /\ Ca!EveryCallCountedOnce
    /\ Ca!MainIsOwn
    /\ Ca!TimeIsTheFrontMans
    /\ Ca!LastWord
    /\ Ca!AttemptsBounded
    /\ Ca!AllClosed

\* The answer a client ends with is the last word of the agent, whatever the
\* client's filter let through; a client that wants everything hears every
\* thought, and none of the answer twice; each result of a tool is told under
\* the origin of its own run; the agent goes into a request with what was last
\* said; and the chat context stays within its limit, except for a limit of 1,
\* which is none (originating_journal.py, journaling_callback_handler.py,
\* chat_history_message_processor.py).
ConversationIsKept ==
  part = "messages" =>
    /\ Mf!TypeOK
    /\ Mf!AnswerIsTheAgents
    /\ Mf!ThoughtsAreTold
    /\ Mf!AnswerIsToldOnce
    /\ Mf!ToolResultsMatch
    /\ Mf!ConversationContinues
    /\ Mf!ContextIsBounded

\* However the scopes of concurrent requests overlap and whatever call of the
\* authorization server fails, a service is given, and an agent listed, only
\* to who was told so by the server; the store a process asks has a policy,
\* and no process creates two; and a request that has the scope for itself is
\* answered (open_fga_authorizer.py, open_fga_store_cache.py,
\* agent_authorization_policy.py).
AccessIsAuthorized ==
  part = "authorization" =>
    /\ Au!TypeOK
    /\ Au!OnlyWithConsent
    /\ Au!OneReadyStore
    /\ Au!AloneIsAnswered

\* While the registry changes, a list of tools that is returned has every tool
\* that was there all the time, once, and none the client may not use; the
\* result of a call is all its agents said to the client; and every response
\* is finished once (mcp_root_handler.py, mcp_tools_processor.py).  Of what a
\* model calls, the tools run that it was offered on that call, and no others,
\* however agents, ids and retries coincide
\* (llm_config_tool_selector_middleware.py).
ToolsAreServed ==
  /\ part = "mcp" =>
       /\ Mc!TypeOK
       /\ Mc!AnsweredOnce
       /\ Mc!ListIsWhole
       /\ Mc!ResultIsWhole
  /\ part = "selection" => Ts!TypeOK /\ Ts!OnlyAdvertisedRun /\ Ts!AdvertisedRun

\* Whatever clients, LLMs, tools and the object storage do: every response is
\* finished, a worker process all of whose components start becomes ready, every
\* call of S3 returns, raises or exhausts its attempts, every request ends, by
\* max_execution_seconds if by nothing else, a question of authorization that shares
\* the scope with no other is answered or raises, and so is an MCP request.
EverythingEnds ==
  <>[](/\ part = "streaming" => streamDone
       /\ part = "startup" => \A i \in DOMAIN workers : Su!IsServerReady(i) \/ workers[i].failed # {}
       /\ part = "clients" => Cl!Ended
       /\ part = "calls" => Ca!Returned
       /\ part = "authorization" => \A r \in DOMAIN asks : Au!Settled(r)
       /\ part = "mcp" => \A r \in Requests : posts[r].pc \in {"new", "done"})

\* "No async with here, as that would close the client": while a request asks the
\* authorization server, nobody closes the client it asks on
\* (open_fga_authorizer.py:118).
ClientsStayOpen == part = "authorization" => Au!ClientStaysOpen

\* "Errors on individual files are logged but do not abort the sweep": a pass
\* without failed calls leaves nothing expired behind, whatever other files there
\* are (local_reservations_storage.py:261).
BadFilesArePassed == part = "objects" /\ kind = "local" => Ob!BadOnesArePassed
=============================================================================

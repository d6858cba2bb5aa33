# Nora Fleet: TLA+ specifications

Nora Fleet serves networks of LLM agents over HTTP. This directory models what its correctness
depends on: the storage and registry of agent networks, the requests that run on them with all their
agents, LLMs, tools and messages, the server that admits, streams and stops, the stores, schedules and
authorization around it, and the pure algorithms that turn configuration into agents.
`PROJECT.json` names every run, mutant, mapped definition, finding, hazard and theorem; paths below
are relative to `src/nora_fleet/`.

## 1. The system

| component | state | operations | interacts with | model |
| --- | --- | --- | --- | --- |
| Temporary network storage (`internals/network_providers/expiring_agent_network_storage.py`) | three tables, a lock, a base storage, listeners | `add_reservations`, `expire_reservations`, `evict_lru_agent_networks`, `remove_agent_network`, `get_agent_network_provider` | the updater's loop, request threads, its own expiration thread; calls the base storage and, outside its lock, the listeners, which call back | `ExpiringStorage` |
| Reservation pipeline (`internals/reservations`, `service/generic/service_agent_reservationist.py`, `service/watcher/temp_networks/updater`) | the batches a coded tool collects, one queue per request, the queue of queues, an `Event` per deployment | `reserve`, `deploy`, `__aexit__`, `close_of_work`, the updater's two coroutines | coded tools (one event loop), the updater (another) | `ReservationPipeline` |
| Chat message queue (`internals/chat/async_collating_queue.py`) | a janus queue, `last_item_sent` | `put`, `put_final_item`, iteration, `close`, `reset` | agents put, the handler iterates | `CollatingQueue` |
| Chat request lifecycle (`session`, `internals/chat/data_driven_chat_session.py`, `service/generic/async_agent_service.py`, `service/watcher/event_work`) | `request_finished`, `work_done_event`, resources, a borrowed executor, the request counter | `start`, `streaming_chat`, `finish_request`, `close_of_request`, `close_of_work`, `reset` | the handler, a pooled executor's loop, the event work monitor | `RequestLifecycle` |
| Admission and shutdown (`service/http/server/http_server_app.py`) | requests left and processing, the serving flag | `try_start_client_request`, `finish_client_request`, `do_shutdown` | tornado's loop, the shutdown thread | `ServerAdmission` |
| Streaming handler (`service/http/handlers/streaming_chat_handler.py`) | an asyncio lock, the time of the last write, the heartbeat task | `post`, `run_heartbeat`, `_finish_request` | the client's connection | `StreamingResponse` |
| Agent registry and watcher (`internals/network_providers/agent_network_storage.py`, `service/watcher`, `service/http/server/http_server.py`, `service/generic/async_agent_service_provider.py`) | public and protected networks, counted changes, `allowed_agents`, a lazily built service per agent | set up, add, remove, announce, restore, `get_service`, `reset_service` | file events, request threads | `AgentRegistry`, `ManifestRestoration` |
| Periodic events (`service/watcher/event_initiator`) | the next firing of each configuration | compute, fire, sleep | the agent service | `PeriodicEvents` |
| Base storages (`service/watcher/temp_networks/{local,s3,azure}`) | objects; shared clients and sessions | write, read, sweep, retry, reset | other server processes, rotated credentials | `ObjectStorage`, `ClientWorker` |
| Start-up (`service/main_loop`, `service/utils`, `service/http/server/health_probe_server.py`) | status flags, worker information, queues | set up, fork, start components, tell readiness | all components | `ServerStartup` |
| Agents (`internals/graph/activations`, `internals/run_context`) | activations, attempts, token accounting, tasks | the chain, LLM calls, parallel tools, retries, time-outs, close | each other, LLMs, coded tools, external networks | `AgentCalls` |
| Messages (`internals/journals`, `message`, `internals/chat`) | held thoughts, histories, the chat context | write, hold, filter, parse, answer | agents write, the queue and the client read | `MessageFlow` |
| Authorization (`service/authorization`, `service/http/server/agent_authorization_policy.py`) | a shared client, a cached store with a thread lock | `allow_agent`, `list_agents`, scopes, initialization | the OpenFGA server, concurrent handlers | `OpenFgaAuthorization` |
| MCP service (`service/mcp`) | requests; no sessions | initialize, list, call, delete | the registry, agents | `McpTools` |
| Tool selection (`middleware/llm_config_tool_selector_middleware.py`) | what was offered, by call ids | stamp, judge, forget | models, parallel tool calls, outer middleware | `ToolSelection` |
| Network validation, configuration, parameters, LLMs, tools | none | pure functions of files and requests | | `NetworkValidation`, `NetworkConfiguration`, `ToolParameters`, `LlmSelection`, `ToolCreation` |

What is hard here: unlocked reads of tables that three kinds of thread change; callbacks made after a
lock is released; results applied after the tables have moved on; a request that ends while its
executor works; a queue whose final item races its producers; counters that must come back on every
exit; a shutdown that races admission; time-outs that cancel a tree of parallel agents; messages of
parallel tools that must keep their origins; credentials, stores and networks that change under those
who use them; forks in the middle of a start-up; and algorithms over nested configuration whose rules
(overlay, precedence, exception) interact.

What makes the parts correct is stated in section 3, with each run's properties.

## 2. The modules

| module | what it is |
| --- | --- |
| `ExpiringStorage` | the temporary network storage with its threads, base storage and listener |
| `NetworkLeases` | the abstract specification it implements: one atomic table, and clients whose lookups take what it holds at one moment |
| `ExpiringStorageProofs` | theorems about `ExpiringStorage`: with any threads, and with one call at a time |
| `CollatingQueue` | `AsyncCollatingQueue` as operators on a record |
| `ReservationPipeline`, `ReservationPipelineProofs` | coded tools, their requests, the updater's tasks, joined by `CollatingQueue`, and theorems about them |
| `DeploymentChannel` | the abstract specification it implements: an ordered channel with confirmations |
| `RequestLifecycle`, `RequestLifecycleProofs` | invocation contexts, chat tasks, clones, the event work monitor, joined by `CollatingQueue`, and theorems about them |
| `ServerAdmission`, `ServerAdmissionProofs` | admission, counts and shutdown of one process, and theorems about it |
| `StreamingResponse` | one streamed response: results, heartbeat, time-out, a client that leaves |
| `AgentRegistry`, `AgentRegistryProofs` | set-up, watcher, listener, providers and callers of the permanent networks, composed with `ManifestRestoration`, and theorems about them |
| `ManifestRestoration` | what manifests make a server serve |
| `PeriodicEvents` | the initiator's passes over a bounded clock |
| `ServerStartup` | the main process, its fork, its workers' components and readiness |
| `ObjectStorage` | writing, reading and sweeping in S3, Azure and local files |
| `ClientWorker` | S3 clients and sessions under rotated credentials |
| `AgentCalls` | the tree of agents of one request, its token accounting and time |
| `MessageFlow` | journals, filters, answers, the chat context over several exchanges |
| `OpenFgaAuthorization`, `OpenFgaAuthorizationProofs` | concurrent questions to the authorization server, and theorems about them |
| `McpTools` | MCP requests while the registry changes |
| `ToolSelection` | the enforcement of selected tools |
| `NetworkValidation` | the validators, the correction of names, tools and calls by name, the connectivity report |
| `NetworkConfiguration` | common definitions, defaults, redaction of private data, the call of an external network |
| `ToolParameters` | schemas from validation to a call, and the schema of MCP calls |
| `LlmSelection` | complete LLM configurations, keys, factories, policies, fallbacks, release |
| `ToolCreation` | coded tools' classes, the toolbox, MCP tools, middleware, arguments |
| `Services` | the ten parts that share no state, each instantiated under a name of its own |
| `ConversationProofs`, `ServicesProofs` | theorems about `Services`: the agents and messages of a request; the other parts |
| `MCAlgorithms` | the pure modules on all inputs of small sets, with reference definitions |
| `MC...` | constants of the other instances; each `.cfg` is one run |

`CollatingQueue` is the piece two compositions share: the messages in `RequestLifecycle` (and the
monitor's work queue) and the deployments in `ReservationPipeline`. `AgentRegistry` uses
`ManifestRestoration`'s result as what the watcher restores. `Services` is one specification with a
variable `part` that picks the part whose steps a behaviour takes: the parts have no variable in common
in the code either, or only one that the part itself models as its environment. An operator under a
comment that begins with "Mutant" is a plausible wrong version of the operator after it, used only to
show that a property can fail. `map` names for each definition the function it stands for.

### 2.1 ExpiringStorage

*State.* `reservations`, `agents`, `accessTimes` are the three tables; a network is the number of
the deployment that brought it, an index into the history `deployments`. `expirationOf` is the
expiration inside the `Reservation` object of each name this process reserves: deploying a name
again sets it in place, before anything is stored, so an entry of the tables that holds the object
(`own`) changes with it, while a copy built from the base storage does not. `base` is the base
storage, `leftover` its writes that are still to come, `allowed` the listener's table of providers.

*Threads.* Each thread is a stack of `frames`, because the listener's `agent_added()` calls
`get_agent_network_provider()`, which may itself fill the tables and announce the network. A
`with self.lock:` block is one action. Each unlocked read, each call of the base storage and each
notification is an action of its own. Two simplifications: `now` read just before a lock is taken is
read in the locked action, and the sweep's snapshot and its `is_expired()` tests are one action
(`Scan`), followed by the locked removal (`Sweep`) that looks at nothing again. All deployments of a
process are coroutines of one event loop, so between awaits a deployer is alone among deployers
(`LoopIsFree`), and only there.

*What clients see.* `NetworkLeases` has one table in place of three, no lock and no stacks. A deployment
enters the table whole (`Publish`). A lookup has one moment (`Look`) at which it takes what the table holds
under its name; it answers with just that, or, if it found nothing, with what it then puts into the table
itself (`BringBack`). Each call of `get_agent_network_provider()`, a request's or the listener's, is one such
client; its moment is the unlocked read of `agents`, a step after the test of `reservations`. So a
lookup that answered from another version than the one it read, a batch of which only some names are
there, or a fetched network that is answered but not stored would all be steps that `NetworkLeases` does
not have.

*Base storage.* It writes the names of a batch in any order. When one write raises, so does
`add_reservations()`; what was written stays. `LocalReservationsStorage` writes through
`asyncio.gather()`, which cancels nothing, so the other writes land at any later time or never
(`WriteLate`). Its expiration reads, tests and removes in separate steps, so it may remove what was
written in between (`ExpireBase`). Another process may deploy names there (`ForeignNames`).
`ObjectStorage` has the inside of that storage.

### 2.2 ReservationPipeline

`incoming` is the queue of queues, `queue` the queue of each request, `processor` and `deploying` the
updater's task for it, `deployments` what a with-statement collected, `posted`/`events` the
confirmations. `sent` and `attempted` are histories. All producers of one queue run on one event loop
and the janus queue has no capacity, so the check of `last_item_sent` and the put are one step, and
`__aexit__`'s puts are one step. `EarlyClose` are the requests whose work may be closed while their
tools run: an interrupted client, or event work that shares the request's reservationist.

### 2.3 RequestLifecycle

One set of fields per invocation context, roots (requests) and clones (calls of external agents on
this server); where its chat task and the reader of its queue are; `closing`, what
`finish_request()` or the monitor still has to run; the monitor's queue, pool and thread.
`finish_request()` is called twice, by the session's `finally` and by the service's. It blocks a root's
thread until its coroutines ran on the executor, while a clone's client is on the same loop and only
creates tasks. `copy()` takes `request_finished` over. `closes`, `answered`, `exchanges` are histories.

### 2.4 ServerAdmission and StreamingResponse

All handlers share tornado's loop: what a handler does between two awaits is one action, and
`do_shutdown()` polls from its own thread. `Kind` says which handler a request meets; they differ in
what can go wrong between `try_start_client_request()` and the `try` whose `finally` counts down
(`StartRaises`, `ListRaises`), and the MCP handler counts nothing. `StreamingResponse` has one such
request after it was admitted: handler and heartbeat are two tasks, the asyncio lock is held across a
flush, half a second is one unit of time.

### 2.5 AgentRegistry and ManifestRestoration

One thread sets up and later watches (`updater`, a program of notices), callers are threads that look
a service up. Every notice to the listener, every look at a table and every step of building a service
under the provider's lock is an action. A disk is a list of manifests and the state of every network
file; `ManifestRestoration` turns it into tables. `missed` marks a change between the restoration and
the observer's first look.

### 2.6 AgentCalls and MessageFlow

`acts` are activations, made as they are called: an agent runs a chain of LLM calls (`chain`, `llm`,
`tools`), its tools run together, a failed chain is tried again while attempts are left, a time-out of
the front man cancels all below it except an external clone, whose task is its own. `accounting` is the
shared dictionary of the request. In `MessageFlow` a write of a journal waits for nothing and is one
step; `hopper` is what the client heard, `context` what it sends back with its next request.

### 2.7 OpenFgaAuthorization, McpTools, ToolSelection

A request is a coroutine of its process' event loop; between two awaits it is alone in its process. A
thread lock held across an await blocks the loop when a second coroutine comes to it: `Others` and
`At` say whose steps are possible then. The facts of the authorization server change at any time.
`McpTools` has one action per look at the table of networks, so that the watcher's thread can come
between any two. `ToolSelection` keeps the dictionary of offered tools as the code does, per namespace
and by call id, and beside it, for the properties, what each call's model was really offered.

### 2.8 The algorithms

`NetworkValidation`, `NetworkConfiguration`, `ToolParameters`, `LlmSelection`, `ToolCreation`,
`ManifestRestoration` are operators. Names, texts and paths are sequences of parts where a property
depends on the parts (URL segments, holes of a template, package paths), and members of small sets
everywhere else. An exception is a value (`raised`, `crashed`, a kind of result). `MCAlgorithms`
computes one algorithm on one input per behaviour.

## 3. The runs

Every run finishes within about two minutes. No run assumes symmetry. Deadlock is not checked
anywhere: clients, deployments and clocks are bounded, and a system that nobody asks anything may
stop; that what was begun is finished is the business of the liveness properties.

| run | instance | what it shows |
| --- | --- | --- |
| `storage_threads` | 1 deployer, 1 requester, 1 sweeper; 1 own and 1 foreign name; 2 deployments, 2 instants, stacks of 3 | tables paired (`TablesTogether`) and leased (`LeaseKept`), answers leased (`AnswersAreLeased`), `NetworkLeases` implemented (section 2.1), expired networks removed (`ExpiredIsRemoved`) |
| `storage_serial` | one thread in every role; 2 own names, 1 foreign; `max_items` 1, 3 deployments | `AgreesBetweenCalls`: the listener knows exactly the networks stored, the limit holds, memory is never ahead of the base storage but for a late write |
| `pipeline_batches` | 2 requests, one closed early; 3 tools; deployments may fail | `DeploymentChannel` implemented; `NothingIsLost`: what was sent is tried by the end, what was accepted is kept through exceptions; `PipelineDrains`: waiting tools are woken, every task ends |
| `lifecycle` | 1 request whose client may leave, 1 direct session used twice, 1 clone; failing chats, a close that raises, the monitor | every stream is counted, resources closed once, event work closed after the work, a stream that ends brought its answer, executors returned after the close; `EventuallyClosed`: every executor comes back and a clone's resources are closed, but for whose reader waits in vain and for the clone of a request that had finished |
| `admission_limits` | 6 requests, every kind; total limit 1, concurrent limit 2, 2 polls | both limits, nothing admitted past the limit, the server stops, early only when nothing counted is processing |
| `registry_served` | 2 networks in 2 storages, 4 states of the files, 2 changes, 2 callers | `ServedIsCurrent`, `UpdatesAndLookupsEnd`, below |
| `services` | the ten parts of `Services` | the nine properties below |
| `algorithms` | 17 algorithms, about 71,000 inputs | the six properties below |
| `registry_moved`, `tools_offered`, `clients_stay`, `sweep_passes` | violations | section 5 |

### 3.1 What the composite properties say

Each is a conjunction of named parts with a comment of its own in the module; a mutant exists for the
parts that matter most.

- `ServedIsCurrent` (registry): at rest the tables hold what the files say and the listener what the
  tables hold; a service handed out was built from the network in the table; one caller builds; a ready
  server serves what its manifests said; an update never takes away, even for an instant, what it keeps.
  `UpdatesAndLookupsEnd`: the tables follow the files, every lookup ends.
- `ResponsesAreOrderly` (streaming): lines are written under the lock, something is heard in every
  keep-alive interval, nothing is written after the end, an event outlives its client, a chat does not.
- `EventsFireInTime` (periodic): never early, never twice for one instant, missed only when a pass was
  late or began at that very instant.
- `WorkersStartInOrder` (start-up): ready workers serve, queues exist before who reads them, one
  failing component keeps no other from starting, one process at most expires the shared storage.
- `ObjectsAreKept` (clients and objects): of `ClientsAreReplaced`, new clients carry fresh credentials
  and only who failed discards; of `StoredAreKept`, what was stored is found while its lease lasts, in
  Azure never (its reader looks for another name than its writer's); a sweep deletes nothing leased; and
  what it leaves behind expired is listed after an object that raises and so ends the pass, in Azure
  before anything is deleted. That such an object is passed over, as is written, does not hold: section 5.
- `CallsAreAccounted` (agents): every LLM call counted once and as its own agent's, however agents are
  retried and cancelled; attempts bounded; the last word comes last; everything closed.
- `ConversationIsKept` (messages): the answer is the agent's last word whatever the filter, thoughts are
  told once, tool results under their own origin, the context continues and stays bounded, but for a
  limit of 1, which the code takes for none.
- `AccessIsAuthorized` (authorization): a service or a listing only on the server's word, however
  scopes overlap and calls fail; a process asks a store with a policy; who is alone is answered.
- `ToolsAreServed` (MCP and tool selection): a list is whole, unique and permitted; a result is all that
  was said; a response is finished once; a tool runs if and only if its call's model was offered it.
- `EverythingEnds`: every part gets done, see the fairness below.
- `NetworksAreWhole`: cycles are found; an accepted network hangs together and names nothing unknown; it
  starts where everything is reached unless its first agent, the server's front man, is a tool or called
  by others, which the validators do not test; what is offered can be called; a report is complete.
- `ManifestsAreServed`: each storage serves what its own entries say last (not: what the last entry of all
  says, see section 5.1), only public networks are MCP tools, only valid schedules are fired.
- `ArgumentsAreEnforced`: required arguments mean the same to the validator, the LLM and the callee.
- `ModelsAreChosen`: an LLM is made with the key of whom the strongest of network, defaults and classes
  asks to pay, or not at all; an extended class is stronger than the one that extends it; of a list no
  LLM is leaked and no failure untold, unless one fails otherwise than by a `ValueError`, which leaves the
  list and loses what it had.
- `ConfigurationIsStable`, `ToolsAreMade`: filters are idempotent and private data goes only where it is
  listed; tools get their own arguments (but for a dictionary used twice) and what an agent does not get
  is told.

### 3.2 Bounds

*Why they are enough.* Storage hazards need a name deployed twice, or deployed here and fetched or
removed elsewhere: two deployments, two instants and one thread of each kind give every such pair, and
a stack of three frames is the deepest the code reaches unless the network is removed again while it
is announced. Eviction needs more names than the limit plus its slack (three against one and one).
Late writes need a batch of two names. The pipeline needs two tools on one queue and a second queue.
The lifecycle needs a mother and a clone, and two exchanges of one context; the client of the session
that is used twice stays in the run, to keep the check of `EventuallyClosed` within a minute, and may
leave in the theorems of section 4, which hold for every `Disconnecting` and every number of
exchanges. Admission needs one more
request than each limit and one of every kind. The registry needs one network that stays while the
other changes, and two changes, so that the second may come while the first is taken up. Streaming:
three results and time for two heartbeats and a time-out. Periodic: two schedules over six instants
with passes that take one or more of them. Start-up: two workers, one failing component. Clients: two
threads, one rotation, the three attempts of the code and two tries. Objects: three keys on pages of two,
of which one may be nobody's, one failure. Agents: three activations, which can be a chain or two
children of the front man, two rounds of tools, two attempts. Messages: two exchanges, two parallel
tool runs, two thoughts. Authorization: two requests in one process or one in each of two, one fault,
two changes of the facts. MCP: two names, two changes, two messages. Tool selection: two agents, two
namespaces, one call id and none, two calls of one answer, two answers; one tool, offered or not, is
enough, as every rule is about one call's tool. The algorithms: networks of up to three agents, two
definitions of a key, lists of up to three factories or fallbacks, schemas three levels deep: the
depth at which each rule has an inner and an outer case.

*Their names.* `MaxDeployments`, `MaxTime`, `MaxDepth`, `MaxBatches`, `MaxMessages` (a reporter waits
while that many messages are unread), `MaxExchanges`, `MaxPolls` (for `SHUTDOWN_TIMEOUT_SECONDS`),
`MaxEdits`, `MaxLookups`, `MaxResults`, `Horizon`, `MaxWorkers`, `MaxFailures`, `MaxRotations`,
`MaxTries`, `MaxActivations`, `MaxRounds`, `MaxTurns`, `MaxThoughts`, `MaxRuns`, `MaxRetries`,
`MaxFaults`, `MaxChanges`, `MaxCalls`, `MaxAnswers`. The limits of the code keep its names or stand
beside them: `max_attempts` (`AgentAttempts`), the client workers' attempts (`MaxAttempts`).

### 3.3 Fairness

All of it is weak, and of what the server schedules itself. `ExpiringStorage`: a call that began runs
on, the expiration loop scans again (`_run_loop` catches every exception), the clock advances; nobody
is obliged to deploy or ask. `ReservationPipeline`: the updater polls for ever, event loops run what is
posted to them, a tool leaves its with-statement, a request ends; a deployment may always fail.
`RequestLifecycle`: executors and the monitor's thread run, an agent's work ends (the time-outs of LLM
calls); clients and agents report, disconnect and raise as they like. `ServerAdmission`: only the
shutdown thread and the loop. `AgentRegistry`: the observer's events arrive, the watcher and the
callers go on. `Services`: handler and heartbeat, the start-up, the callers of S3, what agents do
inside the server (an LLM or a tool may never answer: the time-out is what ends the request), a question
of authorization (the server answers or errs) and an MCP request (the chat of its tool ends).

## 4. What is proved

For every set of names, threads, requests, tools, contexts and every limit and bound:

| theorem | statement |
| --- | --- |
| `ExpiringStorageProofs!TypeCorrect`, `...!Inductive` | `Spec => []TypeOK`, `Spec => []IInv` |
| `...!TablesAlwaysTogether`, `...!LeaseAlwaysKept`, `...!AnswersAlwaysLeased` | the three safety invariants of the storage with any threads |
| `...!StorageImplementsLeases` | `Spec => Leases!Spec`, the refinement of `NetworkLeases` |
| `...!SerialInvariance`, `...!CallsAgree` | with one thread: `Spec => []SerialInv(t)`, `Spec => []AgreesBetweenCalls` |
| `ReservationPipelineProofs!TypeCorrect`, `...!Invariance` | `Spec => []TypeOK`, `Spec => []IInv` |
| `...!BatchesAreKept` | `Spec => []NothingIsLost` |
| `...!ChannelIsImplemented` | `Spec => Channel!Spec`, the refinement of `DeploymentChannel` |
| `RequestLifecycleProofs!TypeCorrect`, `...!Invariance` | `Spec => []TypeOK`, `Spec => []IInv` |
| `...!StreamsAlwaysCounted`, `...!WorkIsClosedOnce`, `...!EventsAreClosedAfterWork`, `...!AnswersComeBeforeTheEnd`, `...!ExecutorsAreReturnedLast` | `StreamsAreCounted`, `ClosedOnce`, `EventClosedAfterWork`, `AnsweredAtEnd`, `ReturnedAfterClose` |
| `ServerAdmissionProofs!TypeCorrect`, `...!Inductive` | `Spec => []TypeOK`, `Spec => []IInv` |
| `...!ConcurrencyLimited`, `...!StopsOnlyWhenIdle`, `...!NoLateAdmission` | the limits and the shutdown |
| `AgentRegistryProofs!TypeCorrect` | `Spec => []TypeOK` |
| `...!TablesFollowFiles`, `...!ServedFromTheTable`, `...!OneBuildsAtATime`, `...!ReadyMeansServed` | `TablesMatchTheFiles`, `ServicesAreCurrent`, `OneBuilder`, `ReadyServes`, for any files, names and callers |
| `...!ListenerFollowsTables`, `...!WhatIsServedIsCurrent` | if no network moves between the storages: `Spec => []ListenerMatchesTables`, `Spec => ServedIsCurrent` |
| `OpenFgaAuthorizationProofs!TypeCorrect`, `...!Invariance` | the types and the inductive invariant of the questions |
| `...!OnlyOnTheServersWord`, `...!StoresAreReady`, `...!AloneIsServed` | the three safety parts of `AccessIsAuthorized`, for any processes, agents and requests |
| `ConversationProofs!CallsAreAlwaysAccounted` | `Spec => []CallsAreAccounted`, for any activations, rounds and attempts |
| `...!ConversationsAreAlwaysKept` | `Spec => []ConversationIsKept`, for any texts, tools, formats, limits and numbers of requests |
| `ServicesProofs!StreamsAreOrderly` | `Spec => ResponsesAreOrderly`, for any interval, results and times |
| `...!EventsAlwaysFireInTime` | `Spec => []EventsFireInTime`, for any schedules and horizon |
| `...!WorkersAlwaysStartInOrder` | `Spec => []WorkersStartInOrder`, for any workers, components and failures |
| `...!ClientsAlwaysReplaced`, `...!StoredAlwaysKept`, `...!ObjectsAlwaysKept` | `Spec => ClientsAreReplaced`, `Spec => StoredAreKept` and both, for any threads, tries, names, pages, leases and failures |
| `...!AccessIsAlwaysAuthorized` | `Spec => []AccessIsAuthorized`, the theorems of the component inside `Services` |
| `...!ToolsAreAlwaysServed` | `Spec => []ToolsAreServed`, for any networks, authorizations, messages, agents, call ids and tries |

`RequestLifecycleProofs` and `ReservationPipelineProofs` each begin with the lemmas they need about what
`put`, `put_final_item`, the next item, `close` and `reset` do to a queue of any messages.

*Assumptions*: `ConstantsAssumption`, `PipelineAssumption`, `LifecycleAssumption`, `AdmissionAssumption` and
`AuthorizationAssumption`: the types of the constants, and that roots and clones are different and the end
marker (`END_MESSAGE`, an object of its own in the code) is no message. `CallersAssumption`: nobody is no
caller. `NamesAssumption`: what is restored of any disk is of the names of networks; the restorer folds over
lists of manifests with a fold of the library, of which nothing can be proved for every list.
`ConversationProofs` and `ServicesProofs` rest on `PartsAssumption`, the conjunction of the assumptions of
the parts: types and bounds, and beyond these `HorizonAssumption` (schedules end within the horizon),
`ObjectAssumption` (finitely many keys, reservations and strays different, the grace of the sweep no shorter
than the longest lease), `FlowAssumption` (`"null"` is neither a text nor a tool), `McpAssumption` (finitely
many names, `"None"` not among them) and `SelectionAssumption` (the missing id is no id, and there is a
namespace for each agent). TLC evaluates them all. `SerialInvariance` and `CallsAgree` have two hypotheses
more: one thread, as in the run `storage_serial`, because with several the listener may hear of two changes
in the wrong order (section 5.1), and finitely many names, so that networks can be counted.
`ListenerFollowsTables` and `WhatIsServedIsCurrent` have the hypothesis `NetworksStay`: no name is restored
into the public storage of one disk and the protected one of another. It holds of the disks of the run
`registry_served`; without it the run `registry_moved` shows the listener to be wrong (section 5).

*The argument for the storage.* `LeaseKept` alone is not inductive: a network enters the tables
from a frame of a call stack that took it from the base storage or from a deployment some steps
ago, so the invariant must say what every frame, the base storage, the late writes and the shared
objects remember. `IInv` is the conjunction of
`HistoryInv` (deployments are promised in the order of their expirations, none beyond now plus the
lifetime), `ObjectInv` (the object of a name holds the expiration of one of its deployments, no older
than the one that stored it), `BaseInv` (the base storage holds leases), `LeftInv` (a late write is of
a name its deployment brought), `StackInv` (each frame by what it is doing: a deployer's batch is that
of its deployment, what a lookup fetched is a lease, what it returns to a request fits the request)
and the two table invariants. The lemmas about leases and stacks take the history and the time as
parameters, so that growth of the history (`LeasesGrow`, `StackGrows`) and the four ways a stack
changes (`StackGoto`, `StackCall`, `StackReturn`, start and end) are each proved once. The answer of a
request is leased at the time the request began, not when it is given: the unlocked read happens
after the test, and the ordering of deployments is what carries the test over to whatever network
is read (`AnyLeaseFits`). The refinement maps `agents` to the table and each place on a thread's
stack to a client, which is asking until its frame has read the table, and is told what it found or put
there; every step of a thread is one abstract step of one client, of the table, or a stutter.

*The argument for admission.* `num_processing` is the cardinality of the requests processing and of
those that failed without being counted down (`CountInv`), so it is never too low, which is the side
the limits and the shutdown rest on; it may be too high (section 5).

*The argument for a stream* (in `ServicesProofs`). `StreamInv` says that the lock is held exactly from a
write to its flush (`LockInv`), that the heartbeat task lives between the headers and the cleanup
(`BeatInv`), and that the heartbeat's sleep ends no later than one interval after the last line, or after
its start when there was none (`TimeInv`); a write of the handler only moves that instant away, so a
postponed wake-up is in time again. `HandlerInv` ties the reason of an end to what was delivered.

*The argument for one call at a time.* `AgreesBetweenCalls` speaks of the states between calls and says
nothing of those within, so it is not inductive at all. `SerialInv` adds to `IInv` what the call that
runs still owes, read off the two uppermost frames of its stack, the one that runs and the one that
called it; what is below waits at a place that owes nothing. `WellNested` says which frame may call
which: at most three deep, because what a listener looks up is what is being announced.
`ListenerInv` says of every name that the listener knows it if and only if it is stored, but for names
stored and to be announced (`Owed`), names removed and to be announced (`Leaving`) and the one that is
being announced (`InHand`), for which `Announcement` says how far that is. `Bounded` may fail only while
an eviction is due (`EvictionDue`), and `MemoryInv` keeps memory behind the base storage but for late
writes. When the stack is empty nothing is owed, and that is `AgreesBetweenCalls`.

*The argument for the pipeline.* What was sent is somewhere: `QueueInv` says that the queue of a request
holds the rest of what was sent, in the order it was sent, after what was tried and what the updater's
task has in hand, and that a task ends only when nothing more can be sent; `IncomingInv`, that the
queues nobody reads yet are those of requests that began, once each; `ToolInv`, that the batch of an
event a tool holds is collected or sent, unless its request was closed; `ConfirmInv`, that an event is
set only for a batch that was tried. The refinement maps the queue and the task's hands to one channel.

*The argument for the lifecycle.* `ClosedOnce` is not inductive: a context may be closed by
`finish_request()` or by the monitor, and what excludes that both do is where it is on its way. `IInv`
gives each context one stage (`Unclosed`; `ClosesItself`; `HandsOver`, `HandedOver`, `InPool`,
`MonitorClosing`; `Closed`) in terms of the steps `finish_request()` has left, the monitor's queue and
its pool, and `StageInv` says that a context past the first has `request_finished`, which is what stops
the second call of `finish_request()`. `WorkInv` ties the monitor's close to `work_done_event`;
`MonitorInv`, no context twice in the monitor's queue; `NewInv` and `FirstInv`, what a context that was
not reset has; `EndInv`, the end marker is the last item and the answer comes just before it;
`DrainedInv` and `AnsweredInv`, what a stream that ended left; `CountInv`, the counter is at least the
number of streams that run; `ExecutorInv`, an executor goes back when its work is closed. A step touches
one context, so each part is proved for that context and carried over to the others by one lemma.

*The argument for the registry.* What a service was built from and what the table holds are compared
across three threads, so `IInv` says what each has in hand. `AllowedInv`: the listener's entries are
providers of their names. `SetupInv`: the updater is in the middle of one storage; the names it has
removed are gone, those it has still to add are not in, and a notice comes from that storage and says of
its name what the table says. `DiskInv`: what is set up is what the files say, but for a change to be
seen or missed. `StartInv`: until the first change, every name to be served is allowed, to be announced or
still to be set up. `CallerInv`: who builds holds the lock of the provider it looked up, which is `OneBuilder`.
`ServiceInv` is the heart: not only the service of a provider is current, but also the one that somebody has
built and is about to store, unless a change of the name is announced; `reset_service()` takes the lock
a builder holds, so that nothing stale is stored after the reset. `StayInv` adds, where networks stay,
that a name is allowed exactly if its provider's own storage has it, but for the notice on its way.

*The argument for authorization.* Who initializes the store holds the lock (`Holds`), so that a process
creates a store only when it created none (`StoreIsNew`). `Consent` follows one question: what was said
is part of what was asked, and a request that looks a network up or asks again was told yes the first
time. `Alone` says that a request nobody disturbed asks on the client of the scope and that this is
open. Stating it for every constant showed `AloneIsAnswered` too strong as it was: with
`AGENT_DEBUG_AUTH=hard` a request for a temporary network that was told yes and is denied when it asks
again raises; the property now speaks of the last answer. These theorems are about the component;
`AccessIsAuthorized` is their conjunction inside `Services`, and `AccessIsAlwaysAuthorized` proves it there.

*The arguments for the parts of `Services`.* A step is of the part that runs and leaves the variables of the
others, so each part has an inductive invariant of its own, guarded by `part`. Calls and messages are in
`ConversationProofs`, with the lemmas about sums and recursions that they need; the others in
`ServicesProofs`, which extends it.

- Periodic events (`EventsInv`): what comes next is later than whatever was fired for, and every earlier
  instant of a schedule was fired for or began a pass (`Settled`); a step of the agenda looks for the
  least later instant, which exists because schedules are bounded.
- Start-up (`StartInv`): how far a worker is decides what it has; what it runs, what failed and what is to
  start are together always the same components; only the first worker takes the expiration.
- Clients (`ClientInv`): a shared client was made of its session's resolved credentials, and a session
  without a client is one without credentials.
- Objects (`ObjectsInv`): in Azure nothing is stored under the name that is looked for; what the sweep condemned has expired whatever is written there in the meantime;
  what was written and is gone has expired; what the pass should delete lies ahead of it until it is
  condemned, since a page has what comes first; an object that raises is no reservation, and stays.
- Calls (`CallsInv`): `GoodTree` relates each activation to the one that made it, by their states. Two sums
  along the activations, of what was reported to the front man and of what was not reported yet, give the
  shared dictionary. `MainCalls` is a function defined along that sequence, and what it returns is
  proved from the least activation for which it might differ (`AllOfThem`).
- Messages (`FlowInv`): what is on hold is what the LLM said last, every thought is told or on hold, and if
  the message told last is a thought, another one is on hold, so that an answer told as a thought before
  was said twice. A run's origin has an index below the counter of its tool. The history ends as what was
  said ends (`Matches`), with what the filter of a context keeps (`KeepsLast`) when the client sends it
  back. Stating `AnswerIsToldOnce` for every constant showed it too strong as it was: a tool's own
  report may be the answer word for word, and is no echo of the front man. The property now
  says whose message came before.
- MCP (`McpInv`): the names to come, the one at hand and those listed are apart, and a name that never
  changes is always in one of them; the text of a result is of what was heard so far.
- Tool selection (`SelectionInv`): the entry of a call id holds what was offered until the call ran, and no two
  agents at work share a namespace.

*Only model-checked*: every liveness property (`ExpiredIsRemoved`, `PipelineDrains`,
`EventuallyClosed`, `StopsAfterLimit`, `UpdatesAndLookupsEnd`, `EverythingEnds`), which this prover does
not reach; and the properties of the algorithms (`NetworksAreWhole`, `ManifestsAreServed`,
`ArgumentsAreEnforced`, `ModelsAreChosen`, `ConfigurationIsStable`, `ToolsAreMade`), whose modules recurse
over nested configuration with `RECURSIVE` operators and library folds. Induction along a sequence is
had from the least index that fails; induction over data is not.

## 5. Findings

Four runs end in a violation of what a document or a comment of the code says.

1. `registry_moved`: a network moved from the protected to the public storage is announced as added to
   the new before it is announced as removed from the old one; `agent_removed()` takes the name away
   whatever storage says so, and a network that is in the table gets 404 for good.
2. `tools_offered`: an agent that has an MCP server given by a dictionary among its `tools`, as the
   reference allows, cannot call any of its other agents: the look-up of a name parses every entry as
   a URL and raises on the dictionary.
3. `clients_stay`: the requests of one event loop share one OpenFGA authorizer with one client; the
   second scope closes the client the first is asking on, against the comment that avoids just that.
4. `sweep_passes`: a local file that is not UTF-8 ends the sweep: `UnicodeDecodeError` is none of the errors
   `_read_reservation_file()` catches, so whatever is listed after it is never expired, against "Errors
   on individual files are logged but do not abort the sweep" (`local_reservations_storage.py:261`).

### 5.1 Known from the models, without a run of their own

The models have these behaviours as steps or results; the properties of the passing runs are stated so
as to hold with them.

*Temporary networks and pipeline.* `agent_removed()` for an expired network may come after
`agent_added()` of its redeployment (`expiring_agent_network_storage.py:215`): stored and found, yet
404. A network renewed between the sweep's scan and its removal is removed. A lookup racing a removal
leaves an access time of nothing. A redeployed network keeps its old provider until it is removed. A
batch put after the final item is dropped with its event, and a tool still running waits for ever
(`service_agent_reservationist.py:105`). `deploy(confirmation=False)` always raises; a confirmation does
not tell whether the deployment succeeded.

*Stores.* As a file that is not UTF-8 ends the local sweep (finding 4), such an object ends a pass in S3
(against `s3_reservations_expiration.py:287`) and `metadata: null` one in Azure. S3 and Azure readers do not
look at the expiration. Objects of S3 that are no JSON are never deleted. Azure names blobs by the
reservation without prefix and stores no specification. The S3 worker's `start()` turns errors into
`ValueError`, so that the retry with a new client never sees them.

*Requests.* A chat that raises past its handlers sets `work_done_event` but puts no end marker, and the
reader waits for ever (`data_driven_chat_session.py:201`). A root returns its executor while an event
clone runs (`session_invocation_context.py:409`). A clone made after its mother's request was
acknowledged takes over `request_finished` and never closes (`:348`), nor does the second exchange of a
direct session: `reset()` clears the flag of the queue (`async_collating_queue.py:129`) but not
`request_finished`. If that second exchange is interrupted, the third reads the answer and the end
marker it left behind, and its own answer is never read; `AnsweredAtEnd` leaves this third exchange
out. The first exception of a close ends the monitor's thread. The request count keeps one
for every interrupted stream (`async_agent_service.py:338`). An exception between
`try_start_client_request()` and the `try` leaves `num_processing` one too high
(`streaming_chat_handler.py:105`). Time-out and error lines are written without the lock. MCP requests
run into the shutdown uncounted, and their own counter keeps one for each that raises.

*Registry.* A change between the restoration and the observer's first look is missed. `get_service()`
may return `None` after a reset: a silent, empty 200. An unparsable manifest ends the watcher's thread
while readiness stays. A network removed between look-up and use raises. An entry that is not to be
served hides the earlier ones only of the storage its own `public` and `mcp` name: `false`, which counts as
public, leaves a network served that an earlier manifest made protected, although a later manifest is
meant to override an earlier one (`registry_manifest_restorer.py:291`, `served_manifest_config_filter.py:63`)
and "when the value is false, the agent is neither served nor listed" (`docs/manifest_hocon_reference.md:36`). Periodic configurations are
read once, also for networks not served, and their `sly_data` and `chat_filter` are put where no
session reads them.

*Agents and messages.* A retry runs the whole chain again, tools that ran included. The retry loop of
external activations cannot be reached. An external clone may outlive its caller. Origins depend on the
order in which parallel calls are made. The message about a retry is said to be never mistaken for the
answer (`run_context_runnable.py:291`), yet passes the filters as one until there is a later answer. A
thought said twice before the same answer is told twice. `max_message_history` of 1 means no limit (`chat_history_message_processor.py:60`), although only
none and numbers that are not positive are said to (`:31`, `docs/agent_hocon_reference.md:1089`): the
context then grows with the conversation. The first message kept is the first of the human.

*Models and tools.* A class's own arguments yield to those of the class it extends
(`default_llm_factory.py:293`, against `docs/llm_info_hocon_reference.md:264`): a class of the user that
extends `openai` and asks for the user's key gets the server's. Only a `ValueError` makes the factory
try the next fallback (`:623`, against "fails for any reason, the next in the list is tried",
`docs/agent_hocon_reference.md:365`): any other error leaves the list, and the LLMs made before it are neither
used nor released. A cycle of extensions recurses. A factory that declines after another's error swallows it. `close_of_work` of
Bedrock is not protected, so that children are not released. An entry of middleware that is no
dictionary is "skipped" (`middleware_factory.py:161`) and then raises. A `null` where a toolbox or servers file wants a
dictionary or list raises. MCP tools keep the server's names, so two servers may collide. A dictionary of
arguments used for two calls keeps the first's origin, journal and reservationist
(`abstract_class_activation.py:104`). A stale entry may judge a call that a middleware made in place of
the model: without `origin_str` the namespace of selected tools is an address, which may be used again in
the same request, and calls without an id share an entry.

*Validation and configuration.* The search for cyclical agents misses those on a cycle through nodes it
has finished, and never misses every cycle. The connectivity report of a hidden front man raises
(`connectivity_reporter.py:142`). A corrected name is stored under the old key
(`name_correction_config_filter.py:64`). Missing agents are looked for in `tools`, not in `args.tools`.
`required` without `properties` passes and is not enforced; a missing `type` passes and fails later.
Common definitions depend on their order, and chains of three are left. The validators' front man
is the caller whom nobody calls (`unreachable_nodes_network_validator.py:112`), the server's the first agent
(`agent_network.py:131`, `docs/agent_hocon_reference.md:462`): an accepted network whose first agent is a
coded tool cannot be started, and one whose first agent is called by another starts there and need not
reach the rest.

*Authorization and MCP.* The store's thread lock is held across an await, so two first requests of one
loop block it for good (`open_fga_store_cache.py:78`); two processes may each create a store. A client
leaks when scopes overlap. The verdict of the second question about a temporary network is ignored.
Without `FGA_MODEL_ID` each start writes a new model. `list()` with an id tests a coroutine that is not
awaited. A network that goes away during a list fails the whole list. `delete()` answers 204 for a
session it did not find.

## 6. Not modelled

`PROJECT.json` "components" lists every part with its reason. Sessions over HTTP and the command line
are clients: each call is one request, and their loops wait for a user. Tracing
(`http_llm_tracer.py`, `loop_timeline_tracer.py`, `langfuse_tracing_context.py`, `nora_fleet_runnable.py`)
measures and changes nothing of the service. `nora_fleet_summarization_middleware.py` gives LangChain's
own partition of a history other texts; what it cuts is the library's. `network_copy_middleware.py`
copies a network in one straight line through the reservationist, which `ReservationPipeline` has.
Examples, test infrastructure, deployment and generated protocol code are not part of the service.

Left out of the modelled components: the `sizes` table and the start and stop of the expiration
threads, the parsing of files, addresses of buckets and arguments of the command line, texts and
formats of messages and errors, metadata and reports, `DirectAgentReservationist`, the updater's
`stop()`, progress messages, MCP sessions (never installed), `CancelledError` and
`StreamClosedError` of MCP, `ToolboxNetworkValidator` (used by no validation), `grant()` and `revoke()`
(pure calls of the authorization server; the facts change by themselves).

External, modelled from how the code uses them: LLMs and LangChain's agent loop (answers with any tool
calls, or errors), the object stores, the authorization server, MCP servers, coded tools, clients, file
events, the operating system's scheduling.

The parts of `Services` are not composed with each other: a state space with two of them is the
product of both, and nothing in one reads the other's state.

## 7. Plan

The modules of section 2 and the theorems of section 4 state every safety property of the runs but those
of the algorithms. What could follow: recursive functions in place of the `RECURSIVE` operators, where
the data is a sequence, so that some of the algorithms can be reasoned about as `MainCalls` is; and a
composition of `AgentCalls` with `MessageFlow`, whose product is too large for TLC but not for the prover.

--------------------------- MODULE ServerAdmission ---------------------------
(***************************************************************************)
(* HttpServerApp: which requests one server process takes on, how it counts *)
(* them, and how it stops after requests_limit of them.  All handlers run   *)
(* on one event loop, so what a handler does between two awaits is one      *)
(* action; do_shutdown() polls the count from a thread of its own.          *)
(***************************************************************************)
EXTENDS Integers, FiniteSets

CONSTANTS
  Requests,                   \* requests that reach the process
  Kind,                       \* the handler of each
  requests_limit,             \* served before the server stops, if not negative
  concurrent_requests_limit,  \* served at a time, if positive
  MaxPolls                    \* polls that fit SHUTDOWN_TIMEOUT_SECONDS

\* chat: streaming_chat; call: function and connectivity; list: concierge;
\* docs: openapi; mcp: the MCP root handler, which counts nothing.
Kinds == {"chat", "call", "list", "docs", "mcp"}

ASSUME AdmissionAssumption ==
  /\ Kind \in [Requests -> Kinds]
  /\ requests_limit \in Int /\ concurrent_requests_limit \in Int
  /\ MaxPolls \in Nat

VARIABLES
  serving, num_processing, total,
  request,   \* where each request is
  shutdown,  \* the thread of do_shutdown(): none, polling, exiting
  polls,     \* how often it found requests processing
  running    \* does the event loop run?

counts == <<serving, num_processing, total>>
stopping == <<shutdown, polls, running>>
vars == <<counts, request, stopping>>

TypeOK ==
  /\ serving \in BOOLEAN
  /\ num_processing \in Int /\ total \in Nat
  /\ request \in [Requests -> {"new", "received", "processing", "finished",
                               "refused", "failed"}]
  /\ shutdown \in {"none", "polling", "exiting"}
  /\ polls \in 0 .. MaxPolls
  /\ running \in BOOLEAN

Init ==
  /\ serving = TRUE
  /\ num_processing = 0
  /\ total = 0
  /\ request = [r \in Requests |-> "new"]
  /\ shutdown = "none"
  /\ polls = 0
  /\ running = TRUE
-----------------------------------------------------------------------------
(* Handlers *)

\* The handler of r goes on, on the event loop, and r is somewhere else.
Moves(r, from, to) ==
  /\ running
  /\ request[r] = from
  /\ request' = [request EXCEPT ![r] = to]

\* prepare(): a server that is shutting down answers 503 at once.
Prepare(r) ==
  /\ Moves(r, "new", IF serving THEN "received" ELSE "refused")
  /\ UNCHANGED <<counts, stopping>>

\* get_service(): forbidden, not found, no temporary storage, or it raised.
NoService(r) ==
  /\ Kind[r] \in {"chat", "call"}
  /\ Moves(r, "received", "refused")
  /\ UNCHANGED <<counts, stopping>>

\* Mutant: a server that is shutting down still admits what it has received.
AdmitsUnlessFull ==
  ~(0 < concurrent_requests_limit /\ concurrent_requests_limit <= num_processing)

\* Mutant: one request more than the limit.
AdmitsOneMore ==
  /\ serving
  /\ ~(0 < concurrent_requests_limit /\ concurrent_requests_limit < num_processing)

\* try_start_client_request(): is a request admitted now?
Admits ==
  /\ serving
  /\ ~(0 < concurrent_requests_limit /\ concurrent_requests_limit <= num_processing)

Refuse(r) ==
  /\ Kind[r] # "mcp" /\ ~Admits
  /\ Moves(r, "received", "refused")
  /\ UNCHANGED <<counts, stopping>>

Start(r) ==
  /\ Kind[r] \notin {"docs", "mcp"} /\ Admits
  /\ Moves(r, "received", "processing")
  /\ num_processing' = num_processing + 1
  /\ UNCHANGED <<serving, total, stopping>>

LimitReached(n) == 0 <= requests_limit /\ requests_limit < n

\* finish_client_request() but for num_processing: past the limit nothing is
\* served any more and the one thread of do_shutdown() is started.
CountTotal ==
  /\ total' = total + 1
  /\ serving' = (serving /\ ~LimitReached(total + 1))
  /\ shutdown' = IF LimitReached(total + 1) /\ shutdown = "none" THEN "polling" ELSE shutdown

\* A request that ends in the step it is admitted in: the published document, a
\* chat whose body is not JSON.  It is counted and no longer counted.
StartAndFinish(r) ==
  /\ Kind[r] \in {"docs", "chat"} /\ Admits
  /\ Moves(r, "received", "finished")
  /\ CountTotal
  /\ UNCHANGED <<num_processing, polls, running>>

\* A chat whose network is gone from the tables when its timeout is asked for,
\* or whose body is JSON but no object: the exception leaves post() between
\* try_start_client_request() and the try that would finish it.
StartRaises(r) ==
  /\ Kind[r] = "chat" /\ Admits
  /\ Moves(r, "received", "failed")
  /\ num_processing' = num_processing + 1
  /\ UNCHANGED <<serving, total, stopping>>

\* The authorizer raises in list_agents(), which is awaited before the try.
ListRaises(r) ==
  /\ Kind[r] = "list"
  /\ Moves(r, "processing", "failed")
  /\ UNCHANGED <<counts, stopping>>

\* Mutant: a request is counted down before what it still awaits.
FinishEarly(r) ==
  /\ Kind[r] # "mcp"
  /\ Moves(r, "processing", "processing")
  /\ CountTotal
  /\ num_processing' = num_processing - 1
  /\ UNCHANGED <<polls, running>>

\* The response is finished and finish_client_request() called, however the
\* work, the stream or the client ended it.
Finish(r) ==
  /\ Kind[r] # "mcp"
  /\ Moves(r, "processing", "finished")
  /\ CountTotal
  /\ num_processing' = num_processing - 1
  /\ UNCHANGED <<polls, running>>

\* McpRootHandler.post() neither asks to start nor reports its end.
ServeMcp(r) ==
  /\ Kind[r] = "mcp"
  /\ Moves(r, "received", "processing") \/ Moves(r, "processing", "finished")
  /\ UNCHANGED <<counts, stopping>>
-----------------------------------------------------------------------------
(* do_shutdown() *)

\* Mutant: the thread waits for ever.
PollNoTimeout ==
  /\ shutdown = "polling"
  /\ shutdown' = IF num_processing <= 0 THEN "exiting" ELSE "polling"
  /\ UNCHANGED <<counts, request, polls, running>>

\* Mutant: one poll too many.
PollOnceMore ==
  /\ shutdown = "polling"
  /\ IF polls <= MaxPolls /\ num_processing > 0
     THEN polls' = polls + 1 /\ UNCHANGED shutdown
     ELSE shutdown' = "exiting" /\ UNCHANGED polls
  /\ UNCHANGED <<counts, request, running>>

\* Every two seconds until nothing is processing or the time is over.
Poll ==
  /\ shutdown = "polling"
  /\ IF polls < MaxPolls /\ num_processing > 0
     THEN polls' = polls + 1 /\ UNCHANGED shutdown
     ELSE shutdown' = "exiting" /\ UNCHANGED polls
  /\ UNCHANGED <<counts, request, running>>

\* loop.stop(), as a callback of the loop.
StopServer ==
  /\ shutdown = "exiting" /\ running
  /\ running' = FALSE
  /\ UNCHANGED <<counts, request, shutdown, polls>>
-----------------------------------------------------------------------------
Next ==
  \/ \E r \in Requests :
       \/ Prepare(r) \/ NoService(r) \/ Refuse(r)
       \/ Start(r) \/ StartAndFinish(r) \/ StartRaises(r)
       \/ ListRaises(r) \/ Finish(r) \/ ServeMcp(r)
  \/ Poll \/ StopServer

Spec == Init /\ [][Next]_vars

\* The thread and the loop run; no request need ever come or end.
FairSpec == Spec /\ WF_vars(Poll) /\ WF_vars(StopServer)
-----------------------------------------------------------------------------
Processing == {r \in Requests : request[r] = "processing" /\ Kind[r] # "mcp"}

\* "limit for number of concurrent requests we can execute": however requests
\* arrive, are resolved, end and fail, the counted ones never exceed it.
WithinConcurrentLimit ==
  concurrent_requests_limit > 0 =>
    IsFiniteSet(Processing) /\ Cardinality(Processing) <= concurrent_requests_limit

\* do_shutdown() reads the count without the lock, while handlers still come back
\* from their awaits: when it gives up waiting before its time is over, no
\* request that is counted is processing, and none will be.
StopsWhenIdle ==
  shutdown = "exiting" => Processing = {} \/ polls = MaxPolls

\* A request received before the limit was reached, and still being resolved
\* when it is, is not admitted any more.
NoneAdmittedPastLimit ==
  [][\A r \in Requests :
       Kind[r] # "mcp" /\ request[r] = "received"
         /\ request'[r] \in {"processing", "finished", "failed"}
       => ~LimitReached(total)]_vars

\* A server that has reached its limit stops, whatever its requests do, those
\* included that never end or whose end is not counted.
StopsAfterLimit == LimitReached(total) ~> ~running
=============================================================================

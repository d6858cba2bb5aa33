------------------------ MODULE ReservationPipeline ------------------------
(***************************************************************************)
(* How a coded tool deploys temporary networks.  Inside a with-statement   *)
(* its AccumulatingAgentReservationist collects batches; leaving the       *)
(* statement puts them on the queue of its request's                       *)
(* ServiceAgentReservationist; TempNetworkStorageUpdater, on an event loop *)
(* of its own, learns of that queue from a queue of queues, deploys batch  *)
(* after batch, and sets each batch's event on the tool's event loop.      *)
(* Closing the request's work puts the final item.                          *)
(*                                                                         *)
(* A batch is <<tool, n>>, the tool's n-th deploy().  Everything a tool or *)
(* a close does between two awaits that may suspend is one action.         *)
(***************************************************************************)
EXTENDS Integers, FiniteSets, CollatingQueue

CONSTANTS
  Requests,     \* requests that may deploy
  Tools,        \* calls of coded tools
  RequestOf,    \* the request of each tool
  EarlyClose,   \* requests whose work may be closed while tools are at it
  Unreliable,   \* may deploy_together() raise?
  MaxBatches    \* bound: each tool's calls of deploy() in its with-statement

Batches == UNION {{t} \X (1..MaxBatches[t]) : t \in Tools}
NoBatch == <<>>

ASSUME PipelineAssumption ==
  /\ RequestOf \in [Tools -> Requests]
  /\ EarlyClose \subseteq Requests
  /\ Unreliable \in BOOLEAN
  /\ MaxBatches \in [Tools -> Nat]
  /\ END_MESSAGE \notin Batches

VARIABLES
  request,      \* each request: not begun, open, or its work closed
  incoming,     \* ServerContext.queues: queues of requests nobody reads yet
  queue,        \* the AsyncCollatingQueue of each request
  processor,    \* the task that reads each queue
  deploying,    \* the batch that task is deploying
  tool,         \* where each tool is
  deployments,  \* what its reservationist has collected
  awaiting,     \* the batch whose event deploy() returned last
  raised,       \* did the with-statement raise?
  posted,       \* batches whose set_event() waits on the tool's loop
  events,       \* batches whose event is set
  sent,         \* history: batches each request's tools sent
  attempted     \* history: batches that were tried for each request

pipe == <<incoming, queue, processor>>
tools == <<tool, deployments, awaiting, raised>>
vars == <<request, pipe, deploying, tools, posted, events, sent, attempted>>

(* Types.  What the updater has in hand to deploy is a batch, never the     *)
(* final item, which process_one_queue() tells from the batches around it.  *)
TypeOK ==
  /\ request \in [Requests -> {"new", "open", "closed"}]
  /\ incoming \in Seq(Requests)
  /\ queue \in [Requests -> QueuesOf(Batches)]
  /\ processor \in [Requests -> {"none", "running", "finished"}]
  /\ deploying \in [Requests -> Batches \cup {NoBatch}]
  /\ tool \in [Tools -> {"idle", "inside", "leaving", "deploying", "waiting",
                         "done", "failed"}]
  /\ deployments \in [Tools -> Seq(Batches)]
  /\ awaiting \in [Tools -> Batches \cup {NoBatch}]
  /\ raised \in [Tools -> BOOLEAN]
  /\ posted \subseteq Batches /\ events \subseteq Batches
  /\ sent \in [Requests -> Seq(Batches)]
  /\ attempted \in [Requests -> Seq(Batches)]

Init ==
  /\ request = [r \in Requests |-> "new"]
  /\ incoming = <<>>
  /\ queue = [r \in Requests |-> EmptyQueue]
  /\ processor = [r \in Requests |-> "none"]
  /\ deploying = [r \in Requests |-> NoBatch]
  /\ tool = [t \in Tools |-> "idle"]
  /\ deployments = [t \in Tools |-> <<>>]
  /\ awaiting = [t \in Tools |-> NoBatch]
  /\ raised = [t \in Tools |-> FALSE]
  /\ posted = {} /\ events = {}
  /\ sent = [r \in Requests |-> <<>>]
  /\ attempted = [r \in Requests |-> <<>>]
-----------------------------------------------------------------------------
(* A request. *)

(* Its queue goes on the queue of queues before the request does anything. *)
Begin(r) ==
  /\ request[r] = "new"
  /\ request' = [request EXCEPT ![r] = "open"]
  /\ incoming' = Append(incoming, r)
  /\ UNCHANGED <<queue, processor, deploying, tools, posted, events, sent, attempted>>

ToolsOf(r) == {t \in Tools : RequestOf[t] = r}

(* Mutant: a close that leaves the queue open. *)
NoFinalItem(q) == q

FinalItemOf(q) == PutFinalItem(q)

(* close_of_work() of the ServiceAgentReservationist.  Only an interrupted  *)
(* request, or one that shares it with event work, closes before its tools  *)
(* are done.                                                                *)
CloseOfWork(r) ==
  /\ request[r] = "open"
  /\ r \in EarlyClose \/ \A t \in ToolsOf(r) : tool[t] \in {"idle", "done", "failed"}
  /\ request' = [request EXCEPT ![r] = "closed"]
  /\ queue' = [queue EXCEPT ![r] = FinalItemOf(@)]
  /\ UNCHANGED <<incoming, processor, deploying, tools, posted, events, sent, attempted>>
-----------------------------------------------------------------------------
(* A tool. *)

(* A closed request starts no tool, unless it was closed early. *)
MayRun(t) ==
  \/ request[RequestOf[t]] = "open"
  \/ (request[RequestOf[t]] = "closed" /\ RequestOf[t] \in EarlyClose)

(* __aenter__() clears what was collected before. *)
Enter(t) ==
  /\ tool[t] = "idle" /\ MayRun(t)
  /\ tool' = [tool EXCEPT ![t] = "inside"]
  /\ deployments' = [deployments EXCEPT ![t] = <<>>]
  /\ UNCHANGED <<request, pipe, deploying, awaiting, raised, posted, events,
                 sent, attempted>>

NextBatch(t) == <<t, Len(deployments[t]) + 1>>

(* deploy(): a valid batch is collected under a new event ... *)
Deploy(t) ==
  /\ tool[t] = "inside"
  /\ Len(deployments[t]) < MaxBatches[t]
  /\ deployments' = [deployments EXCEPT ![t] = Append(@, NextBatch(t))]
  /\ awaiting' = [awaiting EXCEPT ![t] = NextBatch(t)]
  /\ UNCHANGED <<request, pipe, deploying, tool, raised, posted, events, sent, attempted>>

(* ... an invalid one raises a ValueError, any batch without confirmation a *)
(* TypeError (a dictionary's keys are indexed).  The with-statement is left *)
(* in both cases.                                                           *)
DeployRaises(t) ==
  /\ tool[t] = "inside"
  /\ tool' = [tool EXCEPT ![t] = "leaving"]
  /\ raised' = [raised EXCEPT ![t] = TRUE]
  /\ UNCHANGED <<request, pipe, deploying, deployments, awaiting, posted, events,
                 sent, attempted>>

(* After the with-statement: a caller that got an event waits for it. *)
AfterExit(t) ==
  IF raised[t] THEN "failed"
  ELSE IF awaiting[t] # NoBatch THEN "waiting" ELSE "done"

(* Mutant: a statement that raised sends nothing. *)
CollectedIfNoFailure(t) == IF raised[t] THEN <<>> ELSE deployments[t]

Collected(t) == deployments[t]

(* __aexit__() sends what was collected, whether or not the statement       *)
(* raised: deploy_one(), one put per batch.  Each is dropped if the request *)
(* was closed.                                                              *)
Exit(t) ==
  LET r == RequestOf[t] IN
  /\ tool[t] \in {"inside", "leaving"}
  /\ queue' = [queue EXCEPT ![r] = PutAll(@, Collected(t))]
  /\ sent' = [sent EXCEPT ![r] = IF Accepts(queue[r]) THEN @ \o Collected(t) ELSE @]
  /\ deployments' = [deployments EXCEPT ![t] = <<>>]
  /\ tool' = [tool EXCEPT ![t] = AfterExit(t)]
  /\ UNCHANGED <<request, incoming, processor, deploying, awaiting, raised, posted,
                 events, attempted>>

(* set_event() runs on the tool's loop ... *)
SetEvent(b) ==
  /\ b \in posted
  /\ posted' = posted \ {b}
  /\ events' = events \cup {b}
  /\ UNCHANGED <<request, pipe, deploying, tools, sent, attempted>>

(* ... and wakes the tool that waits for it. *)
Wake(t) ==
  /\ tool[t] = "waiting" /\ awaiting[t] \in events
  /\ tool' = [tool EXCEPT ![t] = "done"]
  /\ UNCHANGED <<request, pipe, deploying, deployments, awaiting, raised, posted,
                 events, sent, attempted>>
-----------------------------------------------------------------------------
(* TempNetworkStorageUpdater *)

(* add_new_queues_to_processing() makes a task for the next queue. *)
TakeQueue ==
  /\ incoming # <<>>
  /\ incoming' = Tail(incoming)
  /\ processor' = [processor EXCEPT ![Head(incoming)] = "running"]
  /\ UNCHANGED <<request, queue, deploying, tools, posted, events, sent,
                 attempted>>

(* Mutant: whatever comes off the queue is deployed, the final item too. *)
TakeAnyItem(r) ==
  /\ processor[r] = "running" /\ deploying[r] = NoBatch /\ HasItem(queue[r])
  /\ queue' = [queue EXCEPT ![r] = WithoutNext(@)]
  /\ deploying' = [deploying EXCEPT ![r] = NextItem(queue[r])]
  /\ UNCHANGED <<request, incoming, processor, tools, posted, events, sent, attempted>>

(* process_one_queue(): the final item closes the queue and ends the task. *)
TakeItem(r) ==
  /\ processor[r] = "running" /\ deploying[r] = NoBatch /\ HasItem(queue[r])
  /\ IF IsFinalItem(NextItem(queue[r]))
     THEN /\ queue' = [queue EXCEPT ![r] = CloseQueue(WithoutNext(@))]
          /\ processor' = [processor EXCEPT ![r] = "finished"]
          /\ UNCHANGED deploying
     ELSE /\ queue' = [queue EXCEPT ![r] = WithoutNext(@)]
          /\ deploying' = [deploying EXCEPT ![r] = NextItem(queue[r])]
          /\ UNCHANGED processor
  /\ UNCHANGED <<request, incoming, tools, posted, events, sent, attempted>>

(* Mutant: only a deployment that succeeded is confirmed. *)
NotifiedIfDeployed(b, succeeded) == IF succeeded THEN posted \cup {b} ELSE posted

Notified(b, succeeded) == posted \cup {b}

(* Mutant: what failed is tried again. *)
DeployUntilDone(r) ==
  /\ deploying[r] # NoBatch
  /\ \E succeeded \in IF Unreliable THEN BOOLEAN ELSE {TRUE} :
       /\ posted' = Notified(deploying[r], succeeded)
       /\ deploying' = [deploying EXCEPT ![r] = IF succeeded THEN NoBatch ELSE @]
  /\ Len(attempted[r]) < Cardinality(Batches)
  /\ attempted' = [attempted EXCEPT ![r] = Append(@, deploying[r])]
  /\ UNCHANGED <<request, pipe, tools, events, sent>>

(* process_one_queued_item(): deploy_together(), whose effect on the tables *)
(* is ExpiringStorage's, may raise, and the event is posted all the same.   *)
DeployTogether(r) ==
  /\ deploying[r] # NoBatch
  /\ \E succeeded \in IF Unreliable THEN BOOLEAN ELSE {TRUE} :
       posted' = Notified(deploying[r], succeeded)
  /\ attempted' = [attempted EXCEPT ![r] = Append(@, deploying[r])]
  /\ deploying' = [deploying EXCEPT ![r] = NoBatch]
  /\ UNCHANGED <<request, pipe, tools, events, sent>>
-----------------------------------------------------------------------------
Next ==
  \/ \E r \in Requests : Begin(r) \/ CloseOfWork(r) \/ TakeItem(r) \/ DeployTogether(r)
  \/ \E t \in Tools : Enter(t) \/ Deploy(t) \/ DeployRaises(t) \/ Exit(t) \/ Wake(t)
  \/ \E b \in Batches : SetEvent(b)
  \/ TakeQueue

Spec == Init /\ [][Next]_vars

(* The updater's loop polls for ever, the tools' loops run what is posted,  *)
(* a tool leaves its with-statement, and a request that ends is closed.     *)
Fairness ==
  /\ WF_vars(TakeQueue)
  /\ \A r \in Requests : WF_vars(TakeItem(r)) /\ WF_vars(DeployTogether(r))
                          /\ WF_vars(CloseOfWork(r))
  /\ \A t \in Tools : WF_vars(Exit(t)) /\ WF_vars(Wake(t))
  /\ \A b \in Batches : WF_vars(SetEvent(b))

FairSpec == Spec /\ Fairness
-----------------------------------------------------------------------------
(* What is sent is tried once each and in order, and only what was tried is *)
(* confirmed, however tools, closes and the updater interleave.             *)
Channel == INSTANCE DeploymentChannel WITH confirmed <- events

ImplementsChannel == Channel!Spec

(* No batch is lost on its way.  When the task of a queue has ended,        *)
(* everything that was sent was tried: the final item has nothing behind    *)
(* it.  What deploy() accepted is not lost by the with-statement, by an     *)
(* exception least of all: it is collected, sent, or refused by a closed    *)
(* request.                                                                 *)
NothingIsLost ==
  /\ \A r \in Requests : processor[r] = "finished" => attempted[r] = sent[r]
  /\ \A t \in Tools : awaiting[t] # NoBatch =>
       \/ \E i \in 1..Len(deployments[t]) : deployments[t][i] = awaiting[t]
       \/ \E i \in 1..Len(sent[RequestOf[t]]) : sent[RequestOf[t]][i] = awaiting[t]
       \/ request[RequestOf[t]] = "closed"

(* A tool that waits for its deployment is woken, also when the deployment  *)
(* fails, as long as its request is closed after its tools are done.        *)
WaitingIsConfirmed ==
  \A t \in Tools :
    RequestOf[t] \notin EarlyClose => (tool[t] = "waiting") ~> (tool[t] = "done")

(* The task of every closed request ends.                                   *)
ProcessorEnds ==
  \A r \in Requests : (request[r] = "closed") ~> (processor[r] = "finished")

(* The pipeline runs empty: every tool is woken and every task ends.        *)
PipelineDrains == WaitingIsConfirmed /\ ProcessorEnds
=============================================================================

-------------------------- MODULE RequestLifecycle --------------------------
(***************************************************************************)
(* The life of a streaming request: SessionInvocationContext, the chat     *)
(* task that does the work on the context's executor, the generators that  *)
(* stream its messages to the client, the clones of the context made for   *)
(* external agents on the same server, and EventWorkMonitor, the thread    *)
(* that closes event work after its request is over.                       *)
(*                                                                         *)
(* A root is a context made for a request; a clone shares its mother's     *)
(* executor.  finish_request() blocks the thread of a root's client until  *)
(* its coroutines ran on the executor; a clone's client is on the same     *)
(* loop and only creates the tasks.  In both cases what is left to run is  *)
(* the sequence `closing`.                                                 *)
(***************************************************************************)
EXTENDS Integers, FiniteSets, CollatingQueue

CONSTANTS
  Roots, Clones,  \* invocation contexts
  MotherOf,       \* the context each clone is a copy of
  Reused,         \* roots of direct sessions, reset() for another exchange
  Disconnecting,  \* roots whose client may go away or time out
  Failing,        \* contexts whose chat may raise an exception
  BadClose,       \* contexts whose close_of_work() raises
  HasMonitor,     \* is there an event_work_queue?
  MaxMessages,    \* bound: messages waiting in a queue before another is reported
  MaxExchanges    \* bound: exchanges of a reused root

Contexts == Roots \cup Clones

RootOf[c \in Contexts] == IF c \in Roots THEN c ELSE RootOf[MotherOf[c]]

ASSUME LifecycleAssumption ==
  /\ Roots \cap Clones = {}
  /\ MotherOf \in [Clones -> Contexts]
  /\ Reused \cup Disconnecting \subseteq Roots
  /\ Failing \cup BadClose \subseteq Contexts
  /\ HasMonitor \in BOOLEAN
  /\ MaxMessages \in Nat /\ MaxExchanges \in Nat
  /\ END_MESSAGE \notin {"report", "answer"}

VARIABLES
  invocation,       \* effective_invocation
  queue,            \* the AsyncCollatingQueue of messages
  hasQueue,         \* is the context's queue still there (not None)?
  requestFinished,  \* request_finished
  workDone,         \* work_done_event
  executor,         \* of each root: none yet, held, or returned to the pool
  resources,        \* contexts whose chat session is in their resources
  chat,             \* where DataDrivenChatSession.streaming_chat() is
  lastMessageSent,  \* last_message_sent of the chat session
  consumer,         \* where the generator that reads the queue is
  closing,          \* what finish_request() or done_with_work() still has to run
  closes,           \* history: how often close_of_work() ran
  answered,         \* history: the client was given an answer or acknowledgement
  exchanges,        \* history: how many exchanges were begun
  requests,         \* request_counter
  workQueue,        \* event_work_queue
  pool,             \* invocation_context_pool
  monitor,          \* the thread of EventWorkMonitor
  monitored         \* the context whose work the monitor is closing, if any

context == <<invocation, queue, hasQueue, requestFinished, workDone, resources>>
monitoring == <<workQueue, pool, monitor, monitored>>
vars == <<context, executor, chat, lastMessageSent, consumer, closing, closes,
          answered, exchanges, requests, monitoring>>

TypeOK ==
  /\ invocation \in [Contexts -> {"chatbot", "event"}]
  /\ queue \in [Contexts -> QueuesOf({"report", "answer"})]
  /\ hasQueue \in [Contexts -> BOOLEAN]
  /\ requestFinished \in [Contexts -> BOOLEAN]
  /\ workDone \in [Contexts -> BOOLEAN]
  /\ executor \in [Roots -> {"none", "held", "returned"}]
  /\ resources \subseteq Contexts
  /\ chat \in [Contexts -> {"none", "submitted", "running", "calling", "returning", "done"}]
  /\ lastMessageSent \in [Contexts -> BOOLEAN]
  /\ consumer \in [Contexts -> {"none", "reading", "ended", "interrupted",
                                "finishing", "aborting", "gone"}]
  /\ closing \in [Contexts -> Seq({"close_of_request", "put_work",
                                   "close_of_work", "return_executor"})]
  /\ closes \in [Contexts -> Nat]
  /\ answered \in [Contexts -> BOOLEAN]
  /\ exchanges \in [Contexts -> Nat]
  /\ requests \in Nat
  /\ workQueue \in QueuesOf(Contexts)
  /\ pool \subseteq Contexts
  /\ monitor \in {"running", "dead"}
  /\ monitored \subseteq Contexts

Init ==
  /\ invocation = [c \in Contexts |-> "chatbot"]
  /\ queue = [c \in Contexts |-> EmptyQueue]
  /\ hasQueue = [c \in Contexts |-> TRUE]
  /\ requestFinished = [c \in Contexts |-> FALSE]
  /\ workDone = [c \in Contexts |-> FALSE]
  /\ executor = [r \in Roots |-> "none"]
  /\ resources = {}
  /\ chat = [c \in Contexts |-> "none"]
  /\ lastMessageSent = [c \in Contexts |-> FALSE]
  /\ consumer = [c \in Contexts |-> "none"]
  /\ closing = [c \in Contexts |-> <<>>]
  /\ closes = [c \in Contexts |-> 0]
  /\ answered = [c \in Contexts |-> FALSE]
  /\ exchanges = [c \in Contexts |-> 0]
  /\ requests = 0
  /\ workQueue = EmptyQueue
  /\ pool = {}
  /\ monitor = "running"
  /\ monitored = {}
-----------------------------------------------------------------------------
(* The client. *)

(* streaming_chat() of the session: a chat session is made, its chat is    *)
(* submitted to the executor, and the queue is read.                       *)
BeginExchange(c) ==
  /\ chat' = [chat EXCEPT ![c] = "submitted"]
  /\ lastMessageSent' = [lastMessageSent EXCEPT ![c] = FALSE]
  /\ consumer' = [consumer EXCEPT ![c] = "reading"]
  /\ answered' = [answered EXCEPT ![c] = FALSE]
  /\ exchanges' = [exchanges EXCEPT ![c] = @ + 1]

(* Mutant: the request is not counted. *)
OpenUncounted(r) ==
  /\ exchanges[r] = 0
  /\ \E how \in {"chatbot", "event"} : invocation' = [invocation EXCEPT ![r] = how]
  /\ executor' = [executor EXCEPT ![r] = "held"]
  /\ BeginExchange(r)
  /\ UNCHANGED <<queue, hasQueue, requestFinished, workDone, resources,
                 closing, closes, requests, monitoring>>

(* A request: AsyncAgentService.streaming_chat() counts it and makes its   *)
(* context, which takes an executor.  A direct session does the same but   *)
(* for the counting and always chats.                                      *)
Open(r) ==
  /\ exchanges[r] = 0
  /\ \E how \in IF r \in Reused THEN {"chatbot"} ELSE {"chatbot", "event"} :
       invocation' = [invocation EXCEPT ![r] = how]
  /\ executor' = [executor EXCEPT ![r] = "held"]
  /\ requests' = IF r \in Reused THEN requests ELSE requests + 1
  /\ BeginExchange(r)
  /\ UNCHANGED <<queue, hasQueue, requestFinished, workDone, resources,
                 closing, closes, monitoring>>

(* reset() of the context and another streaming_chat() on it.  The model   *)
(* has one chat per context, so the one before must have returned.         *)
Again(r) ==
  /\ r \in Reused /\ consumer[r] = "gone" /\ chat[r] = "done"
  /\ exchanges[r] < MaxExchanges
  /\ queue' = [queue EXCEPT ![r] = IF hasQueue[r] THEN ResetQueue(@) ELSE EmptyQueue]
  /\ hasQueue' = [hasQueue EXCEPT ![r] = TRUE]
  /\ executor' = [executor EXCEPT ![r] = "held"]
  /\ BeginExchange(r)
  /\ UNCHANGED <<invocation, requestFinished, workDone, resources, closing,
                 closes, requests, monitoring>>

(* A root that gave its executor back has none; a clone keeps its reference. *)
HasExecutor(c) == c \in Roots => executor[c] = "held"

(* An external agent on this server: the context is copied, request_finished *)
(* included, and gets a queue, an event and resources of its own.  Without   *)
(* an executor to copy the call raises.                                      *)
Call(c, k) ==
  /\ chat[c] = "running" /\ MotherOf[k] = c /\ exchanges[k] = 0
  /\ HasExecutor(c)
  /\ \E how \in {"chatbot", "event"} : invocation' = [invocation EXCEPT ![k] = how]
  /\ requestFinished' = [requestFinished EXCEPT ![k] = requestFinished[c]]
  /\ chat' = [chat EXCEPT ![k] = "submitted", ![c] = "calling"]
  /\ lastMessageSent' = [lastMessageSent EXCEPT ![k] = FALSE]
  /\ consumer' = [consumer EXCEPT ![k] = "reading"]
  /\ exchanges' = [exchanges EXCEPT ![k] = 1]
  /\ UNCHANGED <<queue, hasQueue, workDone, resources, executor, closing,
                 closes, answered, requests, monitoring>>

CallFails(c) ==
  /\ chat[c] = "running" /\ ~HasExecutor(c)
  /\ \E k \in Clones : MotherOf[k] = c /\ exchanges[k] = 0
  /\ chat' = [chat EXCEPT ![c] = "returning"]
  /\ UNCHANGED <<context, executor, lastMessageSent, consumer, closing, closes,
                 answered, exchanges, requests, monitoring>>

(* The client reads the next message, or finds the stream at its end. *)
Read(c) ==
  /\ consumer[c] = "reading" /\ HasItem(queue[c])
  /\ queue' = [queue EXCEPT ![c] = WithoutNext(@)]
  /\ consumer' = [consumer EXCEPT ![c] =
                    IF IsFinalItem(NextItem(queue[c])) THEN "ended" ELSE @]
  /\ answered' = [answered EXCEPT ![c] = @ \/ NextItem(queue[c]) = "answer"]
  /\ UNCHANGED <<invocation, hasQueue, requestFinished, workDone, resources,
                 executor, chat, lastMessageSent, closing, closes, exchanges,
                 requests, monitoring>>

(* The generator is closed or cancelled while it waits for the queue. *)
Disconnect(r) ==
  /\ r \in Disconnecting /\ consumer[r] = "reading"
  /\ consumer' = [consumer EXCEPT ![r] = "interrupted"]
  /\ UNCHANGED <<context, executor, chat, lastMessageSent, closing, closes,
                 answered, exchanges, requests, monitoring>>

(* Mutant: the executor is returned before the resources are closed. *)
ReturnedFirst(c) ==
  IF c \in Clones THEN <<"close_of_work">> ELSE <<"return_executor", "close_of_work">>

(* Mutant: every context is treated as a clone. *)
AsClone(c) == <<"close_of_work">>

(* Mutant: nothing is closed for a clone. *)
NothingForClones(c) ==
  IF c \in Clones THEN <<>> ELSE <<"close_of_work", "return_executor">>

(* What done_with_work() runs: clones keep their mother's executor. *)
DoneWithWork(c) ==
  IF c \in Clones THEN <<"close_of_work">> ELSE <<"close_of_work", "return_executor">>

(* What finish_request() runs. *)
FinishSteps(c) ==
  IF invocation[c] = "event" /\ HasMonitor
  THEN <<"close_of_request", "put_work">>
  ELSE <<"close_of_request">> \o DoneWithWork(c)

(* finish_request() in the session's finally. *)
FinishRequest(c) ==
  /\ consumer[c] \in {"ended", "interrupted"}
  /\ requestFinished' = [requestFinished EXCEPT ![c] = TRUE]
  /\ closing' = [closing EXCEPT ![c] = IF requestFinished[c] THEN @ ELSE FinishSteps(c)]
  /\ consumer' = [consumer EXCEPT ![c] =
                    IF @ = "ended" THEN "finishing" ELSE "aborting"]
  /\ UNCHANGED <<invocation, queue, hasQueue, workDone, resources, executor, chat,
                 lastMessageSent, closes, answered, exchanges, requests, monitoring>>

(* Mutant: request_finished is not looked at. *)
FinishAnyhow(c) ==
  /\ consumer[c] \in {"finishing", "aborting"}
  /\ c \in Roots => closing[c] = <<>>
  /\ closing' = [closing EXCEPT ![c] = FinishSteps(c)]
  /\ consumer' = [consumer EXCEPT ![c] = "gone"]
  /\ UNCHANGED <<context, executor, chat, lastMessageSent, closes, answered,
                 exchanges, requests, monitoring>>

(* finish_request() again, in the service's finally, and the count, which  *)
(* an exception skips.  The thread was blocked until everything had run.   *)
Leave(c) ==
  /\ consumer[c] \in {"finishing", "aborting"}
  /\ c \in Roots => closing[c] = <<>>
  /\ closing' = [closing EXCEPT ![c] = IF requestFinished[c] THEN @ ELSE FinishSteps(c)]
  /\ requests' = IF c \in Roots \ Reused /\ consumer[c] = "finishing"
                 THEN requests - 1 ELSE requests
  /\ consumer' = [consumer EXCEPT ![c] = "gone"]
  /\ UNCHANGED <<context, executor, chat, lastMessageSent, closes, answered,
                 exchanges, monitoring>>
-----------------------------------------------------------------------------
(* What runs on the executor. *)

(* finalize_request(): the message and the end of the stream are put once.  *)
(* It raises when close_of_request() has taken the queue away.              *)
FinalizeFails(c) == ~lastMessageSent[c] /\ (~hasQueue[c] \/ PutFails(queue[c]))

(* Mutant: the end of the stream is put first. *)
FinalizeSwapped(c) ==
  /\ queue' = [queue EXCEPT ![c] =
                 IF lastMessageSent[c] \/ FinalizeFails(c) THEN @
                 ELSE Put(PutFinalItem(@), "answer")]
  /\ lastMessageSent' = [lastMessageSent EXCEPT ![c] = TRUE]

Finalize(c) ==
  /\ queue' = [queue EXCEPT ![c] =
                 IF lastMessageSent[c] \/ FinalizeFails(c) THEN @
                 ELSE PutFinalItem(Put(@, "answer"))]
  /\ lastMessageSent' = [lastMessageSent EXCEPT ![c] = TRUE]

(* streaming_chat() of the chat session adds itself to the resources; event *)
(* work is acknowledged before it is done.                                  *)
StartChat(c) ==
  /\ chat[c] = "submitted"
  /\ resources' = resources \cup {c}
  /\ IF invocation[c] = "event"
     THEN Finalize(c) /\ chat' = [chat EXCEPT ![c] =
                                    IF FinalizeFails(c) THEN "returning" ELSE "running"]
     ELSE chat' = [chat EXCEPT ![c] = "running"] /\ UNCHANGED <<queue, lastMessageSent>>
  /\ UNCHANGED <<invocation, hasQueue, requestFinished, workDone, executor, consumer,
                 closing, closes, answered, exchanges, requests, monitoring>>

(* The agents write to the journal, which holds on to the queue. *)
Report(c) ==
  /\ chat[c] = "running" /\ Len(queue[c].items) < MaxMessages
  /\ IF PutFails(queue[c])
     THEN chat' = [chat EXCEPT ![c] = "returning"] /\ UNCHANGED queue
     ELSE queue' = [queue EXCEPT ![c] = Put(@, "report")] /\ UNCHANGED chat
  /\ UNCHANGED <<invocation, hasQueue, requestFinished, workDone, resources, executor,
                 lastMessageSent, consumer, closing, closes, answered, exchanges,
                 requests, monitoring>>

(* The external agent's stream is over. *)
CallReturns(c) ==
  /\ chat[c] = "calling"
  /\ \A k \in Clones : MotherOf[k] = c => consumer[k] \in {"none", "gone"}
  /\ chat' = [chat EXCEPT ![c] = "running"]
  /\ UNCHANGED <<context, executor, lastMessageSent, consumer, closing, closes,
                 answered, exchanges, requests, monitoring>>

(* The answer of the agents, or of a set_up() that reports an error. *)
Answer(c) ==
  /\ chat[c] = "running"
  /\ Finalize(c)
  /\ chat' = [chat EXCEPT ![c] = "returning"]
  /\ UNCHANGED <<invocation, hasQueue, requestFinished, workDone, resources, executor,
                 consumer, closing, closes, answered, exchanges, requests, monitoring>>

(* An exception nothing below streaming_chat() handles. *)
Raise(c) ==
  /\ c \in Failing /\ chat[c] = "running"
  /\ chat' = [chat EXCEPT ![c] = "returning"]
  /\ UNCHANGED <<context, executor, lastMessageSent, consumer, closing, closes,
                 answered, exchanges, requests, monitoring>>

(* The finally of streaming_chat(). *)
Return(c) ==
  /\ chat[c] = "returning"
  /\ chat' = [chat EXCEPT ![c] = "done"]
  /\ workDone' = [workDone EXCEPT ![c] = TRUE]
  /\ UNCHANGED <<invocation, queue, hasQueue, requestFinished, resources, executor,
                 lastMessageSent, consumer, closing, closes, answered, exchanges,
                 requests, monitoring>>

Runs(c, step) ==
  /\ closing[c] # <<>> /\ Head(closing[c]) = step
  /\ closing' = [closing EXCEPT ![c] = Tail(@)]

CloseOfRequest(c) ==
  /\ Runs(c, "close_of_request")
  /\ queue' = [queue EXCEPT ![c] = IF hasQueue[c] THEN CloseQueue(@) ELSE @]
  /\ hasQueue' = [hasQueue EXCEPT ![c] = FALSE]
  /\ UNCHANGED <<invocation, requestFinished, workDone, resources, executor, chat,
                 lastMessageSent, consumer, closes, answered, exchanges, requests,
                 monitoring>>

PutWork(c) ==
  /\ Runs(c, "put_work")
  /\ workQueue' = Put(workQueue, c)
  /\ UNCHANGED <<context, executor, chat, lastMessageSent, consumer, closes, answered,
                 exchanges, requests, pool, monitor, monitored>>

(* close_of_work() of the context's resources. *)
CloseOfWork(c) ==
  /\ ~(c \in BadClose /\ c \in resources)
  /\ Runs(c, "close_of_work")
  /\ closes' = [closes EXCEPT ![c] = @ + 1]
  /\ UNCHANGED <<context, executor, chat, lastMessageSent, consumer, answered,
                 exchanges, requests, monitoring>>

(* It raises: done_with_work() ends there.  A session suppresses the        *)
(* exception; the monitor's thread dies of it.                              *)
CloseOfWorkFails(c) ==
  /\ c \in BadClose /\ c \in resources
  /\ closing[c] # <<>> /\ Head(closing[c]) = "close_of_work"
  /\ closing' = [closing EXCEPT ![c] = <<>>]
  /\ closes' = [closes EXCEPT ![c] = @ + 1]
  /\ monitor' = IF c \in monitored THEN "dead" ELSE monitor
  /\ UNCHANGED <<context, executor, chat, lastMessageSent, consumer, answered,
                 exchanges, requests, workQueue, pool, monitored>>

ReturnExecutor(r) ==
  /\ Runs(r, "return_executor")
  /\ executor' = [executor EXCEPT ![r] = "returned"]
  /\ UNCHANGED <<context, chat, lastMessageSent, consumer, closes, answered,
                 exchanges, requests, monitoring>>
-----------------------------------------------------------------------------
(* EventWorkMonitor *)

MonitorTakes ==
  /\ monitor = "running" /\ monitored = {}
  /\ HasItem(workQueue)
  /\ pool' = pool \cup {NextItem(workQueue)}
  /\ workQueue' = WithoutNext(workQueue)
  /\ UNCHANGED <<context, executor, chat, lastMessageSent, consumer, closing, closes,
                 answered, exchanges, requests, monitor, monitored>>

(* Mutant: the monitor closes what it has at once. *)
AlwaysDone(c) == TRUE

(* work_done_event.is_set() *)
IsDone(c) == workDone[c]

MonitorCloses(c) ==
  /\ monitor = "running" /\ monitored = {}
  /\ c \in pool /\ IsDone(c)
  /\ monitored' = {c}
  /\ closing' = [closing EXCEPT ![c] = DoneWithWork(c)]
  /\ UNCHANGED <<context, executor, chat, lastMessageSent, consumer, closes, answered,
                 exchanges, requests, workQueue, pool, monitor>>

MonitorForgets(c) ==
  /\ monitor = "running" /\ monitored = {c} /\ closing[c] = <<>>
  /\ monitored' = {}
  /\ pool' = pool \ {c}
  /\ UNCHANGED <<context, executor, chat, lastMessageSent, consumer, closing, closes,
                 answered, exchanges, requests, workQueue, monitor>>
-----------------------------------------------------------------------------
(* What the event loops and threads get done by themselves. *)
Progress(c) ==
  \/ Read(c) \/ FinishRequest(c) \/ Leave(c)
  \/ StartChat(c) \/ CallReturns(c) \/ Answer(c) \/ Return(c)
  \/ CloseOfRequest(c) \/ PutWork(c) \/ CloseOfWork(c) \/ CloseOfWorkFails(c)
  \/ MonitorCloses(c) \/ MonitorForgets(c)

Next ==
  \/ \E r \in Roots : Open(r) \/ Again(r) \/ Disconnect(r) \/ ReturnExecutor(r)
  \/ \E c \in Contexts : Progress(c) \/ Report(c) \/ Raise(c) \/ CallFails(c)
  \/ \E k \in Clones : Call(MotherOf[k], k)
  \/ MonitorTakes

Spec == Init /\ [][Next]_vars

(* The executors and the monitor's thread keep running and an agent's work  *)
(* ends; clients come, report and go as they please.                        *)
Fairness ==
  /\ \A c \in Contexts :
       /\ WF_vars(Read(c)) /\ WF_vars(FinishRequest(c) \/ Leave(c))
       /\ WF_vars(StartChat(c) \/ Return(c))
       /\ WF_vars(Answer(c)) /\ WF_vars(CallReturns(c))
       /\ WF_vars(CloseOfRequest(c) \/ PutWork(c) \/ CloseOfWork(c) \/ CloseOfWorkFails(c))
       /\ WF_vars(MonitorCloses(c) \/ MonitorForgets(c))
  /\ \A r \in Roots : WF_vars(ReturnExecutor(r))
  /\ WF_vars(MonitorTakes)

FairSpec == Spec /\ Fairness
-----------------------------------------------------------------------------
(* Whatever a client does and however the work ends, the resources of one   *)
(* exchange are closed once: finish_request() runs twice for every root.    *)
ClosedOnce == \A c \in Contexts : closes[c] <= 1

(* Event work outlives its request: its resources stay open until the chat  *)
(* has signalled that it is done, whether the client left or was answered.  *)
EventClosedAfterWork ==
  HasMonitor =>
    \A c \in Contexts : invocation[c] = "event" /\ closes[c] > 0 => workDone[c]

(* A stream that ends by itself has brought its answer: no report or end    *)
(* marker overtakes the answer in the queue, and no close cuts it off.      *)
(* That holds of every exchange but the third and later ones of a direct    *)
(* session whose client may leave.  reset() never clears request_finished,  *)
(* so the second exchange does not close its queue: when it is interrupted, *)
(* what it leaves there, the end marker included, is read by the third.     *)
AnsweredAtEnd ==
  \A c \in Contexts :
    consumer[c] \in {"ended", "finishing"} /\ (c \in Disconnecting => exchanges[c] <= 2)
      => answered[c]

(* An executor goes back to the pool only when the resources that may need  *)
(* it are closed and nobody is left reading the queue it fills.             *)
ReturnedAfterClose ==
  \A r \in Roots \ Reused :
    executor[r] = "returned" => closes[r] = 1 /\ ~hasQueue[r] /\ consumer[r] # "reading"

(* The count of active requests never misses one: it is taken back only     *)
(* when a stream ended and its context is finished.  It may be too high: an *)
(* interrupted stream is counted for ever.                                  *)
StreamsAreCounted ==
  requests >= Cardinality({r \in Roots \ Reused : consumer[r] \notin {"none", "gone"}})

(* A chat that raised before it answered leaves its reader waiting for a    *)
(* final item that nobody will put.                                         *)
WaitsInVain(c) == consumer[c] = "reading" /\ workDone[c] /\ ~lastMessageSent[c]

(* Every request gives its executor back, answered or interrupted, chatbot  *)
(* or event, calling other agents or not, and whatever raises; but where    *)
(* its own reader, or that of an external agent it called, waits in vain.   *)
EventuallyReturned ==
  \A r \in Roots \ Reused :
    (executor[r] = "held") ~>
      (executor[r] = "returned" \/ \E c \in Contexts : RootOf[c] = r /\ WaitsInVain(c))

(* The resources of what an external agent was asked are closed too, unless *)
(* the request that called it had finished, or its reader waits in vain.    *)
CloneEventuallyClosed ==
  \A k \in Clones :
    (consumer[k] = "reading" /\ ~requestFinished[k]) ~> (closes[k] = 1 \/ WaitsInVain(k))

(* Everything a request holds is given back in the end.                     *)
EventuallyClosed == EventuallyReturned /\ CloneEventuallyClosed
=============================================================================

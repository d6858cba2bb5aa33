----------------------------- MODULE AgentCalls -----------------------------
(***************************************************************************)
(* The agents one request sets in motion (internals/graph/activations,     *)
(* internals/run_context/langchain).  The front man and every agent it     *)
(* calls run a chain: calls of an LLM, each of which may ask for tools,    *)
(* which run at the same time - other agents, coded tools, and networks of *)
(* this server reached as external agents, in a task of their own.  An     *)
(* agent has max_attempts for its chain, and max_execution_seconds in all, *)
(* after which everything below it is cancelled.  Every agent accounts for *)
(* its own LLM calls when it ends, in a dictionary all of the request      *)
(* shares (LangChainTokenCounter.report()).                                *)
(***************************************************************************)
EXTENDS Integers, Sequences, FiniteSets

CONSTANTS
  MaxActivations,  \* bound on the activations of the request
  MaxRounds,       \* bound on the LLM calls that ask for tools
  AgentAttempts    \* max_attempts of an agent

AgentAssumption == MaxActivations \in Nat \ {0} /\ MaxRounds \in Nat /\ AgentAttempts \in Nat \ {0}

VARIABLES
  acts,       \* the activations, in the order they were made
  accounting, \* request_reporting
  told,       \* what the front man's accounting messages say
  llmCalls,   \* (history) LLM calls that returned
  rounds      \* LLM calls that asked for tools

callVars == <<acts, accounting, told, llmCalls, rounds>>

NotTold == [main |-> -1, total |-> -1, unattributed |-> -1, calls |-> -1]
Made == DOMAIN acts
FrontMan == 1
Kids(n) == {k \in Made : acts[k].parent = n}

\* The front man of an external network runs in a task of its own.
IsClone(k) == acts[k].parent # 0 /\ acts[acts[k].parent].kind = "external"

\* An activation and those it was called through.
Chain == LET c[n \in {0} \cup Made] == IF n = 0 THEN {} ELSE {n} \cup c[acts[n].parent] IN c

\* Those that await it: they are cancelled with whatever they await.
Awaiting ==
  LET a[n \in Made] == IF acts[n].parent = 0 \/ IsClone(n) THEN {} ELSE {acts[n].parent} \cup a[acts[n].parent] IN a
AwaitedBy(n) == {k \in Made : n \in Awaiting[k]}
KidsDone(n) == \A k \in Kids(n) : IsClone(k) \/ acts[k].pc \in {"done", "linger"}

Activation(kind, parent, cloned) ==
  [kind |-> kind, parent |-> parent, cloned |-> cloned, pc |-> "new", attempts |-> AgentAttempts,
   own |-> 0, heard |-> 0, failed |-> 0, finals |-> 0, reported |-> FALSE, open |-> TRUE]

Init ==
  /\ acts = <<Activation("agent", 0, FALSE)>>
  /\ accounting = [main |-> 0, total |-> 0, time |-> 0]
  /\ told = NotTold /\ llmCalls = 0 /\ rounds = 0

Acts(f) == acts' = f /\ UNCHANGED <<accounting, told, llmCalls, rounds>>
At(n, kind, pc) == acts[n].kind = kind /\ acts[n].pc = pc
-----------------------------------------------------------------------------
(* An agent *)

\* create_resources(): the tools and the model are made, or an error is raised,
\* which the caller gets as the tool's output.
CreateResources(n) ==
  /\ At(n, "agent", "new")
  /\ \E pc \in {"chain"} \cup (IF n = FrontMan THEN {} ELSE {"close"}) : Acts([acts EXCEPT ![n].pc = pc])

\* Mutant: every handler that hears a call in time takes it for its own.
OwnIfHeard(n, k) == k \in Chain[n] /\ ~acts[k].reported

\* _is_own_call(): the nearest enclosing agent owns the call.
IsOwnCall(n, k) == k = n

\* on_llm_end(): all handlers of the enclosing scopes hear of the call.
Counted(n) ==
  [k \in Made |-> [acts[k] EXCEPT !.heard = IF k \in Chain[n] THEN @ + 1 ELSE @,
                                  !.own = IF k \in Chain[n] /\ IsOwnCall(n, k) THEN @ + 1 ELSE @]]

\* The LLM answers: the chain has a result.
Answer(n) ==
  /\ At(n, "agent", "chain")
  /\ acts' = [Counted(n) EXCEPT ![n].pc = "final"]
  /\ llmCalls' = llmCalls + 1
  /\ UNCHANGED <<accounting, told, rounds>>

\* The LLM asks for one or two tools: make_tool_function_calls() of each.
CallTools(n) ==
  /\ At(n, "agent", "chain") /\ rounds < MaxRounds
  /\ \E kinds \in UNION {[1..m -> {"agent", "tool", "external"}] : m \in 1..2} :
       /\ Len(acts) + Len(kinds) <= MaxActivations
       /\ acts' = [Counted(n) EXCEPT ![n].pc = "tools"]
                    \o [i \in 1..Len(kinds) |-> Activation(kinds[i], n, acts[n].cloned)]
  /\ llmCalls' = llmCalls + 1 /\ rounds' = rounds + 1
  /\ UNCHANGED <<accounting, told>>

\* All outputs are there: the LLM is called with them.
TakeOutputs(n) ==
  /\ At(n, "agent", "tools") /\ KidsDone(n)
  /\ Acts([acts EXCEPT ![n].pc = "chain"])

\* Mutant: one kind of error does not use up an attempt.
AgainForFree(a) == [a EXCEPT !.failed = @ + 1]

\* An error worth a retry, and what is left of the attempts.
Retried(a) ==
  [a EXCEPT !.attempts = @ - 1, !.failed = @ + 1, !.pc = IF a.attempts = 1 THEN "final" ELSE "chain"]

\* A rate limit, an API error, a missing key, an answer that does not parse.
\* (The bound on failed only bounds the state space: no agent is past it.)
LlmFails(n) ==
  /\ At(n, "agent", "chain") /\ acts[n].failed <= AgentAttempts
  /\ Acts([acts EXCEPT ![n] = Retried(acts[n])])

\* A wrong API key, or any other exception, ends the attempts.
LlmGivesUp(n) ==
  /\ At(n, "agent", "chain")
  /\ Acts([acts EXCEPT ![n].pc = "final", ![n].failed = @ + 1])

\* The final message of the chain, whatever came of it.
WriteAnswer(n) ==
  /\ At(n, "agent", "final")
  /\ Acts([acts EXCEPT ![n].pc = "report", ![n].finals = @ + 1])

\* Cancelling a task cancels whatever it awaits; nothing but clean-up follows.
Cancelled(n, S) ==
  [k \in Made |-> IF k \in S /\ acts[k].pc # "done" THEN [acts[k] EXCEPT !.pc = "cancelled"] ELSE acts[k]]

\* Mutant: only the LLM's calls are timed.
InLlmCall(n) == acts[n].pc = "chain"

\* max_execution_seconds limits the chain with all it calls.
IsTimed(n) == acts[n].pc \in {"chain", "tools", "final"}

TimedOut(n) ==
  /\ acts[n].kind = "agent" /\ IsTimed(n)
  /\ Acts([Cancelled(n, AwaitedBy(n)) EXCEPT ![n].pc = "timeout"])

\* Mutant: the message does not wait for what was cancelled.
WriteAtOnce(n) ==
  /\ At(n, "agent", "timeout")
  /\ Acts([acts EXCEPT ![n].pc = "report", ![n].finals = @ + 1])

\* wait_for() returns when the cancelled task has ended.
WriteTimeout(n) ==
  /\ At(n, "agent", "timeout") /\ KidsDone(n)
  /\ Acts([acts EXCEPT ![n].pc = "report", ![n].finals = @ + 1])

\* Mutant: whoever reports last stamps the request's time.
StampAlways(n) == n

\* A clone leaves the time as it is, once there is one.
Stamp(n) == IF acts[n].cloned /\ accounting.time # 0 THEN accounting.time ELSE n

\* Mutant: clones count as agents of the main network.
ShareOfAll(n) == acts[n].own

\* What an agent adds to the accounting of the main network.
MainShare(n) == IF acts[n].cloned THEN 0 ELSE acts[n].own

\* report(): one step, for all agents of a request run in one event loop.
Report(n) ==
  LET main == accounting.main + MainShare(n)
      total == accounting.total + acts[n].own
  IN
  /\ At(n, "agent", "report")
  /\ accounting' = [main |-> main, total |-> total, time |-> Stamp(n)]
  /\ told' = IF n = FrontMan
             THEN [main |-> main, total |-> total, calls |-> llmCalls,
                   unattributed |-> IF acts[n].heard > total THEN acts[n].heard - total ELSE 0]
             ELSE told
  /\ acts' = [acts EXCEPT ![n].pc = "close", ![n].reported = TRUE]
  /\ UNCHANGED <<llmCalls, rounds>>
-----------------------------------------------------------------------------
(* Coded tools and external agents *)

\* async_invoke() or invoke(): the tool returns or raises, which makes an error
\* message of it; before that it may use_tool() another agent and await it.
Invoke(n) ==
  /\ At(n, "tool", "new")
  /\ \/ Acts([acts EXCEPT ![n].pc = "close"])
     \/ /\ Len(acts) < MaxActivations
        /\ Acts(Append([acts EXCEPT ![n].pc = "tools"], Activation("agent", n, acts[n].cloned)))

ToolReturns(n) ==
  /\ At(n, "tool", "tools") /\ KidsDone(n)
  /\ Acts([acts EXCEPT ![n].pc = "close"])

\* A direct session is made, with a clone of the invocation context, and the
\* network's front man set going; or the network is on another server.
StreamingChat(n) ==
  /\ At(n, "external", "new")
  /\ \/ Acts([acts EXCEPT ![n].pc = "stream"])
     \/ /\ Len(acts) < MaxActivations
        /\ Acts(Append([acts EXCEPT ![n].pc = "stream"], Activation("agent", n, TRUE)))

\* The stream ends with the request below, or breaks before.
StreamEnds(n) ==
  /\ At(n, "external", "stream")
  /\ Acts([acts EXCEPT ![n].pc = "close"])

\* A clone whose stream was closed has lost its resources: it may just stop.
CloneStops(n) ==
  /\ IsClone(n) /\ acts[acts[n].parent].pc = "done" /\ acts[n].pc \notin {"done", "cancelled"}
  /\ Acts([Cancelled(n, AwaitedBy(n)) EXCEPT ![n].pc = "cancelled"])
-----------------------------------------------------------------------------
(* Clean-up *)

\* Mutant: close_of_work() is not reached when build() raises or is cancelled.
CloseAfterSuccess(n) == {k \in {n} : acts[n].pc = "close"}

\* make_one_tool_function_call() closes the activation in a finally; with a tool
\* go those it used, with an external agent the front man it streamed from.
ClosedWith(n) == {k \in {n} : ~IsClone(k)} \cup {k \in Kids(n) : acts[n].kind # "agent"}

\* What a tool used lingers until the tool is closed.
Lingers(n) == acts[n].parent # 0 /\ acts[acts[n].parent].kind = "tool"

Close(n) ==
  /\ acts[n].pc \in {"close", "cancelled"} /\ KidsDone(n)
  /\ Acts([k \in Made |->
             IF k = n /\ Lingers(n) THEN [acts[k] EXCEPT !.pc = "linger"]
             ELSE [acts[k] EXCEPT !.pc = IF k = n \/ (acts[k].pc = "linger" /\ k \in Kids(n)) THEN "done" ELSE @,
                                  !.open = @ /\ k \notin ClosedWith(n)]])

\* The request's task is cancelled.
Abandon ==
  /\ acts[FrontMan].pc \notin {"close", "cancelled", "done"}
  /\ Acts(Cancelled(FrontMan, AwaitedBy(FrontMan) \cup {FrontMan}))

\* What the LLMs, the tools and the other servers do, and when.
Outside(n) ==
  \/ Answer(n) \/ CallTools(n) \/ LlmFails(n) \/ LlmGivesUp(n)
  \/ Invoke(n) \/ StreamEnds(n) \/ CloneStops(n)

Inside(n) ==
  \/ CreateResources(n) \/ TakeOutputs(n) \/ WriteAnswer(n) \/ TimedOut(n) \/ WriteTimeout(n)
  \/ Report(n) \/ ToolReturns(n) \/ StreamingChat(n) \/ Close(n)

Next == Abandon \/ \E n \in Made : Outside(n) \/ Inside(n)
-----------------------------------------------------------------------------
(* Properties *)

TypeOK ==
  /\ Len(acts) \in 1..MaxActivations /\ rounds \in 0..MaxRounds /\ accounting.time \in 0..Len(acts)
  /\ \A n \in Made :
       /\ acts[n].kind \in {"agent", "tool", "external"} /\ acts[n].parent < n
       /\ acts[n].pc \in {"new", "chain", "tools", "stream", "final", "timeout", "report", "close", "cancelled",
                          "linger", "done"}
       /\ acts[n].attempts \in 0..AgentAttempts /\ acts[n].own <= acts[n].heard

\* What the front man tells the client of: each LLM call that returned by then is
\* counted once, in the total or among the unattributed.
EveryCallCountedOnce == told # NotTold => told.total + told.unattributed = told.calls

\* The calls of the agents of the main network that have reported.
MainCalls ==
  LET sum[n \in 0..Len(acts)] ==
        IF n = 0 THEN 0
        ELSE sum[n - 1] + (IF acts[n].reported /\ ~acts[n].cloned THEN acts[n].own ELSE 0)
  IN sum[Len(acts)]

\* The accounting of the main network has the calls of its agents and no others.
MainIsOwn == accounting.main = MainCalls

\* Once the front man has reported, the time of the request is the front man's,
\* whatever a clone reports later.
TimeIsTheFrontMans == acts[FrontMan].reported => accounting.time = FrontMan

\* An agent says its last word once, after all it called has ended, and it is
\* silent only when its resources could not be made or its task was cancelled.
LastWord ==
  \A n \in Made :
    /\ acts[n].finals <= 1
    /\ acts[n].finals = 1 => KidsDone(n)
    /\ acts[n].kind = "agent" /\ acts[n].reported => acts[n].finals = 1

\* No agent fails more often than it may.
AttemptsBounded == \A n \in Made : acts[n].failed <= AgentAttempts

\* Nothing of a request is left open when its front man is done.
AllClosed ==
  acts[FrontMan].pc = "done" => \A n \in Made : acts[n].open => acts[n].cloned

\* The request is over.
Returned == acts[FrontMan].pc = "done"
=============================================================================

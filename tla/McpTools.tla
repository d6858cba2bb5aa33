------------------------------ MODULE McpTools ------------------------------
(***************************************************************************)
(* Agent networks as tools of the Model Context Protocol: requests to        *)
(* McpRootHandler, the lists and calls of McpToolsProcessor, while the        *)
(* registry watcher's thread changes the public networks and tells the HTTP  *)
(* server.  The server keeps no sessions (McpNoSessionsPolicy), so that the  *)
(* handshake has no state.  Every look at the table of networks is an action *)
(* of its own: the watcher's thread may come between any two.                *)
(***************************************************************************)
EXTENDS Integers, Sequences, FiniteSets

CONSTANTS
  Names,       \* the networks
  Authorized,  \* those the client may use, if the authorizer has something to say
  Policies,    \* what it says: "all", by the keys of allowed_agents, or a "list"
  Requests,    \* the requests
  Messages,    \* what the agents of a tool say: a type, a text, a structure
  MaxMessages, \* bound on what one call says
  MaxChanges   \* bound on the changes of the registry

McpAssumption ==
  /\ IsFiniteSet(Names) /\ "None" \notin Names  \* the None of a description is no name
  /\ Authorized \subseteq Names /\ Policies \subseteq {"all", "list"}
  /\ {MaxMessages, MaxChanges} \subseteq Nat

VARIABLES
  policy,   \* one of Policies
  table,    \* the public storage: "tool", "plain" or "none" for every name
  allowed,  \* the names of allowed_agents
  news,     \* the name whose change is not announced yet, in a set
  changes,  \* how often the registry changed
  posts     \* per request: how far it is; steady, what was offered all the time

mcpVars == <<policy, table, allowed, news, changes, posts>>

Present == {n \in Names : table[n] # "none"}
Permitted == IF policy = "all" THEN Names ELSE Authorized

Init ==
  /\ policy \in Policies
  /\ table \in [Names -> {"tool", "plain", "none"}]
  /\ allowed = Present /\ news = {} /\ changes = 0
  /\ posts = [r \in Requests |->
       [pc |-> "new", todo |-> <<>>, authorized |-> {}, name |-> "none", listed |-> <<>>, steady |-> {},
        script |-> <<>>, heard |-> 0, text |-> <<>>, structure |-> "none", timed |-> FALSE,
        status |-> 0, finishes |-> 0, outcome |-> "none"]]
-----------------------------------------------------------------------------
(* The watcher's thread: the table first, the HTTP server afterwards *)

Change(n, kind) ==
  /\ news = {} /\ changes < MaxChanges /\ changes' = changes + 1
  /\ table[n] # kind /\ table' = [table EXCEPT ![n] = kind]
  /\ news' = IF "none" \in {kind, table[n]} THEN {n} ELSE {}
  /\ posts' = [r \in Requests |-> [posts[r] EXCEPT !.steady = @ \ {n}]]
  /\ UNCHANGED <<policy, allowed>>

Announce ==
  /\ news # {} /\ news' = {}
  /\ allowed' = (allowed \ news) \cup (Present \cap news)
  /\ UNCHANGED <<policy, table, changes, posts>>

RegistryAsItWas == UNCHANGED <<policy, table, allowed, news, changes>>
-----------------------------------------------------------------------------
(* McpRootHandler *)

\* What post(), delete() and get() answer by themselves.
Statuses ==
  [unparsable |-> 400, invalid |-> 400, initialize |-> 200, initialized |-> 202, ping |-> 200,
   version |-> 400, resources |-> 200, prompts |-> 200, unknown |-> 400, arguments |-> 400,
   delete |-> 204, deleteNothing |-> 401, get |-> 200]

\* Mutant: refused arguments finish the response themselves, as other refusals do.
FinishTwice(p, status, outcome) ==
  [p EXCEPT !.pc = "done", !.status = status, !.outcome = outcome,
            !.finishes = @ + (IF outcome = "arguments" THEN 2 ELSE 1)]

Finished(p, status, outcome) ==
  [p EXCEPT !.pc = "done", !.status = status, !.outcome = outcome, !.finishes = @ + 1]

Answer(r, kind) ==
  /\ posts[r].pc = "new"
  /\ posts' = [posts EXCEPT ![r] = Finished(@, Statuses[kind], kind)]
  /\ RegistryAsItWas

\* What the processor returns; what it raises is a server error.
Return(r, outcome) == posts' = [posts EXCEPT ![r] = Finished(@, 200, outcome)]
Raise(r) == posts' = [posts EXCEPT ![r] = Finished(@, 500, "raised")]
Goto(r, pc) == posts' = [posts EXCEPT ![r].pc = pc]

\* A look at the network that is in the table now: gone, its use raises.
LookForTool(r, pc, otherwise) ==
  /\ \/ table[posts[r].name] = "none" /\ Raise(r)
     \/ table[posts[r].name] = "tool" /\ Goto(r, pc)
     \/ table[posts[r].name] = "plain" /\ otherwise
  /\ RegistryAsItWas
-----------------------------------------------------------------------------
(* list_tools() *)

StartList(r) ==
  /\ posts[r].pc = "new"
  /\ posts' = [posts EXCEPT ![r].pc = "policy",
       ![r].steady = {n \in Permitted \cap allowed : table[n] = "tool" /\ n \notin news}]
  /\ RegistryAsItWas

\* Snapshots of what is authorized, and of the names of the storage in any order.
TakeNames(r) ==
  /\ posts[r].pc = "policy"
  /\ \E order \in [1..Cardinality(Present) -> Present] :
       /\ {order[i] : i \in DOMAIN order} = Present
       /\ posts' = [posts EXCEPT ![r].pc = "next", ![r].todo = order,
                                 ![r].authorized = Permitted \cap allowed]
  /\ RegistryAsItWas

\* Without an authorizer the authorized are the keys of allowed_agents, as they are now.
Lists(p, n) == n \in IF policy = "all" THEN allowed ELSE p.authorized

\* Mutant: the first name that is skipped ends the loop.
BreakAtSkipped(r) ==
  LET p == posts[r] IN
  /\ p.pc = "next" /\ p.todo # <<>>
  /\ posts' = [posts EXCEPT
       ![r].todo = IF Lists(p, Head(p.todo)) /\ Head(p.todo) \in Present THEN Tail(@) ELSE <<>>,
       ![r].name = Head(p.todo),
       ![r].pc = IF Lists(p, Head(p.todo)) /\ Head(p.todo) \in Present THEN "network" ELSE "next"]
  /\ RegistryAsItWas

\* The next name; not authorized, or not in the storage any more, it is skipped.
NextName(r) ==
  LET p == posts[r] IN
  /\ p.pc = "next" /\ p.todo # <<>>
  /\ posts' = [posts EXCEPT
       ![r].todo = Tail(@), ![r].name = Head(p.todo),
       ![r].pc = IF Lists(p, Head(p.todo)) /\ Head(p.todo) \in Present THEN "network" ELSE "next"]
  /\ RegistryAsItWas

LookAtNetwork(r) ==
  /\ posts[r].pc = "network"
  /\ LookForTool(r, "describe", Goto(r, "next"))

\* _get_tool_description() asks the policy again.  Without a provider by now, the
\* description is None; it is listed all the same.
Describe(r) ==
  /\ posts[r].pc = "describe"
  /\ IF posts[r].name \in allowed \cap Permitted THEN Goto(r, "function")
     ELSE posts' = [posts EXCEPT ![r].pc = "next", ![r].listed = Append(@, "None")]
  /\ RegistryAsItWas

Function(r) ==
  /\ posts[r].pc = "function"
  /\ LET listing == posts' = [posts EXCEPT ![r].pc = "next", ![r].listed = Append(@, posts[r].name)]
     IN IF table[posts[r].name] = "none" THEN Raise(r) ELSE listing
  /\ RegistryAsItWas

EndList(r) ==
  /\ posts[r].pc = "next" /\ posts[r].todo = <<>>
  /\ Return(r, "list")
  /\ RegistryAsItWas
-----------------------------------------------------------------------------
(* call_tool() *)

StartCall(r, n) ==
  /\ posts[r].pc = "new"
  /\ posts' = [posts EXCEPT ![r].pc = "allow", ![r].name = n]
  /\ RegistryAsItWas

\* Mutant: the authorization is asked for, and forgotten.
AllowAnybody(r) ==
  /\ posts[r].pc = "allow"
  /\ \/ posts[r].name \notin allowed /\ Return(r, "not found")
     \/ posts[r].name \in allowed /\ Goto(r, "flag")
  /\ RegistryAsItWas

AllowAgent(r) ==
  /\ posts[r].pc = "allow"
  /\ \/ posts[r].name \notin allowed /\ Return(r, "not found")
     \/ posts[r].name \in allowed \ Permitted /\ Return(r, "not authorized")
     \/ posts[r].name \in allowed \cap Permitted /\ Goto(r, "flag")
  /\ RegistryAsItWas

IsMcpTool(r) ==
  /\ posts[r].pc = "flag"
  /\ LookForTool(r, "timeout", Return(r, "not a tool"))

GetTimeout(r) ==
  /\ posts[r].pc = "timeout"
  /\ IF table[posts[r].name] = "none" THEN Raise(r) ELSE Goto(r, "chat")
  /\ RegistryAsItWas

\* streaming_chat() takes the network that is there now, whatever it has become;
\* none there, its first step raises and the tool has failed.  The network has a
\* timeout or not, and its agents will say what they will.
StartChat(r) ==
  /\ posts[r].pc = "chat"
  /\ \/ table[posts[r].name] = "none" /\ Return(r, "failed")
     \/ /\ table[posts[r].name] # "none"
        /\ \E script \in UNION {[1..k -> Messages] : k \in 0..MaxMessages}, timed \in BOOLEAN :
             posts' = [posts EXCEPT ![r].pc = "stream", ![r].script = script, ![r].timed = timed]
  /\ RegistryAsItWas

\* Mutant: a message without structure takes the structure back.
LastPart(p, m) ==
  IF m.type = "AGENT_FRAMEWORK"
  THEN [p EXCEPT !.heard = @ + 1, !.text = Append(@, m.text), !.structure = m.structure]
  ELSE [p EXCEPT !.heard = @ + 1]

\* The parts of the answer: framework messages, the last structure of them.
WithPart(p, m) ==
  IF m.type = "AGENT_FRAMEWORK"
  THEN [p EXCEPT !.heard = @ + 1, !.text = Append(@, m.text),
                 !.structure = IF m.structure = "none" THEN @ ELSE m.structure]
  ELSE [p EXCEPT !.heard = @ + 1]

Hear(r) ==
  LET p == posts[r] IN
  /\ p.pc = "stream" /\ p.heard < Len(p.script)
  /\ posts' = [posts EXCEPT ![r] = WithPart(p, p.script[p.heard + 1])]
  /\ RegistryAsItWas

EndStream(r) ==
  /\ posts[r].pc = "stream" /\ posts[r].heard = Len(posts[r].script)
  /\ Return(r, "result")
  /\ RegistryAsItWas

\* Mutant: a timeout returns what there is.
ReturnPart(r) ==
  /\ posts[r].pc = "stream"
  /\ \/ posts[r].timed /\ Return(r, "result")
     \/ Return(r, "failed")
  /\ RegistryAsItWas

\* The timeout of the network passes, or the chat raises.
StopStream(r) ==
  /\ posts[r].pc = "stream"
  /\ \/ posts[r].timed /\ Return(r, "timeout")
     \/ Return(r, "failed")
  /\ RegistryAsItWas
-----------------------------------------------------------------------------
PostStep(r) ==
  \/ TakeNames(r) \/ NextName(r) \/ LookAtNetwork(r) \/ Describe(r) \/ Function(r) \/ EndList(r)
  \/ AllowAgent(r) \/ IsMcpTool(r) \/ GetTimeout(r) \/ StartChat(r) \/ Hear(r) \/ EndStream(r)

Next ==
  \/ \E n \in Names, kind \in {"tool", "plain", "none"} : Change(n, kind)
  \/ Announce
  \/ \E r \in Requests :
       \/ \E kind \in DOMAIN Statuses : Answer(r, kind)
       \/ StartList(r) \/ \E n \in Names : StartCall(r, n)
       \/ PostStep(r) \/ StopStream(r)
-----------------------------------------------------------------------------
TypeOK ==
  /\ policy \in Policies /\ DOMAIN table = Names /\ allowed \subseteq Names
  /\ news \subseteq Names /\ changes \in 0..MaxChanges
  /\ \A r \in Requests : posts[r].status \in {0, 500} \cup {Statuses[k] : k \in DOMAIN Statuses}

\* A response is finished once, when its request is done (McpRootHandler.post()).
AnsweredOnce ==
  \A r \in Requests : posts[r].finishes = IF posts[r].pc = "done" THEN 1 ELSE 0

\* Whatever happens to other networks meanwhile, a list that is returned has each tool
\* that was there all the time, once, and no agent the client may not use
\* (McpToolsProcessor.list_tools()).
ListIsWhole ==
  \A r \in Requests : posts[r].outcome = "list" =>
    LET places(n) == {i \in DOMAIN posts[r].listed : posts[r].listed[i] = n}
    IN /\ \A n \in posts[r].steady : Cardinality(places(n)) = 1
       /\ \A n \in Names : Cardinality(places(n)) <= 1
       /\ \A n \in Names \ Permitted : places(n) = {}

\* The result of a call is all that its agents said to the client, in order, with the
\* last structure: a chat that is stopped returns none of it (call_tool()).
ResultIsWhole ==
  \A r \in Requests : posts[r].outcome = "result" =>
    LET p == posts[r]
        own == {i \in DOMAIN p.script : p.script[i].type = "AGENT_FRAMEWORK"}
        structured == {i \in own : p.script[i].structure # "none"}
    IN /\ p.name \in Permitted
       /\ \E place \in [DOMAIN p.text -> own] :
            /\ own = {place[i] : i \in DOMAIN p.text}
            /\ \A i, j \in DOMAIN p.text : i < j => place[i] < place[j]
            /\ p.text = [i \in DOMAIN p.text |-> p.script[place[i]].text]
       /\ IF structured = {} THEN p.structure = "none"
          ELSE \E i \in structured : /\ p.structure = p.script[i].structure
                                     /\ \A j \in structured : j <= i
=============================================================================

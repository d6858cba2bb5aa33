---------------------------- MODULE ToolSelection ----------------------------
(***************************************************************************)
(* LlmConfigToolSelectorMiddleware: each call of the model is offered a       *)
(* selection of the agent's tools, and a tool call runs only if its tool was  *)
(* offered on the call of the model it comes from.  What was offered is kept  *)
(* by the ids of the tool calls, in a dictionary of the request's sly_data    *)
(* that all its agents share, under a name per instance of the middleware.    *)
(* Ids may be missing, and are the provider's: two agents may see the same.   *)
(* The tool calls of one answer run in parallel.                              *)
(***************************************************************************)
EXTENDS Integers, Sequences, FiniteSets

CONSTANTS
  Agents,      \* activations of agents with the middleware, parallel or one by one
  Namespaces,  \* their origins, or addresses of instances
  Tools,       \* the tools of each
  Ids,         \* ids of tool calls
  Denies,      \* unadvertised_policy is "deny"
  MaxCalls,    \* bound on the tool calls of an answer
  MaxTries,    \* bound on how often a tool call is tried, by an outer middleware
  MaxAnswers   \* bound on the answers of models

NoId == "None"

SelectionAssumption ==
  /\ NoId \notin Ids /\ Denies \in BOOLEAN /\ Cardinality(Agents) <= Cardinality(Namespaces)
  /\ {MaxCalls, MaxTries, MaxAnswers} \subseteq Nat

VARIABLES
  advertised,  \* per namespace: the tools by ids of tool calls
  agents,      \* per agent: its namespace, how far it is, and the tool calls it makes
  answers      \* the answers of models so far

selectionVars == <<advertised, agents, answers>>

Init ==
  /\ advertised = <<>>
  /\ agents = [a \in Agents |-> [pc |-> "new", space |-> "none", calls |-> <<>>]]
  /\ answers = 0

Record(a) == advertised[agents[a].space]

\* Mutant: the namespace is the middleware's name.
OneNamespace(space) == CHOOSE n \in Namespaces : TRUE

\* origin_str, or the address of the instance, which that of an earlier one may have been.
NamespaceOf(space) == space

\* _initialize_enforcement()
Activate(a, n) ==
  /\ agents[a].pc = "new"
  /\ \A b \in Agents : agents[b].space = n => agents[b].pc = "done"
  /\ agents' = [agents EXCEPT ![a].pc = "model", ![a].space = NamespaceOf(n)]
  /\ advertised' = IF NamespaceOf(n) \in DOMAIN advertised THEN advertised
                   ELSE [m \in DOMAIN advertised \cup {NamespaceOf(n)} |->
                           IF m \in DOMAIN advertised THEN advertised[m] ELSE <<>>]
  /\ UNCHANGED answers
-----------------------------------------------------------------------------
(* An answer: tool calls whose ids differ, if they have any *)

ToolCalls ==
  {s \in UNION {[1..n -> (Ids \cup {NoId}) \X Tools] : n \in 0..MaxCalls} :
     \A i, j \in DOMAIN s : i # j /\ s[i][1] = s[j][1] => s[i][1] = NoId}

\* With a note of whether a model answered, and of what it was offered.
Made(calls, model, offered) ==
  [i \in DOMAIN calls |->
     [id |-> calls[i][1], tool |-> calls[i][2], model |-> model, offered |-> offered,
      state |-> "made", tries |-> 0]]

Answered(a, calls, model, offered) ==
  /\ agents[a].pc = "model" /\ answers < MaxAnswers /\ answers' = answers + 1
  /\ agents' = [agents EXCEPT ![a].calls = Made(calls, model, offered),
                             ![a].pc = IF calls = <<>> THEN "done" ELSE "tools"]

\* Mutant: what the agent has is recorded, not what is left of it for the model.
StampAll(a, calls, offered) ==
  LET ids == {calls[i][1] : i \in DOMAIN calls}
  IN [advertised EXCEPT ![agents[a].space] =
        [id \in DOMAIN @ \cup ids |-> IF id \in ids THEN Tools ELSE @[id]]]

\* _stamp_advertised_tools()
Stamp(a, calls, offered) ==
  LET ids == {calls[i][1] : i \in DOMAIN calls}
  IN [advertised EXCEPT ![agents[a].space] =
        [id \in DOMAIN @ \cup ids |-> IF id \in ids THEN offered ELSE @[id]]]

\* awrap_model_call(): the model may call what it was not offered.
ModelCall(a) ==
  \E offered \in SUBSET Tools, calls \in ToolCalls :
    /\ Answered(a, calls, TRUE, offered)
    /\ advertised' = Stamp(a, calls, offered)

\* Another middleware answers in place of the model.
ShortCircuit(a) ==
  /\ \E calls \in ToolCalls \ {<<>>} : Answered(a, calls, FALSE, {})
  /\ UNCHANGED advertised
-----------------------------------------------------------------------------
(* awrap_tool_call() *)

Put(a, i, state) == agents' = [agents EXCEPT ![a].calls[i].state = state]

\* _deny_unadvertised_tool_call()
IsDenied(a, call) ==
  IF call.id \in DOMAIN Record(a) THEN call.tool \notin Record(a)[call.id] ELSE Denies

Judge(a, i) ==
  LET call == agents[a].calls[i] IN
  /\ agents[a].pc = "tools" /\ call.state = "made"
  /\ \/ IsDenied(a, call) /\ Put(a, i, "denied")
     \/ ~IsDenied(a, call) /\ Put(a, i, "running")
  /\ UNCHANGED <<advertised, answers>>

\* Mutant: the entry of calls without an id goes as others do.
WithoutAny(a, id) == [advertised EXCEPT ![agents[a].space] = [k \in DOMAIN @ \ {id} |-> @[k]]]

\* Only what has an id is forgotten: calls without may share their entry.
Without(a, id) ==
  IF id = NoId THEN advertised
  ELSE [advertised EXCEPT ![agents[a].space] = [k \in DOMAIN @ \ {id} |-> @[k]]]

Succeed(a, i) ==
  /\ agents[a].pc = "tools" /\ agents[a].calls[i].state = "running"
  /\ Put(a, i, "ran")
  /\ advertised' = Without(a, agents[a].calls[i].id)
  /\ UNCHANGED answers

\* Mutant: the entry goes however the tool ends.
FailAndForget(a, i) ==
  /\ agents[a].pc = "tools" /\ agents[a].calls[i].state = "running"
  /\ \/ /\ agents[a].calls[i].tries < MaxTries
        /\ agents' = [agents EXCEPT ![a].calls[i].state = "made", ![a].calls[i].tries = @ + 1]
     \/ agents' = [agents EXCEPT ![a].pc = "done", ![a].calls = <<>>]
  /\ advertised' = Without(a, agents[a].calls[i].id)
  /\ UNCHANGED answers

\* The tool raises: an outer middleware tries again, or the agent's run ends.
Fail(a, i) ==
  /\ agents[a].pc = "tools" /\ agents[a].calls[i].state = "running"
  /\ \/ /\ agents[a].calls[i].tries < MaxTries
        /\ agents' = [agents EXCEPT ![a].calls[i].state = "made", ![a].calls[i].tries = @ + 1]
     \/ agents' = [agents EXCEPT ![a].pc = "done", ![a].calls = <<>>]
  /\ UNCHANGED <<advertised, answers>>

\* All calls are answered: the model is asked again.
AskAgain(a) ==
  /\ agents[a].pc = "tools"
  /\ \A i \in DOMAIN agents[a].calls : agents[a].calls[i].state \in {"ran", "denied"}
  /\ agents' = [agents EXCEPT ![a].pc = "model", ![a].calls = <<>>]
  /\ UNCHANGED <<advertised, answers>>
-----------------------------------------------------------------------------
Next ==
  \E a \in Agents :
    \/ \E n \in Namespaces : Activate(a, n)
    \/ ModelCall(a) \/ ShortCircuit(a) \/ AskAgain(a)
    \/ \E i \in DOMAIN agents[a].calls : Judge(a, i) \/ Succeed(a, i) \/ Fail(a, i)
-----------------------------------------------------------------------------
TypeOK ==
  /\ DOMAIN advertised \subseteq Namespaces
  /\ \A n \in DOMAIN advertised : DOMAIN advertised[n] \subseteq Ids \cup {NoId}
  /\ answers \in 0..MaxAnswers
  /\ \A a \in Agents : agents[a].pc \in {"new", "model", "tools", "done"}

\* No tool runs that the call of the model it comes from was not offered, whatever
\* other agents and later answers record (_deny_unadvertised_tool_call()).
OnlyAdvertisedRun ==
  \A a \in Agents : \A i \in DOMAIN agents[a].calls :
    LET call == agents[a].calls[i]
    IN call.model /\ call.state \in {"running", "ran"} => call.tool \in call.offered

\* And none is denied that was offered, tried again or one of several without an id.
AdvertisedRun ==
  \A a \in Agents : \A i \in DOMAIN agents[a].calls :
    LET call == agents[a].calls[i]
    IN call.model /\ call.tool \in call.offered => call.state # "denied"
=============================================================================

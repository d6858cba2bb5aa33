------------------------ MODULE OpenFgaAuthorization ------------------------
(***************************************************************************)
(* Requests ask an OpenFGA server whether they may use an agent.  All        *)
(* handlers of a process share one AgentAuthorizationPolicy and its one        *)
(* OpenFgaAuthorizer, whose client each `async with` opens and closes; the     *)
(* first of them finds or creates the store, under a thread's lock that is     *)
(* held across awaits.  A request is a coroutine of its process' event loop:   *)
(* what it does between two awaits is one action.  The server's facts are of   *)
(* one actor and one relation.                                                 *)
(***************************************************************************)
EXTENDS Integers, Sequences, FiniteSets

CONSTANTS
  Processes,  \* the server processes
  Loads,      \* sets of requests, pairs of a process and a number: what is asked at once
  Agents,     \* the agents asked for
  Temporary,  \* those whose names are names of reservations
  Hard,       \* fail_on_unauthorized: AGENT_DEBUG_AUTH is "hard"
  MaxFaults,  \* bound on the calls of the server that fail
  MaxChanges  \* bound on the changes of facts and agents

AuthorizationAssumption ==
  /\ \A load \in Loads : load \subseteq Processes \X Nat
  /\ Temporary \subseteq Agents /\ Hard \in BOOLEAN /\ {MaxFaults, MaxChanges} \subseteq Nat

VARIABLES
  stores,   \* the server's stores of our name, each by the process that created it
  models,   \* the stores with an authorization model
  granted,  \* pairs of a store and an agent: the facts
  served,   \* allowed_agents of all processes
  local,    \* per process: the authorizer's client, the open clients, the cached
            \* store id, the lock, and whether the event loop waits for the lock
  asks,     \* per request: what it asks, how far it is, and the histories alone
            \* (no other request ran with it, no call of its failed) and said (the answer)
  faults,   \* the calls that failed
  changes   \* the changes of facts and agents

authorizationVars == <<stores, models, granted, served, local, asks, faults, changes>>

NoClient == 0
NoStore == 0
Nobody == <<>>
P(r) == r[1]
Calls == DOMAIN asks

Init ==
  /\ stores = <<>> /\ models = {} /\ granted = {} /\ served = Agents \ Temporary
  /\ local = [p \in Processes |->
       [client |-> NoClient, open |-> {}, made |-> 0, store |-> NoStore, lock |-> Nobody, blocked |-> FALSE]]
  /\ \E load \in Loads : asks = [r \in load |->
       [pc |-> "idle", wanted |-> {}, list |-> FALSE, again |-> FALSE, client |-> NoClient, store |-> NoStore,
        said |-> {}, answer |-> {}, raised |-> FALSE, alone |-> TRUE, result |-> "none"]]
  /\ faults = 0 /\ changes = 0
-----------------------------------------------------------------------------
(* The facts and the registry, which others change meanwhile *)

Change == changes < MaxChanges /\ changes' = changes + 1

\* grant(): what is granted already is not written again.
Grant(s, a) ==
  /\ Change
  /\ s \in models /\ <<s, a>> \notin granted
  /\ granted' = granted \cup {<<s, a>>}
  /\ UNCHANGED <<stores, models, served, local, asks, faults>>

Revoke(s, a) ==
  /\ Change
  /\ <<s, a>> \in granted
  /\ granted' = granted \ {<<s, a>>}
  /\ UNCHANGED <<stores, models, served, local, asks, faults>>

Unregister(a) ==
  /\ Change
  /\ a \in served
  /\ served' = served \ {a}
  /\ UNCHANGED <<stores, models, granted, local, asks, faults>>
-----------------------------------------------------------------------------
(* OpenFgaStoreCache.get_client(), the scope of the authorizer.  These return   *)
(* the process and the requests after the step, as [own, all].                 *)

\* Mutant: one client per store, initialized once and used again.
KeepOneClient(l) ==
  [l EXCEPT !.made = 1, !.client = 1, !.open = IF l.made = 0 THEN {1} ELSE @]

NewClient(l) ==
  [l EXCEPT !.made = @ + 1, !.client = l.made + 1, !.open = @ \cup {l.made + 1}]

\* The question is on its way, on the authorizer's new client.
Asking(r, l, qs) ==
  LET new == NewClient(l) IN
  [own |-> new, all |-> [qs EXCEPT ![r].pc = "checking", ![r].client = new.client, ![r].store = l.store]]

\* Mutant: no lock, as nothing else runs between two awaits.
LookWithoutLock(r, l, qs) ==
  IF l.store # NoStore THEN Asking(r, l, qs)
  ELSE [own |-> l, all |-> [qs EXCEPT ![r].pc = "listing"]]

\* With a store in the cache there is a client at once.  Without, the first to look
\* takes the lock and initializes the store; the next waits for the lock with the
\* thread of the event loop that they share.
GetClient(r, l, qs) ==
  CASE l.store # NoStore -> Asking(r, l, qs)
    [] l.store = NoStore /\ l.lock = Nobody ->
         [own |-> [l EXCEPT !.lock = r], all |-> [qs EXCEPT ![r].pc = "listing"]]
    [] OTHER -> [own |-> [l EXCEPT !.blocked = TRUE], all |-> [qs EXCEPT ![r].pc = "locking"]]

Close(l) == [l EXCEPT !.open = @ \ {l.client}]

\* __aenter__(): whoever is in the scope loses its client.
Enter(r, l, qs) ==
  IF l.client = NoClient THEN GetClient(r, l, qs)
  ELSE [own |-> Close(l), all |-> [qs EXCEPT ![r].pc = "closing"]]

Become(r, next) == local' = [local EXCEPT ![P(r)] = next.own] /\ asks' = next.all
At(r, pc) == asks[r].pc = pc /\ ~local[P(r)].blocked

Others(r) == {o \in Calls \ {r} : P(o) = P(r) /\ asks[o].pc \notin {"idle", "done"}}

\* allow_agent() of one agent, or list_agents(), begins.
Begin(r, wanted) ==
  /\ At(r, "idle")
  /\ LET together == [o \in Calls |->
            IF o \in Others(r) THEN [asks[o] EXCEPT !.alone = FALSE] ELSE asks[o]]
     IN Become(r, Enter(r, local[P(r)], [together EXCEPT
          ![r].wanted = wanted, ![r].list = wanted = Agents, ![r].alone = Others(r) = {}]))
  /\ UNCHANGED <<stores, models, granted, served, faults, changes>>

\* The old client is closed.
Closed(r) ==
  /\ At(r, "closing")
  /\ Become(r, GetClient(r, local[P(r)], asks))
  /\ UNCHANGED <<stores, models, granted, served, faults, changes>>
-----------------------------------------------------------------------------
(* OpenFgaInit.initialize_store(), under the lock *)

ListStores(r) ==
  /\ At(r, "listing")
  /\ \/ /\ stores = <<>> /\ asks' = [asks EXCEPT ![r].pc = "creating"]
     \/ \E s \in DOMAIN stores : asks' = [asks EXCEPT ![r].pc = "policy", ![r].store = s]
  /\ UNCHANGED <<stores, models, granted, served, local, faults, changes>>

\* Mutant: the new store is cached when it is there, and its policy prepared then.
CacheFirst(r) ==
  /\ At(r, "creating")
  /\ stores' = Append(stores, P(r))
  /\ asks' = [asks EXCEPT ![r].pc = "policy", ![r].store = Len(stores) + 1]
  /\ local' = [local EXCEPT ![P(r)].store = Len(stores) + 1]
  /\ UNCHANGED <<models, granted, served, faults, changes>>

CreateStore(r) ==
  /\ At(r, "creating")
  /\ stores' = Append(stores, P(r))
  /\ asks' = [asks EXCEPT ![r].pc = "policy", ![r].store = Len(stores) + 1]
  /\ UNCHANGED <<models, granted, served, local, faults, changes>>

\* The model named in the environment is there, or a new one is written; then the
\* store is cached, the lock released, and the client made.
PreparePolicy(r) ==
  /\ At(r, "policy")
  /\ models' = models \cup {asks[r].store}
  /\ Become(r, Asking(r, [local[P(r)] EXCEPT !.store = asks[r].store, !.lock = Nobody], asks))
  /\ UNCHANGED <<stores, granted, served, faults, changes>>

\* Mutant: the lock is released where the store is cached only.
LockIsKept(l) == l

Released(l) == [l EXCEPT !.lock = Nobody]

\* A call fails: __aenter__() raises and the scope is not entered.
InitializeFails(r) ==
  /\ At(r, "listing") \/ At(r, "creating") \/ At(r, "policy")
  /\ faults < MaxFaults /\ faults' = faults + 1
  /\ local' = [local EXCEPT ![P(r)] = Released(@)]
  /\ asks' = [asks EXCEPT ![r].pc = "done", ![r].result = "raised", ![r].alone = FALSE]
  /\ UNCHANGED <<stores, models, granted, served, changes>>
-----------------------------------------------------------------------------
(* authorize() and list(), the end of the scope *)

\* __aexit__() closes the client there is, or raises as there is none.
Leave(r, q) ==
  LET l == local[P(r)] IN
  IF l.client = NoClient
  THEN /\ asks' = [asks EXCEPT ![r] = [q EXCEPT !.pc = "done", !.result = "raised"]]
       /\ UNCHANGED local
  ELSE /\ asks' = [asks EXCEPT ![r] = [q EXCEPT !.pc = "exiting"]]
       /\ local' = [local EXCEPT ![P(r)] = Close(l)]

\* The server answers.  In an asking-again the answer is not looked at.
Answered(r) ==
  /\ At(r, "checking")
  /\ LET q == asks[r]
         said == {a \in q.wanted : <<q.store, a>> \in granted}
     IN Leave(r, [q EXCEPT !.answer = said, !.said = IF q.again THEN @ ELSE said,
                           !.raised = Hard /\ ~q.list /\ said = {}])
  /\ UNCHANGED <<stores, models, granted, served, faults, changes>>

\* The call fails, for the server or because somebody closed the client.
CheckFails(r) ==
  LET lost == asks[r].client \notin local[P(r)].open IN
  /\ At(r, "checking")
  /\ lost \/ faults < MaxFaults
  /\ faults' = IF lost THEN faults ELSE faults + 1
  /\ Leave(r, [asks[r] EXCEPT !.raised = TRUE, !.alone = @ /\ lost])
  /\ UNCHANGED <<stores, models, granted, served, changes>>

\* Mutant: the end of the scope suppresses what was raised in it, and the agent is
\* innocent until proven guilty.
Innocent(q) ==
  IF q.list THEN "listed"
  ELSE IF ~q.raised /\ ~q.again /\ q.answer = {} THEN "403"
  ELSE IF q.wanted \subseteq served THEN "service"
  ELSE IF q.wanted \subseteq Temporary /\ ~q.again THEN "lookup" ELSE "404"

\* What the handler makes of it.
Outcome(q) ==
  CASE q.raised -> "raised"
    [] ~q.raised /\ q.list -> "listed"
    [] ~q.raised /\ ~q.list /\ ~q.again /\ q.answer = {} -> "403"
    [] OTHER -> IF q.wanted \subseteq served THEN "service"
                ELSE IF q.wanted \subseteq Temporary /\ ~q.again THEN "lookup" ELSE "404"

\* Mutant: an empty list says nothing, as None does.
EmptyIsNone(answer) == IF answer = {} THEN served ELSE answer \cap served

\* list_agents(): what is authorized and exists.
Listed(answer) == answer \cap served

\* The client is closed and forgotten, whosever it was.
Exited(r) ==
  LET q == asks[r] IN
  /\ At(r, "exiting")
  /\ local' = [local EXCEPT ![P(r)].client = NoClient]
  /\ asks' = [asks EXCEPT ![r].pc = IF Outcome(q) = "lookup" THEN "lookup" ELSE "done",
                           ![r].result = Outcome(q),
                           ![r].answer = IF Outcome(q) = "listed" THEN Listed(q.answer) ELSE @]
  /\ UNCHANGED <<stores, models, granted, served, faults, changes>>

\* get_service(): a temporary network is fetched from the base storage by a thread;
\* found, it is registered and the policy asked again.
LookUp(r) ==
  /\ At(r, "lookup")
  /\ \/ /\ asks' = [asks EXCEPT ![r].pc = "done", ![r].result = "404"]
        /\ UNCHANGED <<served, local>>
     \/ /\ served' = served \cup asks[r].wanted
        /\ Become(r, Enter(r, local[P(r)], [asks EXCEPT ![r].again = TRUE]))
  /\ UNCHANGED <<stores, models, granted, faults, changes>>
-----------------------------------------------------------------------------
RequestStep(r) ==
  \/ Closed(r)
  \/ ListStores(r) \/ CreateStore(r) \/ PreparePolicy(r) \/ InitializeFails(r)
  \/ Answered(r) \/ CheckFails(r) \/ Exited(r) \/ LookUp(r)

Next ==
  \/ \E s \in DOMAIN stores, a \in Agents : Grant(s, a) \/ Revoke(s, a)
  \/ \E a \in Agents : Unregister(a)
  \/ \E r \in Calls : RequestStep(r)
  \/ \E r \in Calls, wanted \in {{a} : a \in Agents} \cup {Agents} : Begin(r, wanted)
-----------------------------------------------------------------------------
TypeOK ==
  /\ stores \in Seq(Processes) /\ models \subseteq DOMAIN stores
  /\ granted \subseteq models \X Agents /\ served \subseteq Agents
  /\ \A p \in Processes : LET l == local[p] IN
       /\ l.open \subseteq 1..l.made /\ l.client \in 0..l.made
       /\ l.lock \in Calls \cup {Nobody} /\ l.blocked \in BOOLEAN
  /\ \A r \in Calls : asks[r].wanted \subseteq Agents /\ asks[r].answer \subseteq Agents
  /\ faults \in 0..MaxFaults

\* A service is given, and an agent listed, only to who was told so by the server,
\* whatever fails, and however the scopes overlap (agent_authorization_policy.py).
OnlyWithConsent ==
  \A r \in Calls :
    /\ asks[r].result = "service" => asks[r].said = asks[r].wanted
    /\ asks[r].result = "listed" => asks[r].answer \subseteq asks[r].said

\* The store that a process asks has a policy, and no process creates two stores
\* (open_fga_store_cache.py, open_fga_init.py).
OneReadyStore ==
  /\ \A p \in Processes : local[p].store # NoStore => local[p].store \in models
  /\ \A s, t \in DOMAIN stores : s # t => stores[s] # stores[t]

\* A request that shares the scope with no other does not lose its client: it is
\* answered unless the server fails, or what it said last is raised for a denial
\* (open_fga_authorizer.py).
AloneIsAnswered ==
  \A r \in Calls :
    asks[r].alone /\ asks[r].result = "raised" => Hard /\ asks[r].answer = {}

\* "No async with here, as that would close the client": nobody closes a client that
\* is being asked on (open_fga_authorizer.py:118).
ClientStaysOpen ==
  \A r \in Calls : At(r, "checking") => asks[r].client \in local[P(r)].open

\* A request has its end, or was disturbed.
Settled(r) == asks[r].pc \in {"idle", "done"} \/ ~asks[r].alone
=============================================================================

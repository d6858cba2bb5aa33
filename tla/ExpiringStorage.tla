-------------------------- MODULE ExpiringStorage --------------------------
(***************************************************************************)
(* ExpiringAgentNetworkStorage: the in-memory tables of temporary agent    *)
(* networks, the threads that use them, the optional base storage behind   *)
(* them and the one listener in front of them (HttpServer.allowed_agents). *)
(*                                                                         *)
(* Each "with self.lock:" block is one action; every unlocked read, every  *)
(* call of the base storage and every listener notification is an action   *)
(* of its own, so the model has every interleaving the lock allows.  A     *)
(* thread is a stack of frames because the listener calls back into the    *)
(* storage: agent_added() runs get_agent_network_provider().               *)
(*                                                                         *)
(* A network is identified by the deployment that brought it (an index     *)
(* into `deployments`, a history of every deployment); 0 is "no network".  *)
(* The `sizes` table only feeds log lines and is left out.                 *)
(***************************************************************************)
EXTENDS Integers, Sequences, FiniteSets

CONSTANTS
  Names,           \* reservation ids, which are the names of temporary networks
  NoName,          \* not a name
  ForeignNames,    \* those reserved by another server process sharing the base storage
  Deployers,       \* tasks of the updater's event loop that run add_reservations()
  Requesters,      \* threads that run a request's lookup
  Sweepers,        \* the storage's expiration thread
  HasBase,         \* is there a base storage?
  MaxItems,        \* max_items; 0 or less is unlimited
  Lifetime,        \* the lifetime of every reservation
  MaxDeployments,  \* bound: number of deployments in a behaviour
  MaxTime,         \* bound: the last instant of the clock
  MaxDepth         \* bound: depth of a thread's call stack

Threads == Deployers \cup Requesters \cup Sweepers
OwnNames == Names \ ForeignNames

ASSUME ConstantsAssumption ==
  /\ NoName \notin Names
  /\ ForeignNames \subseteq Names
  /\ HasBase \in BOOLEAN
  /\ MaxItems \in Int
  /\ Lifetime \in Nat
  /\ MaxDeployments \in Nat
  /\ MaxTime \in Nat
  /\ MaxDepth \in Nat \ {0}

VARIABLES
  now,           \* time.time()
  deployments,   \* history: every deployment, [names, expiration]
  expirationOf,  \* expiration held by the Reservation object of each own name
  reservations,  \* reservations_table
  agents,        \* agents_table
  accessTimes,   \* access_times; NoTime is "absent"
  base,          \* the base storage: [network, expiration] of each name
  leftover,      \* its writes that go on after the call that began them failed
  allowed,       \* the listener's allowed_agents: network of each provider
  depth,         \* number of frames on each thread's stack; 0 is idle
  frames         \* the frames themselves

storage == <<reservations, agents, accessTimes>>
world == <<now, deployments, expirationOf>>
disk == <<base, leftover>>
vars == <<world, storage, disk, allowed, depth, frames>>

NoNetwork == 0
NoTime == -1
Networks == 0 .. MaxDeployments

(***************************************************************************)
(* A stored Reservation is either the very object its owner deploys again  *)
(* (own: its expiration is read through expirationOf, which the next       *)
(* deployment changes in place) or a copy built from the base storage.     *)
(***************************************************************************)
NoReservation == [own |-> FALSE, expiration |-> NoTime]
OwnReservation == [own |-> TRUE, expiration |-> 0]
Copy(e) == [own |-> FALSE, expiration |-> e]
Reservations == [own : BOOLEAN, expiration : Int]

\* A table with the value x under every name of S.
Put(table, S, x) == [n \in Names |-> IF n \in S THEN x ELSE table[n]]

NoEntry == [network |-> NoNetwork, expiration |-> NoTime]

Expiration(n, r) == IF r.own THEN expirationOf[n] ELSE r.expiration

\* is_expired(): strictly past the expiration time.
IsExpired(n, r) == now > Expiration(n, r)

\* Python's round(max_items * 0.05): nearest integer, ties to even.
RoundTwentieth(m) ==
  LET q == m \div 20
      r == m % 20
  IN  IF r > 10 \/ (r = 10 /\ q % 2 = 1) THEN q + 1 ELSE q

OverflowThreshold ==
  IF MaxItems <= 0 THEN 0
  ELSE IF RoundTwentieth(MaxItems) > 1 THEN RoundTwentieth(MaxItems) ELSE 1

-----------------------------------------------------------------------------
(* The call stacks. *)

FrameRecord ==
  [kind  : {"none", "deploy", "sweep", "request", "get"},
   at    : {"none", "write", "insert", "tell", "register", "evict",
            "untell", "lookup", "drop", "read", "touch", "fetch",
            "cache", "sweep", "recheck"},
   name  : Names \cup {NoName},   \* the agent the frame is working on
   batch : SUBSET Names,          \* names a deployment brings
   todo  : SUBSET Names,          \* names left to write, or to announce as added
   gone  : SUBSET Names,          \* names removed, left to announce
   res   : Reservations,          \* reservation fetched from the base storage
   net   : Networks,              \* network deployed, read or fetched
   got   : Networks,              \* what the call made by this frame returned
   since : Int]                   \* when the request began

\* A lookup always has a name.
Frame == {f \in FrameRecord : f.kind = "get" => f.name \in Names}

NoFrame == [kind |-> "none", at |-> "none", name |-> NoName, batch |-> {},
            todo |-> {}, gone |-> {}, res |-> NoReservation,
            net |-> NoNetwork, got |-> NoNetwork, since |-> 0]

Top(t) == frames[t][depth[t]]
Idle(t) == depth[t] = 0
At(t, kind, at) == depth[t] > 0 /\ Top(t).kind = kind /\ Top(t).at = at

Start(t, f) ==
  /\ depth' = [depth EXCEPT ![t] = 1]
  /\ frames' = [frames EXCEPT ![t][1] = f]

Goto(t, f) ==
  /\ frames' = [frames EXCEPT ![t][depth[t]] = f]
  /\ UNCHANGED depth

Lookup(n) == [NoFrame EXCEPT !.kind = "get", !.at = "lookup", !.name = n]

\* The top frame becomes f and calls get_agent_network_provider(n).
Call(t, f, n) ==
  /\ depth[t] < MaxDepth
  /\ depth' = [depth EXCEPT ![t] = @ + 1]
  /\ frames' = [frames EXCEPT ![t][depth[t]] = f, ![t][depth[t] + 1] = Lookup(n)]

\* The top frame, a get, returns v to its caller.
Return(t, v) ==
  /\ depth' = [depth EXCEPT ![t] = @ - 1]
  /\ frames' = [frames EXCEPT ![t][depth[t]] = NoFrame, ![t][depth[t] - 1].got = v]

\* The outermost call of the thread ends.
Finish(t) ==
  /\ depth' = [depth EXCEPT ![t] = 0]
  /\ frames' = [frames EXCEPT ![t][1] = NoFrame]

\* A frame of any kind has nothing left to do but return.
Conclude(t) ==
  IF Top(t).kind = "get" THEN Return(t, Top(t).net) ELSE Finish(t)

(***************************************************************************)
(* All deployments of a process run on one event loop: between two awaits  *)
(* a task is alone.  The only await of add_reservations() is the write to  *)
(* the base storage.                                                       *)
(***************************************************************************)
LoopIsFree(t) ==
  \A u \in Deployers \ {t} :
    Idle(u) \/ (frames[u][1].kind = "deploy" => frames[u][1].at = "write")

-----------------------------------------------------------------------------
(* add_reservations() *)

\* The number of the deployment being made.
NextDeployment == Len(deployments) + 1

\* mutant: a lifetime longer than the longest allowed is not cut
RenewedUncut(B, e) == Put(expirationOf, B, e + 1)

\* set_expiration_from() on every Reservation of the batch, before anything is stored.
Renewed(B, e) == Put(expirationOf, B, e)

Deploy(t, B) ==
  LET e == now + Lifetime
      f == [NoFrame EXCEPT !.kind = "deploy", !.batch = B,
                           !.at = IF HasBase THEN "write" ELSE "insert",
                           !.todo = IF HasBase THEN B ELSE {},
                           !.net = NextDeployment]
  IN  /\ t \in Deployers /\ Idle(t) /\ LoopIsFree(t)
      /\ Len(deployments) < MaxDeployments
      /\ B # {}
      /\ deployments' = Append(deployments, [names |-> B, expiration |-> e])
      /\ expirationOf' = Renewed(B, e)
      /\ Start(t, f)
      /\ UNCHANGED <<now, storage, disk, allowed>>

\* The base storage writes one reservation of the batch.
WriteBase(t, n) ==
  LET f == Top(t)
  IN  /\ At(t, "deploy", "write")
      /\ n \in f.todo
      /\ base' = [base EXCEPT ![n] = [network |-> f.net, expiration |-> expirationOf[n]]]
      /\ Goto(t, [f EXCEPT !.todo = @ \ {n}])
      /\ UNCHANGED <<world, storage, leftover, allowed>>

\* The writes of S for deployment v are left to go on.
LeftBehind(S, v) ==
  [leftover EXCEPT ![v] = [n \in Names |-> IF n \in S THEN "going" ELSE @[n]]]

\* The write of one name raises, and so does add_reservations().  What was written
\* stays, and the writes not yet made go on in their worker threads.
WriteFails(t) ==
  LET f == Top(t)
  IN  /\ At(t, "deploy", "write")
      /\ \E n \in f.todo : leftover' = LeftBehind(f.todo \ {n}, f.net)
      /\ Finish(t)
      /\ UNCHANGED <<world, storage, base, allowed>>

\* One of them is made, whenever it is.
WriteLate(v, n) ==
  /\ leftover[v][n] = "going"
  /\ leftover' = [leftover EXCEPT ![v][n] = "written"]
  /\ base' = [base EXCEPT ![n] = [network |-> v, expiration |-> expirationOf[n]]]
  /\ UNCHANGED <<world, storage, allowed, depth, frames>>

\* mutant: the tables are filled before the base storage
Unwritten(t) == At(t, "deploy", "insert") \/ At(t, "deploy", "write")

\* Nothing is left for the base storage to write.
Written(t) ==
  At(t, "deploy", "insert") \/ (At(t, "deploy", "write") /\ Top(t).todo = {})

\* mutant: a name already stored keeps its reservation
ReservedNew(B) == Put(reservations, {n \in B : agents[n] = NoNetwork}, OwnReservation)

Reserved(B) == Put(reservations, B, OwnReservation)

Filled(B, v) == Put(agents, B, v)

\* The locked block: the whole batch enters the tables at once.  agent_modified()
\* of the names replaced only resets the service instance, which is rebuilt from
\* the same provider: it changes nothing here.
Insert(t) ==
  LET f == Top(t)
      added == {n \in f.batch : agents[n] = NoNetwork}
  IN  /\ Written(t) /\ LoopIsFree(t)
      /\ agents' = Filled(f.batch, f.net)
      /\ reservations' = Reserved(f.batch)
      /\ accessTimes' = Put(accessTimes, f.batch, now)
      /\ Goto(t, [f EXCEPT !.at = IF added = {} THEN "evict" ELSE "tell", !.todo = added])
      /\ UNCHANGED <<world, disk, allowed>>

-----------------------------------------------------------------------------
(* Notifications, made outside the lock *)

\* listener.agent_added(n): the listener asks the storage for the provider ...
TellAdded(t, n) ==
  LET f == Top(t)
  IN  /\ depth[t] > 0 /\ f.at = "tell"
      /\ n \in f.todo
      /\ Call(t, [f EXCEPT !.at = "register", !.name = n, !.todo = @ \ {n}], n)
      /\ UNCHANGED <<world, storage, disk, allowed>>

\* ... and registers it unless the network is gone already.
Register(t) ==
  LET f == Top(t)
  IN  /\ depth[t] > 0 /\ f.at = "register"
      /\ allowed' = IF f.got = NoNetwork THEN allowed
                    ELSE [allowed EXCEPT ![f.name] = f.got]
      /\ Goto(t, [f EXCEPT !.at = IF f.todo = {} THEN "evict" ELSE "tell",
                           !.got = NoNetwork])
      /\ UNCHANGED <<world, storage, disk>>

\* mutant: the listener keeps what was removed
ForgottenNever(n) == allowed

\* allowed_agents.pop(n, None)
Forgotten(n) == [allowed EXCEPT ![n] = NoNetwork]

\* listener.agent_removed(n)
TellRemoved(t, n) ==
  LET f == Top(t)
  IN  /\ depth[t] > 0 /\ f.at = "untell"
      /\ n \in f.gone
      /\ allowed' = Forgotten(n)
      /\ Goto(t, [f EXCEPT !.gone = @ \ {n}])
      /\ UNCHANGED <<world, storage, disk>>

AllTold(t) ==
  /\ depth[t] > 0 /\ Top(t).at = "untell" /\ Top(t).gone = {}
  /\ Conclude(t)
  /\ UNCHANGED <<world, storage, disk, allowed>>

-----------------------------------------------------------------------------
(* Removal: eviction and expiration *)

Present == {n \in Names : agents[n] # NoNetwork}
Touched == {n \in Names : accessTimes[n] # NoTime}

\* mutant: the reservation stays behind
ReservationsKept(S) == reservations

ReservationsWithout(S) == Put(reservations, S, NoReservation)

\* remove_agent_network() for a set of names
Remove(S) ==
  /\ reservations' = ReservationsWithout(S)
  /\ agents' = Put(agents, S, NoNetwork)
  /\ accessTimes' = Put(accessTimes, S, NoTime)

\* mutant: the eviction stops one network early
OverflowButOne == Cardinality(Present) - MaxItems - 1

Overflow == Cardinality(Present) - MaxItems

\* The first `count` names by access time; names with equal times in any order.
Oldest(count) ==
  {S \in SUBSET Touched :
     /\ Cardinality(S) = IF count < Cardinality(Touched) THEN count
                         ELSE Cardinality(Touched)
     /\ \A n \in S, m \in Touched \ S : accessTimes[n] <= accessTimes[m]}

\* evict_lru_agent_networks(), the locked block
Evict(t) ==
  LET f == Top(t)
  IN  /\ depth[t] > 0 /\ f.at = "evict"
      /\ \/ /\ MaxItems <= 0 \/ Overflow <= OverflowThreshold
            /\ Goto(t, [f EXCEPT !.at = "untell", !.gone = {}])
            /\ UNCHANGED storage
         \/ /\ MaxItems > 0 /\ Overflow > OverflowThreshold
            /\ \E S \in Oldest(Overflow) :
                 /\ Remove(S)
                 /\ Goto(t, [f EXCEPT !.at = "untell", !.gone = S])
      /\ UNCHANGED <<world, disk, allowed>>

\* mutant: only networks this process deployed are looked at
OwnExpiredNames ==
  {n \in Names : reservations[n].own /\ IsExpired(n, reservations[n])}

ExpiredNames ==
  {n \in Names : reservations[n] # NoReservation /\ IsExpired(n, reservations[n])}

\* expire_reservations(): the snapshot, and what in it has expired.
Scan(t) ==
  /\ t \in Sweepers /\ Idle(t)
  /\ ExpiredNames # {}
  /\ Start(t, [NoFrame EXCEPT !.kind = "sweep", !.at = "sweep", !.gone = ExpiredNames])
  /\ UNCHANGED <<world, storage, disk, allowed>>

\* The locked block removes what the scan found, looking at nothing again.
Sweep(t) ==
  LET f == Top(t)
  IN  /\ At(t, "sweep", "sweep")
      /\ Remove(f.gone)
      /\ Goto(t, [f EXCEPT !.at = "untell"])
      /\ UNCHANGED <<world, disk, allowed>>

-----------------------------------------------------------------------------
(* get_agent_network_provider() *)

\* The reservation is looked up, and tested, without the lock.
LookupReservation(t) ==
  LET f == Top(t)
      r == reservations[f.name]
  IN  /\ At(t, "get", "lookup")
      /\ \/ /\ r # NoReservation /\ IsExpired(f.name, r)
            /\ Goto(t, [f EXCEPT !.at = "drop"])
         \/ /\ r # NoReservation /\ ~IsExpired(f.name, r)
            /\ Goto(t, [f EXCEPT !.at = "read"])
         \/ /\ r = NoReservation /\ HasBase
            /\ Goto(t, [f EXCEPT !.at = "fetch"])
         \/ /\ r = NoReservation /\ ~HasBase
            /\ Return(t, NoNetwork)
      /\ UNCHANGED <<world, storage, disk, allowed>>

DropExpired(t) ==
  LET f == Top(t)
  IN  /\ At(t, "get", "drop")
      /\ Remove({f.name})
      /\ Goto(t, [f EXCEPT !.at = "untell", !.gone = {f.name}])
      /\ UNCHANGED <<world, disk, allowed>>

ReadNetwork(t) ==
  LET f == Top(t)
      v == agents[f.name]
  IN  /\ At(t, "get", "read")
      /\ IF v = NoNetwork THEN Return(t, NoNetwork)
         ELSE Goto(t, [f EXCEPT !.at = "touch", !.net = v])
      /\ UNCHANGED <<world, storage, disk, allowed>>

\* The access time is written whether or not the network is still there.
Touch(t) ==
  LET f == Top(t)
  IN  /\ At(t, "get", "touch")
      /\ accessTimes' = [accessTimes EXCEPT ![f.name] = now]
      /\ Return(t, f.net)
      /\ UNCHANGED <<world, reservations, agents, disk, allowed>>

\* mutant: the expiration of what was fetched is not tested
AnyEntry(e) == e # NoEntry

\* base_storage.get_one_reservation() found something that is not expired.
Usable(e) == e # NoEntry /\ now <= e.expiration

Fetch(t) ==
  LET f == Top(t)
      e == base[f.name]
  IN  /\ At(t, "get", "fetch")
      /\ IF Usable(e)
         THEN Goto(t, [f EXCEPT !.at = "cache", !.net = e.network,
                                !.res = Copy(e.expiration)])
         ELSE Return(t, NoNetwork)
      /\ UNCHANGED <<world, storage, disk, allowed>>

\* mutant: what came meanwhile stays
CachedIfNone(n, v) == [agents EXCEPT ![n] = IF @ = NoNetwork THEN v ELSE @]

Cached(n, v) == [agents EXCEPT ![n] = v]

\* What was fetched enters the tables, over anything that came meanwhile.
Cache(t) ==
  LET f == Top(t)
  IN  /\ At(t, "get", "cache")
      /\ reservations' = [reservations EXCEPT ![f.name] = f.res]
      /\ agents' = Cached(f.name, f.net)
      /\ accessTimes' = [accessTimes EXCEPT ![f.name] = now]
      /\ Goto(t, [f EXCEPT !.at = "tell", !.todo = {f.name}, !.res = NoReservation])
      /\ UNCHANGED <<world, disk, allowed>>

-----------------------------------------------------------------------------
(* BaseRequestHandler.get_service() for a temporary network *)

\* A request for a network that is registered needs nothing of the storage;
\* any other looks the network up.
Request(t, n) ==
  /\ t \in Requesters /\ Idle(t)
  /\ allowed[n] = NoNetwork
  /\ MaxDepth >= 2
  /\ depth' = [depth EXCEPT ![t] = 2]
  /\ frames' = [frames EXCEPT
       ![t][1] = [NoFrame EXCEPT !.kind = "request", !.at = "recheck",
                                 !.name = n, !.since = now],
       ![t][2] = Lookup(n)]
  /\ UNCHANGED <<world, storage, disk, allowed>>

\* The lookup is over: found and registered is served, anything else is a 404.
Answer(t) ==
  /\ At(t, "request", "recheck")
  /\ Finish(t)
  /\ UNCHANGED <<world, storage, disk, allowed>>

-----------------------------------------------------------------------------
(* The environment: the clock and the base storage *)

Tick ==
  /\ now < MaxTime
  /\ now' = now + 1
  /\ UNCHANGED <<deployments, expirationOf, storage, disk, allowed, depth, frames>>

\* Another server process deploys one of its networks to the base storage.
DeployElsewhere(n) ==
  LET e == now + Lifetime
  IN  /\ HasBase
      /\ Len(deployments) < MaxDeployments
      /\ deployments' = Append(deployments, [names |-> {n}, expiration |-> e])
      /\ base' = [base EXCEPT ![n] = [network |-> NextDeployment, expiration |-> e]]
      /\ UNCHANGED <<now, expirationOf, storage, leftover, allowed, depth, frames>>

\* The base storage expires reservations on a schedule of its own.  A pass reads an
\* expired one, then removes whatever has its name by then: the expired lease may be
\* that of an earlier deployment, and what is removed may have been written since.
ExpireBase(n) ==
  /\ base[n] # NoEntry
  /\ \E v \in 1 .. base[n].network :
       n \in deployments[v].names /\ now > deployments[v].expiration
  /\ base' = [base EXCEPT ![n] = NoEntry]
  /\ UNCHANGED <<world, storage, leftover, allowed, depth, frames>>

-----------------------------------------------------------------------------
Init ==
  /\ now = 0
  /\ deployments = <<>>
  /\ expirationOf = [n \in Names |-> NoTime]
  /\ reservations = [n \in Names |-> NoReservation]
  /\ agents = [n \in Names |-> NoNetwork]
  /\ accessTimes = [n \in Names |-> NoTime]
  /\ base = [n \in Names |-> NoEntry]
  /\ leftover = [v \in Networks |-> [n \in Names |-> "none"]]
  /\ allowed = [n \in Names |-> NoNetwork]
  /\ depth = [t \in Threads |-> 0]
  /\ frames = [t \in Threads |-> [d \in 1 .. MaxDepth |-> NoFrame]]

Step(t) ==
  \/ \E n \in Names : WriteBase(t, n) \/ TellAdded(t, n) \/ TellRemoved(t, n)
  \/ Insert(t)
  \/ Register(t) \/ AllTold(t)
  \/ Evict(t) \/ Sweep(t)
  \/ LookupReservation(t) \/ DropExpired(t) \/ ReadNetwork(t) \/ Touch(t)
  \/ Fetch(t) \/ Cache(t)
  \/ Answer(t)

Next ==
  \/ \E t \in Threads : Step(t) \/ WriteFails(t) \/ Scan(t)
  \/ \E t \in Threads, B \in SUBSET OwnNames : Deploy(t, B)
  \/ \E t \in Threads, n \in Names : Request(t, n)
  \/ \E n \in ForeignNames : DeployElsewhere(n)
  \/ \E n \in Names : ExpireBase(n)
  \/ \E v \in Networks, n \in Names : WriteLate(v, n)
  \/ Tick

Spec == Init /\ [][Next]_vars

(***************************************************************************)
(* Fairness: a call that began runs to its end, the expiration loop keeps  *)
(* scanning, the clock advances.  Nobody is obliged to deploy or request.  *)
(***************************************************************************)
FairSpec ==
  /\ Spec
  /\ \A t \in Threads : WF_vars(Step(t))
  /\ \A t \in Sweepers : WF_vars(Scan(t))
  /\ WF_vars(Tick)
-----------------------------------------------------------------------------
(***************************************************************************)
(* Type invariant: the tables, the history and the call stacks have the    *)
(* shapes the code gives them, and no Reservation object holds a time      *)
(* further off than one lifetime: a renewal starts from the present.       *)
(***************************************************************************)
TypeOK ==
  /\ now \in Nat
  /\ deployments \in Seq([names : SUBSET Names, expiration : Int])
  /\ Len(deployments) <= MaxDeployments
  /\ expirationOf \in [Names -> NoTime .. now + Lifetime]
  /\ reservations \in [Names -> Reservations]
  /\ agents \in [Names -> Networks]
  /\ accessTimes \in [Names -> Int]
  /\ base \in [Names -> [network : Networks, expiration : Int]]
  /\ leftover \in [Networks -> [Names -> {"none", "going", "written"}]]
  /\ allowed \in [Names -> Networks]
  /\ depth \in [Threads -> 0 .. MaxDepth]
  /\ frames \in [Threads -> [1 .. MaxDepth -> Frame]]

(***************************************************************************)
(* Safety of the tables, whatever the threads interleave.                  *)
(***************************************************************************)

\* "Agents and their Reservations are always present or absent together"
\* (get_agent_network_provider), and every network has an access time, without
\* which the LRU eviction could never choose it.
TablesTogether ==
  \A n \in Names :
    /\ agents[n] = NoNetwork <=> reservations[n] = NoReservation
    /\ agents[n] # NoNetwork => accessTimes[n] # NoTime

DeployedUnder(v, n) == v \in 1 .. Len(deployments) /\ n \in deployments[v].names

\* e is when a lease of n ends, the one deployment v gave or a later renewal.
IsLeaseOf(n, v, e) ==
  /\ DeployedUnder(v, n)
  /\ \E w \in v .. Len(deployments) :
       n \in deployments[w].names /\ deployments[w].expiration = e

\* The reservation stored beside a network carries the expiration that network's
\* deployment was promised, or that of a later deployment of the same name: what
\* add_reservations(), the cache fill and the change of the expiration inside the
\* shared Reservation object do to the two tables leaves a pair that belongs
\* together, so no network is cut short and none outlives every promise.
LeaseKept ==
  \A n \in Names : agents[n] # NoNetwork =>
    IsLeaseOf(n, agents[n], Expiration(n, reservations[n]))

\* A lease of n, from deployment v or a later one, that lasts at least to e.
LeaseCovers(n, v, e) ==
  \E w \in v .. Len(deployments) :
    n \in deployments[w].names /\ deployments[w].expiration >= e

\* A request is answered with a network deployed under the name it asked for,
\* and whose lease (its own, or the renewed one of a later deployment) had not
\* run out when the request began: get_agent_network_provider() tests the
\* reservation and reads the network without the lock, from tables that other
\* threads fill, replace and empty, or from the base storage.
AnswersAreLeased ==
  \A t \in Threads :
    At(t, "request", "recheck") /\ Top(t).got # NoNetwork =>
      /\ DeployedUnder(Top(t).got, Top(t).name)
      /\ LeaseCovers(Top(t).name, Top(t).got, Top(t).since)

\* add_reservations() writes the base storage first, so a network in memory is
\* never newer than the base storage's one: a worker that restarts, or another
\* worker, finds what this one serves.  Only a write that outlived the call that
\* began it can put an older network there (one deployment at a time).
MemoryNotAheadOfBase ==
  \A n \in OwnNames : HasBase /\ agents[n] # NoNetwork /\ base[n] # NoEntry =>
    agents[n] <= base[n].network \/ leftover[base[n].network][n] = "written"

(***************************************************************************)
(* Refinement: the storage implements NetworkLeases.  Every call of        *)
(* get_agent_network_provider() is a lookup of a client of its own, known  *)
(* by its thread and its place on the thread's stack: the calls of         *)
(* requests, which insist on a lease that lasts to the request, and those  *)
(* the listener makes when it is told of an added network.                 *)
(***************************************************************************)

\* What the caller c of a lookup insists on.
Since(c) == IF c.kind = "request" THEN c.since ELSE 0

\* A lookup has no more than asked until it has found the expired reservation
\* removed, no reservation, or the network ...
StatusOf(f) == IF f.at \in {"lookup", "drop", "read"} THEN "asking" ELSE "seen"

\* ... and what comes from the base storage is brought back when it is cached.
FoundBy(f) ==
  IF f.at \in {"lookup", "drop", "read", "fetch", "cache"} THEN NoNetwork ELSE f.net

\* The lookup f that c called.
Underway(c, f) ==
  [status |-> StatusOf(f), name |-> f.name, since |-> Since(c), net |-> FoundBy(f)]

\* The answer c was given, and has not used yet.
Told(c) == [status |-> "answered", name |-> c.name, since |-> Since(c), net |-> c.got]

Rest == [status |-> "idle", name |-> "none", since |-> 0, net |-> NoNetwork]

\* What is to be seen of the lookup in frame d of a stack fs of k frames.
LookupIn(k, fs, d) ==
  IF k >= d THEN Underway(fs[d - 1], fs[d])
  ELSE IF k = d - 1 /\ fs[d - 1].at \in {"register", "recheck"} THEN Told(fs[d - 1])
  ELSE Rest

Clients == Threads \X (2 .. MaxDepth)

Lookups == [c \in Clients |-> LookupIn(depth[c[1]], frames[c[1]], c[2])]

Leases == INSTANCE NetworkLeases
            WITH Lifetimes <- {Lifetime}, table <- agents, clients <- Lookups

\* Whatever the threads interleave, the two tables that get_agent_network_provider()
\* tests and reads one after the other, without the lock, and that add_reservations()
\* fills under it, are the one atomic table of NetworkLeases: a deployment appears
\* whole; a lookup, a request's or the listener's, answers with what the table held
\* under its name at one moment of its own, or with what it brought back itself
\* because it had found nothing.
ImplementsLeases == Leases!Spec

(***************************************************************************)
(* Properties of calls made one after another.                             *)
(***************************************************************************)
Quiet == \A t \in Threads : Idle(t)

\* Between calls the listener knows exactly the networks in the tables: every
\* added, evicted, expired or dropped network was announced, and a deployment's
\* agent_added() came before the eviction it causes.
ListenerAgrees ==
  Quiet => \A n \in Names : allowed[n] # NoNetwork <=> agents[n] # NoNetwork

\* Between calls the tables hold at most max_items networks and the slack that
\* set_max_agent_networks() grants, and access times of nothing else.
WithinLimit ==
  Quiet => /\ MaxItems > 0 => Cardinality(Present) <= MaxItems + OverflowThreshold
           /\ Touched = Present

\* An expired network does not stay: the expiration loop, or a lookup, removes
\* it from the tables, and the listener forgets it.
ExpiredIsRemoved ==
  \A n \in Names :
    []<>(agents[n] = NoNetwork \/ ~IsExpired(n, reservations[n]))

\* Calls made one after another leave the listener, the two tables, the limit and the
\* base storage in agreement, also when some of their writes fail.
AgreesBetweenCalls == ListenerAgrees /\ WithinLimit /\ MemoryNotAheadOfBase
=============================================================================

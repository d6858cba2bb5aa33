---------------------------- MODULE AgentRegistry ----------------------------
(***************************************************************************)
(* The agent networks a server serves: the tables of the two permanent       *)
(* storages, set up by the main loop and replaced by the watcher's thread     *)
(* when a manifest changes (AgentNetworkStorage, RegistryStorageUpdater,      *)
(* StorageWatcher, ServerMainLoop), the map of service providers the HTTP     *)
(* server keeps as a listener of both (HttpServer), and the callers who look  *)
(* a service up and use it (AsyncAgentServiceProvider, AsyncAgentService).    *)
(*                                                                         *)
(* One thread sets up and later watches; every caller is a thread: the loop   *)
(* that handles HTTP requests, the initiator of periodic events.             *)
(***************************************************************************)
EXTENDS ManifestRestoration, FiniteSets

CONSTANTS
  Disks,      \* what the manifests and the network files may contain
  NameOf,     \* the name of the network a manifest's key stands for
  Callers,    \* the threads that look services up
  MaxEdits,   \* bound on the changes of the files
  MaxLookups  \* bound on the lookups of one caller

\* ALL_PERMANENT, in the order in which the storages are set up.
SetupOrder == <<"public", "protected">>

ASSUME DisksAssumption == Disks # {} /\ \E d \in Disks : ~RestoreRaises(d.manifests)
ASSUME BoundsAssumption == MaxEdits \in Nat /\ MaxLookups \in Nat

Names == {NameOf[k] : k \in DOMAIN NameOf}

Nobody == "nobody"

\* No thread is no thread.
ASSUME CallersAssumption == Nobody \notin Callers

VARIABLES
  disk,       \* what the files contain now
  edits,      \* how often they were changed
  observing,  \* the polling observer has taken its first look
  unseen,     \* a change the observer has not polled yet
  counted,    \* the event counters are not all zero
  missed,     \* (history) a change before the first look, and no restoring since
  tables,     \* agents_table of each permanent storage
  updater,    \* the thread that sets up and watches
  allowed,    \* allowed_agents: the provider of each name, an index of provs
  provs,      \* the providers ever made: name, storage, service, lock's holder
  callers,    \* the callers
  ready       \* the statuses of the http service and of the updater

vars == <<disk, edits, observing, unseen, counted, missed, tables, updater,
          allowed, provs, callers, ready>>

NoCaller == [pc |-> "idle", name |-> "", prov |-> 0, service |-> 0, lookups |-> 0]
Quiet == [kind |-> "none"]

Lookup(table, n) == IF n \in DOMAIN table THEN table[n] ELSE NoNetwork
With(f, n, v) == [m \in DOMAIN f \cup {n} |-> IF m = n THEN v ELSE f[m]]
Without(f, n) == [m \in DOMAIN f \ {n} |-> f[m]]

\* What the files say shall be served, where they parse.
RestoredFrom ==
  [d \in {e \in Disks : ~RestoreRaises(e.manifests)} |->
     Restore(d.manifests, d.files, NameOf).storage]
Restored(d) == RestoredFrom[d]

\* A network is served under the name that its key in a manifest stands for.
ASSUME NamesAssumption ==
  \A d \in DOMAIN RestoredFrom, s \in ALL_PERMANENT : DOMAIN Restored(d)[s] \subseteq Names

\* parse_args() has restored the manifests; nothing is in the tables yet.
Init ==
  /\ disk \in {d \in Disks : ~RestoreRaises(d.manifests)}
  /\ edits = 0 /\ observing = FALSE /\ unseen = FALSE /\ counted = FALSE /\ missed = FALSE
  /\ tables = [s \in ALL_PERMANENT |-> <<>>]
  /\ updater = [pc |-> "next", todo |-> SetupOrder, toServe |-> Restored(disk),
                removing |-> {}, adding |-> {}, notice |-> Quiet, started |-> FALSE]
  /\ allowed = <<>>
  /\ provs = <<>>
  /\ callers = [c \in Callers |-> NoCaller]
  /\ ready = [http |-> FALSE, updater |-> FALSE]
-----------------------------------------------------------------------------
(* The files and their observer *)

\* Somebody changes a manifest or a network file.
Edit ==
  /\ edits < MaxEdits
  /\ \E d \in Disks \ {disk} : disk' = d
  /\ edits' = edits + 1
  /\ unseen' = observing
  /\ missed' = (missed \/ ~observing)
  /\ UNCHANGED <<observing, counted, tables, updater, allowed, provs, callers, ready>>

\* The observer polls and handle_event() counts what it finds.
HandleEvent ==
  /\ unseen
  /\ unseen' = FALSE
  /\ counted' = TRUE
  /\ UNCHANGED <<disk, edits, observing, missed, tables, updater, allowed, provs,
                 callers, ready>>
-----------------------------------------------------------------------------
(* Setting the tables up *)

UpdaterOnly ==
  UNCHANGED <<disk, edits, observing, unseen, counted, missed, tables, allowed, provs,
              callers, ready>>

\* Mutant: all that was there is removed, what comes is added again.
ClearFirst ==
  /\ updater.pc = "next" /\ updater.todo # <<>>
  /\ LET s == Head(updater.todo)
     IN updater' = [updater EXCEPT
          !.pc = "setup", !.removing = DOMAIN tables[s], !.adding = DOMAIN updater.toServe[s]]
  /\ UpdaterOnly

\* setup_agent_networks() of the next storage: what goes and what comes.
SetupNext ==
  /\ updater.pc = "next" /\ updater.todo # <<>>
  /\ LET s == Head(updater.todo)
     IN updater' = [updater EXCEPT
          !.pc = "setup",
          !.removing = DOMAIN tables[s] \ DOMAIN updater.toServe[s],
          !.adding = DOMAIN updater.toServe[s]]
  /\ UpdaterOnly

TableChanged ==
  UNCHANGED <<disk, edits, observing, unseen, counted, missed, allowed, provs, callers, ready>>

\* remove_agent_network(), under the lock.
RemoveAgentNetwork ==
  /\ updater.pc = "setup" /\ updater.notice = Quiet
  /\ LET s == Head(updater.todo) IN
     \E n \in updater.removing :
       /\ tables' = [tables EXCEPT ![s] = Without(@, n)]
       /\ updater' = [updater EXCEPT
            !.removing = @ \ {n}, !.notice = [kind |-> "removed", name |-> n, from |-> s]]
  /\ TableChanged

\* Which news a network that was put into a table is.
NewsOf(s, n) == IF Lookup(tables[s], n) = NoNetwork THEN "added" ELSE "modified"

\* add_agent_network(), under the lock; all removals come first.
AddAgentNetwork ==
  /\ updater.pc = "setup" /\ updater.notice = Quiet /\ updater.removing = {}
  /\ LET s == Head(updater.todo) IN
     \E n \in updater.adding :
       /\ tables' = [tables EXCEPT ![s] = With(@, n, updater.toServe[s][n])]
       /\ updater' = [updater EXCEPT
            !.adding = @ \ {n}, !.notice = [kind |-> NewsOf(s, n), name |-> n, from |-> s]]
  /\ TableChanged

SetupStorageDone ==
  /\ updater.pc = "setup" /\ updater.notice = Quiet
  /\ updater.removing = {} /\ updater.adding = {}
  /\ updater' = [updater EXCEPT !.pc = "next", !.todo = Tail(@)]
  /\ UpdaterOnly
-----------------------------------------------------------------------------
(* The HTTP server hears of it, after the storage's lock is released *)

Told == updater' = [updater EXCEPT !.notice = Quiet]
ListenerOnly ==
  UNCHANGED <<disk, edits, observing, unseen, counted, missed, tables, callers, ready>>

\* Mutant: the provider is made for another name.
AddedUnderAnyName ==
  /\ updater.notice.kind = "added"
  /\ provs' = Append(provs, [name |-> updater.notice.from, storage |-> updater.notice.from,
                             service |-> 0, holder |-> Nobody])
  /\ allowed' = With(allowed, updater.notice.name, Len(provs) + 1)
  /\ Told /\ ListenerOnly

AgentAdded ==
  /\ updater.notice.kind = "added"
  /\ provs' = Append(provs, [name |-> updater.notice.name, storage |-> updater.notice.from,
                             service |-> 0, holder |-> Nobody])
  /\ allowed' = With(allowed, updater.notice.name, Len(provs) + 1)
  /\ Told /\ ListenerOnly

\* Mutant: a removed network keeps its provider.
RemovalIgnored ==
  /\ updater.notice.kind = "removed"
  /\ Told /\ ListenerOnly /\ UNCHANGED <<allowed, provs>>

AgentRemoved ==
  /\ updater.notice.kind = "removed"
  /\ allowed' = Without(allowed, updater.notice.name)
  /\ Told /\ ListenerOnly /\ UNCHANGED provs

\* Mutant: reset_service() does not take the provider's lock.
ResetUnlocked(p) == TRUE

\* reset_service() waits for the provider's lock.
MayReset(p) == provs[p].holder = Nobody

\* agent_modified(): the service is dropped; a name nobody knows is ignored.
AgentModified ==
  /\ updater.notice.kind = "modified"
  /\ IF updater.notice.name \in DOMAIN allowed
     THEN LET p == allowed[updater.notice.name]
          IN MayReset(p) /\ provs' = [provs EXCEPT ![p].service = 0]
     ELSE UNCHANGED provs
  /\ Told /\ ListenerOnly /\ UNCHANGED allowed
-----------------------------------------------------------------------------
(* The watcher *)

\* Mutant: the server is started before the tables are set up.
StartEarly ==
  /\ ~updater.started /\ updater.pc = "next"
  /\ updater' = [updater EXCEPT !.started = TRUE]
  /\ observing' = TRUE
  /\ ready' = [ready EXCEPT !.http = TRUE]
  /\ UNCHANGED <<disk, edits, unseen, counted, missed, tables, allowed, provs, callers>>

\* HttpServer.start(): the main loop has set the tables up; the http service is
\* ready, then the watcher is started with its observer.
StartServer ==
  /\ ~updater.started /\ updater.pc = "next" /\ updater.todo = <<>>
  /\ updater' = [updater EXCEPT !.pc = "sleep", !.started = TRUE]
  /\ observing' = TRUE
  /\ ready' = [ready EXCEPT !.http = TRUE]
  /\ UNCHANGED <<disk, edits, unseen, counted, missed, tables, allowed, provs, callers>>

\* Mutant: the counters are reset when the tables are up to date again.
ResetAfterwards ==
  /\ updater.started /\ updater.pc = "next" /\ updater.todo = <<>>
  /\ updater' = [updater EXCEPT !.pc = "sleep"]
  /\ counted' = FALSE
  /\ UNCHANGED <<disk, edits, observing, unseen, missed, tables, allowed, provs, callers, ready>>

\* Mutant: a change that is counted during an update stops the watcher.
NextTurnIfQuiet ==
  /\ updater.started /\ updater.pc = "next" /\ updater.todo = <<>> /\ ~counted
  /\ updater' = [updater EXCEPT !.pc = "sleep"]
  /\ UpdaterOnly

\* The next turn of _run() once the storages are set up: the status, then sleep.
NextTurn ==
  /\ updater.started /\ updater.pc = "next" /\ updater.todo = <<>>
  /\ updater' = [updater EXCEPT !.pc = "sleep"]
  /\ UpdaterOnly

\* update_storage() takes the counters and resets them.
ResetEventCounters ==
  /\ updater.pc = "check"
  /\ counted' = FALSE
  /\ updater' = [updater EXCEPT !.pc = IF counted THEN "restore" ELSE "sleep"]
  /\ UNCHANGED <<disk, edits, observing, unseen, missed, tables, allowed, provs, callers, ready>>

\* _run(): the updater's status is set, the sleep is over, it is time to update.
WakeUp ==
  /\ updater.pc = "sleep"
  /\ ready' = [ready EXCEPT !.updater = TRUE]
  /\ updater' = [updater EXCEPT !.pc = "check"]
  /\ UNCHANGED <<disk, edits, observing, unseen, counted, missed, tables, allowed, provs, callers>>

\* restore() raises: nothing catches that, the watcher's thread ends.
RestoreFails ==
  /\ updater.pc = "restore"
  /\ RestoreRaises(disk.manifests)
  /\ updater' = [updater EXCEPT !.pc = "dead"]
  /\ UpdaterOnly

RestoreManifests ==
  /\ updater.pc = "restore"
  /\ ~RestoreRaises(disk.manifests)
  /\ updater' = [updater EXCEPT !.pc = "next", !.todo = SetupOrder, !.toServe = Restored(disk)]
  /\ missed' = FALSE
  /\ UNCHANGED <<disk, edits, observing, unseen, counted, tables, allowed, provs, callers, ready>>
-----------------------------------------------------------------------------
(* A caller looks a service up and uses it *)

\* A request names an agent network; the authorizer is awaited.
Arrive(c) ==
  /\ updater.started
  /\ callers[c].pc \in {"idle", "unknown", "silent", "error", "served"}
  /\ callers[c].lookups < MaxLookups
  /\ \E n \in Names :
       callers' = [callers EXCEPT ![c] = [NoCaller EXCEPT
                     !.pc = "authorize", !.name = n, !.lookups = callers[c].lookups + 1]]
  /\ UNCHANGED <<disk, edits, observing, unseen, counted, missed, tables, updater, allowed,
                 provs, ready>>

CallerOnly(c, r) ==
  /\ callers' = [callers EXCEPT ![c] = r]
  /\ UNCHANGED <<disk, edits, observing, unseen, counted, missed, tables, updater, allowed, ready>>

\* allow_agent(): the network has to exist when the authorizer has answered.
AllowAgent(c) ==
  LET r == callers[c] IN
  /\ r.pc = "authorize"
  /\ IF r.name \in DOMAIN allowed
     THEN CallerOnly(c, [r EXCEPT !.pc = "look", !.prov = allowed[r.name]])
     ELSE CallerOnly(c, [r EXCEPT !.pc = "unknown"])
  /\ UNCHANGED provs

\* get_service(): the check without the lock.
Look(c) ==
  LET r == callers[c] IN
  /\ r.pc = "look"
  /\ CallerOnly(c, [r EXCEPT !.pc = IF provs[r.prov].service = 0 THEN "lock" ELSE "fetch"])
  /\ UNCHANGED provs

\* Mutant: the service is constructed before the lock is taken.
LockToStore(c) ==
  LET r == callers[c] IN
  /\ r.pc = "lock"
  /\ CallerOnly(c, [r EXCEPT !.pc = "load"])
  /\ UNCHANGED provs

\* The lock, and the check under it.
LockProvider(c) ==
  LET r == callers[c] IN
  /\ r.pc = "lock" /\ provs[r.prov].holder = Nobody
  /\ IF provs[r.prov].service = 0
     THEN /\ CallerOnly(c, [r EXCEPT !.pc = "load"])
          /\ provs' = [provs EXCEPT ![r.prov].holder = c]
     ELSE /\ CallerOnly(c, [r EXCEPT !.pc = "fetch"])
          /\ UNCHANGED provs

\* reload_factories() of the service under construction reads the network.
ReloadFactories(c) ==
  LET r == callers[c]
      network == Lookup(tables[provs[r.prov].storage], r.name) IN
  /\ r.pc = "load"
  /\ IF network = NoNetwork
     THEN /\ CallerOnly(c, [r EXCEPT !.pc = "error"])
          /\ provs' = [provs EXCEPT ![r.prov].holder = Nobody]
     ELSE /\ CallerOnly(c, [r EXCEPT !.pc = "store", !.service = network.version])
          /\ UNCHANGED provs

\* Mutant: the lock is not released.
KeepTheLock(c) ==
  LET r == callers[c] IN
  /\ r.pc = "store"
  /\ CallerOnly(c, [r EXCEPT !.pc = "fetch", !.service = 0])
  /\ provs' = [provs EXCEPT ![r.prov].service = r.service]

\* The constructed service is stored, the lock released.
StoreService(c) ==
  LET r == callers[c] IN
  /\ r.pc = "store"
  /\ CallerOnly(c, [r EXCEPT !.pc = "fetch", !.service = 0])
  /\ provs' = [provs EXCEPT ![r.prov].service = r.service, ![r.prov].holder = Nobody]

\* return self.service_instance; the handler of a request ends when it is None.
FetchService(c) ==
  LET r == callers[c] IN
  /\ r.pc = "fetch"
  /\ LET got == provs[r.prov].service
     IN CallerOnly(c, [r EXCEPT !.pc = IF got = 0 THEN "silent" ELSE "use", !.service = got])
  /\ UNCHANGED provs

\* The service reads the network it serves when it is used.
UseService(c) ==
  LET r == callers[c]
      network == Lookup(tables[provs[r.prov].storage], r.name) IN
  /\ r.pc = "use"
  /\ CallerOnly(c, [r EXCEPT !.pc = IF network = NoNetwork THEN "error" ELSE "served"])
  /\ UNCHANGED provs

Setup == SetupNext \/ RemoveAgentNetwork \/ AddAgentNetwork \/ SetupStorageDone
Listen == AgentAdded \/ AgentRemoved \/ AgentModified
Watch == StartServer \/ NextTurn \/ WakeUp \/ ResetEventCounters \/ RestoreFails \/ RestoreManifests
Call(c) ==
  \/ AllowAgent(c) \/ Look(c) \/ LockProvider(c) \/ ReloadFactories(c)
  \/ StoreService(c) \/ FetchService(c) \/ UseService(c)

Next == Edit \/ HandleEvent \/ Setup \/ Listen \/ Watch \/ \E c \in Callers : Arrive(c) \/ Call(c)

\* The observer polls, the updater's thread and the callers' threads run.
Spec ==
  /\ Init /\ [][Next]_vars
  /\ WF_vars(HandleEvent) /\ WF_vars(Setup \/ Listen \/ Watch)
  /\ \A c \in Callers : WF_vars(Call(c))
-----------------------------------------------------------------------------
(* Properties *)

TypeOK ==
  /\ disk \in Disks /\ edits \in 0..MaxEdits
  /\ {observing, unseen, counted, missed, ready.http, ready.updater} \subseteq BOOLEAN
  /\ \A s \in ALL_PERMANENT : DOMAIN tables[s] \subseteq Names
  /\ updater.pc \in {"next", "setup", "sleep", "check", "restore", "dead"}
  /\ updater.removing \subseteq Names /\ updater.adding \subseteq Names
  /\ DOMAIN allowed \subseteq Names /\ \A n \in DOMAIN allowed : provs[allowed[n]].name = n
  /\ \A p \in DOMAIN provs : provs[p].holder \in Callers \cup {Nobody}

\* A caller that is building a service in provider p.
Building(p) == {c \in Callers : callers[c].pc \in {"load", "store"} /\ callers[c].prov = p}

\* The watcher is at rest and knows of no change.
AtRest == updater.pc = "sleep" /\ ~counted /\ ~unseen

\* At rest the tables hold what the files say, unless the files were changed
\* before the observer's first look (parse_args() .. StorageWatcher.start()).
TablesMatchTheFiles ==
  AtRest /\ ~missed => ~RestoreRaises(disk.manifests) /\ tables = Restored(disk)

\* At rest every network in a table has a service provider that reads a table it
\* is in, and no name has one that is in none (agent_added() .. agent_removed()).
ListenerMatchesTables ==
  AtRest =>
    /\ DOMAIN allowed = UNION {DOMAIN tables[s] : s \in ALL_PERMANENT}
    /\ \A n \in DOMAIN allowed : n \in DOMAIN tables[provs[allowed[n]].storage]

\* A service handed out by a provider of the map was built from the network that
\* is in the table, unless its change is about to be announced or the table lost it.
ServicesAreCurrent ==
  \A n \in DOMAIN allowed :
    LET p == provs[allowed[n]]
    IN p.service # 0 /\ ~(updater.notice # Quiet /\ updater.notice.name = n)
         => p.service = Lookup(tables[p.storage], n).version

\* At most one caller builds a service of a provider, and it holds the lock.
OneBuilder ==
  \A p \in DOMAIN provs :
    /\ Cardinality(Building(p)) <= 1
    /\ \A c \in Building(p) : provs[p].holder = c

\* A server that says it is ready serves all its manifests said at the start, or
\* later: no name is missing that every reading of the files has named.
ReadyServes ==
  ready.http /\ edits = 0 =>
    \A s \in ALL_PERMANENT : \A n \in DOMAIN Restored(disk)[s] : n \in DOMAIN allowed

\* An update never takes away, even for an instant, a network it keeps.
KeepsAvailable ==
  \A n \in DOMAIN allowed :
    n \notin DOMAIN allowed' => \A s \in ALL_PERMANENT : n \notin DOMAIN updater.toServe[s]

\* Whatever the files become, the tables follow, if the watcher lives and the
\* observer could see the last change (HandleEvent .. RestoreManifests).
ChangesAreServed ==
  []<>(\/ updater.pc = "dead" \/ RestoreRaises(disk.manifests)
       \/ tables = Restored(disk)
       \/ missed /\ ~counted /\ ~unseen)

\* Every lookup comes to an end.
LookupsEnd ==
  \A c \in Callers : []<>(callers[c].pc \in {"idle", "unknown", "silent", "error", "served"})

\* While the watcher updates tables, listeners and services one by one: at rest they
\* all follow the files, a ready server serves what the files said, services are built
\* by one caller and from the network that is served, and a network that an update
\* keeps is never away.
ServedIsCurrent ==
  [][/\ (TypeOK /\ TablesMatchTheFiles /\ ListenerMatchesTables /\ ServicesAreCurrent)'
     /\ (OneBuilder /\ ReadyServes)'
     /\ KeepsAvailable]_vars

\* Whatever is changed and whoever asks, the watcher and the callers get done.
UpdatesAndLookupsEnd == ChangesAreServed /\ LookupsEnd
=============================================================================

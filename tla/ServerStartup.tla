--------------------------- MODULE ServerStartup ---------------------------
(***************************************************************************)
(* From the command line to the loops that serve (ServerMainLoop,            *)
(* HttpServer.start, ServerContext, ServerStatus): the main process makes     *)
(* everything that may be inherited, forks its workers, and each worker makes *)
(* what must not be inherited and starts its components.                     *)
(* AgentRegistry has what one worker then does with the networks.            *)
(***************************************************************************)
EXTENDS Integers, Sequences, FiniteSets

CONSTANTS
  MaxWorkers,  \* bound on http_server_instances
  MaxFailures, \* bound on the components of one worker that do not start
  Given        \* the arguments the server is started with

WorkersAssumption == MaxWorkers \in Nat \ {0} /\ MaxFailures \in Nat

VARIABLES
  args,    \* what the command line asks for
  status,  \* which services are requested: http, mcp, updater
  main,    \* where the main process is
  workers  \* worker id |-> what that process has and does

startVars == <<args, status, main, workers>>

Services == {"http", "mcp", "updater"}

\* The part of the arguments that decides what runs.
Arguments ==
  [port : {0, 8080}, period : {0, 10}, mcpEnable : BOOLEAN, mcpOnly : BOOLEAN,
   instances : 1..MaxWorkers, monitor : {0, 60}, probePort : {0, 8080, 8081}]

\* parse_args()
Requested(a) ==
  (IF a.port # 0 /\ ~a.mcpOnly THEN {"http"} ELSE {})
    \cup (IF a.mcpEnable \/ a.mcpOnly THEN {"mcp"} ELSE {})
    \cup (IF a.period > 0 THEN {"updater"} ELSE {})

\* HttpServer.start(): a probe server on the main port is not started.
ProbeIsSeparate(a) == a.probePort > 0 /\ a.probePort # a.port

\* components_to_start, in order, with what HttpServer.start() adds.
ComponentsToStart(a) ==
  (IF a.period > 0 THEN <<"StorageWatcher">> ELSE <<>>)
    \o <<"TempNetworkStorageUpdater", "EventWorkMonitor", "PeriodicEventInitiator">>
    \o (IF a.monitor > 0 THEN <<"ResourcesUsageLogger">> ELSE <<>>)
    \o (IF ProbeIsSeparate(a) THEN <<"HealthProbeServer">> ELSE <<>>)

NewWorker ==
  [pc |-> "id", id |-> 0, count |-> 0, accepts |-> FALSE, queues |-> FALSE, tables |-> FALSE,
   ready |-> {}, todo |-> <<>>, running |-> {}, failed |-> {}, expires |-> FALSE, probe |-> "none"]

GivenAssumption == Given \subseteq Arguments

Init ==
  /\ args \in Given
  /\ status = Requested(args)
  /\ main = "parsed"
  /\ workers = <<>>

\* main_loop(): nothing is requested, the process ends.
FastOut ==
  /\ main = "parsed" /\ status \cap {"http", "mcp"} = {}
  /\ main' = "exited"
  /\ UNCHANGED <<args, status, workers>>

\* main_loop(): the server is made, listens to the storages, and they are set up.
SetUp ==
  /\ main = "parsed" /\ status \cap {"http", "mcp"} # {}
  /\ main' = "setup"
  /\ UNCHANGED <<args, status, workers>>

\* start(): the sockets are bound, then the workers are forked, if there are many.
Fork ==
  /\ main = "setup"
  /\ main' = "forked"
  /\ workers' = [i \in 1..args.instances |-> [NewWorker EXCEPT
                   !.tables = TRUE, !.todo = ComponentsToStart(args)]]
  /\ UNCHANGED <<args, status>>

Worker(i, r) == workers' = [workers EXCEPT ![i] = r] /\ UNCHANGED <<args, status, main>>

\* Mutant: the workers do not learn their numbers.
NoWorkerInfo(i) == workers[i].pc = "id" /\ Worker(i, [workers[i] EXCEPT !.pc = "sockets", !.count = args.instances])

SetWorkerInfo(i) ==
  /\ workers[i].pc = "id"
  /\ Worker(i, [workers[i] EXCEPT !.pc = "sockets", !.id = i - 1, !.count = args.instances])

AddSockets(i) ==
  /\ workers[i].pc = "sockets"
  /\ Worker(i, [workers[i] EXCEPT !.pc = "context", !.accepts = TRUE])

\* Mutant: the components are started before the context.
StartComponentsFirst(i) ==
  /\ workers[i].pc = "context"
  /\ Worker(i, [workers[i] EXCEPT !.pc = "start"])

\* ServerContext.start(): the queues that must not be inherited.
StartContext(i) ==
  /\ workers[i].pc = "context"
  /\ Worker(i, [workers[i] EXCEPT !.pc = "status", !.queues = TRUE])

SetStatus(i) ==
  /\ workers[i].pc = "status"
  /\ Worker(i, [workers[i] EXCEPT !.pc = "start", !.ready = {"http"} \cup (status \cap {"mcp"})])

\* Mutant: what does not start ends the starting.
StopAtFailure(i) ==
  /\ workers[i].pc = "start" /\ workers[i].todo # <<>>
  /\ LET c == Head(workers[i].todo)
     IN Worker(i, [workers[i] EXCEPT !.todo = <<>>, !.failed = @ \cup {c}])

\* A component raises in its start(): that is logged, the others are started.
StartFails(i) ==
  /\ workers[i].pc = "start" /\ workers[i].todo # <<>>
  /\ Cardinality(workers[i].failed) < MaxFailures
  /\ LET c == Head(workers[i].todo)
     IN Worker(i, [workers[i] EXCEPT !.todo = Tail(@), !.failed = @ \cup {c}])

\* TempNetworkStorageUpdater.start(): only one worker expires what all share.
Expires(w) == ~(w.count > 1 /\ w.id > 0)

StartComponent(i) ==
  /\ workers[i].pc = "start" /\ workers[i].todo # <<>>
  /\ LET c == Head(workers[i].todo)
         w == [workers[i] EXCEPT !.todo = Tail(@), !.running = @ \cup {c}]
     IN Worker(i,
          CASE c = "TempNetworkStorageUpdater" -> [w EXCEPT !.expires = Expires(w)]
            [] c = "HealthProbeServer" -> [w EXCEPT !.probe = "binding"]
            [] OTHER -> w)

RunLoop(i) ==
  /\ workers[i].pc = "start" /\ workers[i].todo = <<>>
  /\ Worker(i, [workers[i] EXCEPT !.pc = "loop"])

\* StorageWatcher._run(), in its thread, whenever that gets to run.
UpdaterIsReady(i) ==
  /\ "StorageWatcher" \in workers[i].running /\ "updater" \notin workers[i].ready
  /\ Worker(i, [workers[i] EXCEPT !.ready = @ \cup {"updater"}])

\* HealthProbeServer._run(): its port is bound or not; without it the thread ends.
BindProbe(i) ==
  /\ workers[i].probe = "binding"
  /\ \E r \in {"serving", "ended"} : Worker(i, [workers[i] EXCEPT !.probe = r])

\* Mutant: a service that nobody asked for must be ready too.
ReadyOfAll(i) == Services \subseteq workers[i].ready

\* Mutant: one ready service is enough.
ReadyOfOne(i) == status \cap workers[i].ready # {}

\* ServerStatus.is_server_ready(), in worker i.
IsServerReady(i) == status \subseteq workers[i].ready

WorkerStep(i) ==
  \/ SetWorkerInfo(i) \/ AddSockets(i) \/ StartContext(i) \/ SetStatus(i) \/ StartComponent(i)
  \/ RunLoop(i) \/ UpdaterIsReady(i) \/ BindProbe(i)

Next ==
  \/ FastOut \/ SetUp \/ Fork
  \/ \E i \in DOMAIN workers : WorkerStep(i) \/ StartFails(i)
-----------------------------------------------------------------------------
(* Properties *)

TypeOK ==
  /\ args \in Arguments /\ status \subseteq Services
  /\ main \in {"parsed", "exited", "setup", "forked"}
  /\ \A i \in DOMAIN workers :
       /\ workers[i].pc \in {"id", "sockets", "context", "status", "start", "loop"}
       /\ workers[i].ready \subseteq Services

\* A worker that reports to be ready accepts requests, has its queues and the
\* tables, and its watcher runs if one is wanted.
ReadyWorkersServe ==
  \A i \in DOMAIN workers :
    IsServerReady(i) =>
      /\ workers[i].accepts /\ workers[i].queues /\ workers[i].tables
      /\ "updater" \in status => "StorageWatcher" \in workers[i].running

\* No component of a worker runs before the queues it reads were made in it.
QueuesBeforeComponents ==
  \A i \in DOMAIN workers : workers[i].running # {} => workers[i].queues

\* A worker that serves has tried to start all its components.
AllComponentsTried ==
  \A i \in DOMAIN workers :
    workers[i].pc = "loop" =>
      {ComponentsToStart(args)[k] : k \in DOMAIN ComponentsToStart(args)}
        = workers[i].running \cup workers[i].failed

\* At most one worker expires the storage all of them share.
OneExpirer == Cardinality({i \in DOMAIN workers : workers[i].expires}) <= 1
=============================================================================

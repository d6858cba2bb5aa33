------------------------ MODULE AgentRegistryProofs ------------------------
(***************************************************************************)
(* Safety of AgentRegistry for any manifests, network files and threads: at  *)
(* rest the tables are what the files say, one caller at a time builds a     *)
(* service, what a service was built from is current, a ready server serves  *)
(* what the files said.  Where no network moves between storages, the        *)
(* listener follows the tables and what an update keeps is never away.       *)
(***************************************************************************)
EXTENDS AgentRegistry, FiniteSetTheorems, TLAPS

\* The disks whose manifests parse, the networks they say shall be served, the
\* versions of these, and what a table may be.
Readable == DOMAIN RestoredFrom
ServedIn(d, s) == {Restored(d)[s][m] : m \in DOMAIN Restored(d)[s]}
Networks ==
  {n \in UNION {UNION {ServedIn(d, s) : s \in ALL_PERMANENT} : d \in Readable} : n # NoNetwork}
Versions == {0} \cup {n.version : n \in Networks}
Tables == UNION {[D -> Networks] : D \in SUBSET Names}

\* The names a storage is ever told to serve.
NamesOf(s) == UNION {DOMAIN Restored(d)[s] : d \in Readable}

\* No network is in different storages, not even at different times.
NetworksStay == NamesOf("public") \cap NamesOf("protected") = {}

\* A notice about n is on its way to the listener.
Announced(n) == updater.notice # Quiet /\ updater.notice.name = n

Providers ==
  [name : Names, storage : ALL_PERMANENT, service : Versions, holder : Callers \cup {Nobody}]
Steps == {"idle", "authorize", "unknown", "look", "lock", "load", "store", "fetch", "use",
          "silent", "error", "served"}
Lookups == [pc : Steps, name : Names \cup {""}, prov : Nat, service : Versions, lookups : Nat]
Notices ==
  {Quiet} \cup [kind : {"added", "modified", "removed"}, name : Names, from : ALL_PERMANENT]

Updaters ==
  [pc : {"next", "setup", "sleep", "check", "restore", "dead"},
   todo : {SetupOrder, <<"protected">>, <<>>}, toServe : [ALL_PERMANENT -> Tables],
   removing : SUBSET Names, adding : SUBSET Names, notice : Notices, started : BOOLEAN]

Types ==
  /\ disk \in Disks /\ edits \in 0..MaxEdits
  /\ observing \in BOOLEAN /\ unseen \in BOOLEAN /\ counted \in BOOLEAN /\ missed \in BOOLEAN
  /\ ready \in [http : BOOLEAN, updater : BOOLEAN]
  /\ tables \in [ALL_PERMANENT -> Tables]
  /\ updater \in Updaters
  /\ allowed \in [DOMAIN allowed -> Nat]
  /\ provs \in Seq(Providers)
  /\ callers \in [Callers -> Lookups]

\* What a name is allowed to reach is a provider made for that name.
AllowedInv ==
  \A n \in DOMAIN allowed : n \in Names /\ allowed[n] \in DOMAIN provs /\ provs[allowed[n]].name = n

\* A storage is set up once what is removed is gone and what is added is in.
SetUp(s) ==
  /\ DOMAIN tables[s] \ DOMAIN updater.toServe[s] = updater.removing
  /\ updater.adding \subseteq DOMAIN updater.toServe[s]
  /\ \A n \in DOMAIN updater.toServe[s] \ updater.adding :
       n \in DOMAIN tables[s] /\ tables[s][n] = updater.toServe[s][n]

\* Where the updater is, what it has set up and what it is about to announce.
SetupInv ==
  /\ updater.pc = "setup" => updater.todo # <<>> /\ SetUp(Head(updater.todo))
  /\ updater.pc \notin {"next", "setup"} => updater.todo = <<>>
  /\ updater.todo # SetupOrder => tables["public"] = updater.toServe["public"]
  /\ updater.todo = <<>> => tables["protected"] = updater.toServe["protected"]
  /\ updater.notice # Quiet =>
       LET m == updater.notice
       IN /\ updater.pc = "setup" /\ m.from = Head(updater.todo)
          /\ m.kind = "removed" <=> m.name \notin DOMAIN tables[m.from]
          /\ m.kind = "removed" => m.name \notin DOMAIN updater.toServe[m.from]
  /\ ~updater.started => updater.pc \in {"next", "setup"}
  /\ \E d \in Readable : updater.toServe = Restored(d)

\* What is set up is what the files say, but for changes to be seen or missed.
DiskInv ==
  ~missed /\ ~unseen /\ ~counted /\ updater.pc \notin {"restore", "dead"} =>
    disk \in Readable /\ updater.toServe = Restored(disk)

\* Before the first change only what is to be served is in the tables, the
\* listener has heard of it or is about to, and a started server watches.
StartInv ==
  /\ ready.http => updater.started
  /\ edits = 0 =>
       /\ ~unseen /\ ~counted /\ ~missed
       /\ updater.pc \in (IF updater.started THEN {"sleep", "check"} ELSE {"next", "setup"})
       /\ updater.removing = {} /\ (updater.notice # Quiet => updater.notice.kind # "removed")
       /\ \A s \in ALL_PERMANENT :
            /\ DOMAIN tables[s] \subseteq DOMAIN updater.toServe[s]
            /\ \A n \in DOMAIN tables[s] :
                 \/ n \in DOMAIN allowed
                 \/ Announced(n) /\ updater.notice.kind = "added"

Asking == {"look", "lock", "load", "store", "fetch", "use"}

\* Who builds holds the lock of its provider, and who asks asks for its name.
CallerInv(c) ==
  LET r == callers[c] IN
  /\ r.pc \in Asking => r.prov \in DOMAIN provs /\ provs[r.prov].name = r.name
  /\ r.pc \in {"load", "store"} => provs[r.prov].holder = c

\* v is the version of n in the table that its provider reads.
Current(n, v) == v = Lookup(tables[provs[allowed[n]].storage], n).version

\* What a provider gives out, and what somebody is about to store in it, is
\* current, but for a change that is about to be announced.
ServiceInv ==
  \A n \in DOMAIN allowed : ~Announced(n) =>
    /\ provs[allowed[n]].service # 0 => Current(n, provs[allowed[n]].service)
    /\ \A c \in Callers : callers[c].pc = "store" /\ callers[c].prov = allowed[n]
                            => Current(n, callers[c].service)

IInv ==
  /\ Types /\ AllowedInv /\ SetupInv /\ DiskInv /\ StartInv
  /\ (\A c \in Callers : CallerInv(c))
  /\ ServiceInv

\* If networks stay where they are, whoever is in a table is allowed or announced
\* and the other way round, and every provider reads the table of its name.
StayInv ==
  /\ \A s \in ALL_PERMANENT :
       /\ DOMAIN tables[s] \subseteq NamesOf(s)
       /\ \A n \in DOMAIN allowed : provs[allowed[n]].storage = s => n \in NamesOf(s)
  /\ updater.notice # Quiet => updater.notice.name \in NamesOf(updater.notice.from)
  /\ \A n \in Names :
       ~Announced(n) \/ updater.notice.kind = "modified" =>
         (n \in DOMAIN allowed <=> \E s \in ALL_PERMANENT : n \in DOMAIN tables[s])

\* What no step of a caller touches.
AllElse ==
  UNCHANGED <<disk, edits, observing, unseen, counted, missed, tables, updater, allowed, ready>>
-----------------------------------------------------------------------------
(* Tables *)

\* A table is a function from names to networks.
LEMMA TableIs ==
  ASSUME NEW t
  PROVE  t \in Tables <=> DOMAIN t \subseteq Names /\ t \in [DOMAIN t -> Networks]
BY DEF Tables

\* Tables that agree on the names of both are one table.
LEMMA SameTable ==
  ASSUME NEW t \in Tables, NEW u \in Tables, DOMAIN t = DOMAIN u, \A n \in DOMAIN t : t[n] = u[n]
  PROVE  t = u
BY TableIs

\* What a restoration leaves is no absence of a network.
LEMMA NoneIsDropped ==
  ASSUME NEW f, NEW g, g = DropNone(f)
  PROVE  /\ g = [s \in ALL_PERMANENT |-> g[s]]
         /\ \A s \in ALL_PERMANENT : g[s] = [n \in DOMAIN g[s] |-> g[s][n]]
         /\ \A s \in ALL_PERMANENT : \A n \in DOMAIN g[s] : g[s][n] # NoNetwork
BY DEF DropNone

\* A disk that can be read says what is in every table.
LEMMA RestoredTables ==
  ASSUME NEW d \in Readable
  PROVE  /\ d \in Disks /\ ~RestoreRaises(d.manifests)
         /\ Restored(d) \in [ALL_PERMANENT -> Tables]
<1>1. d \in Disks /\ ~RestoreRaises(d.manifests)
  BY DEF Readable, RestoredFrom
<1>2. PICK f : Restored(d) = DropNone(f)
  BY <1>1 DEF Restored, RestoredFrom, Restore
<1>. DEFINE g == Restored(d)
<1>. HIDE DEF g
<1>3. /\ g = [s \in ALL_PERMANENT |-> g[s]]
      /\ \A s \in ALL_PERMANENT : g[s] = [n \in DOMAIN g[s] |-> g[s][n]]
      /\ \A s \in ALL_PERMANENT : \A n \in DOMAIN g[s] : g[s][n] # NoNetwork
  BY <1>2, NoneIsDropped DEF g
<1>4. ASSUME NEW s \in ALL_PERMANENT PROVE g[s] \in Tables
  <2>1. DOMAIN g[s] \subseteq Names
    BY NamesAssumption DEF Readable, g
  <2>2. ASSUME NEW n \in DOMAIN g[s] PROVE g[s][n] \in Networks
    <3>1. g[s][n] # NoNetwork
      BY <1>3
    <3>2. g[s][n] \in ServedIn(d, s)
      BY DEF ServedIn, g
    <3>. QED BY <3>1, <3>2 DEF Networks
  <2>3. g[s] \in [DOMAIN g[s] -> Networks]
    BY <1>3, <2>2
  <2>. QED BY <2>1, <2>3, TableIs
<1>5. g \in [ALL_PERMANENT -> Tables]
  BY <1>3, <1>4
<1>. QED BY <1>1, <1>5 DEF g

LEMMA ReadableDisk ==
  ASSUME NEW d \in Disks
  PROVE  d \in Readable <=> ~RestoreRaises(d.manifests)
BY DEF Readable, RestoredFrom

\* A network that is put into a table is there, and all others as before.
LEMMA PutIntoTable ==
  ASSUME NEW t \in Tables, NEW n \in Names, NEW v \in Networks
  PROVE  /\ With(t, n, v) \in Tables
         /\ DOMAIN With(t, n, v) = DOMAIN t \cup {n}
         /\ With(t, n, v)[n] = v
         /\ \A m \in DOMAIN t \ {n} : With(t, n, v)[m] = t[m]
         /\ \A m : m # n => Lookup(With(t, n, v), m) = Lookup(t, m)
BY TableIs DEF With, Lookup

LEMMA TakenFromTable ==
  ASSUME NEW t \in Tables, NEW n
  PROVE  /\ Without(t, n) \in Tables
         /\ DOMAIN Without(t, n) = DOMAIN t \ {n}
         /\ \A m \in DOMAIN t \ {n} : Without(t, n)[m] = t[m]
         /\ \A m : m # n => Lookup(Without(t, n), m) = Lookup(t, m)
BY TableIs DEF Without, Lookup

\* A name is looked up if and only if it is in the table.
LEMMA LookedUp ==
  ASSUME NEW t \in Tables, NEW n
  PROVE  /\ Lookup(t, n) = NoNetwork <=> n \notin DOMAIN t
         /\ n \in DOMAIN t => Lookup(t, n) = t[n] /\ t[n] \in Networks
         /\ Lookup(t, n).version \in Versions
<1>1. n \in DOMAIN t => t[n] \in Networks /\ t[n] # NoNetwork
  <2>1. n \in DOMAIN t => t[n] \in Networks
    BY TableIs
  <2>2. \A v \in Networks : v # NoNetwork
    BY DEF Networks
  <2>. QED BY <2>1, <2>2
<1>2. NoNetwork.version = 0
  BY DEF NoNetwork
<1>. QED BY <1>1, <1>2 DEF Lookup, Versions

\* The order of the storages.
LEMMA Order ==
  /\ SetupOrder # <<"protected">> /\ SetupOrder # <<>> /\ <<"protected">> # <<>>
  /\ Head(SetupOrder) = "public" /\ Tail(SetupOrder) = <<"protected">>
  /\ Head(<<"protected">>) = "protected" /\ Tail(<<"protected">>) = <<>>
  /\ ALL_PERMANENT = {"public", "protected"}
BY DEF SetupOrder, ALL_PERMANENT

\* What a name is allowed to reach.
LEMMA ProviderOf ==
  ASSUME IInv, NEW n \in DOMAIN allowed
  PROVE  /\ n \in Names /\ allowed[n] \in DOMAIN provs /\ provs[allowed[n]] \in Providers
         /\ provs[allowed[n]].name = n /\ provs[allowed[n]].storage \in ALL_PERMANENT
<1>1. n \in Names /\ allowed[n] \in DOMAIN provs /\ provs[allowed[n]].name = n
  BY DEF IInv, AllowedInv
<1>2. provs \in Seq(Providers)
  BY DEF IInv, Types
<1>3. provs[allowed[n]] \in Providers
  BY <1>1, <1>2
<1>. QED BY <1>1, <1>3 DEF Providers
-----------------------------------------------------------------------------
(* The files and the watcher *)

LEMMA Begins == Init => IInv
<1>. SUFFICES ASSUME Init PROVE IInv
  OBVIOUS
<1>1. disk \in Readable /\ disk \in Disks /\ Restored(disk) \in [ALL_PERMANENT -> Tables]
  BY ReadableDisk, RestoredTables DEF Init
<1>2. <<>> \in Tables /\ DOMAIN allowed = {}
  <2>1. DOMAIN <<>> = {} /\ <<>> \in [{} -> Networks]
    OBVIOUS
  <2>. QED BY <2>1, TableIs DEF Init
<1>3. Types
  <2>1. updater \in Updaters
    BY <1>1 DEF Init, Updaters, Notices
  <2>2. tables \in [ALL_PERMANENT -> Tables] /\ allowed \in [DOMAIN allowed -> Nat]
    BY <1>2 DEF Init
  <2>3. callers \in [Callers -> Lookups]
    BY DEF Init, Lookups, Steps, NoCaller, Versions
  <2>4. provs \in Seq(Providers) /\ ready \in [http : BOOLEAN, updater : BOOLEAN]
    BY DEF Init
  <2>5. edits \in 0..MaxEdits
    BY BoundsAssumption DEF Init
  <2>6. observing \in BOOLEAN /\ unseen \in BOOLEAN /\ counted \in BOOLEAN /\ missed \in BOOLEAN
    BY DEF Init
  <2>. QED BY <1>1, <2>1, <2>2, <2>3, <2>4, <2>5, <2>6 DEF Types
<1>4. AllowedInv /\ ServiceInv /\ \A c \in Callers : CallerInv(c)
  <2>1. \A c \in Callers : callers[c].pc = "idle"
    BY DEF Init, NoCaller
  <2>. QED BY <1>2, <2>1 DEF AllowedInv, ServiceInv, CallerInv, Asking
<1>5. SetupInv
  BY <1>1, Order DEF Init, SetupInv
<1>6. DiskInv /\ StartInv
  BY <1>1, Order DEF Init, DiskInv, StartInv, Quiet
<1>. QED BY <1>3, <1>4, <1>5, <1>6 DEF IInv

\* A change of the files is unseen or missed, or is counted when it is seen.
LEMMA FilesKeep ==
  ASSUME IInv, Edit \/ HandleEvent
  PROVE  IInv'
<1>1. UNCHANGED <<observing, tables, updater, allowed, provs, callers, ready>>
  BY DEF Edit, HandleEvent
<1>2. Types'
  <2>1. edits' \in 0..MaxEdits /\ disk' \in Disks
    BY BoundsAssumption DEF IInv, Types, Edit, HandleEvent
  <2>2. unseen' \in BOOLEAN /\ counted' \in BOOLEAN /\ missed' \in BOOLEAN
    BY DEF IInv, Types, Edit, HandleEvent
  <2>. QED BY <1>1, <2>1, <2>2 DEF IInv, Types
<1>3. AllowedInv' /\ (\A c \in Callers : CallerInv(c))' /\ SetupInv'
  BY <1>1 DEF IInv, AllowedInv, CallerInv, SetupInv, SetUp
<1>4. ServiceInv'
  BY <1>1 DEF IInv, ServiceInv, Current, Announced
<1>5. DiskInv'
  BY <1>1 DEF IInv, Types, DiskInv, Edit, HandleEvent
<1>6. StartInv'
  BY <1>1 DEF IInv, Types, StartInv, Edit, HandleEvent, Announced
<1>. QED BY <1>2, <1>3, <1>4, <1>5, <1>6 DEF IInv

\* Nothing is announced while the watcher waits or restores the manifests.
LEMMA WatchIsQuiet ==
  ASSUME IInv, Watch
  PROVE  /\ UNCHANGED <<disk, edits, unseen, tables, allowed, provs, callers>>
         /\ updater'.notice = Quiet /\ updater.notice = Quiet
         /\ updater \in Updaters
<1>1. updater \in Updaters /\ (updater.notice # Quiet => updater.pc = "setup")
  BY DEF IInv, Types, SetupInv
<1>2. updater.pc # "setup"
  BY DEF Watch, StartServer, NextTurn, WakeUp, ResetEventCounters, RestoreFails, RestoreManifests
<1>3. updater'.notice = updater.notice
  <2>1. CASE StartServer
    BY <1>1, <2>1 DEF StartServer, Updaters
  <2>2. CASE NextTurn \/ WakeUp
    BY <1>1, <2>2 DEF NextTurn, WakeUp, Updaters
  <2>3. CASE ResetEventCounters \/ RestoreFails
    BY <1>1, <2>3 DEF ResetEventCounters, RestoreFails, Updaters
  <2>4. CASE RestoreManifests
    BY <1>1, <2>4 DEF RestoreManifests, Updaters
  <2>. QED BY <2>1, <2>3, <2>4, <2>2 DEF Watch
<1>4. UNCHANGED <<disk, edits, unseen, tables, allowed, provs, callers>>
  BY DEF Watch, StartServer, NextTurn, WakeUp, ResetEventCounters, RestoreFails, RestoreManifests,
         UpdaterOnly
<1>. QED BY <1>1, <1>2, <1>3, <1>4

\* A step of the watcher between two updates: what the tables are told to be is
\* what the files say, and it is told again when a change was counted.
LEMMA WatchKeeps ==
  ASSUME IInv, Watch
  PROVE  IInv'
<1>1. /\ UNCHANGED <<disk, edits, unseen, tables, allowed, provs, callers>>
      /\ updater'.notice = Quiet /\ updater.notice = Quiet
      /\ updater \in Updaters
  BY WatchIsQuiet
<1>2. AllowedInv' /\ (\A c \in Callers : CallerInv(c))'
  BY <1>1 DEF IInv, AllowedInv, CallerInv
<1>3. ServiceInv'
  BY <1>1 DEF IInv, ServiceInv, Current, Announced
<1>4. CASE StartServer \/ NextTurn \/ WakeUp
  <2>1. updater' \in Updaters
    BY <1>1, <1>4 DEF StartServer, NextTurn, WakeUp, Updaters
  <2>2. Types'
    <3>1. ready \in [http : BOOLEAN, updater : BOOLEAN]
      BY DEF IInv, Types
    <3>2. ready' \in [http : BOOLEAN, updater : BOOLEAN] /\ observing' \in BOOLEAN
      BY <1>4, <3>1 DEF StartServer, NextTurn, WakeUp, UpdaterOnly, IInv, Types
    <3>3. UNCHANGED <<counted, missed>>
      BY <1>4 DEF StartServer, NextTurn, WakeUp, UpdaterOnly
    <3>. QED BY <1>1, <2>1, <3>2, <3>3 DEF IInv, Types
  <2>3. /\ updater.todo = <<>> /\ updater'.todo = <<>> /\ updater'.toServe = updater.toServe
        /\ updater.pc \in {"next", "sleep"} /\ updater'.pc \in {"sleep", "check"}
        /\ updater'.started /\ updater.removing = updater'.removing
        /\ updater.pc = "sleep" => updater.started
    BY <1>1, <1>4 DEF StartServer, NextTurn, WakeUp, Updaters, IInv, SetupInv
  <2>4. SetupInv'
    BY <1>1, <2>3 DEF IInv, SetupInv
  <2>5. DiskInv'
    <3>1. UNCHANGED <<counted, missed>>
      BY <1>4 DEF StartServer, NextTurn, WakeUp, UpdaterOnly
    <3>. QED BY <1>1, <2>3, <3>1 DEF IInv, DiskInv
  <2>6. StartInv'
    BY <1>1, <1>4, <2>3 DEF StartServer, NextTurn, WakeUp, IInv, StartInv, Announced
  <2>. QED BY <1>2, <1>3, <2>2, <2>4, <2>5, <2>6 DEF IInv
<1>5. CASE ResetEventCounters
  <2>1. updater' \in Updaters
    BY <1>1, <1>5 DEF ResetEventCounters, Updaters
  <2>2. Types'
    BY <1>1, <1>5, <2>1 DEF ResetEventCounters, IInv, Types
  <2>3. /\ updater.pc = "check" /\ updater'.pc = IF counted THEN "restore" ELSE "sleep"
        /\ updater'.todo = updater.todo /\ updater'.toServe = updater.toServe
        /\ updater'.started = updater.started /\ updater.removing = updater'.removing
        /\ UNCHANGED <<missed, ready>>
    BY <1>1, <1>5 DEF ResetEventCounters, Updaters
  <2>4. SetupInv' /\ DiskInv'
    BY <1>1, <1>5, <2>3 DEF ResetEventCounters, IInv, SetupInv, DiskInv
  <2>5. StartInv'
    BY <1>1, <1>5, <2>3 DEF ResetEventCounters, IInv, SetupInv, StartInv, Announced
  <2>. QED BY <1>2, <1>3, <2>2, <2>4, <2>5 DEF IInv
<1>6. CASE RestoreFails
  <2>1. updater' \in Updaters /\ UNCHANGED <<observing, counted, missed, ready>>
    BY <1>1, <1>6 DEF RestoreFails, UpdaterOnly, Updaters
  <2>2. Types'
    BY <1>1, <2>1 DEF IInv, Types
  <2>3. /\ updater.pc = "restore" /\ updater'.pc = "dead"
        /\ updater'.todo = updater.todo /\ updater'.toServe = updater.toServe
        /\ updater'.started = updater.started
    BY <1>1, <1>6 DEF RestoreFails, Updaters
  <2>4. SetupInv' /\ DiskInv'
    BY <1>1, <2>3 DEF IInv, SetupInv, DiskInv
  <2>5. StartInv'
    BY <1>1, <2>1, <2>3 DEF IInv, SetupInv, StartInv
  <2>. QED BY <1>2, <1>3, <2>2, <2>4, <2>5 DEF IInv
<1>7. CASE RestoreManifests
  <2>1. disk \in Readable /\ Restored(disk) \in [ALL_PERMANENT -> Tables]
    BY <1>7, ReadableDisk, RestoredTables DEF RestoreManifests, IInv, Types
  <2>2. updater' \in Updaters /\ UNCHANGED <<observing, counted, ready>> /\ missed' = FALSE
    BY <1>1, <1>7, <2>1 DEF RestoreManifests, Updaters
  <2>3. Types'
    BY <1>1, <2>2 DEF IInv, Types
  <2>4. /\ updater.pc = "restore" /\ updater'.pc = "next"
        /\ updater'.todo = SetupOrder /\ updater'.toServe = Restored(disk)
        /\ updater'.started = updater.started
    BY <1>1, <1>7 DEF RestoreManifests, Updaters
  <2>5. SetupInv' /\ DiskInv'
    BY <1>1, <2>1, <2>4, Order DEF IInv, SetupInv, DiskInv
  <2>6. StartInv'
    BY <1>1, <2>2, <2>4 DEF IInv, SetupInv, StartInv
  <2>. QED BY <1>2, <1>3, <2>3, <2>5, <2>6 DEF IInv
<1>. QED BY <1>4, <1>5, <1>6, <1>7 DEF Watch
-----------------------------------------------------------------------------
(* Setting up the tables *)

\* While a storage is set up, it is one of the two, and the ones before it are done.
LEMMA InSetup ==
  ASSUME IInv, updater.pc = "setup"
  PROVE  /\ updater \in Updaters /\ updater.todo \in {SetupOrder, <<"protected">>}
         /\ Head(updater.todo) \in ALL_PERMANENT
         /\ Head(updater.todo) = "public" <=> updater.todo = SetupOrder
         /\ \A s \in ALL_PERMANENT : tables[s] \in Tables /\ updater.toServe[s] \in Tables
         /\ tables = [s \in ALL_PERMANENT |-> tables[s]]
<1>1. updater \in Updaters /\ tables \in [ALL_PERMANENT -> Tables] /\ updater.todo # <<>>
  BY DEF IInv, Types, SetupInv
<1>2. /\ updater.todo \in {SetupOrder, <<"protected">>}
      /\ updater.toServe \in [ALL_PERMANENT -> Tables]
  BY <1>1 DEF Updaters
<1>. QED BY <1>1, <1>2, Order

\* A change of one network in a table that is being announced makes no other stale.
LEMMA AnnouncedChange ==
  ASSUME IInv, NEW n, updater'.notice # Quiet, updater'.notice.name = n, updater.notice = Quiet,
         \A q \in ALL_PERMANENT : \A m : m # n => Lookup(tables'[q], m) = Lookup(tables[q], m),
         UNCHANGED <<allowed, provs, callers>>
  PROVE  ServiceInv'
<1>1. ASSUME NEW m \in DOMAIN allowed, m # n, NEW v PROVE Current(m, v) => Current(m, v)'
  <2>1. provs[allowed[m]].storage \in ALL_PERMANENT
    BY ProviderOf
  <2>2. Lookup(tables'[provs[allowed[m]].storage], m) = Lookup(tables[provs[allowed[m]].storage], m)
    BY <1>1, <2>1
  <2>. QED BY <2>2 DEF Current
<1>2. \A m \in DOMAIN allowed : ~Announced(m)' => m # n /\ ~Announced(m)
  BY DEF Announced
<1>. QED BY <1>1, <1>2 DEF ServiceInv, IInv

\* A storage is taken up, a network is taken out or put in, a storage is done.
LEMMA SetupKeeps ==
  ASSUME IInv, Setup
  PROVE  IInv'
<1>1. /\ UNCHANGED <<disk, edits, observing, unseen, counted, missed, allowed, provs, callers,
                    ready>>
      /\ updater \in Updaters
  BY DEF Setup, SetupNext, RemoveAgentNetwork, AddAgentNetwork, SetupStorageDone, UpdaterOnly,
         TableChanged, IInv, Types
<1>2. AllowedInv' /\ (\A c \in Callers : CallerInv(c))'
  BY <1>1 DEF IInv, AllowedInv, CallerInv
<1>. DEFINE s == Head(updater.todo)
<1>3. CASE SetupNext
  <2>1. s \in ALL_PERMANENT /\ (s = "public" <=> updater.todo = SetupOrder)
    BY <1>1, <1>3, Order DEF SetupNext, Updaters
  <2>2. tables[s] \in Tables /\ updater.toServe[s] \in Tables /\ UNCHANGED tables
    BY <1>1, <1>3, <2>1 DEF IInv, Types, SetupNext, UpdaterOnly, Updaters
  <2>3. /\ DOMAIN tables[s] \ DOMAIN updater.toServe[s] \in SUBSET Names
        /\ DOMAIN updater.toServe[s] \in SUBSET Names
    BY <2>2, TableIs
  <2>4. updater' \in Updaters
    BY <1>1, <1>3, <2>3 DEF SetupNext, Updaters
  <2>5. /\ updater.pc = "next" /\ updater'.pc = "setup" /\ updater.todo # <<>>
        /\ updater'.todo = updater.todo /\ updater'.toServe = updater.toServe
        /\ updater'.started = updater.started /\ updater'.notice = updater.notice
        /\ updater'.removing = DOMAIN tables[s] \ DOMAIN updater.toServe[s]
        /\ updater'.adding = DOMAIN updater.toServe[s]
    BY <1>1, <1>3 DEF SetupNext, Updaters
  <2>6. Types'
    BY <1>1, <2>2, <2>4 DEF IInv, Types
  <2>7. SetupInv'
    BY <2>2, <2>5 DEF IInv, SetupInv, SetUp
  <2>8. DiskInv' /\ ServiceInv'
    BY <1>1, <2>2, <2>5 DEF IInv, DiskInv, ServiceInv, Current, Announced
  <2>9. StartInv'
    BY <1>1, <2>1, <2>2, <2>5 DEF IInv, StartInv, Announced
  <2>. QED BY <1>2, <2>6, <2>7, <2>8, <2>9 DEF IInv
<1>4. ASSUME NEW n \in updater.removing, updater.pc = "setup", updater.notice = Quiet,
             tables' = [tables EXCEPT ![s] = Without(@, n)],
             updater' = [updater EXCEPT
               !.removing = @ \ {n}, !.notice = [kind |-> "removed", name |-> n, from |-> s]]
      PROVE  IInv'
  <2>1. s \in ALL_PERMANENT /\ (s = "public" <=> updater.todo = SetupOrder)
    BY <1>4, InSetup
  <2>2. /\ tables[s] \in Tables /\ updater.toServe[s] \in Tables /\ n \in Names
        /\ n \notin DOMAIN updater.toServe[s]
    BY <1>1, <1>4, <2>1, InSetup DEF IInv, SetupInv, SetUp, Updaters
  <2>3. [kind |-> "removed", name |-> n, from |-> s] \in Notices
    BY <2>1, <2>2 DEF Notices
  <2>4. updater' \in Updaters
    BY <1>1, <1>4, <2>3 DEF Updaters
  <2>5. /\ updater'.pc = "setup" /\ updater'.todo = updater.todo
        /\ updater'.toServe = updater.toServe /\ updater'.started = updater.started
        /\ updater'.removing = updater.removing \ {n} /\ updater'.adding = updater.adding
        /\ updater'.notice = [kind |-> "removed", name |-> n, from |-> s]
    BY <1>1, <1>4 DEF Updaters
  <2>. DEFINE t == Without(tables[s], n)
  <2>6. /\ t \in Tables
        /\ DOMAIN t = DOMAIN tables[s] \ {n}
        /\ \A m \in DOMAIN tables[s] \ {n} : t[m] = tables[s][m]
        /\ \A m : m # n => Lookup(t, m) = Lookup(tables[s], m)
    BY <2>2, TakenFromTable
  <2>7. /\ tables' = [tables EXCEPT ![s] = t]
        /\ tables'[s] = t
        /\ \A q \in ALL_PERMANENT : q # s => tables'[q] = tables[q]
    BY <1>4, <2>1, InSetup
  <2>. HIDE DEF t
  <2>8. tables' \in [ALL_PERMANENT -> Tables]
    BY <1>4, <2>1, <2>6, <2>7, InSetup
  <2>9. Types'
    BY <1>1, <2>4, <2>8 DEF IInv, Types
  <2>10. SetUp(s)'
    <3>1. SetUp(s)
      BY <1>4 DEF IInv, SetupInv
    <3>2. /\ DOMAIN tables'[s] = DOMAIN tables[s] \ {n}
          /\ \A m \in DOMAIN tables[s] \ {n} : tables'[s][m] = tables[s][m]
      BY <2>2, <2>6, <2>7
    <3>3. s' = s
      BY <2>5
    <3>. QED BY <2>2, <2>5, <3>1, <3>2 DEF SetUp
  <2>11. SetupInv'
    <3>1. n \notin DOMAIN tables'[s]
      BY <2>2, <2>6, <2>7
    <3>2. tables'["public"] = updater'.toServe["public"] \/ updater'.todo = SetupOrder
      BY <1>4, <2>1, <2>5, <2>7, Order DEF IInv, SetupInv
    <3>3. updater'.todo # <<>>
      BY <1>4, <2>5, InSetup, Order
    <3>4. LET m == updater'.notice
          IN /\ updater'.pc = "setup" /\ m.from = Head(updater'.todo)
             /\ m.kind = "removed" <=> m.name \notin DOMAIN tables'[m.from]
             /\ m.kind = "removed" => m.name \notin DOMAIN updater'.toServe[m.from]
      BY <2>2, <2>5, <3>1
    <3>. QED BY <2>5, <2>10, <3>2, <3>3, <3>4 DEF IInv, SetupInv
  <2>12. updater'.notice # Quiet /\ updater'.notice.name = n
    BY <2>5 DEF Quiet
  <2>13. ServiceInv'
    <3>1. \A q \in ALL_PERMANENT : \A m : m # n => Lookup(tables'[q], m) = Lookup(tables[q], m)
      BY <2>6, <2>7
    <3>. QED BY <1>1, <1>4, <2>12, <3>1, AnnouncedChange
  <2>14. DiskInv' /\ StartInv'
    BY <1>1, <1>4, <2>5 DEF IInv, DiskInv, StartInv
  <2>. QED BY <1>2, <2>9, <2>11, <2>14, <2>13 DEF IInv
<1>5. ASSUME NEW n \in updater.adding, NEW k \in {"added", "modified"},
             k = "added" \/ n \in DOMAIN tables[s],
             updater.pc = "setup", updater.notice = Quiet, updater.removing = {},
             tables' = [tables EXCEPT ![s] = With(@, n, updater.toServe[s][n])],
             updater' = [updater EXCEPT
               !.adding = @ \ {n}, !.notice = [kind |-> k, name |-> n, from |-> s]]
      PROVE  IInv'
  <2>1. s \in ALL_PERMANENT /\ (s = "public" <=> updater.todo = SetupOrder)
    BY <1>5, InSetup
  <2>2. tables[s] \in Tables /\ updater.toServe[s] \in Tables /\ SetUp(s)
    BY <1>5, <2>1, InSetup DEF IInv, SetupInv
  <2>3. n \in Names /\ n \in DOMAIN updater.toServe[s]
    BY <1>1, <2>2 DEF SetUp, Updaters
  <2>. DEFINE v == updater.toServe[s][n]
  <2>4. v \in Networks
    BY <2>2, <2>3, TableIs
  <2>. DEFINE t == With(tables[s], n, v)
  <2>5. /\ t \in Tables
        /\ DOMAIN t = DOMAIN tables[s] \cup {n}
        /\ t[n] = v
        /\ \A m \in DOMAIN tables[s] \ {n} : t[m] = tables[s][m]
        /\ \A m : m # n => Lookup(t, m) = Lookup(tables[s], m)
    BY <2>2, <2>3, <2>4, PutIntoTable
  <2>6. /\ tables' = [tables EXCEPT ![s] = t]
        /\ tables'[s] = t
        /\ \A q \in ALL_PERMANENT : q # s => tables'[q] = tables[q]
    BY <1>5, <2>1, InSetup
  <2>. HIDE DEF t
  <2>7. [kind |-> k, name |-> n, from |-> s] \in Notices
    BY <2>1, <2>3 DEF Notices
  <2>8. updater' \in Updaters
    BY <1>1, <1>5, <2>7 DEF Updaters
  <2>9. /\ updater'.pc = "setup" /\ updater'.todo = updater.todo
        /\ updater'.toServe = updater.toServe /\ updater'.started = updater.started
        /\ updater'.removing = {} /\ updater'.adding = updater.adding \ {n}
        /\ updater'.notice = [kind |-> k, name |-> n, from |-> s]
    BY <1>1, <1>5 DEF Updaters
  <2>10. tables' \in [ALL_PERMANENT -> Tables]
    BY <2>1, <2>5, <2>6, InSetup, <1>5
  <2>11. Types'
    BY <1>1, <2>8, <2>10 DEF IInv, Types
  <2>12. SetUp(s)'
    <3>1. s' = s
      BY <2>9
    <3>2. DOMAIN t \ DOMAIN updater.toServe[s] = {}
      BY <1>5, <2>2, <2>3, <2>5 DEF SetUp
    <3>3. \A m \in DOMAIN updater.toServe[s] \ (updater.adding \ {n}) :
             m \in DOMAIN t /\ t[m] = updater.toServe[s][m]
      BY <2>2, <2>5 DEF SetUp
    <3>4. updater.adding \ {n} \subseteq DOMAIN updater.toServe[s]
      BY <2>2 DEF SetUp
    <3>. QED BY <2>6, <2>9, <3>1, <3>2, <3>3, <3>4 DEF SetUp
  <2>13. SetupInv'
    <3>1. n \in DOMAIN tables'[s]
      BY <2>5, <2>6
    <3>2. tables'["public"] = updater'.toServe["public"] \/ updater'.todo = SetupOrder
      BY <1>5, <2>1, <2>6, <2>9, Order DEF IInv, SetupInv
    <3>3. updater'.todo # <<>>
      BY <1>5, <2>9, InSetup, Order
    <3>4. LET m == updater'.notice
          IN /\ updater'.pc = "setup" /\ m.from = Head(updater'.todo)
             /\ m.kind = "removed" <=> m.name \notin DOMAIN tables'[m.from]
             /\ m.kind = "removed" => m.name \notin DOMAIN updater'.toServe[m.from]
      BY <2>9, <3>1
    <3>. QED BY <2>9, <2>12, <3>2, <3>3, <3>4 DEF IInv, SetupInv
  <2>14. updater'.notice # Quiet /\ updater'.notice.name = n
    BY <2>9 DEF Quiet
  <2>15. ServiceInv'
    <3>1. \A q \in ALL_PERMANENT : \A m : m # n => Lookup(tables'[q], m) = Lookup(tables[q], m)
      BY <2>5, <2>6
    <3>. QED BY <1>1, <1>5, <2>14, <3>1, AnnouncedChange
  <2>16. DiskInv'
    BY <1>1, <1>5, <2>9 DEF IInv, DiskInv
  <2>17. StartInv'
    <3>1. ASSUME edits = 0, NEW q \in ALL_PERMANENT
          PROVE  /\ DOMAIN tables'[q] \subseteq DOMAIN updater.toServe[q]
                 /\ \A m \in DOMAIN tables'[q] :
                      \/ m \in DOMAIN allowed
                      \/ (Announced(m) /\ updater.notice.kind = "added")'
      <4>1. /\ DOMAIN tables[q] \subseteq DOMAIN updater.toServe[q]
            /\ \A m \in DOMAIN tables[q] : m \in DOMAIN allowed
        BY <1>5, <3>1 DEF IInv, StartInv, Announced
      <4>2. \/ DOMAIN tables'[q] = DOMAIN tables[q]
            \/ q = s /\ DOMAIN tables'[q] = DOMAIN tables[q] \cup {n}
        BY <2>5, <2>6
      <4>. QED BY <1>5, <2>1, <2>3, <2>9, <2>14, <4>1, <4>2 DEF Announced
    <3>. QED BY <1>1, <1>5, <2>9, <3>1 DEF IInv, StartInv, Quiet
  <2>. QED BY <1>2, <2>11, <2>13, <2>15, <2>16, <2>17 DEF IInv
<1>6. CASE SetupStorageDone
  <2>1. /\ updater.pc = "setup" /\ updater.notice = Quiet
        /\ updater.removing = {} /\ updater.adding = {} /\ UNCHANGED tables
    BY <1>6 DEF SetupStorageDone, UpdaterOnly
  <2>2. s \in ALL_PERMANENT /\ (s = "public" <=> updater.todo = SetupOrder)
    BY <2>1, InSetup
  <2>3. tables[s] \in Tables /\ updater.toServe[s] \in Tables /\ SetUp(s)
    BY <2>1, <2>2, InSetup DEF IInv, SetupInv
  <2>4. tables[s] = updater.toServe[s]
    <3>1. /\ DOMAIN tables[s] = DOMAIN updater.toServe[s]
          /\ \A n \in DOMAIN tables[s] : tables[s][n] = updater.toServe[s][n]
      BY <2>1, <2>3 DEF SetUp
    <3>. QED BY <2>3, <3>1, SameTable
  <2>5. Tail(updater.todo) \in {<<"protected">>, <<>>} /\ Tail(updater.todo) # SetupOrder
    BY <2>1, InSetup, Order
  <2>6. updater' \in Updaters
    BY <1>1, <1>6, <2>5 DEF SetupStorageDone, Updaters
  <2>7. /\ updater'.pc = "next" /\ updater'.todo = Tail(updater.todo)
        /\ updater'.toServe = updater.toServe /\ updater'.started = updater.started
        /\ updater'.removing = updater.removing /\ updater'.notice = updater.notice
    BY <1>1, <1>6 DEF SetupStorageDone, Updaters
  <2>8. Types'
    BY <1>1, <2>1, <2>6 DEF IInv, Types
  <2>9. tables["public"] = updater.toServe["public"]
    BY <2>2, <2>4 DEF IInv, SetupInv
  <2>10. Tail(updater.todo) = <<>> => s = "protected"
    BY <2>1, <2>2, InSetup, Order
  <2>11. SetupInv'
    BY <2>1, <2>4, <2>7, <2>9, <2>10 DEF IInv, SetupInv
  <2>12. DiskInv' /\ ServiceInv'
    BY <1>1, <2>1, <2>7 DEF IInv, DiskInv, ServiceInv, Current, Announced
  <2>13. StartInv'
    BY <1>1, <2>1, <2>7 DEF IInv, StartInv, Announced
  <2>. QED BY <1>2, <2>8, <2>11, <2>12, <2>13 DEF IInv
<1>7. CASE RemoveAgentNetwork
  BY <1>4, <1>7 DEF RemoveAgentNetwork
<1>8. CASE AddAgentNetwork
  <2>1. PICK n \in updater.adding :
          /\ tables' = [tables EXCEPT ![s] = With(@, n, updater.toServe[s][n])]
          /\ updater' = [updater EXCEPT
               !.adding = @ \ {n}, !.notice = [kind |-> NewsOf(s, n), name |-> n, from |-> s]]
    BY <1>8 DEF AddAgentNetwork
  <2>2. /\ NewsOf(s, n) \in {"added", "modified"}
        /\ NewsOf(s, n) = "added" \/ n \in DOMAIN tables[s]
    BY DEF NewsOf, Lookup
  <2>. QED BY <1>5, <1>8, <2>1, <2>2 DEF AddAgentNetwork
<1>. QED BY <1>3, <1>6, <1>7, <1>8 DEF Setup
-----------------------------------------------------------------------------
(* The listener *)

\* What the listener is told, and what a step of it never touches.
LEMMA TellsNews ==
  ASSUME IInv, Listen
  PROVE  /\ UNCHANGED <<disk, edits, observing, unseen, counted, missed, tables, callers, ready>>
         /\ updater.notice # Quiet /\ updater' = [updater EXCEPT !.notice = Quiet]
         /\ updater \in Updaters /\ updater' \in Updaters
         /\ updater.notice.name \in Names /\ updater.notice.from \in ALL_PERMANENT
         /\ updater.notice.kind \in {"added", "modified", "removed"}
         /\ updater'.notice = Quiet /\ updater'.pc = updater.pc /\ updater'.todo = updater.todo
         /\ updater'.toServe = updater.toServe /\ updater'.started = updater.started
         /\ updater'.removing = updater.removing /\ updater'.adding = updater.adding
<1>1. updater \in Updaters
  BY DEF IInv, Types
<1>2. /\ updater' = [updater EXCEPT !.notice = Quiet]
      /\ updater.notice.kind \in {"added", "modified", "removed"}
      /\ UNCHANGED <<disk, edits, observing, unseen, counted, missed, tables, callers, ready>>
  BY DEF Listen, AgentAdded, AgentRemoved, AgentModified, Told, ListenerOnly
<1>3. updater.notice # Quiet
  BY <1>2 DEF Quiet
<1>4. updater.notice.name \in Names /\ updater.notice.from \in ALL_PERMANENT
  BY <1>1, <1>3 DEF Updaters, Notices
<1>. QED BY <1>1, <1>2, <1>3, <1>4 DEF Updaters, Notices

\* A new name is allowed a provider of its own, one that is gone nothing, and the
\* others what they were allowed before.
LEMMA AllowedNow ==
  ASSUME IInv, Listen
  PROVE  /\ AgentAdded =>
              /\ DOMAIN allowed' = DOMAIN allowed \cup {updater.notice.name}
              /\ allowed'[updater.notice.name] = Len(provs) + 1
         /\ AgentRemoved => DOMAIN allowed' = DOMAIN allowed \ {updater.notice.name}
         /\ AgentModified => allowed' = allowed
         /\ \A m \in DOMAIN allowed' :
              m # updater.notice.name => m \in DOMAIN allowed /\ allowed'[m] = allowed[m]
         /\ allowed' \in [DOMAIN allowed' -> Nat]
<1>1. allowed \in [DOMAIN allowed -> Nat] /\ Len(provs) + 1 \in Nat
  BY DEF IInv, Types
<1>2. CASE AgentAdded
  BY <1>1, <1>2 DEF AgentAdded, AgentRemoved, AgentModified, With
<1>3. CASE AgentRemoved
  BY <1>1, <1>3 DEF AgentAdded, AgentRemoved, AgentModified, Without
<1>4. CASE AgentModified
  BY <1>1, <1>4 DEF AgentAdded, AgentRemoved, AgentModified
<1>. QED BY <1>2, <1>3, <1>4 DEF Listen

\* Every provider stays what it is, except that the one of a modified network has
\* no service any more, while nobody holds its lock; a new one has neither.
LEMMA ProvidersNow ==
  ASSUME IInv, Listen
  PROVE  /\ provs' \in Seq(Providers) /\ DOMAIN provs \subseteq DOMAIN provs'
         /\ \A p \in DOMAIN provs :
              /\ provs'[p].name = provs[p].name /\ provs'[p].storage = provs[p].storage
              /\ provs'[p].holder = provs[p].holder
              /\ provs'[p].service \in {0, provs[p].service}
         /\ AgentAdded =>
              /\ Len(provs) + 1 \in DOMAIN provs' /\ Len(provs) + 1 \notin DOMAIN provs
              /\ provs'[Len(provs) + 1] =
                   [name |-> updater.notice.name, storage |-> updater.notice.from,
                    service |-> 0, holder |-> Nobody]
         /\ AgentModified /\ updater.notice.name \in DOMAIN allowed =>
              /\ provs'[allowed[updater.notice.name]].service = 0
              /\ provs[allowed[updater.notice.name]].holder = Nobody
<1>1. provs \in Seq(Providers)
  BY DEF IInv, Types
<1>2. CASE AgentAdded
  <2>. DEFINE new == [name |-> updater.notice.name, storage |-> updater.notice.from,
                      service |-> 0, holder |-> Nobody]
  <2>1. new \in Providers
    BY TellsNews DEF Providers, Versions
  <2>2. provs' = Append(provs, new)
    BY <1>2 DEF AgentAdded
  <2>3. ~AgentModified
    BY <1>2 DEF AgentAdded, AgentModified
  <2>. HIDE DEF new
  <2>4. /\ provs' \in Seq(Providers) /\ DOMAIN provs \subseteq DOMAIN provs'
        /\ Len(provs) + 1 \in DOMAIN provs' /\ Len(provs) + 1 \notin DOMAIN provs
        /\ provs'[Len(provs) + 1] = new
        /\ \A p \in DOMAIN provs : provs'[p] = provs[p]
    BY <1>1, <2>1, <2>2
  <2>. QED BY <2>3, <2>4 DEF new
<1>3. CASE AgentRemoved
  BY <1>1, <1>3 DEF AgentAdded, AgentRemoved, AgentModified
<1>4. CASE AgentModified
  <2>1. ~AgentAdded
    BY <1>4 DEF AgentAdded, AgentModified
  <2>2. CASE updater.notice.name \notin DOMAIN allowed
    BY <1>1, <1>4, <2>1, <2>2 DEF AgentModified
  <2>3. CASE updater.notice.name \in DOMAIN allowed
    <3>. DEFINE p == allowed[updater.notice.name]
    <3>1. p \in DOMAIN provs /\ provs[p] \in Providers
      BY <2>3, ProviderOf
    <3>2. provs' = [provs EXCEPT ![p].service = 0] /\ provs[p].holder = Nobody
      BY <1>4, <2>3 DEF AgentModified, MayReset
    <3>. HIDE DEF p
    <3>3. [provs[p] EXCEPT !.service = 0] \in Providers
      BY <3>1 DEF Providers, Versions
    <3>4. provs' \in Seq(Providers) /\ DOMAIN provs' = DOMAIN provs
      BY <1>1, <3>1, <3>2, <3>3
    <3>5. /\ \A q \in DOMAIN provs : q # p => provs'[q] = provs[q]
          /\ provs'[p].name = provs[p].name /\ provs'[p].storage = provs[p].storage
          /\ provs'[p].holder = provs[p].holder /\ provs'[p].service = 0
      BY <1>1, <3>1, <3>2 DEF Providers
    <3>. QED BY <2>1, <3>2, <3>4, <3>5 DEF p
  <2>. QED BY <2>2, <2>3
<1>. QED BY <1>2, <1>3, <1>4 DEF Listen

\* Hearing of a change leaves no service of the past behind.
LEMMA ListenKeeps ==
  ASSUME IInv, Listen
  PROVE  IInv'
<1>1. Types'
  BY TellsNews, AllowedNow, ProvidersNow DEF IInv, Types
<1>2. ASSUME NEW m \in DOMAIN allowed'
      PROVE  m \in Names /\ allowed'[m] \in DOMAIN provs' /\ provs'[allowed'[m]].name = m
  <2>1. CASE m \in DOMAIN allowed /\ allowed'[m] = allowed[m]
    BY <2>1, ProviderOf, ProvidersNow
  <2>2. CASE ~(m \in DOMAIN allowed /\ allowed'[m] = allowed[m])
    <3>1. m = updater.notice.name /\ AgentAdded
      BY <1>2, <2>2, AllowedNow DEF Listen
    <3>. QED BY <3>1, TellsNews, AllowedNow, ProvidersNow
  <2>. QED BY <2>1, <2>2
<1>3. AllowedInv'
  BY <1>2 DEF AllowedInv
<1>4. SetupInv'
  BY TellsNews DEF IInv, SetupInv, SetUp
<1>5. DiskInv'
  BY TellsNews DEF IInv, DiskInv
<1>6. StartInv'
  <2>1. ASSUME edits = 0, NEW s \in ALL_PERMANENT, NEW m \in DOMAIN tables[s]
        PROVE  m \in DOMAIN allowed'
    <3>1. \/ m \in DOMAIN allowed
          \/ m = updater.notice.name /\ updater.notice.kind = "added"
      BY <2>1 DEF IInv, StartInv, Announced
    <3>2. ~AgentRemoved
      BY <2>1, TellsNews DEF IInv, StartInv, AgentRemoved
    <3>3. CASE AgentAdded
      BY <3>1, <3>3, AllowedNow
    <3>4. CASE AgentModified
      BY <3>1, <3>4, AllowedNow DEF AgentModified
    <3>. QED BY <3>2, <3>3, <3>4 DEF Listen
  <2>. QED BY <2>1, TellsNews DEF IInv, StartInv
<1>7. ASSUME NEW c \in Callers PROVE CallerInv(c)'
  <2>1. callers' = callers
    BY TellsNews
  <2>2. CallerInv(c)
    BY DEF IInv
  <2>. QED BY <2>1, <2>2, ProvidersNow DEF CallerInv, Asking
<1>8. ServiceInv'
  <2>1. ASSUME NEW m \in DOMAIN allowed'
        PROVE  LET v == Lookup(tables'[provs'[allowed'[m]].storage], m).version
               IN /\ provs'[allowed'[m]].service # 0 => provs'[allowed'[m]].service = v
                  /\ \A c \in Callers : callers[c].pc = "store" /\ callers[c].prov = allowed'[m]
                                          => callers[c].service = v
    <3>1. CASE m # updater.notice.name
      <4>1. m \in DOMAIN allowed /\ allowed'[m] = allowed[m] /\ ~Announced(m)
        BY <3>1, AllowedNow DEF Announced
      <4>2. allowed[m] \in DOMAIN provs
        BY <4>1, ProviderOf
      <4>. DEFINE p == provs[allowed[m]]
      <4>3. tables' = tables /\ provs'[allowed[m]].storage = p.storage
        BY <4>2, TellsNews, ProvidersNow
      <4>4. LET v == Lookup(tables[p.storage], m).version
            IN /\ p.service # 0 => p.service = v
               /\ \A c \in Callers : callers[c].pc = "store" /\ callers[c].prov = allowed[m]
                                       => callers[c].service = v
        BY <4>1 DEF IInv, ServiceInv, Current
      <4>5. provs'[allowed[m]].service \in {0, p.service}
        BY <4>2, ProvidersNow
      <4>. QED BY <4>1, <4>3, <4>4, <4>5
    <3>2. CASE m = updater.notice.name
      <4>1. provs'[allowed'[m]].service = 0
        BY <3>2, AllowedNow, ProvidersNow DEF Listen
      <4>2. ASSUME NEW c \in Callers, callers[c].pc = "store", callers[c].prov = allowed'[m]
            PROVE  FALSE
        <5>1. CallerInv(c)
          BY DEF IInv
        <5>2. CASE AgentAdded
          BY <3>2, <4>2, <5>1, <5>2, AllowedNow, ProvidersNow DEF CallerInv, Asking
        <5>3. CASE AgentModified
          <6>1. provs[allowed'[m]].holder = Nobody
            BY <2>1, <3>2, <5>3, AllowedNow, ProvidersNow
          <6>. QED BY <4>2, <5>1, <6>1, CallersAssumption DEF CallerInv
        <5>4. ~AgentRemoved
          BY <2>1, <3>2, AllowedNow
        <5>. QED BY <5>2, <5>3, <5>4 DEF Listen
      <4>. QED BY <4>1, <4>2
    <3>. QED BY <3>1, <3>2
  <2>2. callers' = callers
    BY TellsNews
  <2>. QED BY <2>1, <2>2 DEF ServiceInv, Current
<1>. QED BY <1>1, <1>3, <1>4, <1>5, <1>6, <1>7, <1>8 DEF IInv
-----------------------------------------------------------------------------
(* The callers *)

\* A caller's step is safe if it takes and gives back only its own lock, asks a
\* provider for the name it was made for, builds from the table and stores what it built.
LEMMA CallIsSafe ==
  ASSUME IInv, NEW c \in Callers, NEW r \in Lookups, callers' = [callers EXCEPT ![c] = r],
         AllElse,
         provs' \in Seq(Providers), DOMAIN provs' = DOMAIN provs,
         \A q \in DOMAIN provs :
           /\ provs'[q].name = provs[q].name /\ provs'[q].storage = provs[q].storage
           /\ provs'[q].holder # provs[q].holder => provs[q].holder \in {Nobody, c}
           /\ \/ provs'[q].service \in {0, provs[q].service}
              \/ /\ callers[c].pc = "store" /\ callers[c].prov = q
                 /\ provs'[q].service = callers[c].service,
         r.pc \in Asking => r.prov \in DOMAIN provs /\ provs[r.prov].name = r.name,
         r.pc \in {"load", "store"} => provs'[r.prov].holder = c,
         r.pc = "store" => r.service = Lookup(tables[provs[r.prov].storage], r.name).version
  PROVE  IInv'
<1>1. callers \in [Callers -> Lookups]
  BY DEF IInv, Types
<1>2. callers'[c] = r /\ \A e \in Callers \ {c} : callers'[e] = callers[e]
  BY <1>1
<1>3. Types'
  <2>1. callers' \in [Callers -> Lookups]
    BY <1>1
  <2>. QED BY <2>1 DEF IInv, Types, AllElse
<1>4. AllowedInv'
  BY DEF IInv, AllowedInv, AllElse
<1>5. SetupInv' /\ DiskInv' /\ StartInv'
  BY DEF IInv, SetupInv, SetUp, DiskInv, StartInv, Announced, AllElse
<1>6. ASSUME NEW e \in Callers PROVE CallerInv(e)'
  <2>1. CASE e = c
    BY <1>2, <2>1 DEF CallerInv
  <2>2. CASE e # c
    <3>1. CallerInv(e) /\ callers'[e] = callers[e]
      BY <1>2, <2>2 DEF IInv
    <3>. QED BY <2>2, <3>1, CallersAssumption DEF CallerInv, Asking
  <2>. QED BY <2>1, <2>2
<1>7. ASSUME NEW m \in DOMAIN allowed, ~Announced(m)
      PROVE  LET p == provs'[allowed[m]]
                 v == Lookup(tables[p.storage], m).version
             IN /\ p.service # 0 => p.service = v
                /\ \A e \in Callers : callers'[e].pc = "store" /\ callers'[e].prov = allowed[m]
                                        => callers'[e].service = v
  <2>. DEFINE q == allowed[m]
              v == Lookup(tables[provs[q].storage], m).version
  <2>1. q \in DOMAIN provs /\ provs[q].name = m /\ provs'[q].storage = provs[q].storage
    BY ProviderOf
  <2>2. /\ provs[q].service # 0 => provs[q].service = v
        /\ \A e \in Callers : callers[e].pc = "store" /\ callers[e].prov = q
                                => callers[e].service = v
    BY <1>7 DEF IInv, ServiceInv, Current
  <2>3. r.pc = "store" /\ r.prov = q => r.service = v
    BY <2>1 DEF Asking
  <2>4. provs'[q].service # 0 => provs'[q].service = v
    BY <2>1, <2>2
  <2>. HIDE DEF q, v
  <2>5. \A e \in Callers : callers'[e].pc = "store" /\ callers'[e].prov = q
                             => callers'[e].service = v
    BY <1>2, <2>2, <2>3
  <2>. QED BY <2>1, <2>4, <2>5 DEF q, v
<1>8. ServiceInv'
  BY <1>7 DEF ServiceInv, Current, Announced, AllElse
<1>. QED BY <1>3, <1>4, <1>5, <1>6, <1>8 DEF IInv

\* What a caller knows when it is in the middle of a lookup.
LEMMA MidLookup ==
  ASSUME IInv, NEW c \in Callers
  PROVE  /\ callers \in [Callers -> Lookups] /\ callers[c] \in Lookups /\ provs \in Seq(Providers)
         /\ callers[c].pc \in Asking =>
              /\ callers[c].prov \in DOMAIN provs /\ provs[callers[c].prov] \in Providers
              /\ provs[callers[c].prov].name = callers[c].name
         /\ callers[c].pc \in {"load", "store"} => provs[callers[c].prov].holder = c
<1>1. callers \in [Callers -> Lookups] /\ provs \in Seq(Providers)
  BY DEF IInv, Types
<1>2. CallerInv(c)
  BY DEF IInv
<1>. QED BY <1>1, <1>2 DEF CallerInv

\* A step in which a caller only learns something.
LEMMA LearnsSafely ==
  ASSUME IInv, NEW c \in Callers, NEW r \in Lookups, callers' = [callers EXCEPT ![c] = r],
         AllElse,
         provs' = provs,
         r.pc \in Asking => r.prov \in DOMAIN provs /\ provs[r.prov].name = r.name,
         r.pc \in {"load", "store"} => provs[r.prov].holder = c,
         r.pc = "store" => r.service = Lookup(tables[provs[r.prov].storage], r.name).version
  PROVE  IInv'
<1>1. provs' \in Seq(Providers)
  BY MidLookup
<1>2. \A q \in DOMAIN provs : provs'[q].service \in {0, provs[q].service}
  OBVIOUS
<1>. QED BY <1>1, <1>2, CallIsSafe

\* A step that changes the lock or the service of the provider that a caller asks.
LEMMA ChangesSafely ==
  ASSUME IInv, NEW c \in Callers, NEW r \in Lookups, callers' = [callers EXCEPT ![c] = r], AllElse,
         callers[c].pc \in Asking, r.prov = callers[c].prov, r.name = callers[c].name,
         provs' \in Seq(Providers), DOMAIN provs' = DOMAIN provs,
         \A q \in DOMAIN provs : q # r.prov => provs'[q] = provs[q],
         provs'[r.prov].name = provs[r.prov].name, provs'[r.prov].storage = provs[r.prov].storage,
         provs[r.prov].holder \in {Nobody, c},
         \/ provs'[r.prov].service = provs[r.prov].service
         \/ callers[c].pc = "store" /\ provs'[r.prov].service = callers[c].service,
         r.pc \in {"load", "store"} => provs'[r.prov].holder = c, r.pc # "store"
  PROVE  IInv'
<1>1. r.prov \in DOMAIN provs /\ provs[r.prov].name = r.name
  BY MidLookup
<1>2. \A q \in DOMAIN provs :
        /\ provs'[q].name = provs[q].name /\ provs'[q].storage = provs[q].storage
        /\ provs'[q].holder # provs[q].holder => provs[q].holder \in {Nobody, c}
        /\ \/ provs'[q].service \in {0, provs[q].service}
           \/ /\ callers[c].pc = "store" /\ callers[c].prov = q
              /\ provs'[q].service = callers[c].service
  OBVIOUS
<1>. QED BY <1>1, <1>2, CallIsSafe

\* A provider whose lock is taken or given back.
LEMMA Locked ==
  ASSUME provs \in Seq(Providers), NEW p \in DOMAIN provs, NEW h \in Callers \cup {Nobody},
         provs' = [provs EXCEPT ![p].holder = h]
  PROVE  /\ provs' \in Seq(Providers) /\ DOMAIN provs' = DOMAIN provs
         /\ \A q \in DOMAIN provs : q # p => provs'[q] = provs[q]
         /\ provs'[p].name = provs[p].name /\ provs'[p].storage = provs[p].storage
         /\ provs'[p].service = provs[p].service /\ provs'[p].holder = h
<1>1. provs[p] \in Providers
  OBVIOUS
<1>. DEFINE new == [provs[p] EXCEPT !.holder = h]
<1>2. /\ new \in Providers /\ new.name = provs[p].name /\ new.storage = provs[p].storage
      /\ new.service = provs[p].service /\ new.holder = h
  BY <1>1 DEF Providers
<1>3. provs' = [provs EXCEPT ![p] = new]
  OBVIOUS
<1>. HIDE DEF new
<1>. QED BY <1>2, <1>3

\* A provider that stores a service and gives its lock back.
LEMMA Stored ==
  ASSUME provs \in Seq(Providers), NEW p \in DOMAIN provs, NEW v \in Versions,
         provs' = [provs EXCEPT ![p].service = v, ![p].holder = Nobody]
  PROVE  /\ provs' \in Seq(Providers) /\ DOMAIN provs' = DOMAIN provs
         /\ \A q \in DOMAIN provs : q # p => provs'[q] = provs[q]
         /\ provs'[p].name = provs[p].name /\ provs'[p].storage = provs[p].storage
         /\ provs'[p].service = v /\ provs'[p].holder = Nobody
<1>1. provs[p] \in Providers
  OBVIOUS
<1>. DEFINE new == [provs[p] EXCEPT !.service = v, !.holder = Nobody]
<1>2. /\ new \in Providers /\ new.name = provs[p].name /\ new.storage = provs[p].storage
      /\ new.service = v /\ new.holder = Nobody
  BY <1>1 DEF Providers
<1>. DEFINE qs == [provs EXCEPT ![p] = new]
<1>3. provs' = qs
  OBVIOUS
<1>. HIDE DEF new
<1>4. /\ qs \in Seq(Providers) /\ DOMAIN qs = DOMAIN provs /\ qs[p] = new
      /\ \A q \in DOMAIN provs : q # p => qs[q] = provs[q]
  BY <1>2
<1>. HIDE DEF qs
<1>. QED BY <1>2, <1>3, <1>4

\* A lookup goes on without the lock of its provider.
LEMMA LooksSafely ==
  ASSUME IInv, NEW c \in Callers,
         Arrive(c) \/ AllowAgent(c) \/ Look(c) \/ FetchService(c) \/ UseService(c)
  PROVE  IInv'
<1>. DEFINE r == callers[c]
<1>1. r \in Lookups /\ provs \in Seq(Providers)
  BY MidLookup
<1>2. CASE Arrive(c)
  <2>1. PICK n \in Names : callers' = [callers EXCEPT ![c] = [NoCaller EXCEPT
                     !.pc = "authorize", !.name = n, !.lookups = callers[c].lookups + 1]]
    BY <1>2 DEF Arrive
  <2>. DEFINE r2 == [NoCaller EXCEPT
                       !.pc = "authorize", !.name = n, !.lookups = callers[c].lookups + 1]
  <2>2. r.lookups + 1 \in Nat
    <3>. HIDE DEF r
    <3>1. r.lookups \in Nat
      BY <1>1 DEF Lookups
    <3>. QED BY <3>1
  <2>3. 0 \in Versions
    BY DEF Versions
  <2>4. r2 \in Lookups /\ r2.pc = "authorize"
    BY <2>2, <2>3 DEF Lookups, NoCaller, Steps
  <2>5. callers' = [callers EXCEPT ![c] = r2]
    BY <2>1
  <2>. HIDE DEF r2
  <2>. QED BY <1>2, <2>4, <2>5, LearnsSafely DEF Arrive, Asking, AllElse
<1>3. CASE AllowAgent(c)
  <2>1. CASE r.name \in DOMAIN allowed
    <3>. DEFINE r2 == [r EXCEPT !.pc = "look", !.prov = allowed[r.name]]
    <3>1. /\ allowed[r.name] \in DOMAIN provs /\ provs[allowed[r.name]].name = r.name
          /\ allowed[r.name] \in Nat
      BY <1>1, <2>1, ProviderOf
    <3>2. /\ r2 \in Lookups /\ r2.pc = "look" /\ r2.prov = allowed[r.name] /\ r2.name = r.name
      BY <1>1, <3>1 DEF Lookups, Steps
    <3>3. /\ callers' = [callers EXCEPT ![c] = r2] /\ provs' = provs
          /\ AllElse
      BY <1>3, <2>1 DEF AllowAgent, CallerOnly, AllElse
    <3>. HIDE DEF r2, r
    <3>. QED BY <3>1, <3>2, <3>3, LearnsSafely
  <2>2. CASE r.name \notin DOMAIN allowed
    <3>. DEFINE r2 == [r EXCEPT !.pc = "unknown"]
    <3>1. r2 \in Lookups /\ r2.pc = "unknown"
      BY <1>1 DEF Lookups, Steps
    <3>2. /\ callers' = [callers EXCEPT ![c] = r2] /\ provs' = provs
          /\ AllElse
      BY <1>3, <2>2 DEF AllowAgent, CallerOnly, AllElse
    <3>. HIDE DEF r2, r
    <3>. QED BY <3>1, <3>2, LearnsSafely DEF Asking
  <2>. QED BY <2>1, <2>2
<1>4. CASE Look(c)
  <2>. DEFINE r2 == [r EXCEPT !.pc = IF provs[r.prov].service = 0 THEN "lock" ELSE "fetch"]
  <2>1. /\ r2 \in Lookups /\ r2.pc \in {"lock", "fetch"} /\ r2.prov = r.prov /\ r2.name = r.name
    BY <1>1 DEF Lookups, Steps
  <2>2. /\ callers' = [callers EXCEPT ![c] = r2] /\ provs' = provs /\ r.pc = "look"
        /\ AllElse
    BY <1>4 DEF Look, CallerOnly, AllElse
  <2>3. r.prov \in DOMAIN provs /\ provs[r.prov].name = r.name
    BY <2>2, MidLookup DEF Asking
  <2>. HIDE DEF r2, r
  <2>. QED BY <2>1, <2>2, <2>3, LearnsSafely
<1>5. CASE FetchService(c)
  <2>. DEFINE got == provs[r.prov].service
              r2 == [r EXCEPT !.pc = IF got = 0 THEN "silent" ELSE "use", !.service = got]
  <2>1. /\ callers' = [callers EXCEPT ![c] = r2] /\ provs' = provs /\ r.pc = "fetch"
        /\ AllElse
    BY <1>5 DEF FetchService, CallerOnly, AllElse
  <2>2. r.prov \in DOMAIN provs /\ provs[r.prov] \in Providers /\ provs[r.prov].name = r.name
    BY <2>1, MidLookup DEF Asking
  <2>3. got \in Versions
    BY <2>2 DEF Providers
  <2>4. /\ r2 \in Lookups /\ r2.pc \in {"silent", "use"} /\ r2.prov = r.prov /\ r2.name = r.name
    BY <1>1, <2>3 DEF Lookups, Steps
  <2>. HIDE DEF r2, r
  <2>. QED BY <2>1, <2>2, <2>4, LearnsSafely
<1>6. CASE UseService(c)
  <2>. DEFINE network == Lookup(tables[provs[r.prov].storage], r.name)
              r2 == [r EXCEPT !.pc = IF network = NoNetwork THEN "error" ELSE "served"]
  <2>1. r2 \in Lookups /\ r2.pc \in {"error", "served"}
    BY <1>1 DEF Lookups, Steps
  <2>2. /\ callers' = [callers EXCEPT ![c] = r2] /\ provs' = provs
        /\ AllElse
    BY <1>6 DEF UseService, CallerOnly, AllElse
  <2>. HIDE DEF r2, r
  <2>. QED BY <2>1, <2>2, LearnsSafely DEF Asking
<1>. QED BY <1>2, <1>3, <1>4, <1>5, <1>6

\* The service of a provider is built under its lock.
LEMMA BuildsSafely ==
  ASSUME IInv, NEW c \in Callers, LockProvider(c) \/ ReloadFactories(c) \/ StoreService(c)
  PROVE  IInv'
<1>. DEFINE r == callers[c]
            p == r.prov
<1>1. /\ r \in Lookups /\ provs \in Seq(Providers) /\ r.pc \in Asking
      /\ p \in DOMAIN provs /\ provs[p].name = r.name
      /\ provs[p].storage \in ALL_PERMANENT /\ r.service \in Versions
      /\ r.pc \in {"load", "store"} => provs[p].holder = c
      /\ Nobody \in Callers \cup {Nobody}
  <2>1. r.pc \in Asking
    BY DEF LockProvider, ReloadFactories, StoreService, Asking
  <2>. QED BY <2>1, MidLookup DEF Providers, Lookups
<1>2. CASE LockProvider(c)
  <2>1. provs[p].holder = Nobody /\ AllElse
    BY <1>2 DEF LockProvider, CallerOnly, AllElse
  <2>2. CASE provs[p].service = 0
    <3>. DEFINE r2 == [r EXCEPT !.pc = "load"]
    <3>1. r2 \in Lookups /\ r2.pc = "load" /\ r2.prov = p /\ r2.name = r.name
      BY <1>1 DEF Lookups, Steps
    <3>2. callers' = [callers EXCEPT ![c] = r2] /\ provs' = [provs EXCEPT ![p].holder = c]
      BY <1>2, <2>2 DEF LockProvider, CallerOnly
    <3>3. /\ provs' \in Seq(Providers) /\ DOMAIN provs' = DOMAIN provs
          /\ \A q \in DOMAIN provs : q # p => provs'[q] = provs[q]
          /\ provs'[p].name = provs[p].name /\ provs'[p].storage = provs[p].storage
          /\ provs'[p].service = provs[p].service /\ provs'[p].holder = c
      BY <1>1, <3>2, Locked
    <3>4. r2 \in Lookups /\ r2.prov = callers[c].prov /\ r2.name = callers[c].name
      BY <3>1
    <3>. HIDE DEF r2
    <3>5. /\ \A q \in DOMAIN provs : q # r2.prov => provs'[q] = provs[q]
          /\ provs'[r2.prov].name = provs[r2.prov].name
          /\ provs'[r2.prov].storage = provs[r2.prov].storage
          /\ provs[r2.prov].holder \in {Nobody, c}
          /\ provs'[r2.prov].service = provs[r2.prov].service
          /\ r2.pc \in {"load", "store"} => provs'[r2.prov].holder = c
      BY <1>1, <2>1, <3>1, <3>3
    <3>. QED BY <1>1, <2>1, <3>1, <3>2, <3>3, <3>4, <3>5, ChangesSafely
  <2>3. CASE provs[p].service # 0
    <3>. DEFINE r2 == [r EXCEPT !.pc = "fetch"]
    <3>1. r2 \in Lookups /\ r2.pc = "fetch" /\ r2.prov = p /\ r2.name = r.name
      BY <1>1 DEF Lookups, Steps
    <3>2. callers' = [callers EXCEPT ![c] = r2] /\ provs' = provs
      BY <1>2, <2>3 DEF LockProvider, CallerOnly
    <3>. HIDE DEF r2
    <3>. QED BY <1>1, <2>1, <3>1, <3>2, LearnsSafely
  <2>. QED BY <2>2, <2>3
<1>3. CASE ReloadFactories(c)
  <2>. DEFINE network == Lookup(tables[provs[p].storage], r.name)
  <2>1. provs[p].holder = c /\ AllElse
    BY <1>1, <1>3 DEF ReloadFactories, CallerOnly, AllElse
  <2>2. CASE network = NoNetwork
    <3>. DEFINE r2 == [r EXCEPT !.pc = "error"]
    <3>1. r2 \in Lookups /\ r2.pc = "error" /\ r2.prov = p /\ r2.name = r.name
      BY <1>1 DEF Lookups, Steps
    <3>2. callers' = [callers EXCEPT ![c] = r2]
      BY <1>3, <2>2 DEF ReloadFactories, CallerOnly
    <3>3. provs' = [provs EXCEPT ![p].holder = Nobody]
      BY <1>3, <2>2 DEF ReloadFactories, CallerOnly
    <3>4. /\ provs' \in Seq(Providers) /\ DOMAIN provs' = DOMAIN provs
          /\ \A q \in DOMAIN provs : q # p => provs'[q] = provs[q]
          /\ provs'[p].name = provs[p].name /\ provs'[p].storage = provs[p].storage
          /\ provs'[p].service = provs[p].service /\ provs'[p].holder = Nobody
      BY <1>1, <3>3, Locked
    <3>5. r2 \in Lookups /\ r2.prov = callers[c].prov /\ r2.name = callers[c].name
      BY <3>1
    <3>. HIDE DEF r2
    <3>6. /\ \A q \in DOMAIN provs : q # r2.prov => provs'[q] = provs[q]
          /\ provs'[r2.prov].name = provs[r2.prov].name
          /\ provs'[r2.prov].storage = provs[r2.prov].storage
          /\ provs[r2.prov].holder \in {Nobody, c}
          /\ provs'[r2.prov].service = provs[r2.prov].service
          /\ r2.pc \in {"load", "store"} => provs'[r2.prov].holder = c
      BY <1>1, <2>1, <3>1, <3>4
    <3>. QED BY <1>1, <2>1, <3>1, <3>2, <3>4, <3>5, <3>6, ChangesSafely
  <2>3. CASE network # NoNetwork
    <3>. DEFINE r2 == [r EXCEPT !.pc = "store", !.service = network.version]
    <3>1. network.version \in Versions
      BY <1>1, LookedUp DEF IInv, Types
    <3>. HIDE DEF network
    <3>2. /\ r2 \in Lookups /\ r2.pc = "store" /\ r2.prov = p /\ r2.name = r.name
          /\ r2.service = network.version
      BY <1>1, <3>1 DEF Lookups, Steps
    <3>3. callers' = [callers EXCEPT ![c] = r2] /\ provs' = provs
      BY <1>3, <2>3 DEF ReloadFactories, CallerOnly, network
    <3>. HIDE DEF r2
    <3>. QED BY <1>1, <2>1, <3>2, <3>3, LearnsSafely DEF network
  <2>. QED BY <2>2, <2>3
<1>4. CASE StoreService(c)
  <2>. DEFINE r2 == [r EXCEPT !.pc = "fetch", !.service = 0]
  <2>1. r2 \in Lookups /\ r2.pc = "fetch" /\ r2.prov = p /\ r2.name = r.name
    <3>1. 0 \in Versions
      BY DEF Versions
    <3>. QED BY <1>1, <3>1 DEF Lookups, Steps
  <2>2. /\ callers' = [callers EXCEPT ![c] = r2] /\ AllElse /\ r.pc = "store"
    BY <1>4 DEF StoreService, CallerOnly, AllElse
  <2>3. provs' = [provs EXCEPT ![p].service = r.service, ![p].holder = Nobody]
    BY <1>4 DEF StoreService
  <2>4. /\ provs' \in Seq(Providers) /\ DOMAIN provs' = DOMAIN provs
        /\ \A q \in DOMAIN provs : q # p => provs'[q] = provs[q]
        /\ provs'[p].name = provs[p].name /\ provs'[p].storage = provs[p].storage
        /\ provs'[p].service = r.service /\ provs'[p].holder = Nobody
    BY <1>1, <2>3, Stored
  <2>. HIDE DEF r2
  <2>5. /\ r2.prov = callers[c].prov /\ r2.name = callers[c].name
        /\ \A q \in DOMAIN provs : q # r2.prov => provs'[q] = provs[q]
        /\ provs'[r2.prov].name = provs[r2.prov].name
        /\ provs'[r2.prov].storage = provs[r2.prov].storage
        /\ provs[r2.prov].holder \in {Nobody, c}
        /\ callers[c].pc = "store" /\ provs'[r2.prov].service = callers[c].service
    BY <1>1, <2>1, <2>2, <2>4
  <2>. QED BY <1>1, <2>1, <2>2, <2>4, <2>5, ChangesSafely
<1>. QED BY <1>2, <1>3, <1>4
-----------------------------------------------------------------------------
(* Safety, whatever the files become *)

LEMMA StepKeeps ==
  ASSUME IInv, [Next]_vars
  PROVE  IInv'
<1>1. CASE Edit \/ HandleEvent
  BY <1>1, FilesKeep
<1>2. CASE Setup
  BY <1>2, SetupKeeps
<1>3. CASE Listen
  BY <1>3, ListenKeeps
<1>4. CASE Watch
  BY <1>4, WatchKeeps
<1>5. ASSUME NEW c \in Callers, Arrive(c) \/ Call(c) PROVE IInv'
  BY <1>5, LooksSafely, BuildsSafely DEF Call
<1>6. CASE UNCHANGED vars
  <2>1. Types' /\ AllowedInv' /\ (\A c \in Callers : CallerInv(c))'
    BY <1>6 DEF IInv, Types, AllowedInv, CallerInv, vars
  <2>2. SetupInv' /\ DiskInv' /\ StartInv'
    BY <1>6 DEF IInv, SetupInv, SetUp, DiskInv, StartInv, Announced, vars
  <2>3. ServiceInv'
    BY <1>6 DEF IInv, ServiceInv, Current, Announced, vars
  <2>. QED BY <2>1, <2>2, <2>3 DEF IInv
<1>. QED BY <1>1, <1>2, <1>3, <1>4, <1>5, <1>6 DEF Next

LEMMA Invariance == Spec => []IInv
<1>1. IInv /\ [Next]_vars => IInv'
  BY StepKeeps
<1>. QED BY <1>1, Begins, PTL DEF Spec

LEMMA TypesFollow == IInv => TypeOK
<1>. SUFFICES ASSUME IInv PROVE TypeOK
  OBVIOUS
<1>1. /\ disk \in Disks /\ edits \in 0..MaxEdits
      /\ {observing, unseen, counted, missed, ready.http, ready.updater} \subseteq BOOLEAN
  BY DEF IInv, Types
<1>2. \A s \in ALL_PERMANENT : DOMAIN tables[s] \subseteq Names
  BY TableIs DEF IInv, Types
<1>3. /\ updater.pc \in {"next", "setup", "sleep", "check", "restore", "dead"}
      /\ updater.removing \subseteq Names /\ updater.adding \subseteq Names
  BY DEF IInv, Types, Updaters
<1>4. DOMAIN allowed \subseteq Names /\ \A n \in DOMAIN allowed : provs[allowed[n]].name = n
  BY ProviderOf
<1>5. \A p \in DOMAIN provs : provs[p].holder \in Callers \cup {Nobody}
  <2>1. \A p \in DOMAIN provs : provs[p] \in Providers
    BY DEF IInv, Types
  <2>. QED BY <2>1 DEF Providers
<1>. QED BY <1>1, <1>2, <1>3, <1>4, <1>5 DEF TypeOK

\* The state is always well formed: a name is allowed only the provider that was made
\* for it, and only names that manifests can say are served (AgentNetworkStorage,
\* HttpServer.agent_added()).
THEOREM TypeCorrect == Spec => []TypeOK
BY Invariance, TypesFollow, PTL

LEMMA TablesFollow == IInv => TablesMatchTheFiles
<1>. SUFFICES ASSUME IInv, AtRest, ~missed
              PROVE  ~RestoreRaises(disk.manifests) /\ tables = Restored(disk)
  BY DEF TablesMatchTheFiles
<1>1. disk \in Readable /\ updater.toServe = Restored(disk)
  BY DEF AtRest, IInv, DiskInv
<1>2. updater.todo = <<>>
  BY DEF AtRest, IInv, SetupInv
<1>3. \A s \in ALL_PERMANENT : tables[s] = Restored(disk)[s]
  BY <1>1, <1>2, Order DEF IInv, SetupInv
<1>. QED BY <1>1, <1>3, RestoredTables DEF IInv, Types

\* When the watcher rests and knows of no change, each table holds exactly the networks
\* that the manifests and network files name now, each in its present version, except
\* where the files were changed before the observer took its first look
\* (StorageWatcher._run(), RegistryStorageUpdater.update_storage()).
THEOREM TablesFollowFiles == Spec => []TablesMatchTheFiles
BY Invariance, TablesFollow, PTL

LEMMA CurrencyFollows == IInv => ServicesAreCurrent
<1>. SUFFICES ASSUME IInv, NEW n \in DOMAIN allowed, provs[allowed[n]].service # 0, ~Announced(n)
              PROVE  Current(n, provs[allowed[n]].service)
  BY DEF ServicesAreCurrent, Announced, Current
<1>. QED BY DEF IInv, ServiceInv

\* A service that a provider hands out was built from the version of the network that is
\* in the table now, unless the news of its change has not reached the listener yet: a
\* lookup that read the old network before a change never stores it after the reset, since
\* both hold the provider's lock (AsyncAgentServiceProvider.get_service(), reset_service()).
THEOREM ServedFromTheTable == Spec => []ServicesAreCurrent
BY Invariance, CurrencyFollows, PTL

LEMMA BuilderFollows == IInv => OneBuilder
<1>. SUFFICES ASSUME IInv, NEW p \in DOMAIN provs
              PROVE  Cardinality(Building(p)) <= 1 /\ \A c \in Building(p) : provs[p].holder = c
  BY DEF OneBuilder
<1>1. \A c \in Building(p) : provs[p].holder = c
  BY DEF Building, IInv, CallerInv
<1>2. Building(p) = {} \/ Building(p) = {provs[p].holder}
  BY <1>1
<1>3. Cardinality(Building(p)) <= 1
  <2>1. Cardinality({}) = 0 /\ Cardinality({provs[p].holder}) = 1
    BY FS_EmptySet, FS_Singleton
  <2>2. Cardinality(Building(p)) \in {0, 1}
    BY <1>2, <2>1
  <2>. QED BY <2>2
<1>. QED BY <1>1, <1>3

\* However many threads look a network up at once, one at a time builds its service, and
\* that one holds the lock of the provider (AsyncAgentServiceProvider.get_service()).
THEOREM OneBuildsAtATime == Spec => []OneBuilder
BY Invariance, BuilderFollows, PTL

LEMMA ReadinessFollows == IInv => ReadyServes
<1>. SUFFICES ASSUME IInv, ready.http, edits = 0,
                     NEW s \in ALL_PERMANENT, NEW n \in DOMAIN Restored(disk)[s]
              PROVE  n \in DOMAIN allowed
  BY DEF ReadyServes
<1>1. ~unseen /\ ~counted /\ ~missed /\ updater.pc \in {"sleep", "check"}
  BY DEF IInv, StartInv
<1>2. updater.toServe = Restored(disk) /\ updater.todo = <<>> /\ updater.notice = Quiet
  BY <1>1 DEF IInv, DiskInv, SetupInv
<1>3. tables[s] = Restored(disk)[s]
  BY <1>2, Order DEF IInv, SetupInv
<1>. QED BY <1>2, <1>3 DEF IInv, StartInv, Announced

\* A server that says it is ready allows every network that its manifests named at the
\* start (ServerMainLoop.main_loop() sets both storages up before HttpServer.start()).
THEOREM ReadyMeansServed == Spec => []ReadyServes
BY Invariance, ReadinessFollows, PTL
-----------------------------------------------------------------------------
(* Safety, where no network moves between the storages *)

\* What a change of a table says of it.
LEMMA TableNews ==
  ASSUME IInv, RemoveAgentNetwork \/ AddAgentNetwork
  PROVE  \E s \in ALL_PERMANENT, n \in Names :
           /\ updater.notice = Quiet /\ updater'.notice # Quiet
           /\ updater'.notice.name = n /\ updater'.notice.from = s
           /\ \A q \in ALL_PERMANENT : q # s => tables'[q] = tables[q]
           /\ \/ /\ updater'.notice.kind = "removed" /\ n \in DOMAIN tables[s]
                 /\ DOMAIN tables'[s] = DOMAIN tables[s] \ {n}
              \/ /\ n \in DOMAIN updater.toServe[s]
                 /\ updater'.notice.kind = "modified" => n \in DOMAIN tables[s]
                 /\ DOMAIN tables'[s] = DOMAIN tables[s] \cup {n}
<1>. DEFINE s == Head(updater.todo)
<1>1. /\ updater.pc = "setup" /\ updater.notice = Quiet /\ updater \in Updaters
      /\ s \in ALL_PERMANENT /\ tables[s] \in Tables /\ updater.toServe[s] \in Tables
      /\ tables = [q \in ALL_PERMANENT |-> tables[q]] /\ SetUp(s)
  <2>1. updater.pc = "setup" /\ updater.notice = Quiet
    BY DEF RemoveAgentNetwork, AddAgentNetwork
  <2>. QED BY <2>1, InSetup DEF IInv, SetupInv
<1>2. CASE RemoveAgentNetwork
  <2>1. PICK n \in updater.removing :
          /\ tables' = [tables EXCEPT ![s] = Without(@, n)]
          /\ updater' = [updater EXCEPT
               !.removing = @ \ {n}, !.notice = [kind |-> "removed", name |-> n, from |-> s]]
    BY <1>2 DEF RemoveAgentNetwork
  <2>2. n \in Names /\ n \in DOMAIN tables[s]
    BY <1>1, <2>1 DEF SetUp, Updaters
  <2>3. updater'.notice = [kind |-> "removed", name |-> n, from |-> s]
    BY <1>1, <2>1 DEF Updaters
  <2>4. DOMAIN tables'[s] = DOMAIN tables[s] \ {n}
    BY <1>1, <2>1 DEF Without
  <2>5. \A q \in ALL_PERMANENT : q # s => tables'[q] = tables[q]
    BY <1>1, <2>1
  <2>. QED BY <1>1, <2>2, <2>3, <2>4, <2>5 DEF Quiet
<1>3. CASE AddAgentNetwork
  <2>1. PICK n \in updater.adding :
          /\ tables' = [tables EXCEPT ![s] = With(@, n, updater.toServe[s][n])]
          /\ updater' = [updater EXCEPT
               !.adding = @ \ {n}, !.notice = [kind |-> NewsOf(s, n), name |-> n, from |-> s]]
    BY <1>3 DEF AddAgentNetwork
  <2>2. n \in Names /\ n \in DOMAIN updater.toServe[s]
    BY <1>1, <2>1 DEF SetUp, Updaters
  <2>3. updater'.notice = [kind |-> NewsOf(s, n), name |-> n, from |-> s]
    BY <1>1, <2>1 DEF Updaters
  <2>4. DOMAIN tables'[s] = DOMAIN tables[s] \cup {n}
    BY <1>1, <2>1 DEF With
  <2>5. \A q \in ALL_PERMANENT : q # s => tables'[q] = tables[q]
    BY <1>1, <2>1
  <2>6. NewsOf(s, n) = "modified" => n \in DOMAIN tables[s]
    BY DEF NewsOf, Lookup
  <2>7. NewsOf(s, n) # "none"
    BY DEF NewsOf
  <2>. QED BY <1>1, <2>2, <2>3, <2>4, <2>5, <2>6, <2>7 DEF Quiet
<1>. QED BY <1>2, <1>3

\* A network that is put into a table is one of the names the storage is told to serve.
LEMMA ServedNames ==
  ASSUME IInv, NEW s \in ALL_PERMANENT
  PROVE  DOMAIN updater.toServe[s] \subseteq NamesOf(s)
<1>1. PICK d \in Readable : updater.toServe = Restored(d)
  BY DEF IInv, SetupInv
<1>. QED BY <1>1 DEF NamesOf

\* Two storages with a name in common are one.
LEMMA OneStorage ==
  ASSUME NetworksStay, NEW s \in ALL_PERMANENT, NEW q \in ALL_PERMANENT, NEW n,
         n \in NamesOf(s), n \in NamesOf(q)
  PROVE  s = q
BY DEF NetworksStay, ALL_PERMANENT

\* Who is in a table is allowed, and who is allowed is in the table its provider reads.
LEMMA StaysSetUp ==
  ASSUME IInv, StayInv, RemoveAgentNetwork \/ AddAgentNetwork
  PROVE  StayInv'
<1>1. UNCHANGED <<allowed, provs>>
  BY DEF RemoveAgentNetwork, AddAgentNetwork, TableChanged
<1>2. PICK s \in ALL_PERMANENT, n \in Names :
           /\ updater.notice = Quiet /\ updater'.notice # Quiet
           /\ updater'.notice.name = n /\ updater'.notice.from = s
           /\ \A q \in ALL_PERMANENT : q # s => tables'[q] = tables[q]
           /\ \/ /\ updater'.notice.kind = "removed" /\ n \in DOMAIN tables[s]
                 /\ DOMAIN tables'[s] = DOMAIN tables[s] \ {n}
              \/ /\ n \in DOMAIN updater.toServe[s]
                 /\ updater'.notice.kind = "modified" => n \in DOMAIN tables[s]
                 /\ DOMAIN tables'[s] = DOMAIN tables[s] \cup {n}
  BY TableNews
<1>3. n \in NamesOf(s)
  BY <1>2, ServedNames DEF StayInv
<1>4. \A q \in ALL_PERMANENT : DOMAIN tables'[q] \subseteq NamesOf(q)
  BY <1>2, <1>3 DEF StayInv
<1>5. ASSUME NEW m \in Names, m # n \/ updater'.notice.kind = "modified"
      PROVE  m \in DOMAIN allowed <=> \E q \in ALL_PERMANENT : m \in DOMAIN tables'[q]
  <2>1. m \in DOMAIN allowed <=> \E q \in ALL_PERMANENT : m \in DOMAIN tables[q]
    BY <1>2 DEF StayInv, Announced
  <2>2. \A q \in ALL_PERMANENT : m \in DOMAIN tables'[q] <=> m \in DOMAIN tables[q]
    BY <1>2, <1>5
  <2>. QED BY <2>1, <2>2
<1>6. \A m \in Names :
         ~Announced(m)' \/ updater'.notice.kind = "modified" =>
           (m \in DOMAIN allowed' <=> \E q \in ALL_PERMANENT : m \in DOMAIN tables'[q])
  BY <1>1, <1>2, <1>5 DEF Announced
<1>. QED BY <1>1, <1>2, <1>3, <1>4, <1>6 DEF StayInv

LEMMA StaysHeard ==
  ASSUME IInv, StayInv, NetworksStay, Listen
  PROVE  StayInv'
<1>. DEFINE name == updater.notice.name
            from == updater.notice.from
<1>1. /\ UNCHANGED tables /\ updater.notice # Quiet /\ updater'.notice = Quiet
      /\ name \in Names /\ from \in ALL_PERMANENT
  BY TellsNews
<1>2. /\ name \in NamesOf(from)
      /\ updater.notice.kind = "removed" <=> name \notin DOMAIN tables[from]
  BY <1>1 DEF StayInv, IInv, SetupInv
<1>3. ASSUME NEW s \in ALL_PERMANENT, NEW m \in DOMAIN allowed', provs'[allowed'[m]].storage = s
      PROVE  m \in NamesOf(s)
  <2>1. CASE m \in DOMAIN allowed /\ allowed'[m] = allowed[m]
    <3>1. provs'[allowed[m]].storage = provs[allowed[m]].storage
      BY <2>1, ProviderOf, ProvidersNow
    <3>. QED BY <1>3, <2>1, <3>1 DEF StayInv
  <2>2. CASE ~(m \in DOMAIN allowed /\ allowed'[m] = allowed[m])
    <3>1. m = name /\ AgentAdded
      BY <1>3, <2>2, AllowedNow DEF Listen
    <3>2. provs'[allowed'[m]].storage = from
      BY <3>1, AllowedNow, ProvidersNow
    <3>. QED BY <1>2, <1>3, <3>1, <3>2
  <2>. QED BY <2>1, <2>2
<1>4. ASSUME NEW m \in Names
      PROVE  m \in DOMAIN allowed' <=> \E s \in ALL_PERMANENT : m \in DOMAIN tables[s]
  <2>1. CASE m # name
    <3>1. m \in DOMAIN allowed' <=> m \in DOMAIN allowed
      BY <2>1, AllowedNow DEF Listen
    <3>. QED BY <2>1, <3>1 DEF StayInv, Announced
  <2>2. CASE m = name /\ AgentAdded
    <3>1. m \in DOMAIN allowed' /\ updater.notice.kind # "removed"
      BY <2>2, AllowedNow DEF AgentAdded
    <3>. QED BY <1>1, <1>2, <2>2, <3>1
  <2>3. CASE m = name /\ AgentRemoved
    <3>1. m \notin DOMAIN allowed' /\ updater.notice.kind = "removed"
      BY <2>3, AllowedNow DEF AgentRemoved
    <3>2. \A s \in ALL_PERMANENT : m \in DOMAIN tables[s] => s = from
      BY <1>1, <1>2, <2>3, OneStorage DEF StayInv
    <3>. QED BY <1>2, <2>3, <3>1, <3>2
  <2>4. CASE m = name /\ AgentModified
    BY <2>4, AllowedNow DEF AgentModified, StayInv
  <2>. QED BY <2>1, <2>2, <2>3, <2>4 DEF Listen
<1>. QED BY <1>1, <1>3, <1>4 DEF StayInv

LEMMA StaysElse ==
  ASSUME IInv, StayInv, UNCHANGED <<tables, allowed>>, DOMAIN provs' = DOMAIN provs,
         updater'.notice = updater.notice,
         \A p \in DOMAIN provs : provs'[p].storage = provs[p].storage
  PROVE  StayInv'
<1>1. \A n \in DOMAIN allowed : provs'[allowed[n]].storage = provs[allowed[n]].storage
  BY ProviderOf
<1>. QED BY <1>1 DEF StayInv, Announced

\* A caller leaves the tables, the listener's map and what each provider reads alone.
LEMMA CallerLeaves ==
  ASSUME IInv, NEW c \in Callers, Arrive(c) \/ Call(c)
  PROVE  /\ UNCHANGED <<tables, updater, allowed>> /\ DOMAIN provs' = DOMAIN provs
         /\ \A p \in DOMAIN provs : provs'[p].storage = provs[p].storage
<1>. DEFINE p == callers[c].prov
<1>1. UNCHANGED <<tables, updater, allowed>>
  BY DEF Arrive, Call, AllowAgent, Look, LockProvider, ReloadFactories, StoreService, FetchService,
         UseService, CallerOnly
<1>2. /\ provs \in Seq(Providers) /\ Nobody \in Callers \cup {Nobody}
      /\ callers[c].pc \in Asking => p \in DOMAIN provs
      /\ callers[c].service \in Versions
  BY MidLookup DEF Lookups
<1>3. CASE Arrive(c) \/ AllowAgent(c) \/ Look(c) \/ FetchService(c) \/ UseService(c)
  <2>1. provs' = provs
    BY <1>3 DEF Arrive, AllowAgent, Look, FetchService, UseService
  <2>. QED BY <1>1, <2>1
<1>4. CASE LockProvider(c) \/ ReloadFactories(c)
  <2>1. p \in DOMAIN provs
    BY <1>2, <1>4 DEF LockProvider, ReloadFactories, Asking
  <2>2. \/ provs' = provs
        \/ provs' = [provs EXCEPT ![p].holder = c]
        \/ provs' = [provs EXCEPT ![p].holder = Nobody]
    BY <1>4 DEF LockProvider, ReloadFactories
  <2>3. CASE provs' = provs
    BY <1>1, <2>3
  <2>4. CASE provs' = [provs EXCEPT ![p].holder = c]
    BY <1>1, <1>2, <2>1, <2>4, Locked
  <2>5. CASE provs' = [provs EXCEPT ![p].holder = Nobody]
    BY <1>1, <1>2, <2>1, <2>5, Locked
  <2>. QED BY <2>2, <2>3, <2>4, <2>5
<1>5. CASE StoreService(c)
  <2>1. p \in DOMAIN provs
    BY <1>2, <1>5 DEF StoreService, Asking
  <2>2. provs' = [provs EXCEPT ![p].service = callers[c].service, ![p].holder = Nobody]
    BY <1>5 DEF StoreService
  <2>. QED BY <1>1, <1>2, <2>1, <2>2, Stored
<1>. QED BY <1>3, <1>4, <1>5 DEF Call

LEMMA StepStays ==
  ASSUME IInv, StayInv, NetworksStay, [Next]_vars
  PROVE  StayInv'
<1>1. CASE Edit \/ HandleEvent \/ UNCHANGED vars
  BY <1>1, StaysElse DEF Edit, HandleEvent, vars
<1>2. CASE Setup
  <2>1. CASE RemoveAgentNetwork \/ AddAgentNetwork
    BY <2>1, StaysSetUp
  <2>2. CASE SetupNext \/ SetupStorageDone
    <3>1. UNCHANGED <<tables, allowed, provs>>
      BY <2>2 DEF SetupNext, SetupStorageDone, UpdaterOnly
    <3>2. updater'.notice = updater.notice
      BY <2>2 DEF SetupNext, SetupStorageDone, IInv, Types, Updaters
    <3>. QED BY <3>1, <3>2, StaysElse
  <2>. QED BY <1>2, <2>1, <2>2 DEF Setup
<1>3. CASE Listen
  BY <1>3, StaysHeard
<1>4. CASE Watch
  <2>1. UNCHANGED <<tables, allowed, provs>>
    BY <1>4 DEF Watch, StartServer, NextTurn, WakeUp, ResetEventCounters, RestoreFails,
                RestoreManifests, UpdaterOnly
  <2>2. updater'.notice = updater.notice
    BY <1>4, WatchIsQuiet
  <2>. QED BY <2>1, <2>2, StaysElse
<1>5. ASSUME NEW c \in Callers, Arrive(c) \/ Call(c) PROVE StayInv'
  BY <1>5, CallerLeaves, StaysElse
<1>. QED BY <1>1, <1>2, <1>3, <1>4, <1>5 DEF Next

\* Nothing is allowed and no provider exists before anything is in a table.
LEMMA BeginsStaying == Init => StayInv
<1>. SUFFICES ASSUME Init PROVE StayInv
  OBVIOUS
<1>1. \A s \in ALL_PERMANENT : DOMAIN tables[s] = {}
  BY DEF Init
<1>2. DOMAIN allowed = {} /\ updater.notice = Quiet
  BY DEF Init
<1>. QED BY <1>1, <1>2 DEF StayInv

\* Where no network moves between the storages, both invariants hold.
LEMMA Staying ==
  ASSUME NetworksStay
  PROVE  Spec => [](IInv /\ StayInv)
<1>1. Init => IInv /\ StayInv
  BY Begins, BeginsStaying
<1>2. IInv /\ StayInv /\ [Next]_vars => IInv' /\ StayInv'
  BY StepKeeps, StepStays
<1>. QED BY <1>1, <1>2, PTL DEF Spec

LEMMA ListenerFollows ==
  ASSUME NetworksStay
  PROVE  IInv /\ StayInv => ListenerMatchesTables
<1>. SUFFICES ASSUME IInv, StayInv, AtRest
              PROVE  /\ DOMAIN allowed = UNION {DOMAIN tables[s] : s \in ALL_PERMANENT}
                     /\ \A n \in DOMAIN allowed : n \in DOMAIN tables[provs[allowed[n]].storage]
  BY DEF ListenerMatchesTables
<1>1. \A n \in Names : n \in DOMAIN allowed <=> \E s \in ALL_PERMANENT : n \in DOMAIN tables[s]
  BY DEF AtRest, IInv, SetupInv, StayInv, Announced
<1>2. DOMAIN allowed \subseteq Names /\ \A s \in ALL_PERMANENT : DOMAIN tables[s] \subseteq Names
  BY TypesFollow DEF TypeOK
<1>3. ASSUME NEW n \in DOMAIN allowed PROVE n \in DOMAIN tables[provs[allowed[n]].storage]
  <2>1. PICK s \in ALL_PERMANENT : n \in DOMAIN tables[s]
    BY <1>1, <1>2
  <2>2. provs[allowed[n]].storage \in ALL_PERMANENT /\ n \in NamesOf(provs[allowed[n]].storage)
    BY ProviderOf DEF StayInv
  <2>3. n \in NamesOf(s)
    BY <2>1 DEF StayInv
  <2>. QED BY <2>1, <2>2, <2>3, OneStorage
<1>. QED BY <1>1, <1>2, <1>3

\* Where no network moves between the storages, a listener at rest allows exactly the
\* networks that are in a table, each through a provider that reads that table
\* (HttpServer.agent_added(), agent_removed()).  A network that moves can be lost: its
\* removal from one storage is heard after its addition to the other.
THEOREM ListenerFollowsTables ==
  ASSUME NetworksStay
  PROVE  Spec => []ListenerMatchesTables
BY Staying, ListenerFollows, PTL

LEMMA StepKeepsAvailable ==
  ASSUME NetworksStay, IInv, StayInv, [Next]_vars
  PROVE  KeepsAvailable
<1>. SUFFICES ASSUME NEW n \in DOMAIN allowed, n \notin DOMAIN allowed', NEW s \in ALL_PERMANENT
              PROVE  n \notin DOMAIN updater.toServe[s]
  BY DEF KeepsAvailable
<1>1. Listen
  <2>1. CASE Edit \/ HandleEvent \/ UNCHANGED vars
    BY <2>1 DEF Edit, HandleEvent, vars
  <2>2. CASE Setup
    BY <2>2 DEF Setup, SetupNext, RemoveAgentNetwork, AddAgentNetwork, SetupStorageDone,
                UpdaterOnly, TableChanged
  <2>3. CASE Watch
    BY <2>3 DEF Watch, StartServer, NextTurn, WakeUp, ResetEventCounters, RestoreFails,
                RestoreManifests, UpdaterOnly
  <2>4. ASSUME NEW c \in Callers, Arrive(c) \/ Call(c) PROVE FALSE
    BY <2>4, CallerLeaves
  <2>. QED BY <2>1, <2>2, <2>3, <2>4 DEF Next
<1>2. AgentRemoved /\ n = updater.notice.name
  BY <1>1, AllowedNow DEF Listen
<1>3. /\ updater.notice # Quiet /\ updater.notice.kind = "removed"
      /\ updater.notice.from \in ALL_PERMANENT
  BY <1>1, <1>2, TellsNews DEF AgentRemoved
<1>4. n \notin DOMAIN updater.toServe[updater.notice.from]
  BY <1>2, <1>3 DEF IInv, SetupInv
<1>5. n \in NamesOf(updater.notice.from)
  BY <1>2, <1>3 DEF StayInv
<1>. QED BY <1>3, <1>4, <1>5, ServedNames, OneStorage

\* Where no network moves between the storages: at rest tables and listener follow the
\* files, a ready server serves what the files said, a service is built by one caller and
\* from the network that is served, and an update never takes away a network it keeps.
THEOREM WhatIsServedIsCurrent ==
  ASSUME NetworksStay
  PROVE  Spec => ServedIsCurrent
<1>1. Spec => [](IInv /\ StayInv)
  BY Staying
<1>2. IInv /\ StayInv => ListenerMatchesTables
  BY ListenerFollows
<1>3. IInv /\ StayInv /\ [Next]_vars => KeepsAvailable
  BY StepKeepsAvailable
<1>. QED BY <1>1, <1>2, <1>3, TypesFollow, TablesFollow, CurrencyFollows, BuilderFollows,
            ReadinessFollows, PTL DEF Spec, ServedIsCurrent
=============================================================================
